--------------------------- MODULE SearchProofs ----------------------------
(***************************************************************************)
(* Theorems about the two searches: that in a table file (SSTable), for    *)
(* any number of records, keys and sizes, and that in the vector index     *)
(* (Hnsw), for any vectors, levels and limits.                             *)
(***************************************************************************)
EXTENDS SSTable, Hnsw, SequenceTheorems, FiniteSetTheorems,
        WellFoundedInduction, TLAPS

Records == [key : Keys, size : Sizes]
EntriesUpTo(n) == [maxKey : Keys, start : 1 .. n]

-----------------------------------------------------------------------------
(* Types.                                                                  *)

LastKeyKnown == added # <<>> => lastKey \in Keys
BlockChosen == phase = "read" => target # -1

Structure == TypeOK /\ LastKeyKnown /\ BlockChosen

\* Of sequences: only the empty one has length 0.
LEMMA EmptyIffLen ==
    ASSUME NEW S, NEW s \in Seq(S)
    PROVE  Len(s) \in Nat /\ (s = <<>> <=> Len(s) = 0)
BY EmptySeq, LenProperties

\* A sequence over a set is one over every larger set.
LEMMA SeqOfMore ==
    ASSUME NEW S, NEW T, S \subseteq T, NEW s \in Seq(S)
    PROVE  s \in Seq(T)
<1>1. Len(s) \in Nat /\ s \in [1 .. Len(s) -> S]
  BY LenProperties
<1>2. s \in [1 .. Len(s) -> T]
  BY <1>1
<1> QED  BY <1>1, <1>2, IsASeq

\* A set of naturals that is not empty has a least element.
LEMMA LeastOf ==
    ASSUME NEW T, T \subseteq Nat, T # {}
    PROVE  \E p \in T : \A q \in T : p <= q
<1> DEFINE R == OpToRel(<, Nat)
<1>1. \A p, q \in Nat : q < p => <<q, p>> \in R
  BY DEF OpToRel
<1>2. IsWellFoundedOn(R, Nat)
  BY NatLessThanWellFounded
<1> HIDE DEF R
<1>3. PICK p \in T : \A q \in T : ~ (<<q, p>> \in R)
  BY <1>2, WFMin
<1>4. \A q \in T : ~ (q < p)
  BY <1>1, <1>3
<1>5. \A q \in T : p <= q
  BY <1>4
<1> QED  BY <1>3, <1>5

\* What an entry of the index holds, counted from 0 as the reader does.
LEMMA EntryTypes ==
    ASSUME TypeOK, NEW i \in 0 .. LastEntry
    PROVE  Entry(i).start \in 1 .. Len(data) /\ Entry(i).maxKey \in Keys
<1>1. Len(index) \in Nat
  BY LenProperties DEF TypeOK
<1>2. index \in Seq(EntriesUpTo(Len(data)))
  BY DEF TypeOK, EntriesUpTo
<1>3. i + 1 \in 1 .. Len(index)
  BY <1>1 DEF LastEntry
<1>4. index[i + 1] \in EntriesUpTo(Len(data))
  BY <1>2, <1>3, ElementOfSeq
<1> QED  BY <1>4 DEF Entry, EntriesUpTo

\* The same, counted from 1.
LEMMA StartTypes ==
    ASSUME TypeOK, NEW i \in 1 .. Len(index)
    PROVE  index[i].start \in 1 .. Len(data) /\ index[i].maxKey \in Keys
<1>1. Len(index) \in Nat
  BY LenProperties DEF TypeOK
<1>2. i - 1 \in 0 .. LastEntry /\ Entry(i - 1) = index[i]
  BY <1>1 DEF LastEntry, Entry
<1> QED  BY <1>2, EntryTypes

\* A block that is written leaves a well-typed file and index.
LEMMA FlushTypes ==
    ASSUME Structure, FlushDataBlock
    PROVE  /\ data' \in Seq(Places)
           /\ index' \in Seq(EntriesUpTo(Len(data')))
           /\ Len(data') = Len(data) + Len(buffer)
           /\ Len(index') >= Len(index)
<1> USE DEF Structure, TypeOK, LastKeyKnown
<1>1. /\ data' = data \o buffer
      /\ index' = IF buffer = <<>> THEN index
                  ELSE Append(index, [maxKey |-> lastKey, start |-> Len(data) + 1])
  BY DEF FlushDataBlock
<1>2. data' \in Seq(Places) /\ Len(data') = Len(data) + Len(buffer)
  BY <1>1, ConcatProperties
<1>3. Len(data) \in Nat /\ Len(buffer) \in Nat /\ Len(index) \in Nat /\ Len(added) \in Nat
  BY LenProperties
<1>4. index \in Seq(EntriesUpTo(Len(data')))
  <2>1. EntriesUpTo(Len(data)) \subseteq EntriesUpTo(Len(data'))
    BY <1>2, <1>3 DEF EntriesUpTo
  <2>2. index \in Seq(EntriesUpTo(Len(data)))
    BY DEF EntriesUpTo
  <2> QED  BY <2>1, <2>2, SeqOfMore
<1>5. CASE buffer = <<>>
  BY <1>1, <1>2, <1>3, <1>4, <1>5
<1>6. CASE buffer # <<>>
  <2>1. Len(buffer) > 0
    BY <1>3, <1>6, EmptyIffLen
  <2>2. buffer[1] \in Places
    BY <2>1, <1>3, ElementOfSeq
  <2>3. lastKey \in Keys
    BY <2>2, <1>3, EmptyIffLen DEF Places
  <2> DEFINE e == [maxKey |-> lastKey, start |-> Len(data) + 1]
  <2>4. e \in EntriesUpTo(Len(data'))
    BY <2>1, <2>3, <1>2, <1>3 DEF EntriesUpTo
  <2>5. index' = Append(index, e)
    BY <1>1, <1>6
  <2> HIDE DEF e
  <2> QED  BY <1>2, <1>3, <1>4, <2>4, <2>5, AppendProperties
<1> QED  BY <1>5, <1>6

\* An empty builder is well-typed.
LEMMA InitStructure == Init => Structure
<1> SUFFICES ASSUME Init PROVE Structure
  OBVIOUS
<1>1. \A S : <<>> \in Seq(S)
  BY EmptySeq
<1>2. Len(<<>>) = 0
  OBVIOUS
<1> QED  BY <1>1, <1>2, SSTableAssumption DEF Init, Structure, TypeOK, LastKeyKnown, BlockChosen

\* Every step of builder and reader keeps the types.
LEMMA StructureStep == Structure /\ [Next]_vars => Structure'
<1> SUFFICES ASSUME Structure, [Next]_vars PROVE Structure'
  OBVIOUS
<1> USE SSTableAssumption
<1>t. TypeOK /\ LastKeyKnown /\ BlockChosen
  BY DEF Structure
<1>l. /\ Len(data) \in Nat /\ Len(buffer) \in Nat
      /\ Len(index) \in Nat /\ Len(added) \in Nat
  BY <1>t, LenProperties DEF TypeOK
<1>1. ASSUME NEW k \in Keys, NEW n \in Sizes, Add(k, n) PROVE Structure'
  <2> DEFINE r == [key |-> k, size |-> n]
  <2>1. /\ added' \in Seq(Records)
        /\ Len(added') = Len(added) + 1
    <3>1. added' = Append(added, r) /\ r \in Records /\ added \in Seq(Records)
      BY <1>1, <1>t DEF Add, Records, TypeOK
    <3> QED  BY <3>1, AppendProperties
  <2>2. /\ Places \subseteq Places'
        /\ Len(added) + 1 \in Places'
    BY <2>1, <1>l DEF Places
  <2>3. lastKey' \in Keys /\ phase' = "build" /\ phase = "build"
        /\ UNCHANGED searchVars
    BY <1>1 DEF Add
  <2>4. /\ buffer' \in Seq(Places') /\ used' \in 0 .. BlockSize
        /\ data' \in Seq(Places')
        /\ index' \in Seq(EntriesUpTo(Len(data')))
        /\ Len(index') >= Len(index)
    <3>1. CASE Fits(n)
      <4>1. buffer' = Append(buffer, Len(added) + 1) /\ used' = used + n
            /\ data' = data /\ index' = index
        BY <1>1, <3>1 DEF Add
      <4>2. buffer \in Seq(Places') /\ data' \in Seq(Places')
        BY <4>1, <2>2, <1>t, SeqOfMore DEF TypeOK
      <4>3. buffer' \in Seq(Places')
        BY <4>1, <4>2, <2>2, AppendProperties
      <4>4. used' \in 0 .. BlockSize
        BY <4>1, <3>1, <1>t DEF Fits, TypeOK
      <4>5. index' \in Seq(EntriesUpTo(Len(data')))
        BY <4>1, <1>t DEF TypeOK, EntriesUpTo
      <4> QED  BY <4>1, <4>2, <4>3, <4>4, <4>5, <1>l
    <3>2. CASE ~ Fits(n)
      <4>1. /\ FlushDataBlock
            /\ buffer' = IF n <= BlockSize THEN <<Len(added) + 1>> ELSE <<>>
            /\ used' = IF n <= BlockSize THEN n ELSE 0
        BY <1>1, <3>2 DEF Add
      <4>2. data' \in Seq(Places) /\ index' \in Seq(EntriesUpTo(Len(data')))
            /\ Len(index') >= Len(index)
        BY <4>1, FlushTypes
      <4>3. data' \in Seq(Places')
        BY <4>2, <2>2, SeqOfMore
      <4>4. buffer' \in Seq(Places')
        BY <4>1, <2>2
      <4>5. used' \in 0 .. BlockSize
        BY <4>1
      <4> QED  BY <4>2, <4>3, <4>4, <4>5
    <3> QED  BY <3>1, <3>2
  <2>5. Len(index') \in Nat
    BY <2>4, LenProperties
  <2>6. TypeOK'
    <3>1. added' \in Seq([key : Keys, size : Sizes])
      BY <2>1 DEF Records
    <3>2. index' \in Seq([maxKey : Keys, start : 1 .. Len(data')])
      BY <2>4 DEF EntriesUpTo
    <3>3. UNCHANGED <<phase, goal, low, high, target, answer>>
      BY <2>3 DEF searchVars
    <3>4. /\ low' \in 0 .. Len(index')
          /\ high' \in -1 .. Len(index') - 1
          /\ target' \in -1 .. Len(index') - 1
      BY <3>3, <2>4, <2>5, <1>l, <1>t DEF TypeOK
    <3>5. /\ phase' \in {"build", "open", "probe", "read", "done"}
          /\ goal' \in Keys \cup {NoKey}
          /\ lastKey' \in Keys \cup {NoKey}
          /\ answer' \in {NotFound} \cup Places'
      BY <2>2, <2>3, <3>3, <1>t DEF TypeOK
    <3> QED  BY <3>1, <3>2, <3>4, <3>5, <2>4 DEF TypeOK
  <2> QED  BY <2>3, <2>6 DEF Structure, LastKeyKnown, BlockChosen
<1>2. ASSUME Finish PROVE Structure'
  <2>1. FlushDataBlock /\ buffer' = <<>> /\ used' = 0 /\ phase' = "open"
        /\ UNCHANGED <<added, lastKey, searchVars>>
    BY <1>2 DEF Finish
  <2>2. data' \in Seq(Places) /\ index' \in Seq(EntriesUpTo(Len(data')))
        /\ Len(index') >= Len(index)
    BY <2>1, FlushTypes
  <2>3. Len(index') \in Nat /\ Places' = Places /\ <<>> \in Seq(Places)
    BY <2>1, <2>2, LenProperties, EmptySeq DEF Places
  <2>4. TypeOK'
    BY <2>1, <2>2, <2>3, <1>l, <1>t DEF TypeOK, EntriesUpTo, searchVars
  <2> QED  BY <2>1, <2>4, <1>t DEF Structure, LastKeyKnown, BlockChosen
<1>b. UNCHANGED buildVars => Places' = Places
  BY DEF buildVars, Places
<1>3. ASSUME NEW k \in Keys, BeginSearch(k) PROVE Structure'
  BY <1>3, <1>t, <1>l, <1>b DEF BeginSearch, Structure, TypeOK, LastKeyKnown, BlockChosen,
     buildVars, LastEntry
<1>4. ASSUME Probe PROVE Structure'
  <2>1. low <= high /\ UNCHANGED <<goal, answer, buildVars>> /\ phase = "probe"
    BY <1>4 DEF Probe
  <2> DEFINE mid == (low + high) \div 2
  <2>2. mid \in low .. high
    BY <2>1, <1>t DEF TypeOK
  <2>3. \/ target' = mid /\ phase' = "read" /\ UNCHANGED <<low, high>>
        \/ target' = mid /\ high' = mid - 1 /\ UNCHANGED <<phase, low>>
        \/ low' = mid + 1 /\ UNCHANGED <<phase, high, target>>
    BY <1>4 DEF Probe
  <2> HIDE DEF mid
  <2>4. mid \in 0 .. Len(index) - 1 /\ mid + 1 \in 0 .. Len(index)
        /\ mid - 1 \in -1 .. Len(index) - 1
    BY <2>1, <2>2, <1>t, <1>l DEF TypeOK
  <2>5. /\ low' \in 0 .. Len(index)
        /\ high' \in -1 .. Len(index) - 1
        /\ target' \in -1 .. Len(index) - 1
        /\ phase' = "read" => target' # -1
        /\ phase' \in {"probe", "read"}
    <3>1. CASE target' = mid /\ phase' = "read" /\ UNCHANGED <<low, high>>
      BY <3>1, <2>4, <1>t DEF TypeOK
    <3>2. CASE target' = mid /\ high' = mid - 1 /\ UNCHANGED <<phase, low>>
      BY <3>2, <2>1, <2>4, <1>t DEF TypeOK
    <3>3. CASE low' = mid + 1 /\ UNCHANGED <<phase, high, target>>
      BY <3>3, <2>1, <2>4, <1>t DEF TypeOK
    <3> QED  BY <2>3, <3>1, <3>2, <3>3
  <2> QED  BY <2>1, <2>5, <1>t, <1>b
           DEF Structure, TypeOK, LastKeyKnown, BlockChosen, buildVars
<1>5. ASSUME EndProbe PROVE Structure'
  BY <1>5, <1>t, <1>l, <1>b DEF EndProbe, Structure, TypeOK, LastKeyKnown, BlockChosen,
     buildVars, searchVars
<1>6. ASSUME ReadBlock PROVE Structure'
  <2> DEFINE block == Entry(target).start .. BlockEnd(target)
             hits == {p \in block : added[data[p]].key = goal}
  <2>1. target \in 0 .. Len(index) - 1 /\ phase = "read"
    BY <1>6, <1>t DEF ReadBlock, TypeOK, BlockChosen
  <2>2. Entry(target).start \in 1 .. Len(data)
    BY <2>1, <1>t, EntryTypes DEF LastEntry
  <2>3. BlockEnd(target) \in 0 .. Len(data)
    <3>1. CASE target < LastEntry
      <4>1. Entry(target + 1).start \in 1 .. Len(data)
        <5>1. target + 1 \in 0 .. LastEntry
          BY <2>1, <3>1, <1>l DEF LastEntry
        <5> QED  BY <5>1, <1>t, EntryTypes
      <4> QED  BY <3>1, <4>1, <1>l DEF BlockEnd
    <3>2. CASE ~ target < LastEntry
      BY <3>2, <1>l DEF BlockEnd
    <3> QED  BY <3>1, <3>2
  <2>4. block \subseteq 1 .. Len(data)
    BY <2>2, <2>3, <1>l
  <2>5. answer' = IF hits = {} THEN NotFound
                  ELSE data[CHOOSE p \in hits : \A q \in hits : p <= q]
    BY <1>6 DEF ReadBlock
  <2>6. hits \subseteq 1 .. Len(data) /\ hits \subseteq Nat
    BY <2>4, <1>l
  <2> HIDE DEF hits
  <2>7. answer' \in {NotFound} \cup Places
    <3>1. CASE hits = {}
      BY <2>5, <3>1
    <3>2. CASE hits # {}
      <4>1. \E p \in hits : \A q \in hits : p <= q
        BY <3>2, <2>6, LeastOf
      <4>2. (CHOOSE p \in hits : \A q \in hits : p <= q) \in 1 .. Len(data)
        BY <4>1, <2>6
      <4>3. answer' \in Places
        BY <4>2, <3>2, <2>5, <1>t, <1>l, ElementOfSeq DEF TypeOK
      <4> QED  BY <4>3
    <3> QED  BY <3>1, <3>2
  <2>8. phase' = "done" /\ UNCHANGED <<goal, low, high, target, buildVars>>
    BY <1>6 DEF ReadBlock
  <2> QED  BY <2>7, <2>8, <1>t, <1>b DEF Structure, TypeOK, LastKeyKnown, BlockChosen, buildVars
<1>7. ASSUME EndSearch PROVE Structure'
  BY <1>7, <1>t, <1>l, <1>b DEF EndSearch, Structure, TypeOK, LastKeyKnown, BlockChosen, buildVars
<1>8. ASSUME UNCHANGED vars PROVE Structure'
  BY <1>8, <1>t, <1>b DEF vars, Structure, TypeOK, LastKeyKnown, BlockChosen, buildVars, searchVars
<1> QED  BY <1>1, <1>2, <1>3, <1>4, <1>5, <1>6, <1>7, <1>8 DEF Next

\* The types together with what they rest on while a block or an entry is chosen.
THEOREM InductiveStructure == Spec => []Structure
BY InitStructure, StructureStep, PTL DEF Spec

\* The state of the builder and of the search keeps its type: in particular
\* the binary search never leaves the index (sstable_reader.hpp:64-84).
THEOREM TypeCorrect == Spec => []TypeOK
<1>1. Structure => TypeOK
  BY DEF Structure
<1> QED  BY <1>1, InductiveStructure, PTL

-----------------------------------------------------------------------------
(* The file.  When every record fits a block, the file and the block that  *)
(* is being built hold the records that were added, in their order, and    *)
(* the index cuts the file into consecutive blocks.                        *)

RecordsFit == \A n \in Sizes : n <= BlockSize

Sorted ==
    /\ \A i, j \in Places : i <= j => added[i].key <= added[j].key
    /\ added # <<>> => lastKey = added[Len(added)].key

Layout ==
    /\ Len(data) + Len(buffer) = Len(added)
    /\ \A p \in 1 .. Len(data) : data[p] = p
    /\ \A p \in 1 .. Len(buffer) : buffer[p] = Len(data) + p
    /\ phase # "build" => buffer = <<>>

\* The blocks of an index cover n of the records, and each entry has the key
\* of the last record of its block.
LastOf(idx, n, i) == IF i < Len(idx) THEN idx[i + 1].start - 1 ELSE n
Cuts(idx, n, records) ==
    /\ idx = <<>> <=> n = 0
    /\ idx # <<>> => idx[1].start = 1
    /\ \A i, j \in 1 .. Len(idx) : i <= j => idx[i].start <= LastOf(idx, n, j)
    /\ \A i \in 1 .. Len(idx) : idx[i].maxKey = records[LastOf(idx, n, i)].key

Built == Structure /\ Sorted /\ Layout /\ Cuts(index, Len(data), added)

\* A block ends inside the file, and not before it starts.
LEMMA BlockEnds ==
    ASSUME NEW n \in Nat, NEW idx \in Seq(EntriesUpTo(n)), NEW records,
           Cuts(idx, n, records), NEW i \in 1 .. Len(idx)
    PROVE  /\ LastOf(idx, n, i) \in 1 .. n
           /\ idx[i].start <= LastOf(idx, n, i)
<1>1. Len(idx) \in Nat
  BY LenProperties
<1>2. \A j \in 1 .. Len(idx) : idx[j].start \in 1 .. n
  <2>1. \A j \in 1 .. Len(idx) : idx[j] \in EntriesUpTo(n)
    BY ElementOfSeq
  <2> QED  BY <2>1 DEF EntriesUpTo
<1>3. idx[i].start <= LastOf(idx, n, i)
  BY <1>1 DEF Cuts
<1>4. CASE i < Len(idx)
  <2>1. idx[i + 1].start \in 1 .. n
    BY <1>1, <1>2, <1>4
  <2>2. LastOf(idx, n, i) = idx[i + 1].start - 1
    BY <1>4 DEF LastOf
  <2> QED  BY <2>1, <2>2, <1>2, <1>3
<1>5. CASE ~ i < Len(idx)
  BY <1>2, <1>3, <1>5 DEF LastOf
<1> QED  BY <1>4, <1>5

\* More records change nothing of the blocks that are cut.
LEMMA CutsOfMore ==
    ASSUME NEW n \in Nat, NEW idx \in Seq(EntriesUpTo(n)), NEW records,
           Cuts(idx, n, records), NEW more, \A i \in 1 .. n : more[i] = records[i]
    PROVE  Cuts(idx, n, more)
<1>1. \A i \in 1 .. Len(idx) : LastOf(idx, n, i) \in 1 .. n
  BY BlockEnds
<1> QED  BY <1>1 DEF Cuts

\* A block that is written brings the file up to the records added.
LEMMA FlushKeepsCuts ==
    ASSUME Built, FlushDataBlock
    PROVE  /\ Len(data') = Len(added)
           /\ \A p \in 1 .. Len(data') : data'[p] = p
           /\ Cuts(index', Len(data'), added)
<1> USE DEF Built
<1>t. TypeOK
  BY DEF Structure
<1>1. /\ data' = data \o buffer
      /\ index' = IF buffer = <<>> THEN index
                  ELSE Append(index, [maxKey |-> lastKey, start |-> Len(data) + 1])
  BY DEF FlushDataBlock
<1>2. Len(data) \in Nat /\ Len(buffer) \in Nat /\ Len(index) \in Nat /\ Len(added) \in Nat
  BY <1>t, LenProperties DEF TypeOK
<1>3. /\ Len(data') = Len(data) + Len(buffer)
      /\ \A p \in 1 .. Len(data) + Len(buffer) :
            data'[p] = IF p <= Len(data) THEN data[p] ELSE buffer[p - Len(data)]
  BY <1>1, <1>t, ConcatProperties DEF TypeOK
<1>4. Len(data') = Len(added)
  BY <1>3 DEF Layout
<1>5. \A p \in 1 .. Len(data') : data'[p] = p
  <2> SUFFICES ASSUME NEW p \in 1 .. Len(data') PROVE data'[p] = p
    OBVIOUS
  <2>1. CASE p <= Len(data)
    BY <2>1, <1>2, <1>3 DEF Layout
  <2>2. CASE p > Len(data)
    <3>1. p - Len(data) \in 1 .. Len(buffer)
      BY <2>2, <1>2, <1>3
    <3> QED  BY <2>2, <3>1, <1>2, <1>3 DEF Layout
  <2> QED  BY <2>1, <2>2, <1>2
<1>6. Cuts(index', Len(data'), added)
  <2>1. CASE buffer = <<>>
    <3>1. index' = index /\ Len(data') = Len(data)
      BY <2>1, <1>1, <1>2, <1>3
    <3> QED  BY <3>1
  <2>2. CASE buffer # <<>>
    <3> DEFINE e == [maxKey |-> lastKey, start |-> Len(data) + 1]
    <3>1. index' = Append(index, e)
      BY <2>2, <1>1
    <3>2. e.start = Len(data) + 1 /\ e.maxKey = lastKey
      OBVIOUS
    <3>3. Len(buffer) > 0
      BY <2>2, <1>2, <1>t, EmptyIffLen DEF TypeOK
    <3>4. lastKey = added[Len(added)].key
      <4>1. Len(added) > 0
        BY <3>3, <1>2 DEF Layout
      <4>2. added # <<>>
        BY <4>1
      <4> QED  BY <4>2 DEF Sorted
    <3>5. e \in [maxKey : Keys, start : Nat] /\ index \in Seq([maxKey : Keys, start : Nat])
      <4>1. Len(added) > 0
        BY <3>3, <1>2 DEF Layout
      <4>2. lastKey \in Keys
        BY <4>1 DEF Structure, LastKeyKnown
      <4> DEFINE S == EntriesUpTo(Len(data))
                 T == [maxKey : Keys, start : Nat]
      <4>3. S \subseteq T
        BY <1>2 DEF EntriesUpTo
      <4>4. index \in Seq(S)
        BY <1>t DEF TypeOK, EntriesUpTo
      <4> HIDE DEF S, T
      <4>5. index \in Seq(T)
        BY <4>3, <4>4, SeqOfMore
      <4> QED  BY <4>2, <4>5, <1>2 DEF T
    <3> HIDE DEF e
    <3>6. /\ Len(index') = Len(index) + 1
          /\ \A i \in 1 .. Len(index) : index'[i] = index[i]
          /\ index'[Len(index) + 1] = e
      BY <3>1, <3>5, AppendProperties
    <3>7. index' # <<>> /\ Len(data') > 0
      BY <3>3, <3>6, <1>2, <1>3
    <3>8. \A i \in 1 .. Len(index) : LastOf(index', Len(data'), i) = LastOf(index, Len(data), i)
      <4> SUFFICES ASSUME NEW i \in 1 .. Len(index)
                   PROVE  LastOf(index', Len(data'), i) = LastOf(index, Len(data), i)
        OBVIOUS
      <4>1. LastOf(index', Len(data'), i) = index'[i + 1].start - 1
        BY <3>6, <1>2 DEF LastOf
      <4>2. CASE i < Len(index)
        <5>1. index'[i + 1] = index[i + 1]
          BY <4>2, <3>6, <1>2
        <5> QED  BY <4>1, <4>2, <5>1 DEF LastOf
      <4>3. CASE i = Len(index)
        BY <4>1, <4>3, <3>2, <3>6, <1>2 DEF LastOf
      <4> QED  BY <4>2, <4>3, <1>2
    <3>9. LastOf(index', Len(data'), Len(index) + 1) = Len(added)
      BY <3>6, <1>2, <1>4 DEF LastOf
    <3>10. index'[1].start = 1
      <4>1. CASE index = <<>>
        BY <4>1, <3>2, <3>6 DEF Cuts
      <4>2. CASE index # <<>>
        <5>1. Len(index) > 0
          BY <4>2, <1>2, <1>t, EmptyIffLen DEF TypeOK
        <5> QED  BY <4>2, <5>1, <3>6, <1>2 DEF Cuts
      <4> QED  BY <4>1, <4>2
    <3>11. \A i \in 1 .. Len(index') : index'[i].maxKey = added[LastOf(index', Len(data'), i)].key
      <4> SUFFICES ASSUME NEW i \in 1 .. Len(index')
                   PROVE  index'[i].maxKey = added[LastOf(index', Len(data'), i)].key
        OBVIOUS
      <4>1. CASE i \in 1 .. Len(index)
        BY <4>1, <3>6, <3>8 DEF Cuts
      <4>2. CASE i = Len(index) + 1
        BY <4>2, <3>2, <3>4, <3>6, <3>9
      <4> QED  BY <4>1, <4>2, <3>6, <1>2
    <3>12. ASSUME NEW i \in 1 .. Len(index'), NEW j \in 1 .. Len(index'), i <= j
           PROVE  index'[i].start <= LastOf(index', Len(data'), j)
      <4>1. CASE j \in 1 .. Len(index)
        <5>1. i \in 1 .. Len(index)
          BY <4>1, <3>12, <1>2, <3>6
        <5> QED  BY <4>1, <5>1, <3>12, <3>6, <3>8 DEF Cuts
      <4>2. CASE j = Len(index) + 1
        <5>1. Len(data) + 1 <= Len(added)
          BY <3>3, <1>2 DEF Layout
        <5>2. CASE i \in 1 .. Len(index)
          <6>1. index'[i] = index[i] /\ index[i].start \in 1 .. Len(data)
            BY <5>2, <1>t, <3>6, StartTypes
          <6> QED  BY <4>2, <5>1, <6>1, <3>9, <1>2
        <5>3. CASE i = Len(index) + 1
          BY <4>2, <5>1, <5>3, <3>2, <3>6, <3>9
        <5> QED  BY <5>2, <5>3, <3>6, <1>2
      <4> QED  BY <4>1, <4>2, <3>6, <1>2
    <3> QED  BY <3>7, <3>10, <3>11, <3>12 DEF Cuts
  <2> QED  BY <2>1, <2>2
<1> QED  BY <1>4, <1>5, <1>6

\* The empty file is laid out.
LEMMA InitBuilt == Init => Built
<1> SUFFICES ASSUME Init PROVE Built
  OBVIOUS
<1>1. Structure
  BY InitStructure
<1>2. added = <<>> /\ buffer = <<>> /\ data = <<>> /\ index = <<>> /\ phase = "build"
  BY DEF Init
<1>3. Len(<<>>) = 0
  OBVIOUS
<1>4. Sorted
  BY <1>2, <1>3 DEF Sorted, Places
<1>5. Layout
  BY <1>2, <1>3 DEF Layout
<1>6. Cuts(index, Len(data), added)
  BY <1>2, <1>3 DEF Cuts
<1> QED  BY <1>1, <1>4, <1>5, <1>6 DEF Built

\* Every step keeps the file in the order of the records and its blocks consecutive.
LEMMA BuiltStep == RecordsFit /\ Built /\ [Next]_vars => Built'
<1> SUFFICES ASSUME RecordsFit, Built, [Next]_vars PROVE Built'
  OBVIOUS
<1> USE SSTableAssumption
<1>t. TypeOK /\ Structure
  BY DEF Built, Structure
<1>s. Structure'
  BY <1>t, StructureStep
<1>l. /\ Len(data) \in Nat /\ Len(buffer) \in Nat
      /\ Len(index) \in Nat /\ Len(added) \in Nat
  BY <1>t, LenProperties DEF TypeOK
<1>1. ASSUME NEW k \in Keys, NEW n \in Sizes, Add(k, n) PROVE Built'
  <2> DEFINE r == [key |-> k, size |-> n]
  <2>1. /\ Len(added') = Len(added) + 1
        /\ \A i \in Places : added'[i] = added[i]
        /\ added'[Len(added) + 1].key = k
    <3>1. added' = Append(added, r) /\ r \in Records /\ added \in Seq(Records)
      BY <1>1, <1>t DEF Add, Records, TypeOK
    <3>2. r.key = k
      OBVIOUS
    <3> HIDE DEF r
    <3> QED  BY <3>1, <3>2, AppendProperties DEF Places
  <2>2. lastKey' = k /\ phase = "build" /\ phase' = "build"
    BY <1>1 DEF Add
  <2>3. Sorted'
    <3>1. k \in Nat
      OBVIOUS
    <3>2. \A i \in Places : added[i].key \in Nat
      <4>1. added \in Seq(Records)
        BY <1>t DEF TypeOK, Records
      <4>2. \A i \in Places : added[i] \in Records
        BY <4>1, ElementOfSeq DEF Places
      <4> QED  BY <4>2 DEF Records
    <3>3. \A i \in Places : added[i].key <= k
      <4> SUFFICES ASSUME NEW i \in Places PROVE added[i].key <= k
        OBVIOUS
      <4>1. added # <<>> /\ Len(added) \in Places /\ i <= Len(added)
        BY <1>l DEF Places
      <4>2. k >= lastKey
        BY <4>1, <1>1 DEF Add
      <4>3. added[i].key <= added[Len(added)].key /\ lastKey = added[Len(added)].key
        BY <4>1 DEF Built, Sorted
      <4> QED  BY <4>1, <4>2, <4>3, <3>1, <3>2
    <3>4. \A i, j \in Places' : i <= j => added'[i].key <= added'[j].key
      <4> SUFFICES ASSUME NEW i \in Places', NEW j \in Places', i <= j
                   PROVE  added'[i].key <= added'[j].key
        OBVIOUS
      <4>0. i \in 1 .. Len(added) + 1 /\ j \in 1 .. Len(added) + 1
        BY <2>1 DEF Places
      <4>1. CASE j \in Places
        <5>1. i \in Places
          BY <4>0, <4>1, <1>l DEF Places
        <5> QED  BY <4>1, <5>1, <2>1 DEF Built, Sorted
      <4>2. CASE j = Len(added) + 1 /\ i \in Places
        BY <4>2, <2>1, <3>3
      <4>3. CASE j = Len(added) + 1 /\ i = Len(added) + 1
        BY <4>3, <2>1, <3>1
      <4> QED  BY <4>0, <4>1, <4>2, <4>3, <1>l DEF Places
    <3> QED  BY <3>4, <2>1, <2>2 DEF Sorted
  <2>4. CASE Fits(n)
    <3>1. buffer' = Append(buffer, Len(added) + 1) /\ data' = data /\ index' = index
      BY <1>1, <2>4 DEF Add
    <3>2. /\ Len(buffer') = Len(buffer) + 1
          /\ \A p \in 1 .. Len(buffer) : buffer'[p] = buffer[p]
          /\ buffer'[Len(buffer) + 1] = Len(added) + 1
      <4>1. buffer \in Seq(Nat) /\ Len(added) + 1 \in Nat
        BY <1>t, <1>l, SeqOfMore DEF TypeOK, Places
      <4> QED  BY <3>1, <4>1, AppendProperties
    <3>3. Layout'
      <4>1. \A p \in 1 .. Len(buffer) + 1 : buffer'[p] = Len(data) + p
        <5>1. \A p \in 1 .. Len(buffer) : buffer'[p] = Len(data) + p
          BY <3>2 DEF Built, Layout
        <5>2. buffer'[Len(buffer) + 1] = Len(data) + (Len(buffer) + 1)
          BY <3>2, <1>l DEF Built, Layout
        <5>3. \A p \in 1 .. Len(buffer) + 1 : p \in 1 .. Len(buffer) \/ p = Len(buffer) + 1
          BY <1>l
        <5> QED  BY <5>1, <5>2, <5>3
      <4>2. Len(data') + Len(buffer') = Len(added')
        BY <2>1, <3>1, <3>2, <1>l DEF Built, Layout
      <4>3. \A p \in 1 .. Len(data') : data'[p] = p
        BY <3>1 DEF Built, Layout
      <4> QED  BY <4>1, <4>2, <4>3, <2>2, <3>1, <3>2 DEF Layout
    <3>4. Cuts(index, Len(data), added')
      <4>1. Len(data) <= Len(added) /\ Cuts(index, Len(data), added)
        BY <1>l DEF Built, Layout
      <4>2. index \in Seq(EntriesUpTo(Len(data)))
        BY <1>t DEF TypeOK, EntriesUpTo
      <4>3. \A i \in 1 .. Len(data) : added'[i] = added[i]
        BY <4>1, <2>1, <1>l DEF Places
      <4> QED  BY <4>1, <4>2, <4>3, <1>l, CutsOfMore
    <3> QED  BY <1>s, <2>3, <3>1, <3>3, <3>4 DEF Built
  <2>5. CASE ~ Fits(n)
    <3>1. FlushDataBlock /\ buffer' = <<Len(added) + 1>>
      BY <1>1, <2>5 DEF Add, RecordsFit
    <3>2. /\ Len(data') = Len(added)
          /\ \A p \in 1 .. Len(data') : data'[p] = p
          /\ Cuts(index', Len(data'), added)
      BY <3>1, FlushKeepsCuts
    <3>3. Layout'
      BY <2>1, <2>2, <3>1, <3>2, <1>l DEF Layout
    <3>4. index' \in Seq(EntriesUpTo(Len(data')))
      BY <1>s DEF Structure, TypeOK, EntriesUpTo
    <3>5. Cuts(index', Len(data'), added')
      BY <3>2, <3>4, <2>1, <1>l, CutsOfMore DEF Places
    <3> QED  BY <1>s, <2>3, <3>3, <3>5 DEF Built
  <2> QED  BY <2>4, <2>5
<1>2. ASSUME Finish PROVE Built'
  <2>1. FlushDataBlock /\ buffer' = <<>> /\ UNCHANGED <<added, lastKey>>
    BY <1>2 DEF Finish
  <2>2. /\ Len(data') = Len(added)
        /\ \A p \in 1 .. Len(data') : data'[p] = p
        /\ Cuts(index', Len(data'), added)
    BY <2>1, FlushKeepsCuts
  <2>3. Layout'
    BY <2>1, <2>2, <1>l DEF Layout
  <2>4. Sorted'
    BY <2>1 DEF Built, Sorted, Places
  <2> QED  BY <1>s, <2>1, <2>2, <2>3, <2>4 DEF Built
<1>3. ASSUME UNCHANGED buildVars, phase = "build" <=> phase' = "build" PROVE Built'
  BY <1>3, <1>s DEF Built, Sorted, Layout, Cuts, LastOf, Places, buildVars
<1>4. ASSUME NEW k \in Keys, BeginSearch(k) PROVE Built'
  BY <1>3, <1>4 DEF BeginSearch
<1>5. CASE Probe
  BY <1>3, <1>5 DEF Probe
<1>6. CASE EndProbe
  BY <1>3, <1>6 DEF EndProbe
<1>7. CASE ReadBlock
  BY <1>3, <1>7 DEF ReadBlock
<1>8. CASE EndSearch
  BY <1>3, <1>8 DEF EndSearch
<1>9. CASE UNCHANGED vars
  BY <1>3, <1>9 DEF vars
<1> QED  BY <1>1, <1>2, <1>4, <1>5, <1>6, <1>7, <1>8, <1>9 DEF Next

-----------------------------------------------------------------------------
(* The search.                                                             *)

\* No two blocks end with the same key.
BlocksEndApart ==
    \A i, j \in 1 .. Len(index) : i < j => index[i].maxKey # index[j].maxKey

\* The entries below low are too small for the goal, and the target is the
\* entry that made the search turn back.
Narrowing ==
    phase = "probe" =>
        /\ answer = NotFound
        /\ low <= high + 1
        /\ \A i \in 1 .. low : index[i].maxKey < goal
        /\ target = -1 => high = LastEntry
        /\ target # -1 => target = high + 1 /\ goal < Entry(target).maxKey

RightBlock ==
    phase = "read" =>
        /\ goal <= Entry(target).maxKey
        /\ BlocksEndApart => \A i \in 1 .. target : index[i].maxKey < goal

Seeking == Built /\ Narrowing /\ RightBlock /\ (BlocksEndApart => FindsNewest)

\* The entries of the index are in the order of their keys.
LEMMA IndexSorted ==
    ASSUME Built, NEW i \in 1 .. Len(index), NEW j \in 1 .. Len(index), i <= j
    PROVE  index[i].maxKey <= index[j].maxKey
<1>t. TypeOK
  BY DEF Built, Structure
<1>1. /\ Len(data) \in Nat /\ Len(buffer) \in Nat
      /\ Len(index) \in Nat /\ Len(added) \in Nat
  BY <1>t, LenProperties DEF TypeOK
<1>2. index \in Seq(EntriesUpTo(Len(data))) /\ Cuts(index, Len(data), added)
  BY <1>t DEF TypeOK, EntriesUpTo, Built
<1>3. \A k \in 1 .. Len(index) : LastOf(index, Len(data), k) \in 1 .. Len(data)
  BY <1>1, <1>2, BlockEnds
<1>4. LastOf(index, Len(data), i) <= LastOf(index, Len(data), j)
  <2>1. CASE i = j
    BY <2>1, <1>3
  <2>2. CASE i < j
    <3>1. i + 1 \in 1 .. Len(index) /\ i + 1 <= j /\ i < Len(index)
      BY <2>2, <1>1
    <3>2. index[i + 1].start <= LastOf(index, Len(data), j)
      BY <3>1, <1>2 DEF Cuts
    <3>3. LastOf(index, Len(data), i) = index[i + 1].start - 1
      BY <3>1 DEF LastOf
    <3>4. index[i + 1].start \in Int
      BY <3>1, <1>t, StartTypes
    <3> QED  BY <3>2, <3>3, <3>4, <1>3
  <2> QED  BY <2>1, <2>2
<1>5. LastOf(index, Len(data), i) \in Places /\ LastOf(index, Len(data), j) \in Places
  BY <1>1, <1>3 DEF Built, Layout, Places
<1>6. added[LastOf(index, Len(data), i)].key <= added[LastOf(index, Len(data), j)].key
  BY <1>4, <1>5 DEF Built, Sorted
<1> QED  BY <1>2, <1>6 DEF Cuts

\* A key above every entry of the index is not in the file.
LEMMA NotBeyond ==
    ASSUME Built, phase # "build", NEW k \in Keys,
           \A i \in 1 .. Len(index) : index[i].maxKey < k
    PROVE  Versions(k) = {}
<1> USE SSTableAssumption
<1>t. TypeOK
  BY DEF Built, Structure
<1>1. Len(data) \in Nat /\ Len(index) \in Nat /\ Len(added) \in Nat
  BY <1>t, LenProperties DEF TypeOK
<1>2. Len(data) = Len(added)
  BY <1>1 DEF Built, Layout
<1> SUFFICES ASSUME NEW j \in Places, added[j].key = k PROVE FALSE
  BY DEF Versions
<1>3. Len(added) > 0 /\ Len(added) \in Places /\ j <= Len(added)
  BY <1>1 DEF Places
<1>4. Len(index) \in 1 .. Len(index)
  <2>1. index # <<>>
    BY <1>2, <1>3, <1>1 DEF Built, Cuts
  <2> QED  BY <2>1, <1>1, <1>t, EmptyIffLen DEF TypeOK
<1>5. index[Len(index)].maxKey = added[Len(added)].key
  BY <1>1, <1>2, <1>4 DEF Built, Cuts, LastOf
<1>6. k <= added[Len(added)].key
  BY <1>3 DEF Built, Sorted
<1>7. index[Len(index)].maxKey \in Keys /\ index[Len(index)].maxKey < k
  BY <1>4, <1>t, StartTypes
<1>8. index[Len(index)].maxKey \in Nat /\ k \in Nat
  BY <1>7
<1>9. k <= index[Len(index)].maxKey
  BY <1>5, <1>6
<1> QED  BY <1>7, <1>8, <1>9

\* The block of the target holds the newest version of the goal, or nothing does.
LEMMA ReadBlockFinds ==
    ASSUME Seeking, ReadBlock, BlocksEndApart
    PROVE  FindsNewest'
<1> USE SSTableAssumption
<1>b. Built
  BY DEF Seeking
<1>t. Structure /\ TypeOK
  BY <1>b DEF Built, Structure
<1>1. Len(data) \in Nat /\ Len(index) \in Nat /\ Len(added) \in Nat
  BY <1>t, LenProperties DEF TypeOK
<1>2. Len(data) = Len(added) /\ (\A p \in 1 .. Len(data) : data[p] = p) /\ phase = "read"
  BY <1>1, <1>b DEF Built, Layout, ReadBlock
<1> DEFINE t == target + 1
           from == Entry(target).start
           to == LastOf(index, Len(data), t)
           hits == {p \in from .. BlockEnd(target) : added[data[p]].key = goal}
<1>3. t \in 1 .. Len(index) /\ target = t - 1
  BY <1>1, <1>2, <1>t DEF TypeOK, Structure, BlockChosen
<1>4. BlockEnd(target) = to /\ from = index[t].start /\ Entry(target) = index[t]
  BY <1>1, <1>3 DEF BlockEnd, LastOf, LastEntry, Entry
<1>5. /\ to \in 1 .. Len(data) /\ from \in 1 .. Len(data)
      /\ from <= to
      /\ index[t].maxKey = added[to].key
  <2>1. index \in Seq(EntriesUpTo(Len(data))) /\ Cuts(index, Len(data), added)
    BY <1>b, <1>t DEF TypeOK, EntriesUpTo, Built
  <2>2. to \in 1 .. Len(data) /\ index[t].start <= to
    BY <2>1, <1>1, <1>3, BlockEnds
  <2>3. from \in 1 .. Len(data)
    BY <1>3, <1>4, <1>t, StartTypes
  <2> QED  BY <2>1, <2>2, <2>3, <1>3, <1>4 DEF Cuts
<1>6. \A p \in from .. to : p \in Places /\ data[p] = p
  BY <1>1, <1>2, <1>5 DEF Places
<1>7. answer' = IF hits = {} THEN NotFound
                ELSE data[CHOOSE p \in hits : \A q \in hits : p <= q]
  BY DEF ReadBlock
<1>8. hits = {p \in from .. to : added[p].key = goal}
  BY <1>4, <1>6
<1>9. /\ goal' = goal /\ Versions(goal)' = Versions(goal) /\ phase' = "done"
      /\ goal <= index[t].maxKey
      /\ \A i \in 1 .. target : index[i].maxKey < goal
  BY <1>2, <1>4 DEF ReadBlock, buildVars, Versions, Places, Seeking, RightBlock
\* No version lies before the block.
<1>10. ASSUME NEW j \in Versions(goal) PROVE from <= j
  <2>1. j \in Places /\ added[j].key = goal /\ j \in Nat
    BY DEF Versions, Places
  <2>2. CASE target = 0
    <3>1. from = 1
      BY <2>2, <1>3, <1>4, <1>b, <1>1 DEF Built, Cuts
    <3> QED  BY <3>1, <2>1 DEF Places
  <2>3. CASE target # 0
    <3>1. target \in 1 .. Len(index) /\ target < Len(index)
      BY <2>3, <1>1, <1>3
    <3>2. LastOf(index, Len(data), target) = from - 1
      BY <3>1, <1>4 DEF LastOf
    <3>3. index[target].maxKey = added[from - 1].key
      BY <3>1, <3>2, <1>b DEF Built, Cuts
    <3>4. from - 1 \in Places
      <4>1. index \in Seq(EntriesUpTo(Len(data))) /\ Cuts(index, Len(data), added)
        BY <1>b, <1>t DEF TypeOK, EntriesUpTo, Built
      <4>2. LastOf(index, Len(data), target) \in 1 .. Len(data)
        BY <4>1, <3>1, <1>1, BlockEnds
      <4> QED  BY <4>2, <3>2, <1>2 DEF Places
    <3>5. index[target].maxKey \in Nat /\ index[target].maxKey < goal
      <4>1. index[target].maxKey \in Keys
        BY <3>1, <1>t, StartTypes
      <4>2. target \in 1 .. target
        BY <3>1
      <4> QED  BY <4>1, <4>2, <1>9
    <3>6. SUFFICES ASSUME j < from PROVE FALSE
      BY <2>1, <1>5
    <3>7. j <= from - 1
      BY <3>6, <2>1, <1>5
    <3>8. goal <= added[from - 1].key
      BY <3>7, <3>4, <2>1, <1>b DEF Built, Sorted
    <3>9. goal \in Nat
      <4>1. added \in Seq(Records)
        BY <1>t DEF TypeOK, Records
      <4>2. added[j] \in Records
        BY <4>1, <2>1, ElementOfSeq DEF Places
      <4> QED  BY <4>2, <2>1 DEF Records
    <3> QED  BY <3>3, <3>5, <3>8, <3>9
  <2> QED  BY <2>2, <2>3
\* If one lies behind it, the block ends with one.
<1>11. ASSUME NEW j \in Versions(goal), j > to PROVE to \in hits
  <2>1. j \in Places /\ added[j].key = goal /\ to \in Places
    BY <1>1, <1>2, <1>5 DEF Versions, Places
  <2>2. to <= j
    BY <1>5, <1>11, <2>1 DEF Places
  <2>3. added[to].key <= goal
    BY <2>1, <2>2, <1>b DEF Built, Sorted
  <2>4. added[to].key \in Nat /\ goal \in Nat
    <3>1. added \in Seq(Records)
      BY <1>t DEF TypeOK, Records
    <3>2. added[j] \in Records /\ added[to] \in Records
      BY <3>1, <2>1, ElementOfSeq DEF Places
    <3> QED  BY <3>2, <2>1 DEF Records
  <2>5. added[to].key = goal
    BY <2>3, <2>4, <1>5, <1>9
  <2>6. to \in from .. to
    BY <1>5
  <2> QED  BY <2>5, <2>6, <1>8
<1>12. hits \subseteq Versions(goal) /\ hits \subseteq Nat
  BY <1>5, <1>6, <1>8 DEF Versions
<1>13. from \in Nat /\ to \in Nat
  BY <1>5
<1> HIDE DEF hits, from, to, t
<1>14. CASE hits = {}
  <2>1. Versions(goal) = {}
    <3> SUFFICES ASSUME NEW j \in Versions(goal) PROVE FALSE
      OBVIOUS
    <3>1. j \in Nat /\ from <= j /\ j <= to /\ added[j].key = goal
      BY <1>10, <1>11, <1>13, <1>14 DEF Versions, Places
    <3>2. j \in from .. to
      BY <3>1, <1>13
    <3> QED  BY <3>1, <3>2, <1>8, <1>14
  <2> QED  BY <2>1, <1>7, <1>9, <1>14 DEF FindsNewest
<1>15. CASE hits # {}
  <2> DEFINE first == CHOOSE p \in hits : \A q \in hits : p <= q
  <2>1. first \in hits /\ \A q \in hits : first <= q
    <3>1. \E p \in hits : \A q \in hits : p <= q
      BY <1>12, <1>15, LeastOf
    <3> QED  BY <3>1
  <2>2. answer' = data[first]
    BY <1>7, <1>15
  <2> HIDE DEF first
  <2>3. answer' = first /\ first <= to /\ first \in Nat
    BY <2>1, <2>2, <1>6, <1>8, <1>12, <1>13
  <2>4. \A j \in Versions(goal) : first <= j
    <3> SUFFICES ASSUME NEW j \in Versions(goal) PROVE first <= j
      OBVIOUS
    <3>1. j \in Nat /\ from <= j /\ added[j].key = goal
      BY <1>10 DEF Versions, Places
    <3>2. CASE j <= to
      <4>1. j \in from .. to
        BY <3>1, <3>2, <1>13
      <4> QED  BY <4>1, <3>1, <1>8, <2>1
    <3>3. CASE j > to
      BY <3>1, <3>3, <2>3, <1>13
    <3> QED  BY <3>1, <3>2, <3>3, <1>13
  <2> QED  BY <2>1, <2>3, <2>4, <1>9, <1>12 DEF FindsNewest
<1> QED  BY <1>14, <1>15

\* No search is under way at first.
LEMMA InitSearching == Init => Seeking
BY InitBuilt DEF Init, Seeking, Narrowing, RightBlock, FindsNewest

\* Every round of the search keeps what is known of the entries on both sides.
LEMMA SearchingStep == RecordsFit /\ Seeking /\ [Next]_vars => Seeking'
<1> SUFFICES ASSUME RecordsFit, Seeking, [Next]_vars PROVE Seeking'
  OBVIOUS
<1> USE SSTableAssumption
<1>b. Built
  BY DEF Seeking
<1>c. Built'
  BY <1>b, BuiltStep
<1>t. Structure /\ TypeOK
  BY <1>b DEF Built, Structure
<1>l. Len(index) \in Nat /\ Len(added) \in Nat
  BY <1>t, LenProperties DEF TypeOK
<1>u. UNCHANGED buildVars => /\ UNCHANGED <<index, added, BlocksEndApart, LastEntry>>
                             /\ \A k : Versions(k)' = Versions(k)
                             /\ \A i : Entry(i)' = Entry(i)
  BY DEF buildVars, BlocksEndApart, LastEntry, Versions, Places, Entry
\* Until the file is finished, and between searches, nothing is claimed.
<1>1. ASSUME phase' \in {"build", "open"} PROVE Seeking'
  BY <1>c, <1>1 DEF Seeking, Narrowing, RightBlock, FindsNewest
<1>2. ASSUME NEW k \in Keys, NEW n \in Sizes, Add(k, n) PROVE Seeking'
  BY <1>1, <1>2 DEF Add
<1>3. ASSUME Finish PROVE Seeking'
  BY <1>1, <1>3 DEF Finish
<1>4. ASSUME NEW k \in Keys, BeginSearch(k) PROVE Seeking'
  <2>1. UNCHANGED buildVars /\ goal' = k /\ answer' = NotFound /\ target' = -1
        /\ phase = "open"
    BY <1>4 DEF BeginSearch
  <2>2. CASE InKeyRange(k) /\ low' = 0 /\ high' = LastEntry /\ phase' = "probe"
    <3>1. low' <= high' + 1
      BY <2>2, <1>l DEF LastEntry
    <3>2. Narrowing'
      BY <3>1, <2>1, <2>2, <1>u DEF Narrowing
    <3> QED  BY <3>2, <2>2, <1>c DEF Seeking, RightBlock, FindsNewest
  <2>3. CASE (~ InKeyRange(k) \/ Versions(k) = {}) /\ phase' = "done"
    <3>1. Versions(k) = {}
      <4>1. SUFFICES ASSUME NEW j \in Versions(k) PROVE InKeyRange(k)
        BY <2>3
      <4>2. j \in Places /\ added[j].key = k
        BY DEF Versions
      <4>3. 1 \in Places /\ Len(added) \in Places /\ 1 <= j /\ j <= Len(added) /\ added # <<>>
        BY <4>2, <1>l DEF Places
      <4>4. added[1].key <= k /\ k <= added[Len(added)].key
        BY <4>2, <4>3, <1>b DEF Built, Sorted
      <4> QED  BY <4>3, <4>4 DEF InKeyRange
    <3>2. Versions(goal)' = {}
      BY <3>1, <2>1, <1>u
    <3>3. FindsNewest'
      BY <3>2, <2>1 DEF FindsNewest
    <3> QED  BY <3>3, <2>3, <1>c DEF Seeking, Narrowing, RightBlock
  <2> QED  BY <1>4, <2>2, <2>3 DEF BeginSearch
<1>5. ASSUME Probe PROVE Seeking'
  <2> DEFINE mid == (low + high) \div 2
  <2>1. phase = "probe" /\ low <= high /\ UNCHANGED <<goal, answer, buildVars>>
    BY <1>5 DEF Probe
  <2>2. /\ mid \in 0 .. Len(index) - 1 /\ low <= mid /\ mid <= high
        /\ low \in Nat /\ high \in Int
    BY <2>1, <1>t, <1>l DEF TypeOK
  <2>3. \/ goal = Entry(mid).maxKey /\ target' = mid /\ phase' = "read" /\ UNCHANGED <<low, high>>
        \/ goal < Entry(mid).maxKey /\ target' = mid /\ high' = mid - 1 /\ UNCHANGED <<phase, low>>
        \/ goal > Entry(mid).maxKey /\ low' = mid + 1 /\ UNCHANGED <<phase, high, target>>
    BY <1>5 DEF Probe
  <2> HIDE DEF mid
  <2>4. Entry(mid) = index[mid + 1] /\ mid + 1 \in 1 .. Len(index)
    BY <2>2, <1>l DEF Entry
  <2>5. /\ \A i \in 1 .. Len(index) : index[i].maxKey \in Nat
        /\ Entry(mid).maxKey \in Nat
        /\ goal \in Int
    <3>1. \A i \in 1 .. Len(index) : index[i].maxKey \in Nat
      BY <1>t, StartTypes
    <3>2. goal \in Int
      BY <1>t DEF TypeOK, NoKey
    <3> QED  BY <3>1, <3>2, <2>4
  <2>6. \A i \in 1 .. mid + 1 : i \in 1 .. Len(index) /\ index[i].maxKey <= Entry(mid).maxKey
    <3> SUFFICES ASSUME NEW i \in 1 .. mid + 1
                 PROVE  i \in 1 .. Len(index) /\ index[i].maxKey <= Entry(mid).maxKey
      OBVIOUS
    <3>1. i \in 1 .. Len(index) /\ i <= mid + 1
      BY <2>2, <1>l
    <3> QED  BY <3>1, <2>4, <1>b, IndexSorted
  <2>7. CASE goal = Entry(mid).maxKey /\ target' = mid /\ phase' = "read"
    <3>1. ASSUME BlocksEndApart, NEW i \in 1 .. mid PROVE index[i].maxKey < goal
      <4>1. i < mid + 1 /\ i \in 1 .. mid + 1
        BY <2>2
      <4>2. index[i].maxKey # index[mid + 1].maxKey
        BY <4>1, <3>1, <2>4, <2>6 DEF BlocksEndApart
      <4> QED  BY <4>1, <4>2, <2>4, <2>5, <2>6, <2>7
    <3>2. goal <= Entry(mid).maxKey
      BY <2>5, <2>7
    <3>3. RightBlock'
      BY <3>1, <3>2, <2>1, <2>7, <1>u DEF RightBlock
    <3> QED  BY <3>3, <2>7, <1>c DEF Seeking, Narrowing, FindsNewest
  <2>8. CASE goal < Entry(mid).maxKey /\ target' = mid /\ high' = mid - 1 /\ UNCHANGED <<phase, low>>
    <3>1. low' <= high' + 1 /\ target' # -1 /\ target' = high' + 1
      BY <2>2, <2>8
    <3>2. answer = NotFound /\ \A i \in 1 .. low : index[i].maxKey < goal
      BY <2>1 DEF Seeking, Narrowing
    <3>3. Narrowing'
      BY <3>1, <3>2, <2>1, <2>8, <1>u DEF Narrowing
    <3> QED  BY <3>3, <2>1, <2>8, <1>c DEF Seeking, RightBlock, FindsNewest
  <2>9. CASE goal > Entry(mid).maxKey /\ low' = mid + 1 /\ UNCHANGED <<phase, high, target>>
    <3>1. low' <= high' + 1
      BY <2>2, <2>9
    <3>2. \A i \in 1 .. mid + 1 : index[i].maxKey < goal
      BY <2>5, <2>6, <2>9
    <3>3. Narrowing'
      BY <3>1, <3>2, <2>1, <2>9, <1>u DEF Seeking, Narrowing
    <3> QED  BY <3>3, <2>1, <2>9, <1>c DEF Seeking, RightBlock, FindsNewest
  <2> QED  BY <2>3, <2>7, <2>8, <2>9
<1>6. ASSUME EndProbe PROVE Seeking'
  <2>1. /\ phase = "probe" /\ low > high /\ UNCHANGED <<searchVars, buildVars>>
        /\ phase' = IF target = -1 THEN "done" ELSE "read"
    BY <1>6 DEF EndProbe
  <2>2. /\ low = high + 1 /\ answer = NotFound
        /\ \A i \in 1 .. low : index[i].maxKey < goal
        /\ target = -1 => high = LastEntry
        /\ target # -1 => target = high + 1 /\ goal < Entry(target).maxKey
    <3>1. low \in Int /\ high \in Int
      BY <1>t, <1>l DEF TypeOK
    <3> QED  BY <3>1, <2>1 DEF Seeking, Narrowing
  <2>3. CASE target = -1
    <3>1. low = Len(index)
      BY <2>2, <2>3, <1>l DEF LastEntry
    <3>2. Versions(goal) = {}
      <4>1. CASE goal \in Keys
        BY <4>1, <3>1, <2>1, <2>2, <1>b, NotBeyond
      <4>2. CASE goal \notin Keys
        <5> SUFFICES ASSUME NEW j \in Versions(goal) PROVE FALSE
          OBVIOUS
        <5>1. added \in Seq(Records) /\ j \in 1 .. Len(added) /\ added[j].key = goal
          BY <1>t DEF TypeOK, Records, Versions, Places
        <5>2. added[j] \in Records
          BY <5>1, ElementOfSeq
        <5> QED  BY <5>1, <5>2, <4>2 DEF Records
      <4> QED  BY <4>1, <4>2
    <3>3. FindsNewest'
      BY <3>2, <2>1, <2>2, <1>u DEF FindsNewest, searchVars
    <3> QED  BY <3>3, <2>1, <2>3, <1>c DEF Seeking, Narrowing, RightBlock
  <2>4. CASE target # -1
    <3>1. target = low /\ goal < Entry(target).maxKey
      BY <2>2, <2>4
    <3>2. goal <= Entry(target).maxKey
      <4>1. target \in 0 .. LastEntry
        BY <2>4, <1>t, <1>l DEF TypeOK, LastEntry
      <4>2. Entry(target).maxKey \in Nat
        BY <4>1, <1>t, EntryTypes
      <4>3. goal \in Int
        BY <1>t DEF TypeOK, NoKey
      <4> QED  BY <3>1, <4>2, <4>3
    <3>3. RightBlock'
      BY <3>1, <3>2, <2>1, <2>2, <1>u DEF RightBlock, searchVars
    <3> QED  BY <3>3, <2>1, <2>4, <1>c DEF Seeking, Narrowing, FindsNewest
  <2> QED  BY <2>3, <2>4
<1>7. ASSUME ReadBlock PROVE Seeking'
  <2>1. phase' = "done" /\ UNCHANGED buildVars
    BY <1>7 DEF ReadBlock
  <2>2. BlocksEndApart' => FindsNewest'
    BY <2>1, <1>7, <1>u, ReadBlockFinds
  <2> QED  BY <2>1, <2>2, <1>c DEF Seeking, Narrowing, RightBlock
<1>8. ASSUME EndSearch PROVE Seeking'
  BY <1>1, <1>8 DEF EndSearch
<1>9. ASSUME UNCHANGED vars PROVE Seeking'
  BY <1>9, <1>c, <1>u DEF vars, Seeking, Narrowing, RightBlock, FindsNewest, searchVars
<1> QED  BY <1>2, <1>3, <1>4, <1>5, <1>6, <1>7, <1>8, <1>9 DEF Next

\* A search finds the newest version of its key, whatever the file holds, if no
\* record is larger than a block and no two blocks end with the same key
\* (sstable_builder.hpp:24-34, sstable_reader.hpp:54-96).
THEOREM SearchSound ==
    ASSUME RecordsFit
    PROVE  Spec => [](BlocksEndApart => FindsNewest)
<1>1. Seeking => (BlocksEndApart => FindsNewest)
  BY DEF Seeking
<1>2. Seeking /\ [Next]_vars => Seeking'
  BY SearchingStep
<1> QED  BY <1>1, <1>2, InitSearching, PTL DEF Spec

-----------------------------------------------------------------------------
(* One version of a key, as in the file of a compaction.                   *)

\* The keys of the records grow, so the blocks end with different ones.
Distinct == \A i, j \in Places : i < j => added[i].key # added[j].key

\* A key may be added for the first time only if it has no version.
LEMMA NoVersionYet ==
    ASSUME TypeOK, NEW k, Cardinality(Versions(k)) < 1
    PROVE  Versions(k) = {}
<1>1. Len(added) \in Nat
  BY LenProperties DEF TypeOK
<1>2. IsFiniteSet(Places)
  BY <1>1, FS_Interval DEF Places
<1>3. IsFiniteSet(Versions(k))
  BY <1>2, FS_Subset DEF Versions
<1>4. Cardinality(Versions(k)) \in Nat
  BY <1>3, FS_CardinalityType
<1>5. Cardinality(Versions(k)) = 0
  BY <1>4
<1> QED  BY <1>3, <1>5, FS_EmptySet

\* With one version of a key, the keys stay different.
LEMMA DistinctStep ==
    MaxVersions = 1 /\ Structure /\ Distinct /\ [Next]_vars => Distinct'
<1> SUFFICES ASSUME MaxVersions = 1, Structure, Distinct, [Next]_vars PROVE Distinct'
  OBVIOUS
<1>t. TypeOK
  BY DEF Structure
<1>1. ASSUME NEW k \in Keys, NEW n \in Sizes, Add(k, n) PROVE Distinct'
  <2> DEFINE r == [key |-> k, size |-> n]
  <2>1. /\ Len(added') = Len(added) + 1
        /\ \A i \in Places : added'[i] = added[i]
        /\ added'[Len(added) + 1].key = k
    <3>1. added' = Append(added, r) /\ r \in Records /\ added \in Seq(Records)
      BY <1>1, <1>t DEF Add, Records, TypeOK
    <3>2. r.key = k
      OBVIOUS
    <3> HIDE DEF r
    <3> QED  BY <3>1, <3>2, AppendProperties DEF Places
  <2>2. \A i \in Places : added[i].key # k
    <3>1. Versions(k) = {}
      BY <1>1, <1>t, NoVersionYet DEF Add
    <3> QED  BY <3>1 DEF Versions
  <2>3. Len(added) \in Nat
    BY <1>t, LenProperties DEF TypeOK
  <2> SUFFICES ASSUME NEW i \in Places', NEW j \in Places', i < j
               PROVE  added'[i].key # added'[j].key
    BY DEF Distinct
  <2>4. i \in Places /\ (j \in Places \/ j = Len(added) + 1)
    BY <2>1, <2>3 DEF Places
  <2> QED  BY <2>1, <2>2, <2>4 DEF Distinct
<1>2. ASSUME UNCHANGED added PROVE Distinct'
  BY <1>2 DEF Distinct, Places
<1> QED  BY <1>1, <1>2 DEF Next, Finish, BeginSearch, Probe, EndProbe, ReadBlock, EndSearch,
            buildVars, vars

\* Different keys end different blocks.
LEMMA DistinctEndsApart == Built /\ Distinct => BlocksEndApart
<1> SUFFICES ASSUME Built, Distinct,
                    NEW i \in 1 .. Len(index), NEW j \in 1 .. Len(index), i < j
             PROVE  index[i].maxKey # index[j].maxKey
  BY DEF BlocksEndApart
<1>t. TypeOK
  BY DEF Built, Structure
<1>1. /\ Len(data) \in Nat /\ Len(buffer) \in Nat
      /\ Len(index) \in Nat /\ Len(added) \in Nat
  BY <1>t, LenProperties DEF TypeOK
<1>2. index \in Seq(EntriesUpTo(Len(data))) /\ Cuts(index, Len(data), added)
  BY <1>t DEF TypeOK, EntriesUpTo, Built
<1>3. \A k \in 1 .. Len(index) : LastOf(index, Len(data), k) \in 1 .. Len(data)
  BY <1>1, <1>2, BlockEnds
<1>4. i + 1 \in 1 .. Len(index) /\ i + 1 <= j /\ i < Len(index)
  BY <1>1
<1>5. LastOf(index, Len(data), i) < LastOf(index, Len(data), j)
  <2>1. index[i + 1].start <= LastOf(index, Len(data), j)
    BY <1>2, <1>4 DEF Cuts
  <2>2. LastOf(index, Len(data), i) = index[i + 1].start - 1
    BY <1>4 DEF LastOf
  <2>3. index[i + 1].start \in Int
    BY <1>4, <1>t, StartTypes
  <2> QED  BY <2>1, <2>2, <2>3, <1>3
<1>6. LastOf(index, Len(data), i) \in Places /\ LastOf(index, Len(data), j) \in Places
  BY <1>1, <1>3 DEF Built, Layout, Places
<1>7. added[LastOf(index, Len(data), i)].key # added[LastOf(index, Len(data), j)].key
  BY <1>5, <1>6 DEF Distinct
<1> QED  BY <1>2, <1>7 DEF Cuts

\* A file with one version of each key answers every search right: what the
\* Compactor keeps of a key is its newest version (compactor.hpp:38-42).
THEOREM OneVersionFound ==
    ASSUME RecordsFit, MaxVersions = 1
    PROVE  Spec => []FindsNewest
<1>1. Init => Distinct
  BY DEF Init, Distinct, Places
<1>2. Seeking /\ Distinct /\ [Next]_vars => Seeking' /\ Distinct'
  BY SearchingStep, DistinctStep DEF Seeking, Built
<1>3. Seeking /\ Distinct => FindsNewest
  BY DistinctEndsApart DEF Seeking
<1> QED  BY <1>1, <1>2, <1>3, InitSearching, PTL DEF Spec

-----------------------------------------------------------------------------
(* Hnsw: the links.                                                        *)

Longest(lc) == IF lc = 0 THEN 2 * MaxM ELSE MaxM
Links(n, lc) == nodes[n].neighbors[lc + 1]
Vec(n) == nodes[n].vector

Nodes == Seq([vector : Int, neighbors : Seq(Seq(Nat))])
Graph ==
    /\ nodes \in Nodes
    /\ \A n \in Ids : Len(nodes[n].neighbors) >= 1

\* Every list is as LinksSound says, but for the one that is being pruned.
ListSound(n, lc) ==
    /\ ToSet(Links(n, lc)) \subseteq {m \in Ids : m # n /\ LevelOf(m) >= lc}
    /\ IsInjective(Links(n, lc))
    /\ Len(Links(n, lc)) <= Longest(lc) \/ (pc = "prune" /\ n = Head(chosen) /\ lc = layer)
ListsSound == \A n \in Ids : \A lc \in 0 .. LevelOf(n) : ListSound(n, lc)

EnterOnTop ==
    nodes # <<>> =>
        /\ enter \in Ids
        /\ \A n \in Ids : LevelOf(n) <= LevelOf(enter) \/ (inserting /\ n = New)

Phases ==
    /\ pc \in {"idle", "search", "select", "prune", "link", "found"} /\ inserting \in BOOLEAN
    /\ query \in Int /\ targetLevel \in Nat /\ layer \in Nat
    /\ pc \in {"idle", "found"} => ~ inserting
    /\ pc \in {"select", "prune", "link"} => inserting /\ layer <= targetLevel
    /\ pc # "idle" => nodes # <<>>
    /\ inserting => enter # New /\ LevelOf(New) = targetLevel

\* The nodes that a search on this layer may meet: the new one is not linked yet.
OnLayer == {n \in Ids : LevelOf(n) >= layer /\ ~ (inserting /\ n = New)}

\* Below the layer that is being linked the new node has no links and nobody links to it.
NewAlone ==
    inserting =>
        \A lc \in 0 .. targetLevel :
            lc < layer \/ (lc = layer /\ pc \in {"search", "select"}) =>
                /\ Links(New, lc) = <<>>
                /\ \A n \in Ids : lc <= LevelOf(n) => New \notin ToSet(Links(n, lc))

Searching ==
    pc = "search" =>
        /\ results # {} /\ results \subseteq visited
        /\ results \subseteq OnLayer /\ candidates \subseteq OnLayer
        /\ ahead \in Seq(OnLayer) /\ ep \in OnLayer

Selecting ==
    pc \in {"select", "prune"} =>
        LET from == IF pc = "select" THEN OnLayer ELSE ToSet(Links(Head(chosen), layer))
        IN /\ candidates \subseteq from /\ selected \in Seq(from)
           /\ IsInjective(selected) /\ ToSet(selected) \cap candidates = {}
           /\ Len(selected) <= LayerMax
           /\ ep \in OnLayer

\* Those of selectNeighbors that are not linked yet are not linked at all, and there is
\* room for them.
Linking ==
    pc \in {"link", "prune"} =>
        /\ chosen \in Seq(OnLayer) /\ IsInjective(chosen) /\ ep \in OnLayer
        /\ IF pc = "prune" THEN chosen # <<>> ELSE selected = <<>>
        /\ \A i \in (IF pc = "prune" THEN 2 ELSE 1) .. Len(chosen) :
              /\ chosen[i] \notin ToSet(Links(New, layer))
              /\ New \notin ToSet(Links(chosen[i], layer))
        /\ Len(Links(New, layer)) + Len(chosen) <= LayerMax + (IF pc = "prune" THEN 1 ELSE 0)

Linked ==
    Graph /\ ListsSound /\ EnterOnTop /\ Phases /\ NewAlone /\ Searching /\ Selecting /\ Linking

LEMMA Appended ==
    ASSUME NEW S, NEW s \in Seq(S), NEW x \in S
    PROVE  /\ Append(s, x) \in Seq(S) /\ Len(Append(s, x)) = Len(s) + 1
           /\ ToSet(Append(s, x)) = ToSet(s) \cup {x}
           /\ IsInjective(s) /\ x \notin ToSet(s) => IsInjective(Append(s, x))
<1>1. /\ Append(s, x) \in Seq(S) /\ Len(Append(s, x)) = Len(s) + 1 /\ Len(s) \in Nat
      /\ DOMAIN Append(s, x) = 1 .. Len(s) + 1 /\ DOMAIN s = 1 .. Len(s)
      /\ Append(s, x)[Len(s) + 1] = x
      /\ \A i \in 1 .. Len(s) : Append(s, x)[i] = s[i]
  OBVIOUS
<1>2. ToSet(Append(s, x)) = ToSet(s) \cup {x}
  BY <1>1 DEF ToSet
<1>3. IsInjective(s) /\ x \notin ToSet(s) => IsInjective(Append(s, x))
  BY <1>1 DEF ToSet, IsInjective
<1> QED  BY <1>1, <1>2, <1>3

LEMMA Taken ==
    ASSUME NEW S, NEW s \in Seq(S), s # <<>>
    PROVE  /\ Tail(s) \in Seq(S) /\ Head(s) \in S /\ Head(s) = s[1] /\ Len(s) >= 1
           /\ Len(Tail(s)) = Len(s) - 1 /\ \A i \in 1 .. Len(s) - 1 : Tail(s)[i] = s[i + 1]
           /\ IsInjective(s) =>
                 IsInjective(Tail(s)) /\ \A i \in 2 .. Len(s) : s[i] # Head(s)
<1>1. /\ Tail(s) \in Seq(S) /\ Head(s) \in S /\ Head(s) = s[1] /\ Len(s) \in Nat /\ Len(s) >= 1
      /\ Len(Tail(s)) = Len(s) - 1 /\ \A i \in 1 .. Len(s) - 1 : Tail(s)[i] = s[i + 1]
      /\ DOMAIN s = 1 .. Len(s) /\ DOMAIN Tail(s) = 1 .. Len(s) - 1
  OBVIOUS
<1>2. ASSUME IsInjective(s)
      PROVE  IsInjective(Tail(s)) /\ \A i \in 2 .. Len(s) : s[i] # Head(s)
  BY <1>1, <1>2 DEF IsInjective
<1> QED  BY <1>1, <1>2

LEMMA Member == ASSUME NEW S, NEW s \in Seq(S), NEW i \in 1 .. Len(s) PROVE s[i] \in S
OBVIOUS

LEMMA Replaced ==
    ASSUME NEW S, NEW s \in Seq(S), NEW i \in 1 .. Len(s), NEW x \in S
    PROVE  /\ [s EXCEPT ![i] = x] \in Seq(S) /\ Len([s EXCEPT ![i] = x]) = Len(s)
           /\ \A j \in 1 .. Len(s) : [s EXCEPT ![i] = x][j] = IF j = i THEN x ELSE s[j]
OBVIOUS

LEMMA WithinRange ==
    ASSUME NEW S, NEW T, NEW s \in Seq(S), ToSet(s) \subseteq T
    PROVE  s \in Seq(T)
<1>1. Len(s) \in Nat /\ DOMAIN s = 1 .. Len(s) /\ s = [i \in 1 .. Len(s) |-> s[i]]
  OBVIOUS
<1>2. \A i \in 1 .. Len(s) : s[i] \in T
  BY <1>1 DEF ToSet
<1>3. s \in [1 .. Len(s) -> T]
  BY <1>1, <1>2
<1> QED  BY <1>1, <1>3, SeqDef

LEMMA NearestIsIn ==
    ASSUME Graph, NEW v \in Int, NEW S, S \subseteq Ids, S # {}
    PROVE  Nearest(v, S) \in S /\ \A m \in S : Away(v, Nearest(v, S)) <= Away(v, m)
<1>1. \A n \in Ids : Away(v, n) \in Nat
  <2>1. \A n \in Ids : nodes[n] \in [vector : Int, neighbors : Seq(Seq(Nat))]
    BY Member DEF Graph, Ids, Nodes
  <2>2. \A n \in Ids : nodes[n].vector \in Int
    BY <2>1
  <2> QED  BY <2>2 DEF Away, Distance
<1> DEFINE D == {Away(v, n) : n \in S}
<1>2. D \subseteq Nat /\ D # {}
  BY <1>1
<1>3. PICK d \in D : \A e \in D : d <= e
  <2> HIDE DEF D
  <2> QED  BY <1>2, LeastOf
<1>4. \E n \in S : \A m \in S : Away(v, n) <= Away(v, m)
  BY <1>3
<1> QED  BY <1>4 DEF Nearest

LEMMA Typical ==
    ASSUME Graph
    PROVE  /\ New \in Nat /\ Ids \subseteq Nat /\ (nodes # <<>> => New \in Ids)
           /\ \A n \in Ids :
                 /\ LevelOf(n) \in Nat /\ nodes[n].vector \in Int
                 /\ \A lc \in 0 .. LevelOf(n) : Links(n, lc) \in Seq(Nat) /\ Neighbors(n, lc) = Links(n, lc)
<1>1. New \in Nat /\ Ids \subseteq Nat /\ (nodes # <<>> => New \in Ids)
  BY DEF Graph, Nodes, Ids, New
<1>2. ASSUME NEW n \in Ids
      PROVE  /\ LevelOf(n) \in Nat /\ nodes[n].vector \in Int
             /\ \A lc \in 0 .. LevelOf(n) : Links(n, lc) \in Seq(Nat) /\ Neighbors(n, lc) = Links(n, lc)
  <2>1. /\ nodes[n].vector \in Int /\ nodes[n].neighbors \in Seq(Seq(Nat))
        /\ Len(nodes[n].neighbors) \in Nat /\ Len(nodes[n].neighbors) >= 1
    <3>1. nodes[n] \in [vector : Int, neighbors : Seq(Seq(Nat))] /\ Len(nodes[n].neighbors) >= 1
      BY Member DEF Graph, Ids, Nodes
    <3> QED  BY <3>1
  <2>2. LevelOf(n) \in Nat /\ LevelOf(n) + 1 = Len(nodes[n].neighbors)
    BY <2>1 DEF LevelOf
  <2>3. ASSUME NEW lc \in 0 .. LevelOf(n)
        PROVE  Links(n, lc) \in Seq(Nat) /\ Neighbors(n, lc) = Links(n, lc)
    BY <2>1, <2>2 DEF Links, Neighbors
  <2> QED  BY <2>1, <2>2, <2>3
<1> QED  BY <1>1, <1>2

\* A step that leaves the nodes alone.
LEMMA GraphStays ==
    ASSUME Graph, UNCHANGED nodes
    PROVE  /\ Graph' /\ Ids' = Ids /\ New' = New
           /\ \A n : LevelOf(n)' = LevelOf(n)
           /\ \A n, lc : Links(n, lc)' = Links(n, lc)
BY DEF Graph, Ids, New, LevelOf, Links

LEMMA ListsStay ==
    ASSUME Graph, ListsSound, UNCHANGED nodes, pc # "prune" \/ UNCHANGED <<pc, chosen, layer>>
    PROVE  ListsSound'
<1>1. SUFFICES ASSUME NEW n \in Ids, NEW lc \in 0 .. LevelOf(n) PROVE ListSound(n, lc)'
  BY GraphStays DEF ListsSound
<1>2. ListSound(n, lc)
  BY DEF ListsSound
<1>3. (pc = "prune" /\ n = Head(chosen) /\ lc = layer) => (pc = "prune" /\ n = Head(chosen) /\ lc = layer)'
  OBVIOUS
<1>4. Links(n, lc)' = Links(n, lc) /\ Ids' = Ids /\ \A m : LevelOf(m)' = LevelOf(m)
  BY GraphStays
<1> QED  BY <1>2, <1>3, <1>4 DEF ListSound, Longest

\* The nodes with another i-th list for node n.
Relisted(N, n, i, l) == [N EXCEPT ![n].neighbors[i] = l]
DiffersInList(drawn, N, n, i, l) ==
    /\ drawn \in Nodes /\ Len(drawn) = Len(N)
    /\ \A m \in 1 .. Len(N) :
          /\ drawn[m].vector = N[m].vector
          /\ Len(drawn[m].neighbors) = Len(N[m].neighbors)
          /\ \A k \in 1 .. Len(N[m].neighbors) :
                drawn[m].neighbors[k] = IF m = n /\ k = i THEN l ELSE N[m].neighbors[k]

LEMMA ListChanged ==
    ASSUME NEW N \in Nodes, NEW n \in 1 .. Len(N), NEW i \in 1 .. Len(N[n].neighbors), NEW l \in Seq(Nat)
    PROVE  DiffersInList(Relisted(N, n, i, l), N, n, i, l)
<1> DEFINE Node == [vector : Int, neighbors : Seq(Seq(Nat))]
           lists == [N[n].neighbors EXCEPT ![i] = l]
           one == [N[n] EXCEPT !.neighbors = lists]
           drawn == Relisted(N, n, i, l)
<1>1. N \in Seq(Node)
  BY DEF Nodes
<1>2. N[n] \in Node /\ N[n].neighbors \in Seq(Seq(Nat))
  <2>1. N[n] \in Node
    BY <1>1, Member
  <2> QED  BY <2>1
<1>3. /\ lists \in Seq(Seq(Nat)) /\ Len(lists) = Len(N[n].neighbors)
      /\ \A k \in 1 .. Len(N[n].neighbors) : lists[k] = IF k = i THEN l ELSE N[n].neighbors[k]
  BY <1>2, Replaced
<1>4. one \in Node /\ one.neighbors = lists /\ one.vector = N[n].vector
  <2> HIDE DEF lists
  <2> QED  BY <1>2, <1>3
<1>5. drawn = [N EXCEPT ![n] = one]
  BY DEF Relisted
<1> HIDE DEF one, Node, drawn
<1>6. /\ drawn \in Seq(Node) /\ Len(drawn) = Len(N)
      /\ \A m \in 1 .. Len(N) : drawn[m] = IF m = n THEN one ELSE N[m]
  <2>1. /\ [N EXCEPT ![n] = one] \in Seq(Node) /\ Len([N EXCEPT ![n] = one]) = Len(N)
        /\ \A m \in 1 .. Len(N) : [N EXCEPT ![n] = one][m] = IF m = n THEN one ELSE N[m]
    BY <1>1, <1>4, Replaced
  <2> QED  BY <1>5, <2>1
<1> HIDE DEF lists
<1>7. ASSUME NEW m \in 1 .. Len(N)
      PROVE  /\ drawn[m].vector = N[m].vector
             /\ Len(drawn[m].neighbors) = Len(N[m].neighbors)
             /\ \A k \in 1 .. Len(N[m].neighbors) :
                   drawn[m].neighbors[k] = IF m = n /\ k = i THEN l ELSE N[m].neighbors[k]
  <2>1. CASE m = n
    BY <1>3, <1>4, <1>6, <2>1
  <2>2. CASE m # n
    BY <1>6, <2>2
  <2> QED  BY <2>1, <2>2
<1> QED  BY <1>6, <1>7 DEF Node, Nodes, drawn, DiffersInList

\* A step of pc and searching alone keeps what is about the links.
LEMMA StaysLinked ==
    ASSUME Linked, UNCHANGED <<nodes, enter, inserting, targetLevel>>,
           pc # "prune" \/ UNCHANGED <<pc, chosen, layer>>,
           layer' \in Nat, layer' <= layer, layer' < layer \/ (pc' \in {"search", "select"} => pc \in {"search", "select"})
    PROVE  Graph' /\ ListsSound' /\ EnterOnTop' /\ NewAlone' /\ OnLayer \subseteq OnLayer'
<1> USE GraphStays DEF Linked
<1>1. Graph' /\ ListsSound'
  BY ListsStay
<1>2. EnterOnTop'
  BY DEF EnterOnTop
<1>3. NewAlone'
  BY DEF NewAlone, Phases
<1>4. OnLayer \subseteq OnLayer'
  BY Typical DEF OnLayer, Phases
<1> QED  BY <1>1, <1>2, <1>3, <1>4

LEMMA BeginLayerKeeps ==
    ASSUME Linked, NEW lc \in Nat, NEW start, BeginLayer(lc, start),
           UNCHANGED <<nodes, enter, inserting, targetLevel>>, query' \in Int, nodes # <<>>,
           pc # "prune", lc < layer, start \in OnLayer
    PROVE  Linked'
<1>1. /\ pc' = "search" /\ layer' = lc /\ ep' = start
      /\ visited' = {start} /\ results' = {start} /\ candidates' = {start} /\ ahead' = <<>>
  BY DEF BeginLayer
<1>2. layer \in Nat /\ lc <= layer
  BY DEF Linked, Phases
<1>3. Graph' /\ ListsSound' /\ EnterOnTop' /\ NewAlone' /\ OnLayer \subseteq OnLayer'
  BY <1>1, <1>2, StaysLinked
<1>4. Phases'
  BY <1>1, GraphStays DEF Linked, Phases
<1>5. Searching' /\ Selecting' /\ Linking'
  BY <1>1, <1>3 DEF Searching, Selecting, Linking
<1> QED  BY <1>3, <1>4, <1>5 DEF Linked

LEMMA VisitKeeps == ASSUME Linked, Visit PROVE Linked'
<1>1. /\ pc = "search" /\ ahead # <<>> /\ ahead' = Tail(ahead) /\ visited' = visited \cup {Head(ahead)}
      /\ UNCHANGED <<nodes, enter, pc, inserting, query, targetLevel, layer, ep, selected, chosen>>
      /\ \/ UNCHANGED <<candidates, results>>
         \/ /\ Head(ahead) \notin visited /\ candidates' = candidates \cup {Head(ahead)}
            /\ \E n : results' \in {results \cup {Head(ahead)}, (results \cup {Head(ahead)}) \ {n}}
  BY DEF Visit, graphVars, callVars, selectVars
<1>2. Graph' /\ ListsSound' /\ EnterOnTop' /\ NewAlone' /\ OnLayer' = OnLayer
  <2>1. layer \in Nat
    BY DEF Linked, Phases
  <2> QED  BY <1>1, <2>1, StaysLinked, GraphStays DEF Linked, OnLayer
<1>3. Phases' /\ Selecting' /\ Linking'
  BY <1>1, GraphStays DEF Linked, Phases, Selecting, Linking
<1>4. Searching'
  <2>1. /\ results # {} /\ results \subseteq visited /\ results \subseteq OnLayer /\ candidates \subseteq OnLayer
        /\ ahead \in Seq(OnLayer) /\ ep \in OnLayer
    BY <1>1 DEF Linked, Searching
  <2>2. Head(ahead) \in OnLayer /\ Tail(ahead) \in Seq(OnLayer)
    BY <1>1, <2>1, Taken
  <2>3. results' # {} /\ results' \subseteq visited' /\ results' \subseteq OnLayer /\ candidates' \subseteq OnLayer
    BY <1>1, <2>1, <2>2
  <2> QED  BY <1>1, <1>2, <2>1, <2>2, <2>3 DEF Searching
<1> QED  BY <1>2, <1>3, <1>4 DEF Linked

\* On every layer the lists of the nodes that a search meets name nodes that it may meet.
LEMMA ExpandKeeps == ASSUME Linked, Expand PROVE Linked'
<1> DEFINE current == Nearest(query, candidates)
<1>1. /\ pc = "search" /\ candidates # {} /\ candidates' = candidates \ {current}
      /\ ahead' = Neighbors(current, layer)
      /\ UNCHANGED <<nodes, enter, pc, inserting, query, targetLevel, layer, ep, visited, results, selected, chosen>>
  BY DEF Expand, Exhausted, graphVars, callVars, selectVars
<1>2. Graph' /\ ListsSound' /\ EnterOnTop' /\ NewAlone' /\ OnLayer' = OnLayer
  <2>1. layer \in Nat
    BY DEF Linked, Phases
  <2> QED  BY <1>1, <2>1, StaysLinked, GraphStays DEF Linked, OnLayer
<1>3. Phases' /\ Selecting' /\ Linking'
  BY <1>1, GraphStays DEF Linked, Phases, Selecting, Linking
<1>4. Searching'
  <2>1. /\ results # {} /\ results \subseteq visited /\ results \subseteq OnLayer /\ candidates \subseteq OnLayer
        /\ ep \in OnLayer
    BY <1>1 DEF Linked, Searching
  <2>2. current \in candidates
    <3>1. candidates \subseteq Ids /\ query \in Int
      BY <2>1 DEF Linked, Phases, OnLayer
    <3> QED  BY <1>1, <3>1, NearestIsIn DEF Linked
  <2> HIDE DEF current
  <2>3. current \in Ids /\ layer \in 0 .. LevelOf(current)
    BY <2>1, <2>2, Typical DEF Linked, Phases, OnLayer
  <2>4. Neighbors(current, layer) = Links(current, layer) /\ Links(current, layer) \in Seq(Nat)
    BY <2>3, Typical DEF Linked
  <2>5. ToSet(Links(current, layer)) \subseteq {m \in Ids : LevelOf(m) >= layer}
    BY <2>3 DEF Linked, ListsSound, ListSound
  <2>6. inserting => New \notin ToSet(Links(current, layer))
    <3>1. SUFFICES ASSUME inserting PROVE New \notin ToSet(Links(current, layer))
      OBVIOUS
    <3>2. LevelOf(New) = targetLevel /\ layer \in Nat /\ targetLevel \in Nat
      BY <3>1 DEF Linked, Phases
    <3>3. CASE layer > targetLevel
      BY <2>5, <3>2, <3>3
    <3>4. CASE layer <= targetLevel
      <4>1. layer \in 0 .. targetLevel /\ layer <= LevelOf(current)
        BY <2>3, <3>2, <3>4
      <4> QED  BY <1>1, <2>3, <3>1, <4>1 DEF Linked, NewAlone
    <3> QED  BY <3>2, <3>3, <3>4
  <2>7. ToSet(Links(current, layer)) \subseteq OnLayer
    BY <2>5, <2>6 DEF OnLayer
  <2>8. ahead' \in Seq(OnLayer)
    <3>1. Links(current, layer) \in Seq(OnLayer)
      BY <2>4, <2>7, WithinRange
    <3> QED  BY <1>1, <2>4, <3>1 DEF current
  <2> QED  BY <1>1, <1>2, <2>1, <2>8 DEF Searching
<1> QED  BY <1>2, <1>3, <1>4 DEF Linked

LEMMA DescendKeeps == ASSUME Linked, Descend PROVE Linked'
<1>1. /\ pc = "search" /\ layer > targetLevel /\ BeginLayer(layer - 1, Nearest(query, results))
      /\ UNCHANGED <<nodes, enter, inserting, query, targetLevel>>
  BY DEF Descend, LayerSearched, graphVars, callVars
<1>2. layer \in Nat /\ targetLevel \in Nat /\ query \in Int /\ nodes # <<>>
  BY <1>1 DEF Linked, Phases
<1>3. Nearest(query, results) \in OnLayer
  <2>1. results \subseteq OnLayer /\ results # {}
    BY <1>1 DEF Linked, Searching
  <2>2. results \subseteq Ids
    BY <2>1 DEF OnLayer
  <2> QED  BY <1>2, <2>1, <2>2, NearestIsIn DEF Linked
<1>4. layer - 1 \in Nat /\ layer - 1 < layer
  BY <1>1, <1>2
<1> QED  BY <1>1, <1>2, <1>3, <1>4, BeginLayerKeeps

LEMMA NextLayerKeeps == ASSUME Linked, NextLayer PROVE Linked'
<1>1. /\ pc = "link" /\ layer > 0 /\ BeginLayer(layer - 1, ep)
      /\ UNCHANGED <<nodes, enter, inserting, query, targetLevel>>
  BY DEF NextLayer, LayerLinked, graphVars, callVars
<1>2. layer \in Nat /\ targetLevel \in Nat /\ query \in Int /\ nodes # <<>> /\ ep \in OnLayer
  BY <1>1 DEF Linked, Phases, Linking
<1>3. layer - 1 \in Nat /\ layer - 1 < layer
  BY <1>1, <1>2
<1> QED  BY <1>1, <1>2, <1>3, BeginLayerKeeps

LEMMA BeginSelectKeeps == ASSUME HnswAssumption, Linked, BeginSelect PROVE Linked'
<1>1. /\ pc = "search" /\ inserting /\ layer <= targetLevel
      /\ pc' = "select" /\ candidates' = results /\ selected' = <<>>
      /\ UNCHANGED <<nodes, enter, inserting, query, targetLevel, layer, ep, chosen>>
  BY DEF BeginSelect, LayerSearched, graphVars, callVars
<1>2. Graph' /\ ListsSound' /\ EnterOnTop' /\ NewAlone' /\ OnLayer' = OnLayer
  <2>1. layer \in Nat
    BY DEF Linked, Phases
  <2> QED  BY <1>1, <2>1, StaysLinked, GraphStays DEF Linked, OnLayer
<1>3. Phases' /\ Searching' /\ Linking'
  BY <1>1, GraphStays DEF Linked, Phases, Searching, Linking
<1>4. Selecting'
  <2>1. results \subseteq OnLayer /\ ep \in OnLayer
    BY <1>1 DEF Linked, Searching
  <2>2. /\ <<>> \in Seq(OnLayer) /\ IsInjective(<<>>) /\ ToSet(<<>>) = {} /\ Len(<<>>) = 0
    BY DEF IsInjective, ToSet
  <2>3. LayerMax' \in Nat
    BY DEF LayerMax, HnswAssumption
  <2> QED  BY <1>1, <1>2, <2>1, <2>2, <2>3 DEF Selecting
<1> QED  BY <1>2, <1>3, <1>4 DEF Linked

LEMMA SelectKeeps == ASSUME HnswAssumption, Linked, Select PROVE Linked'
<1> DEFINE n == Nearest(Centre, candidates)
           from == IF pc = "select" THEN OnLayer ELSE ToSet(Links(Head(chosen), layer))
<1>1. /\ pc \in {"select", "prune"} /\ candidates # {} /\ Len(selected) < LayerMax
      /\ candidates' = candidates \ {n} /\ selected' \in {selected, Append(selected, n)}
      /\ UNCHANGED <<nodes, enter, pc, inserting, query, targetLevel, layer, ep, chosen>>
  BY DEF Select, graphVars, callVars
<1>2. Graph' /\ ListsSound' /\ EnterOnTop' /\ NewAlone' /\ OnLayer' = OnLayer
  <2>1. layer \in Nat
    BY DEF Linked, Phases
  <2> QED  BY <1>1, <2>1, StaysLinked, GraphStays DEF Linked, OnLayer
<1>3. Phases' /\ Searching'
  BY <1>1, GraphStays DEF Linked, Phases, Searching
<1>4. Linking'
  BY <1>1, <1>2, GraphStays DEF Linked, Linking, LayerMax
<1>5. Selecting'
  <2>1. /\ candidates \subseteq from /\ selected \in Seq(from)
        /\ IsInjective(selected) /\ ToSet(selected) \cap candidates = {}
        /\ ep \in OnLayer
    BY <1>1 DEF Linked, Selecting
  <2>2. from \subseteq Ids
    <3>1. CASE pc = "select"
      BY <3>1 DEF OnLayer
    <3>2. CASE pc = "prune"
      <4>1. chosen \in Seq(OnLayer) /\ chosen # <<>>
        BY <3>2 DEF Linked, Linking
      <4>2. Head(chosen) \in OnLayer
        BY <4>1, Taken
      <4>3. Head(chosen) \in Ids /\ layer \in 0 .. LevelOf(Head(chosen))
        BY <4>2, Typical DEF Linked, Phases, OnLayer
      <4> QED  BY <3>2, <4>3 DEF Linked, ListsSound, ListSound
    <3> QED  BY <1>1, <3>1, <3>2
  <2>3. Centre \in Int
    <3>1. CASE pc = "select"
      BY <3>1 DEF Centre, Linked, Phases
    <3>2. CASE pc = "prune"
      <4>1. chosen \in Seq(OnLayer) /\ chosen # <<>>
        BY <3>2 DEF Linked, Linking
      <4>2. Head(chosen) \in Ids
        BY <4>1, Taken DEF OnLayer
      <4> QED  BY <3>2, <4>2, Typical DEF Centre, Linked
    <3> QED  BY <1>1, <3>1, <3>2
  <2>4. n \in candidates
    BY <1>1, <2>1, <2>2, <2>3, NearestIsIn DEF Linked
  <2>5. from' = from
    BY <1>1, <1>2, GraphStays DEF Linked
  <2> HIDE DEF n, from
  <2>6. n \in from /\ n \notin ToSet(selected)
    BY <2>1, <2>4
  <2>7. /\ Append(selected, n) \in Seq(from) /\ Len(Append(selected, n)) = Len(selected) + 1
        /\ ToSet(Append(selected, n)) = ToSet(selected) \cup {n} /\ IsInjective(Append(selected, n))
    BY <2>1, <2>6, Appended
  <2>8. LayerMax' = LayerMax /\ LayerMax \in Nat /\ Len(selected) \in Nat
    BY <1>1, <2>1 DEF LayerMax, HnswAssumption
  <2>9. /\ candidates' \subseteq from /\ selected' \in Seq(from)
        /\ IsInjective(selected') /\ ToSet(selected') \cap candidates' = {} /\ Len(selected') <= LayerMax'
    <3>1. CASE selected' = selected
      BY <1>1, <2>1, <2>8, <3>1
    <3>2. CASE selected' = Append(selected, n)
      BY <1>1, <2>1, <2>7, <2>8, <3>2
    <3> QED  BY <1>1, <3>1, <3>2
  <2> QED  BY <1>1, <1>2, <2>1, <2>5, <2>9 DEF Selecting, from
<1> QED  BY <1>2, <1>3, <1>4, <1>5 DEF Linked

LEMMA EndSelectKeeps == ASSUME HnswAssumption, Linked, EndSelect PROVE Linked'
<1>1. /\ pc = "select" /\ pc' = "link" /\ chosen' = selected /\ selected' = <<>>
      /\ ep' = IF selected = <<>> THEN ep ELSE selected[1]
      /\ UNCHANGED <<nodes, enter, inserting, query, targetLevel, layer>>
  BY DEF EndSelect, graphVars, callVars
<1>2. Graph' /\ ListsSound' /\ EnterOnTop' /\ NewAlone' /\ OnLayer' = OnLayer
  <2>1. layer \in Nat
    BY DEF Linked, Phases
  <2> QED  BY <1>1, <2>1, StaysLinked, GraphStays DEF Linked, OnLayer
<1>3. Phases' /\ Searching' /\ Selecting'
  BY <1>1, GraphStays DEF Linked, Phases, Searching, Selecting
<1>4. Linking'
  <2>1. /\ selected \in Seq(OnLayer) /\ IsInjective(selected) /\ Len(selected) <= LayerMax /\ ep \in OnLayer
    BY <1>1 DEF Linked, Selecting
  <2>2. ep' \in OnLayer
    BY <1>1, <2>1
  <2>3. inserting /\ layer \in 0 .. targetLevel /\ layer \in Nat
    BY <1>1 DEF Linked, Phases
  <2>4. /\ Links(New, layer) = <<>>
        /\ \A n \in Ids : layer <= LevelOf(n) => New \notin ToSet(Links(n, layer))
    BY <1>1, <2>3 DEF Linked, NewAlone
  <2>5. ASSUME NEW i \in 1 .. Len(selected)
        PROVE  selected[i] \notin ToSet(Links(New, layer)) /\ New \notin ToSet(Links(selected[i], layer))
    <3>1. selected[i] \in OnLayer
      BY <2>1
    <3>2. selected[i] \in Ids /\ layer <= LevelOf(selected[i])
      BY <3>1 DEF OnLayer
    <3>3. ToSet(Links(New, layer)) = {}
      BY <2>4 DEF ToSet
    <3> QED  BY <2>4, <3>2, <3>3
  <2>6. Len(Links(New, layer)) + Len(selected) <= LayerMax
    <3>1. Len(Links(New, layer)) = 0 /\ Len(selected) \in Nat
      BY <2>1, <2>4
    <3> QED  BY <2>1, <3>1
  <2>7. LayerMax' = LayerMax /\ New' = New /\ (\A n, lc : Links(n, lc)' = Links(n, lc))
    BY <1>1, GraphStays DEF Linked, LayerMax
  <2>8. LayerMax \in Nat
    BY DEF LayerMax, HnswAssumption
  <2>9. Len(Links(New, layer))' + Len(chosen)' <= LayerMax' + 0
    BY <1>1, <2>6, <2>7, <2>8
  <2> QED  BY <1>1, <1>2, <2>1, <2>2, <2>5, <2>7, <2>9 DEF Linking
<1> QED  BY <1>2, <1>3, <1>4 DEF Linked

\* The calls that add no node, and the ends of calls.
LEMMA OthersKeep ==
    ASSUME Linked, HnswAssumption,
           EndInsert \/ (\E v \in Vectors : BeginQuery(v)) \/ EndQuery \/ GiveAnswer
              \/ (\E k \in VectorKeys : RemoveVector(k)) \/ UNCHANGED indexVars
    PROVE  Linked'
<1>1. ASSUME EndInsert PROVE Linked'
  <2>1. /\ pc = "link" /\ layer = 0 /\ enter' = (IF targetLevel > LevelOf(enter) THEN New ELSE enter)
        /\ pc' = "idle" /\ inserting' = FALSE /\ query' = 0 /\ targetLevel' = 0 /\ layer' = 0 /\ UNCHANGED nodes
    BY <1>1 DEF EndInsert, LayerLinked, Return
  <2>2. Graph' /\ ListsSound'
    BY <2>1, GraphStays, ListsStay DEF Linked
  <2>3. EnterOnTop'
    <3>1. inserting /\ nodes # <<>> /\ LevelOf(New) = targetLevel
      BY <2>1 DEF Linked, Phases
    <3>2. /\ New \in Ids /\ enter \in Ids
          /\ \A n \in Ids : LevelOf(n) <= LevelOf(enter) \/ n = New
      BY <3>1, Typical DEF Linked, EnterOnTop
    <3>3. \A n \in Ids : LevelOf(n) \in Nat
      BY Typical DEF Linked
    <3> QED  BY <2>1, <3>1, <3>2, <3>3, GraphStays DEF EnterOnTop, Linked
  <2>4. Phases'
    <3>1. pc' = "idle" /\ ~ inserting' /\ query' \in Int /\ targetLevel' \in Nat /\ layer' \in Nat
      BY <2>1
    <3>2. inserting' \in BOOLEAN
      BY <2>1
    <3> QED  BY <3>1, <3>2 DEF Phases
  <2> QED  BY <2>1, <2>2, <2>3, <2>4 DEF Linked, NewAlone, Searching, Selecting, Linking
<1>2. ASSUME NEW v \in Vectors, BeginQuery(v) PROVE Linked'
  <2>1. /\ pc = "idle" /\ nodes # <<>> /\ query' = v /\ BeginLayer(LevelOf(enter), enter)
        /\ UNCHANGED <<nodes, enter, inserting, targetLevel>>
    BY <1>2 DEF BeginQuery, graphVars
  <2>2. /\ pc' = "search" /\ layer' = LevelOf(enter) /\ ep' = enter
        /\ visited' = {enter} /\ results' = {enter} /\ candidates' = {enter} /\ ahead' = <<>>
    BY <2>1 DEF BeginLayer
  <2>3. ~ inserting /\ targetLevel \in Nat /\ v \in Int
    BY <2>1 DEF Linked, Phases, HnswAssumption
  <2>4. Graph' /\ ListsSound' /\ EnterOnTop'
    BY <2>1, GraphStays, ListsStay DEF Linked, EnterOnTop
  <2>5. enter \in Ids /\ LevelOf(enter) \in Nat
    BY <2>1, Typical DEF Linked, EnterOnTop
  <2>6. enter \in OnLayer'
    BY <2>1, <2>2, <2>3, <2>5, GraphStays DEF OnLayer, Linked
  <2>7. Phases'
    BY <2>1, <2>2, <2>3, <2>5, GraphStays DEF Linked, Phases
  <2>8. Searching'
    BY <2>2, <2>6 DEF Searching
  <2> QED  BY <2>1, <2>2, <2>3, <2>4, <2>7, <2>8 DEF Linked, NewAlone, Selecting, Linking
<1>3. ASSUME EndQuery \/ GiveAnswer PROVE Linked'
  <2>1. /\ pc # "prune" /\ pc' \in {"idle", "found"} /\ UNCHANGED <<nodes, enter>> /\ nodes # <<>>
        /\ ~ inserting /\ inserting' = FALSE
        /\ query' \in Int /\ targetLevel' \in Nat /\ layer' \in Nat
    BY <1>3 DEF EndQuery, GiveAnswer, LayerSearched, Return, graphVars, callVars, Linked, Phases
  <2>2. Graph' /\ ListsSound' /\ EnterOnTop'
    BY <2>1, GraphStays, ListsStay DEF Linked, EnterOnTop
  <2> QED  BY <2>1, <2>2 DEF Linked, Phases, NewAlone, Searching, Selecting, Linking
<1>4. ASSUME (\E k \in VectorKeys : RemoveVector(k)) \/ UNCHANGED indexVars PROVE Linked'
  <2>1. UNCHANGED <<nodes, enter, pc, inserting, query, targetLevel, layer, ep, visited, results, ahead,
                    candidates, selected, chosen>>
    BY <1>4 DEF RemoveVector, indexVars, graphVars, callVars, layerVars, selectVars
  <2>2. Graph' /\ ListsSound' /\ EnterOnTop' /\ NewAlone' /\ OnLayer' = OnLayer
    <3>1. layer \in Nat
      BY DEF Linked, Phases
    <3> QED  BY <2>1, <3>1, StaysLinked, GraphStays DEF Linked, OnLayer
  <2>3. Phases' /\ Searching' /\ Selecting' /\ Linking'
    BY <2>1, <2>2, GraphStays DEF Linked, Phases, Searching, Selecting, Linking, LayerMax
  <2> QED  BY <2>2, <2>3 DEF Linked
<1> QED  BY <1>1, <1>2, <1>3, <1>4

LEMMA Repeated ==
    ASSUME NEW S, NEW x \in S, NEW n \in Nat
    PROVE  [i \in 1 .. n |-> x] \in Seq(S) /\ Len([i \in 1 .. n |-> x]) = n
OBVIOUS

\* A node is added: nobody's lists name it yet.
LEMMA PutKeeps ==
    ASSUME HnswAssumption, Linked, NEW k \in VectorKeys, PutVector(k)
    PROVE  Linked'
<1> DEFINE Node(v, level) == [vector |-> v, neighbors |-> [i \in 1 .. level + 1 |-> <<>>]]
<1>1. PICK v \in Vectors, level \in RandomLevels :
         /\ nodes' = Append(nodes, Node(v, level))
         /\ IF nodes = <<>>
            THEN enter' = 1 /\ UNCHANGED <<pc, inserting, query, targetLevel, layer>>
            ELSE /\ inserting' = TRUE /\ query' = v /\ targetLevel' = level
                 /\ BeginLayer(LevelOf(enter), enter) /\ UNCHANGED enter
  BY DEF PutVector, callVars
<1>2. pc = "idle" /\ ~ inserting /\ v \in Int /\ level \in Nat
  <2>1. pc = "idle"
    BY DEF PutVector
  <2>2. ~ inserting
    BY <2>1 DEF Linked, Phases
  <2>3. v \in Int /\ level \in Nat
    BY DEF HnswAssumption, RandomLevels
  <2> QED  BY <2>1, <2>2, <2>3
<1>3. /\ Node(v, level) \in [vector : Int, neighbors : Seq(Seq(Nat))]
      /\ Node(v, level).neighbors \in Seq(Seq(Nat)) /\ Len(Node(v, level).neighbors) = level + 1
      /\ \A i \in 1 .. level + 1 : Node(v, level).neighbors[i] = <<>>
  <2>1. [i \in 1 .. level + 1 |-> <<>>] \in Seq(Seq(Nat)) /\ Len([i \in 1 .. level + 1 |-> <<>>]) = level + 1
    <3>1. level + 1 \in Nat /\ <<>> \in Seq(Nat)
      BY <1>2
    <3> QED  BY <3>1, Repeated
  <2> QED  BY <1>2, <2>1
<1> HIDE DEF Node
<1>4. /\ nodes \in Nodes /\ Len(nodes) \in Nat /\ Ids = 1 .. Len(nodes)
      /\ nodes' \in Nodes /\ Len(nodes') = Len(nodes) + 1
      /\ nodes'[Len(nodes) + 1] = Node(v, level) /\ \A n \in Ids : nodes'[n] = nodes[n]
  BY <1>1, <1>3 DEF Linked, Graph, Nodes, Ids
<1>5. /\ Ids' = Ids \cup {New'} /\ New' \notin Ids /\ New' \in Nat
      /\ LevelOf(New)' = level /\ \A lc \in 0 .. level : Links(New, lc)' = <<>>
      /\ \A n \in Ids : LevelOf(n)' = LevelOf(n) /\ \A lc : Links(n, lc)' = Links(n, lc)
  <2>1. Ids' = Ids \cup {New'} /\ New' \notin Ids /\ New' = Len(nodes) + 1
    BY <1>4 DEF Ids, New
  <2>2. LevelOf(New)' = level /\ \A lc \in 0 .. level : Links(New, lc)' = <<>>
    <3>1. nodes'[New'] = Node(v, level)
      BY <1>4, <2>1
    <3>2. LevelOf(New)' = level
      BY <1>2, <1>3, <3>1 DEF LevelOf
    <3>3. ASSUME NEW lc \in 0 .. level PROVE Links(New, lc)' = <<>>
      <4>1. lc + 1 \in 1 .. level + 1
        BY <1>2
      <4> QED  BY <1>3, <3>1, <4>1 DEF Links
    <3> QED  BY <3>2, <3>3
  <2>3. \A n \in Ids : LevelOf(n)' = LevelOf(n) /\ \A lc : Links(n, lc)' = Links(n, lc)
    BY <1>4 DEF LevelOf, Links
  <2> QED  BY <1>4, <2>1, <2>2, <2>3
<1>6. Graph'
  <2>1. ASSUME NEW n \in Ids' PROVE Len(nodes'[n].neighbors) >= 1
    <3>1. CASE n \in Ids
      BY <1>4, <3>1 DEF Linked, Graph
    <3>2. CASE n = Len(nodes) + 1
      BY <1>2, <1>3, <1>4, <3>2
    <3> QED  BY <1>4, <1>5, <3>1, <3>2 DEF New
  <2> QED  BY <1>4, <2>1 DEF Graph
<1>7. ListsSound'
  <2>1. SUFFICES ASSUME NEW n \in Ids', NEW lc \in 0 .. LevelOf(n)' PROVE ListSound(n, lc)'
    BY DEF ListsSound
  <2>2. CASE n \in Ids
    <3>1. ListSound(n, lc) /\ Links(n, lc)' = Links(n, lc)
      BY <1>5, <2>2 DEF Linked, ListsSound
    <3>2. ToSet(Links(n, lc)) \subseteq {m \in Ids' : m # n /\ LevelOf(m)' >= lc}
      BY <1>5, <3>1 DEF ListSound
    <3> QED  BY <1>2, <3>1, <3>2 DEF ListSound, Longest
  <2>3. CASE n = New'
    <3>1. Links(n, lc)' = <<>>
      BY <1>5, <2>3
    <3>2. ToSet(<<>>) = {} /\ IsInjective(<<>>) /\ Len(<<>>) <= Longest(lc)
      BY DEF ToSet, IsInjective, Longest, HnswAssumption
    <3> QED  BY <3>1, <3>2 DEF ListSound, Longest
  <2> QED  BY <1>5, <2>2, <2>3
<1>8. CASE nodes = <<>>
  <2>1. enter' = 1 /\ New' = 1 /\ Ids = {} /\ UNCHANGED <<pc, inserting, query, targetLevel, layer>>
    BY <1>1, <1>4, <1>8 DEF New, Ids
  <2>2. EnterOnTop'
    BY <1>2, <1>5, <2>1 DEF EnterOnTop
  <2> QED  BY <1>2, <1>6, <1>7, <2>1, <2>2 DEF Linked, Phases, NewAlone, Searching, Selecting, Linking
<1>9. CASE nodes # <<>>
  <2>1. /\ inserting' = TRUE /\ query' = v /\ targetLevel' = level /\ UNCHANGED enter
        /\ pc' = "search" /\ layer' = LevelOf(enter) /\ ep' = enter
        /\ visited' = {enter} /\ results' = {enter} /\ candidates' = {enter} /\ ahead' = <<>>
    BY <1>1, <1>9 DEF BeginLayer
  <2>2. enter \in Ids /\ (\A n \in Ids : LevelOf(n) <= LevelOf(enter)) /\ LevelOf(enter) \in Nat
    BY <1>2, <1>9, Typical DEF Linked, EnterOnTop
  <2>3. EnterOnTop'
    BY <1>5, <2>1, <2>2 DEF EnterOnTop
  <2>4. Phases'
    BY <1>2, <1>4, <1>5, <2>1, <2>2 DEF Phases
  <2>5. NewAlone'
    <3>1. SUFFICES ASSUME NEW lc \in 0 .. level
                   PROVE  /\ Links(New, lc)' = <<>>
                          /\ \A n \in Ids' : lc <= LevelOf(n)' => New' \notin ToSet(Links(n, lc))'
      BY <2>1 DEF NewAlone
    <3>2. Links(New, lc)' = <<>>
      BY <1>5
    <3>3. ASSUME NEW n \in Ids, lc <= LevelOf(n) PROVE New' \notin ToSet(Links(n, lc))
      <4>1. lc \in 0 .. LevelOf(n)
        BY <1>2, <3>3, Typical DEF Linked
      <4> QED  BY <1>5, <4>1 DEF Linked, ListsSound, ListSound
    <3>4. ToSet(<<>>) = {}
      BY DEF ToSet
    <3> QED  BY <1>5, <3>2, <3>3, <3>4
  <2>6. enter \in OnLayer'
    BY <1>5, <2>1, <2>2 DEF OnLayer
  <2>7. Searching'
    BY <2>1, <2>6 DEF Searching
  <2> QED  BY <1>6, <1>7, <2>1, <2>3, <2>4, <2>5, <2>7 DEF Linked, Selecting, Linking
<1> QED  BY <1>8, <1>9

\* What linking finds: both lists and that the new node and the chosen one are not in them.
LEMMA LinkFinds ==
    ASSUME HnswAssumption, Linked, pc \in {"link", "prune"}, chosen # <<>>
    PROVE  /\ New \in Ids /\ Head(chosen) \in Ids /\ Head(chosen) # New /\ New \in Nat
           /\ layer \in 0 .. targetLevel /\ LevelOf(New) = targetLevel
           /\ layer \in 0 .. LevelOf(New) /\ layer \in 0 .. LevelOf(Head(chosen))
           /\ inserting /\ nodes # <<>> /\ Head(chosen) \in OnLayer
<1>1. /\ inserting /\ layer <= targetLevel /\ nodes # <<>> /\ layer \in Nat /\ targetLevel \in Nat /\ LevelOf(New) = targetLevel
  BY DEF Linked, Phases
<1>2. Head(chosen) \in OnLayer
  BY Taken DEF Linked, Linking
<1>3. /\ New \in Ids /\ New \in Nat /\ Head(chosen) \in Ids /\ Head(chosen) # New
      /\ LevelOf(Head(chosen)) >= layer /\ LevelOf(Head(chosen)) \in Nat
  BY <1>1, <1>2, Typical DEF OnLayer, Linked
<1> QED  BY <1>1, <1>2, <1>3

\* Linking the new node and the chosen one, each at the other's end.
LEMMA LinkedLists ==
    ASSUME HnswAssumption, Linked, Link
    PROVE  /\ Graph' /\ Ids' = Ids /\ New' = New
           /\ \A m \in Ids :
                 /\ LevelOf(m)' = LevelOf(m) /\ Vec(m)' = Vec(m)
                 /\ \A k \in 0 .. LevelOf(m) :
                       Links(m, k)' =
                          IF k = layer /\ m = New THEN Append(Links(New, layer), Head(chosen))
                          ELSE IF k = layer /\ m = Head(chosen) THEN Append(Links(m, layer), New)
                          ELSE Links(m, k)
<1> DEFINE n == Head(chosen)
           there == Append(Links(New, layer), n)
           back == Append(Links(n, layer), New)
           half == Relisted(nodes, New, layer + 1, there)
<1>1. /\ New \in Ids /\ n \in Ids /\ n # New /\ New \in Nat /\ n \in Nat
      /\ layer \in 0 .. LevelOf(New) /\ layer \in 0 .. LevelOf(n)
  BY LinkFinds, Typical DEF Link, Linked
<1>2. /\ Links(New, layer) \in Seq(Nat) /\ Links(n, layer) \in Seq(Nat)
      /\ there \in Seq(Nat) /\ back \in Seq(Nat)
  BY <1>1, Typical, Appended DEF Linked
<1>3. /\ nodes \in Nodes /\ Ids = 1 .. Len(nodes)
      /\ \A m \in Ids : LevelOf(m) \in Nat /\ LevelOf(m) + 1 = Len(nodes[m].neighbors)
                        /\ Len(nodes[m].neighbors) >= 1
  <2>1. \A m \in Ids : LevelOf(m) \in Nat /\ Len(nodes[m].neighbors) >= 1
    BY Typical DEF Linked, Graph
  <2>2. \A m \in Ids : nodes[m] \in [vector : Int, neighbors : Seq(Seq(Nat))]
    BY Member DEF Linked, Graph, Nodes, Ids
  <2>3. \A m \in Ids : Len(nodes[m].neighbors) \in Nat
    BY <2>2
  <2> QED  BY <2>1, <2>3 DEF LevelOf, Ids, Linked, Graph
<1>4. nodes' = Relisted(half, n, layer + 1, back)
  <2>1. nodes' = [nodes EXCEPT ![New].neighbors[layer + 1] = Append(@, n), ![n].neighbors[layer + 1] = back]
    BY DEF Link, Links
  <2> QED  BY <2>1 DEF Links, Relisted
<1> HIDE DEF there, back
<1>5. /\ half \in Nodes /\ Len(half) = Len(nodes)
      /\ \A m \in Ids :
            /\ Len(half[m].neighbors) = Len(nodes[m].neighbors) /\ half[m].vector = nodes[m].vector
            /\ \A k \in 1 .. Len(nodes[m].neighbors) :
                  half[m].neighbors[k] = IF m = New /\ k = layer + 1 THEN there ELSE nodes[m].neighbors[k]
  <2>1. nodes \in Nodes /\ New \in 1 .. Len(nodes) /\ layer + 1 \in 1 .. Len(nodes[New].neighbors)
    BY <1>1, <1>3
  <2>2. DiffersInList(half, nodes, New, layer + 1, there)
    BY <1>2, <2>1, ListChanged
  <2> HIDE DEF half
  <2> QED  BY <1>3, <2>2 DEF DiffersInList
<1> HIDE DEF half
<1>6. /\ nodes' \in Nodes /\ Len(nodes') = Len(nodes)
      /\ \A m \in Ids :
            /\ Len(nodes'[m].neighbors) = Len(nodes[m].neighbors) /\ nodes'[m].vector = half[m].vector
            /\ \A k \in 1 .. Len(nodes[m].neighbors) :
                  nodes'[m].neighbors[k] = IF m = n /\ k = layer + 1 THEN back ELSE half[m].neighbors[k]
  <2>1. half \in Nodes /\ n \in 1 .. Len(half) /\ layer + 1 \in 1 .. Len(half[n].neighbors)
    BY <1>1, <1>3, <1>5
  <2>2. DiffersInList(nodes', half, n, layer + 1, back)
    BY <1>2, <1>4, <2>1, ListChanged
  <2> QED  BY <1>3, <1>5, <2>2 DEF DiffersInList
<1>7. Ids' = Ids /\ New' = New
  BY <1>6 DEF Ids, New
<1>8. Graph'
  BY <1>3, <1>6, <1>7 DEF Graph
<1>9. ASSUME NEW m \in Ids
      PROVE  /\ LevelOf(m)' = LevelOf(m) /\ Vec(m)' = Vec(m)
             /\ \A k \in 0 .. LevelOf(m) :
                   Links(m, k)' = IF k = layer /\ m = New THEN there
                                  ELSE IF k = layer /\ m = n THEN back ELSE Links(m, k)
  <2>1. LevelOf(m)' = LevelOf(m) /\ Vec(m)' = Vec(m)
    BY <1>5, <1>6 DEF LevelOf, Vec
  <2>2. ASSUME NEW k \in 0 .. LevelOf(m)
        PROVE  Links(m, k)' = IF k = layer /\ m = New THEN there
                              ELSE IF k = layer /\ m = n THEN back ELSE Links(m, k)
    <3>1. k + 1 \in 1 .. Len(nodes[m].neighbors) /\ (k + 1 = layer + 1 <=> k = layer)
      BY <1>1, <1>3
    <3>2. /\ half[m].neighbors[k + 1] = (IF m = New /\ k = layer THEN there ELSE nodes[m].neighbors[k + 1])
          /\ nodes'[m].neighbors[k + 1] = (IF m = n /\ k = layer THEN back ELSE half[m].neighbors[k + 1])
      BY <1>5, <1>6, <3>1
    <3> QED  BY <1>1, <3>2 DEF Links
  <2> QED  BY <2>1, <2>2
<1> QED  BY <1>7, <1>8, <1>9 DEF there, back

LEMMA LinkKeeps == ASSUME HnswAssumption, Linked, Link PROVE Linked'
<1> DEFINE n == Head(chosen)
           there == Append(Links(New, layer), n)
           back == Append(Links(n, layer), New)
<1>1. /\ pc = "link" /\ chosen # <<>>
      /\ UNCHANGED <<enter, inserting, query, targetLevel, layer, ep, selected>>
      /\ IF Len(back) > LayerMax
         THEN pc' = "prune" /\ candidates' = ToSet(back) /\ UNCHANGED chosen
         ELSE chosen' = Tail(chosen) /\ UNCHANGED <<pc, candidates>>
  BY DEF Link, callVars, layerVars, Links
<1>2. /\ New \in Ids /\ n \in Ids /\ n # New /\ New \in Nat /\ n \in Nat
      /\ layer \in 0 .. targetLevel /\ layer \in Nat /\ targetLevel \in Nat /\ LevelOf(New) = targetLevel
      /\ layer \in 0 .. LevelOf(New) /\ layer \in 0 .. LevelOf(n)
      /\ inserting /\ nodes # <<>>
  BY <1>1, LinkFinds, Typical DEF Linked, Phases
<1>3. /\ Graph' /\ Ids' = Ids /\ New' = New
      /\ \A m \in Ids :
            /\ LevelOf(m)' = LevelOf(m)
            /\ \A k \in 0 .. LevelOf(m) :
                  Links(m, k)' = IF k = layer /\ m = New THEN there
                                 ELSE IF k = layer /\ m = n THEN back ELSE Links(m, k)
  BY LinkedLists
<1>4. /\ chosen \in Seq(OnLayer) /\ IsInjective(chosen) /\ ep \in OnLayer
      /\ \A i \in 1 .. Len(chosen) :
            chosen[i] \notin ToSet(Links(New, layer)) /\ New \notin ToSet(Links(chosen[i], layer))
      /\ Len(Links(New, layer)) + Len(chosen) <= LayerMax + 0
      /\ selected = <<>>
  <2>1. /\ chosen \in Seq(OnLayer) /\ IsInjective(chosen) /\ ep \in OnLayer /\ selected = <<>>
    BY <1>1 DEF Linked, Linking
  <2>2. /\ \A i \in 1 .. Len(chosen) :
              chosen[i] \notin ToSet(Links(New, layer)) /\ New \notin ToSet(Links(chosen[i], layer))
        /\ Len(Links(New, layer)) + Len(chosen) <= LayerMax + 0
    BY <1>1 DEF Linked, Linking
  <2> QED  BY <2>1, <2>2
<1>5. /\ Tail(chosen) \in Seq(OnLayer) /\ n = chosen[1] /\ Len(chosen) >= 1 /\ Len(chosen) \in Nat
      /\ Len(Tail(chosen)) = Len(chosen) - 1 /\ IsInjective(Tail(chosen))
      /\ \A i \in 1 .. Len(chosen) - 1 : Tail(chosen)[i] = chosen[i + 1]
      /\ \A i \in 2 .. Len(chosen) : chosen[i] # n
  BY <1>1, <1>4, Taken
<1>6. /\ Links(New, layer) \in Seq(Nat) /\ Links(n, layer) \in Seq(Nat)
      /\ Len(Links(New, layer)) \in Nat /\ Len(Links(n, layer)) \in Nat
  BY <1>2, Typical DEF Linked
<1>7. n \notin ToSet(Links(New, layer)) /\ New \notin ToSet(Links(n, layer))
  BY <1>4, <1>5
<1>8. /\ there \in Seq(Nat) /\ Len(there) = Len(Links(New, layer)) + 1
      /\ ToSet(there) = ToSet(Links(New, layer)) \cup {n}
      /\ IsInjective(Links(New, layer)) => IsInjective(there)
  BY <1>2, <1>6, <1>7, Appended
<1>9. /\ back \in Seq(Nat) /\ Len(back) = Len(Links(n, layer)) + 1
      /\ ToSet(back) = ToSet(Links(n, layer)) \cup {New}
      /\ IsInjective(Links(n, layer)) => IsInjective(back)
  BY <1>2, <1>6, <1>7, Appended
<1>10. LayerMax \in Nat /\ LayerMax = Longest(layer) /\ LayerMax' = LayerMax
  BY <1>1 DEF LayerMax, Longest, HnswAssumption
<1> HIDE DEF there, back, n
<1>11. ListsSound'
  <2>1. SUFFICES ASSUME NEW m \in Ids, NEW k \in 0 .. LevelOf(m) PROVE ListSound(m, k)'
    BY <1>3 DEF ListsSound
  <2>2. /\ ToSet(Links(m, k)) \subseteq {o \in Ids : o # m /\ LevelOf(o) >= k}
        /\ IsInjective(Links(m, k)) /\ Len(Links(m, k)) <= Longest(k)
    BY <1>1 DEF Linked, ListsSound, ListSound
  <2>3. {o \in Ids : o # m /\ LevelOf(o) >= k} = {o \in Ids' : o # m /\ LevelOf(o)' >= k}
    BY <1>3
  <2>4. CASE k = layer /\ m = New
    <3>1. Links(m, k)' = there
      BY <1>3, <2>4
    <3>2. ToSet(there) \subseteq {o \in Ids : o # m /\ LevelOf(o) >= k}
      BY <1>2, <1>8, <2>2, <2>4
    <3>3. IsInjective(there) /\ Len(there) <= Longest(k)
      BY <1>4, <1>5, <1>6, <1>8, <1>10, <2>2, <2>4
    <3> QED  BY <2>3, <3>1, <3>2, <3>3 DEF ListSound, Longest
  <2>5. CASE k = layer /\ m = n
    <3>1. Links(m, k)' = back
      BY <1>2, <1>3, <2>5
    <3>2. ToSet(back) \subseteq {o \in Ids : o # m /\ LevelOf(o) >= k}
      BY <1>2, <1>9, <2>2, <2>5
    <3>3. IsInjective(back)
      BY <1>9, <2>2, <2>5
    <3>4. Len(back) <= Longest(k) \/ (pc' = "prune" /\ m = Head(chosen') /\ k = layer')
      BY <1>1, <1>9, <1>6, <1>10, <2>5 DEF n
    <3> QED  BY <2>3, <3>1, <3>2, <3>3, <3>4 DEF ListSound, Longest
  <2>6. CASE k # layer \/ (m # New /\ m # n)
    <3>1. Links(m, k)' = Links(m, k)
      BY <1>3, <2>6
    <3> QED  BY <2>2, <2>3, <3>1 DEF ListSound, Longest
  <2> QED  BY <2>4, <2>5, <2>6
<1>12. EnterOnTop'
  BY <1>1, <1>2, <1>3 DEF Linked, EnterOnTop
<1>13. nodes' # <<>>
  BY <1>2, <1>3 DEF Ids
<1>14. Phases'
  <2>1. pc' \in {"link", "prune"}
    BY <1>1
  <2>2. enter # New /\ query \in Int /\ inserting \in BOOLEAN
    BY <1>2 DEF Linked, Phases
  <2> QED  BY <1>1, <1>2, <1>3, <1>13, <2>1, <2>2 DEF Phases
<1>15. NewAlone'
  <2>1. SUFFICES ASSUME NEW lc \in 0 .. targetLevel, lc < layer
                 PROVE  /\ Links(New, lc)' = <<>>
                        /\ \A m \in Ids : lc <= LevelOf(m)' => New \notin ToSet(Links(m, lc))'
    BY <1>1, <1>3 DEF NewAlone
  <2>2. Links(New, lc) = <<>> /\ \A m \in Ids : lc <= LevelOf(m) => New \notin ToSet(Links(m, lc))
    BY <1>2, <2>1 DEF Linked, NewAlone
  <2>3. \A m \in Ids : lc <= LevelOf(m) => Links(m, lc)' = Links(m, lc)
    <3>1. \A m \in Ids : lc <= LevelOf(m) => lc \in 0 .. LevelOf(m)
      BY <1>2, Typical DEF Linked
    <3> QED  BY <1>2, <1>3, <2>1, <3>1
  <2>4. lc <= LevelOf(New)
    BY <1>2
  <2> QED  BY <1>2, <1>3, <2>2, <2>3, <2>4
<1>16. OnLayer' = OnLayer
  BY <1>1, <1>3 DEF OnLayer
<1>17. Searching'
  BY <1>1 DEF Searching
<1>18. ASSUME NEW i \in 2 .. Len(chosen)
       PROVE  /\ chosen[i] \notin ToSet(there)
              /\ \A m \in Ids : m = chosen[i] => New \notin ToSet(Links(m, layer)')
  <2>1. i \in 1 .. Len(chosen) /\ chosen[i] \in OnLayer /\ chosen[i] # n
    BY <1>4, <1>5
  <2>2. ASSUME NEW m \in Ids, m = chosen[i] PROVE New \notin ToSet(Links(m, layer)')
    <3>1. layer \in 0 .. LevelOf(m) /\ m # New /\ m # n
      BY <1>2, <2>1, <2>2, Typical DEF Linked, OnLayer
    <3>2. Links(m, layer)' = Links(m, layer)
      BY <1>1, <1>3, <3>1
    <3> QED  BY <1>4, <2>1, <2>2, <3>2
  <2> QED  BY <1>4, <1>8, <2>1, <2>2
<1>19. Links(New, layer)' = there
  BY <1>1, <1>2, <1>3
<1>20. CASE Len(back) > LayerMax
  <2>1. pc' = "prune" /\ candidates' = ToSet(back) /\ chosen' = chosen
    BY <1>1, <1>20
  <2>2. Linking'
    <3>1. Len(there) + Len(chosen') <= LayerMax' + 1
      BY <1>4, <1>5, <1>6, <1>8, <1>10, <2>1
    <3>2. ASSUME NEW i \in 2 .. Len(chosen')
          PROVE  /\ chosen'[i] \notin ToSet(Links(New, layer)')
                 /\ New' \notin ToSet(Links(chosen[i], layer)')
      <4>1. i \in 2 .. Len(chosen) /\ chosen[i] \in Ids
        BY <1>4, <2>1 DEF OnLayer
      <4> QED  BY <1>3, <1>18, <1>19, <2>1, <4>1
    <3>3. Len(Links(New, layer)') + Len(chosen') <= LayerMax' + 1
      BY <1>19, <3>1
    <3> QED  BY <1>1, <1>4, <1>16, <2>1, <3>2, <3>3 DEF Linking
  <2>3. Selecting'
    <3>1. Links(Head(chosen), layer)' = back
      BY <1>1, <1>2, <1>3, <2>1 DEF n
    <3> QED  BY <1>1, <1>4, <1>10, <1>16, <2>1, <3>1 DEF Selecting, ToSet, IsInjective
  <2> QED  BY <1>3, <1>11, <1>12, <1>14, <1>15, <1>17, <2>2, <2>3 DEF Linked
<1>21. CASE Len(back) <= LayerMax
  <2>1. pc' = "link" /\ chosen' = Tail(chosen)
    BY <1>1, <1>9, <1>6, <1>10, <1>21
  <2>2. Linking'
    <3>1. Len(there) + Len(chosen') <= LayerMax'
      BY <1>4, <1>5, <1>6, <1>8, <1>10, <2>1
    <3>2. ASSUME NEW i \in 1 .. Len(chosen')
          PROVE  /\ chosen'[i] \notin ToSet(Links(New, layer)')
                 /\ New' \notin ToSet(nodes'[chosen'[i]].neighbors[layer' + 1])
      <4>1. i + 1 \in 2 .. Len(chosen) /\ chosen'[i] = chosen[i + 1]
        BY <1>5, <2>1
      <4>2. chosen[i + 1] \in Ids
        BY <1>4, <1>5, <4>1 DEF OnLayer
      <4> QED  BY <1>3, <1>18, <1>19, <4>1, <4>2 DEF Links
    <3>3. /\ chosen' \in Seq(OnLayer') /\ IsInjective(chosen') /\ ep' \in OnLayer' /\ selected' = <<>>
      BY <1>1, <1>4, <1>5, <1>16, <2>1
    <3>4. Len(Links(New, layer)') + Len(chosen') <= LayerMax' + 0
      BY <1>10, <1>19, <1>8, <1>5, <2>1, <3>1
    <3> QED  BY <2>1, <3>2, <3>3, <3>4 DEF Linking, Links
  <2>3. Selecting'
    BY <2>1 DEF Selecting
  <2> QED  BY <1>3, <1>11, <1>12, <1>14, <1>15, <1>17, <2>2, <2>3 DEF Linked
<1>22. Len(back) > LayerMax \/ Len(back) <= LayerMax
  BY <1>9, <1>6, <1>10
<1> QED  BY <1>20, <1>21, <1>22

\* What becomes of the lists when the pruned one is replaced.
LEMMA PrunedLists ==
    ASSUME HnswAssumption, Linked, EndPrune
    PROVE  /\ ToSet(selected) \subseteq ToSet(Links(Head(chosen), layer)) /\ selected \in Seq(Nat)
           /\ Graph' /\ Ids' = Ids /\ New' = New
           /\ \A m \in Ids :
                 /\ LevelOf(m)' = LevelOf(m) /\ Vec(m)' = Vec(m)
                 /\ \A k \in 0 .. LevelOf(m) :
                       Links(m, k)' = IF k = layer /\ m = Head(chosen) THEN selected ELSE Links(m, k)
<1> DEFINE n == Head(chosen)
<1>1. /\ pc = "prune" /\ chosen # <<>>
      /\ nodes' = Relisted(nodes, n, layer + 1, selected)
  BY DEF EndPrune, Relisted, Linked, Linking
<1>2. n \in Ids /\ layer \in 0 .. LevelOf(n)
  BY <1>1, LinkFinds
<1>3. selected \in Seq(ToSet(Links(n, layer)))
  BY <1>1 DEF Linked, Selecting
<1>4. ToSet(Links(n, layer)) \subseteq {m \in Ids : m # n /\ LevelOf(m) >= layer}
  BY <1>2 DEF Linked, ListsSound, ListSound
<1>5. /\ ToSet(selected) \subseteq ToSet(Links(n, layer)) /\ selected \in Seq(Nat)
  <2>1. ToSet(selected) \subseteq ToSet(Links(n, layer))
    <3> DEFINE from == ToSet(Links(n, layer))
    <3>1. selected \in Seq(from)
      BY <1>3
    <3> HIDE DEF from
    <3>2. ToSet(selected) \subseteq from
      BY <3>1 DEF ToSet
    <3> QED  BY <3>2 DEF from
  <2>2. ToSet(selected) \subseteq Nat
    BY <1>4, <2>1, Typical DEF Linked
  <2> QED  BY <1>3, <2>1, <2>2, WithinRange
<1> HIDE DEF n
<1>6. /\ nodes \in Nodes /\ Ids = 1 .. Len(nodes)
       /\ \A m \in Ids : LevelOf(m) \in Nat /\ LevelOf(m) + 1 = Len(nodes[m].neighbors)
  <2>1. \A m \in Ids : nodes[m] \in [vector : Int, neighbors : Seq(Seq(Nat))]
    BY Member DEF Linked, Graph, Nodes, Ids
  <2>2. \A m \in Ids : Len(nodes[m].neighbors) \in Nat
    BY <2>1
  <2> QED  BY <2>2, Typical DEF LevelOf, Ids, Linked, Graph
<1>7. DiffersInList(nodes', nodes, n, layer + 1, selected)
  <2>1. n \in 1 .. Len(nodes) /\ layer + 1 \in 1 .. Len(nodes[n].neighbors)
    BY <1>2, <1>6
  <2> QED  BY <1>1, <1>5, <1>6, <2>1, ListChanged
<1>8. /\ Graph' /\ Ids' = Ids /\ New' = New
       /\ \A m \in Ids :
             /\ LevelOf(m)' = LevelOf(m) /\ Vec(m)' = Vec(m)
             /\ \A k \in 0 .. LevelOf(m) :
                   Links(m, k)' = IF k = layer /\ m = n THEN selected ELSE Links(m, k)
  <2>1. Ids' = Ids /\ New' = New
    BY <1>6, <1>7 DEF Ids, New, DiffersInList
  <2>2. Graph'
    BY <1>6, <1>7, <2>1 DEF Linked, Graph, DiffersInList
  <2>3. ASSUME NEW m \in Ids
        PROVE  /\ LevelOf(m)' = LevelOf(m) /\ Vec(m)' = Vec(m)
               /\ \A k \in 0 .. LevelOf(m) :
                     Links(m, k)' = IF k = layer /\ m = n THEN selected ELSE Links(m, k)
    <3>1. LevelOf(m)' = LevelOf(m) /\ Vec(m)' = Vec(m)
      BY <1>6, <1>7 DEF LevelOf, Vec, DiffersInList
    <3>2. ASSUME NEW k \in 0 .. LevelOf(m)
          PROVE  Links(m, k)' = IF k = layer /\ m = n THEN selected ELSE Links(m, k)
      <4>1. k + 1 \in 1 .. Len(nodes[m].neighbors) /\ (k + 1 = layer + 1 <=> k = layer)
        BY <1>2, <1>6
      <4> QED  BY <1>6, <1>7, <4>1 DEF Links, DiffersInList
    <3> QED  BY <3>1, <3>2
  <2> QED  BY <2>1, <2>2, <2>3
<1> QED  BY <1>5, <1>8 DEF n

LEMMA EndPruneKeeps == ASSUME HnswAssumption, Linked, EndPrune PROVE Linked'
<1> DEFINE n == Head(chosen)
<1>1. /\ pc = "prune" /\ pc' = "link" /\ chosen' = Tail(chosen) /\ selected' = <<>>
      /\ nodes' = Relisted(nodes, n, layer + 1, selected)
      /\ UNCHANGED <<enter, inserting, query, targetLevel, layer, ep>>
  BY DEF EndPrune, callVars, Relisted
<1>2. /\ chosen \in Seq(OnLayer) /\ IsInjective(chosen) /\ ep \in OnLayer /\ chosen # <<>>
      /\ Len(Links(New, layer)) + Len(chosen) <= LayerMax + 1
      /\ \A i \in 2 .. Len(chosen) :
            chosen[i] \notin ToSet(Links(New, layer)) /\ New \notin ToSet(Links(chosen[i], layer))
  BY <1>1 DEF Linked, Linking
<1>3. /\ New \in Ids /\ n \in Ids /\ n # New /\ New \in Nat /\ n \in Nat
      /\ layer \in 0 .. targetLevel /\ layer \in Nat /\ targetLevel \in Nat /\ LevelOf(New) = targetLevel
      /\ layer \in 0 .. LevelOf(New) /\ layer \in 0 .. LevelOf(n)
      /\ inserting /\ nodes # <<>>
  BY <1>1, <1>2, LinkFinds, Typical DEF Linked, Phases
<1>4. /\ Tail(chosen) \in Seq(OnLayer) /\ n = chosen[1] /\ Len(chosen) >= 1 /\ Len(chosen) \in Nat
      /\ Len(Tail(chosen)) = Len(chosen) - 1 /\ IsInjective(Tail(chosen))
      /\ \A i \in 1 .. Len(chosen) - 1 : Tail(chosen)[i] = chosen[i + 1]
      /\ \A i \in 2 .. Len(chosen) : chosen[i] # n
  BY <1>2, Taken
<1>5. Links(n, layer) \in Seq(Nat) /\ Links(New, layer) \in Seq(Nat) /\ Len(Links(New, layer)) \in Nat
  BY <1>3, Typical DEF Linked
<1>6. /\ selected \in Seq(ToSet(Links(n, layer))) /\ IsInjective(selected) /\ Len(selected) <= LayerMax
  BY <1>1 DEF Linked, Selecting
<1>7. ToSet(Links(n, layer)) \subseteq {m \in Ids : m # n /\ LevelOf(m) >= layer}
  BY <1>3 DEF Linked, ListsSound, ListSound
<1>8. ToSet(selected) \subseteq ToSet(Links(n, layer))
  BY PrunedLists
<1>9. LayerMax \in Nat /\ LayerMax = Longest(layer) /\ LayerMax' = LayerMax
  BY <1>1 DEF LayerMax, Longest, HnswAssumption
<1> HIDE DEF n
<1>10. /\ Graph' /\ Ids' = Ids /\ New' = New
       /\ \A m \in Ids :
             /\ LevelOf(m)' = LevelOf(m)
             /\ \A k \in 0 .. LevelOf(m) :
                   Links(m, k)' = IF k = layer /\ m = n THEN selected ELSE Links(m, k)
  BY PrunedLists DEF n
<1>11. ListsSound'
  <2>1. SUFFICES ASSUME NEW m \in Ids, NEW k \in 0 .. LevelOf(m) PROVE ListSound(m, k)'
    BY <1>10 DEF ListsSound
  <2>2. {o \in Ids : o # m /\ LevelOf(o) >= k} = {o \in Ids' : o # m /\ LevelOf(o)' >= k}
    BY <1>10
  <2>3. CASE k = layer /\ m = n
    <3>1. Links(m, k)' = selected
      BY <1>10, <2>3
    <3>2. ToSet(selected) \subseteq {o \in Ids : o # m /\ LevelOf(o) >= k}
      BY <1>7, <1>8, <2>3
    <3> QED  BY <1>6, <1>9, <2>2, <2>3, <3>1, <3>2 DEF ListSound, Longest
  <2>4. CASE k # layer \/ m # n
    <3>1. Links(m, k)' = Links(m, k)
      BY <1>10, <2>4
    <3>2. /\ ToSet(Links(m, k)) \subseteq {o \in Ids : o # m /\ LevelOf(o) >= k}
          /\ IsInjective(Links(m, k)) /\ Len(Links(m, k)) <= Longest(k)
      BY <2>4 DEF Linked, ListsSound, ListSound, n
    <3> QED  BY <2>2, <3>1, <3>2 DEF ListSound, Longest
  <2> QED  BY <2>3, <2>4
<1>12. EnterOnTop'
  BY <1>1, <1>3, <1>10 DEF Linked, EnterOnTop
<1>13. nodes' # <<>>
  BY <1>3, <1>10 DEF Ids
<1>14. Phases'
  <2>1. enter # New /\ query \in Int /\ inserting \in BOOLEAN
    BY <1>3 DEF Linked, Phases
  <2> QED  BY <1>1, <1>3, <1>10, <1>13, <2>1 DEF Phases
<1>15. NewAlone'
  <2>1. SUFFICES ASSUME NEW lc \in 0 .. targetLevel, lc < layer
                 PROVE  /\ Links(New, lc)' = <<>>
                        /\ \A m \in Ids : lc <= LevelOf(m)' => New \notin ToSet(Links(m, lc))'
    BY <1>1, <1>10 DEF NewAlone
  <2>2. Links(New, lc) = <<>> /\ \A m \in Ids : lc <= LevelOf(m) => New \notin ToSet(Links(m, lc))
    BY <1>3, <2>1 DEF Linked, NewAlone
  <2>3. \A m \in Ids : lc <= LevelOf(m) => Links(m, lc)' = Links(m, lc)
    <3>1. \A m \in Ids : lc <= LevelOf(m) => lc \in 0 .. LevelOf(m)
      BY <1>3, Typical DEF Linked
    <3> QED  BY <1>3, <1>10, <2>1, <3>1
  <2>4. lc <= LevelOf(New)
    BY <1>3
  <2> QED  BY <1>3, <1>10, <2>2, <2>3, <2>4
<1>16. OnLayer' = OnLayer
  BY <1>1, <1>10 DEF OnLayer
<1>17. Linking'
  <2>1. Links(New, layer)' = Links(New, layer)
    BY <1>1, <1>3, <1>10
  <2>2. ASSUME NEW i \in 1 .. Len(chosen')
        PROVE  /\ chosen'[i] \notin ToSet(Links(New, layer)')
               /\ New' \notin ToSet(nodes'[chosen'[i]].neighbors[layer' + 1])
    <3>1. i + 1 \in 2 .. Len(chosen) /\ i + 1 \in 1 .. Len(chosen) /\ chosen'[i] = chosen[i + 1]
      BY <1>1, <1>4
    <3>2. chosen[i + 1] \in OnLayer /\ chosen[i + 1] # n
      BY <1>2, <1>4, <3>1
    <3>3. chosen[i + 1] \in Ids /\ layer \in 0 .. LevelOf(chosen[i + 1])
      BY <1>3, <3>2, Typical DEF Linked, OnLayer
    <3>4. nodes'[chosen[i + 1]].neighbors[layer + 1] = Links(chosen[i + 1], layer)
      <4>1. \A m \in Ids : layer \in 0 .. LevelOf(m) /\ m # n =>
               nodes'[m].neighbors[layer + 1] = Links(m, layer)
        BY <1>10 DEF Links
      <4> QED  BY <3>2, <3>3, <4>1
    <3> QED  BY <1>1, <1>2, <1>10, <2>1, <3>1, <3>4
  <2>3. Len(Links(New, layer)') + Len(chosen') <= LayerMax' + 0
    BY <1>1, <1>2, <1>4, <1>5, <1>9, <2>1
  <2>4. chosen' \in Seq(OnLayer') /\ IsInjective(chosen') /\ ep' \in OnLayer'
    BY <1>1, <1>2, <1>4, <1>16
  <2> QED  BY <1>1, <2>2, <2>3, <2>4 DEF Linking, Links
<1> QED  BY <1>1, <1>10, <1>11, <1>12, <1>14, <1>15, <1>17 DEF Linked, Searching, Selecting

LEMMA LinkedKept == ASSUME HnswAssumption, Linked, [IndexNext]_indexVars PROVE Linked'
<1>1. ASSUME NEW k \in VectorKeys, PutVector(k) PROVE Linked'
  BY <1>1, PutKeeps
<1>2. CASE Visit
  BY <1>2, VisitKeeps
<1>3. CASE Expand
  BY <1>3, ExpandKeeps
<1>4. CASE Descend
  BY <1>4, DescendKeeps
<1>5. CASE BeginSelect
  BY <1>5, BeginSelectKeeps
<1>6. CASE Select
  BY <1>6, SelectKeeps
<1>7. CASE EndSelect
  BY <1>7, EndSelectKeeps
<1>8. CASE Link
  BY <1>8, LinkKeeps
<1>9. CASE EndPrune
  BY <1>9, EndPruneKeeps
<1>10. CASE NextLayer
  BY <1>10, NextLayerKeeps
<1> QED
  BY <1>1, <1>2, <1>3, <1>4, <1>5, <1>6, <1>7, <1>8, <1>9, <1>10, OthersKeep DEF IndexNext, CallStep

\* The links of the vector index and of the call under way, in every state (searchLayer,
\* selectHeuristic and insert).
THEOREM InductiveLinks == IndexSpec => []Linked
<1>1. IndexInit => Linked
  <2>1. SUFFICES ASSUME IndexInit PROVE Linked
    OBVIOUS
  <2>2. /\ nodes = <<>> /\ enter = 0 /\ pc = "idle" /\ inserting = FALSE
        /\ query = 0 /\ targetLevel = 0 /\ layer = 0
    BY <2>1 DEF IndexInit
  <2>3. <<>> \in Nodes /\ Ids = {}
    BY <2>2 DEF Nodes, Ids
  <2>4. Phases
    <3>1. inserting \in BOOLEAN /\ ~ inserting
      BY <2>2
    <3> QED  BY <2>2, <3>1 DEF Phases
  <2> QED  BY <2>2, <2>3, <2>4
           DEF Linked, Graph, ListsSound, EnterOnTop, NewAlone, Searching, Selecting, Linking
<1>2. Linked /\ [IndexNext]_indexVars => Linked'
  BY LinkedKept, HnswAssumption
<1> QED  BY <1>1, <1>2, PTL DEF IndexSpec

\* Between calls every neighbour exists on its layer, no list is too long or names a node twice
\* or its owner, and the entry point is on the top layer (insert of the index).
THEOREM LinksStaySound == IndexSpec => []LinksSound
<1>1. Linked => LinksSound
  <2>1. SUFFICES ASSUME Linked, pc = "idle", NEW n \in Ids
                 PROVE  /\ LevelOf(n) <= LevelOf(enter)
                        /\ \A lc \in 0 .. LevelOf(n) :
                              /\ Len(Neighbors(n, lc)) <= (IF lc = 0 THEN 2 * MaxM ELSE MaxM)
                              /\ IsInjective(Neighbors(n, lc))
                              /\ \A m \in ToSet(Neighbors(n, lc)) : m # n /\ LevelOf(m) >= lc
    BY DEF LinksSound
  <2>2. LevelOf(n) <= LevelOf(enter)
    <3>1. ~ inserting /\ nodes # <<>>
      BY <2>1 DEF Linked, Phases, Ids
    <3> QED  BY <2>1, <3>1 DEF Linked, EnterOnTop
  <2>3. ASSUME NEW lc \in 0 .. LevelOf(n)
        PROVE  /\ Len(Neighbors(n, lc)) <= (IF lc = 0 THEN 2 * MaxM ELSE MaxM)
               /\ IsInjective(Neighbors(n, lc))
               /\ \A m \in ToSet(Neighbors(n, lc)) : m # n /\ LevelOf(m) >= lc
    <3>1. Neighbors(n, lc) = Links(n, lc)
      BY <2>1, Typical DEF Linked
    <3>2. ListSound(n, lc)
      BY <2>1 DEF Linked, ListsSound
    <3> QED  BY <2>1, <3>1, <3>2 DEF ListSound, Longest
  <2> QED  BY <2>2, <2>3
<1> QED  BY <1>1, InductiveLinks, PTL

-----------------------------------------------------------------------------
(* Hnsw: the points of a line.                                             *)

\* at says where the ids are.
Between(at, a, b, c) == (at[a] < at[b] /\ at[b] < at[c]) \/ (at[c] < at[b] /\ at[b] < at[a])
NextTo(at, S, a, b) == a \in S /\ b \in S /\ a # b /\ \A c \in S : ~ Between(at, a, c, b)

LEMMA DistanceIsNatural == \A a, b \in Int : Distance(a, b) \in Nat
BY DEF Distance

LEMMA NextToBothWays ==
    ASSUME NEW I, NEW at \in [I -> Int], NEW S, S \subseteq I, NEW a, NEW b, NextTo(at, S, a, b)
    PROVE  NextTo(at, S, b, a)
BY DEF NextTo, Between

\* On the way to u, one is next to it.
LEMMA OneIsNext ==
    ASSUME NEW I, NEW at \in [I -> Int], NEW S, S \subseteq I, NEW r \in S, NEW u \in S, at[r] # at[u]
    PROVE  \E p \in S : NextTo(at, S, p, u) /\ (p = r \/ Between(at, r, p, u))
<1> DEFINE OnTheWay == {p \in S : p = r \/ Between(at, r, p, u)}
           Left == {Distance(at[p], at[u]) : p \in OnTheWay}
<1>1. \A p \in S : at[p] \in Int
  OBVIOUS
<1>2. Left \subseteq Nat /\ Left # {}
  BY <1>1, DistanceIsNatural
<1>3. PICK d \in Left : \A e \in Left : d <= e
  <2> HIDE DEF Left
  <2> QED  BY <1>2, LeastOf
<1>4. PICK p \in OnTheWay : \A o \in OnTheWay : Distance(at[p], at[u]) <= Distance(at[o], at[u])
  BY <1>3
<1>5. p # u
  BY <1>1 DEF Between
<1>6. ASSUME NEW c \in S, Between(at, p, c, u) PROVE FALSE
  <2>1. Between(at, r, c, u)
    BY <1>1, <1>6 DEF Between
  <2>2. Distance(at[p], at[u]) <= Distance(at[c], at[u])
    BY <1>4, <2>1
  <2> QED  BY <1>1, <1>6, <2>2 DEF Between, Distance
<1> QED  BY <1>4, <1>5, <1>6 DEF NextTo

\* At most two are next to another one.
LEMMA TwoSides ==
    ASSUME NEW I, NEW at \in [I -> Int], IsInjective(at), NEW h \in I,
           NEW a, NextTo(at, I, h, a), NEW b, NextTo(at, I, h, b), a # b,
           NEW c, NextTo(at, I, h, c)
    PROVE  c \in {a, b}
<1>1. \A x \in I : at[x] \in Int
  OBVIOUS
<1>2. \A x, y \in I : at[x] = at[y] => x = y
  BY DEF IsInjective
<1>3. a \in I /\ b \in I /\ c \in I /\ a # h /\ b # h /\ c # h
  BY DEF NextTo
<1>4. \A x, y \in {a, b, c} : ~ Between(at, h, x, y)
  BY <1>3 DEF NextTo
<1>5. \A x, y \in {a, b, c} : (at[x] < at[h] <=> at[y] < at[h]) => at[x] = at[y]
  BY <1>1, <1>2, <1>3, <1>4 DEF Between
<1> QED  BY <1>2, <1>3, <1>5

\* The heuristic selects exactly those that are next to the centre.
LEMMA SelectsNextOnes ==
    ASSUME NEW I, NEW at \in [I -> Int], IsInjective(at), NEW h \in I, NEW C, NEW T,
           \A b : NextTo(at, I, h, b) => b \in C \cup T, \A s \in T : NextTo(at, I, h, s), T \cap C = {},
           NEW n \in C, n \in I, n # h, \A m \in C : Distance(at[n], at[h]) <= Distance(at[m], at[h])
    PROVE  (\A s \in T : Distance(at[n], at[s]) > Distance(at[n], at[h])) <=> NextTo(at, I, h, n)
<1>1. \A x \in I : at[x] \in Int
  OBVIOUS
<1>2. \A x, y \in I : at[x] = at[y] => x = y
  BY DEF IsInjective
<1>3. ASSUME \A s \in T : Distance(at[n], at[s]) > Distance(at[n], at[h])
      PROVE  NextTo(at, I, h, n)
  <2>1. PICK p \in I : NextTo(at, I, p, h) /\ (p = n \/ Between(at, n, p, h))
    BY <1>2, OneIsNext
  <2>2. NextTo(at, I, h, p)
    BY <2>1, NextToBothWays
  <2>3. ASSUME Between(at, n, p, h) PROVE FALSE
    <3>1. Distance(at[p], at[h]) < Distance(at[n], at[h]) /\ Distance(at[n], at[p]) < Distance(at[n], at[h])
      BY <1>1, <2>3 DEF Between, Distance
    <3>2. \A x, y \in I : Distance(at[x], at[y]) \in Nat
      BY <1>1, DistanceIsNatural
    <3>3. CASE p \in C
      <4>1. Distance(at[n], at[h]) <= Distance(at[p], at[h])
        BY <3>3
      <4> QED  BY <3>1, <3>2, <4>1
    <3>4. CASE p \in T
      <4>1. Distance(at[n], at[p]) > Distance(at[n], at[h])
        BY <1>3, <3>4
      <4> QED  BY <3>1, <3>2, <4>1
    <3> QED  BY <2>2, <3>3, <3>4
  <2> QED  BY <2>1, <2>2, <2>3
<1>4. ASSUME NextTo(at, I, h, n), NEW s \in T
      PROVE  Distance(at[n], at[s]) > Distance(at[n], at[h])
  <2>1. NextTo(at, I, h, s) /\ s # n
    OBVIOUS
  <2>2. s \in I /\ s # h /\ ~ Between(at, h, s, n) /\ ~ Between(at, h, n, s)
    BY <1>4, <2>1 DEF NextTo
  <2>3. at[s] # at[n] /\ at[s] # at[h] /\ at[n] # at[h]
    BY <1>2, <2>1, <2>2
  <2> QED  BY <1>1, <2>2, <2>3 DEF Between, Distance
<1> QED  BY <1>3, <1>4

\* What keeps v out of the results R of a search for q: they are full of nearer ones.
Outdone(at, q, R, v) ==
    Cardinality(R) = Ef /\ \A r \in R : Distance(at[r], q) < Distance(at[v], q)

\* A search that has gone on from everyone who is not outdone to those next to him has
\* left out only those who are outdone.
LEMMA ChainIsSearched ==
    ASSUME NEW I, NEW at \in [I -> Int], NEW q \in Int,
           \A x, y \in I : x # y => Distance(at[x], q) # Distance(at[y], q),
           NEW S, S \subseteq I, NEW V, V \subseteq S, NEW R, R \subseteq V, R # {},
           \A v \in V \ R : Outdone(at, q, R, v),
           \A v \in V : Outdone(at, q, R, v) \/ \A b \in S : NextTo(at, S, v, b) => b \in V
    PROVE  \A u \in S \ R : Outdone(at, q, R, u)
<1> DEFINE D(x) == Distance(at[x], q)
           Missed == {u \in S \ V : ~ Outdone(at, q, R, u)}
<1>1. \A x \in I : at[x] \in Int /\ D(x) \in Nat
  BY DistanceIsNatural
<1>2. PICK r \in R : TRUE
  OBVIOUS
<1>3. \A x \in I : ~ (at[r] = at[x] /\ r # x)
  BY <1>2
<1> SUFFICES ASSUME Missed # {} PROVE FALSE
  OBVIOUS
<1> DEFINE Far == {Distance(at[x], at[r]) : x \in Missed}
<1>4. Far \subseteq Nat /\ Far # {}
  BY <1>1, <1>2, DistanceIsNatural
<1>5. PICK d \in Far : \A e \in Far : d <= e
  <2> HIDE DEF Far
  <2> QED  BY <1>4, LeastOf
<1>6. PICK u \in Missed : \A x \in Missed : Distance(at[u], at[r]) <= Distance(at[x], at[r])
  BY <1>5
<1>7. u \in S /\ u \notin V /\ u # r /\ at[u] # at[r]
  BY <1>2, <1>3, <1>6
<1>8. PICK p \in S : NextTo(at, S, p, u) /\ (p = r \/ Between(at, r, p, u))
  BY <1>2, <1>7, OneIsNext
\* p is no further from q than r or u.
<1>9. ASSUME Outdone(at, q, R, p) PROVE FALSE
  <2>1. Cardinality(R) = Ef /\ \A x \in R : D(x) < D(p)
    BY <1>9 DEF Outdone
  <2>2. PICK x \in R : ~ (D(x) < D(u))
    BY <1>6, <2>1 DEF Outdone
  <2>3. x # u /\ x \in I /\ u \in I /\ D(x) # D(u)
    BY <1>7, <2>2
  <2>4. D(u) < D(x) /\ D(x) < D(p) /\ D(r) < D(p)
    <3>1. D(x) \in Nat /\ D(u) \in Nat
      BY <1>1, <2>3
    <3> QED  BY <1>2, <2>1, <2>2, <2>3, <3>1
  <2>5. D(p) \in Nat /\ D(u) \in Nat /\ D(r) \in Nat /\ D(x) \in Nat
    BY <1>1, <1>2, <1>7, <2>3
  <2>6. Between(at, r, p, u)
    BY <1>8, <2>4, <2>5
  <2> QED  BY <1>1, <1>2, <1>7, <2>4, <2>5, <2>6 DEF Between, Distance
<1>10. p \in V
  <2>1. CASE p = r
    BY <1>2, <2>1
  <2>2. CASE Between(at, r, p, u) /\ p \notin V
    <3>1. p \in Missed
      BY <1>9, <2>2
    <3>2. Distance(at[u], at[r]) <= Distance(at[p], at[r])
      BY <1>6, <3>1
    <3> QED  BY <1>1, <1>2, <1>7, <2>2, <3>2 DEF Between, Distance
  <2> QED  BY <1>8, <2>1, <2>2
<1> QED  BY <1>7, <1>8, <1>9, <1>10

-----------------------------------------------------------------------------
(* Hnsw: the lowest layer is a chain.                                      *)

At == [n \in Ids |-> Vec(n)]
Bottom == [n \in Ids |-> ToSet(Links(n, 0))]

Placed ==
    /\ At \in [Ids -> Vectors] /\ IsInjective(At)
    /\ pc # "idle" => query \in Vectors
    /\ inserting => query = At[New]

Older == {n \in Ids : ~ (inserting /\ n = New)}

\* While the new node gets its links on the lowest layer it is one of the chain, but for
\* those that are still to be linked.
Joining == layer = 0 /\ pc \in {"link", "prune"}
Line == IF Joining THEN Ids ELSE Older
Pending == {chosen[i] : i \in (IF pc = "prune" THEN 2 ELSE 1) .. Len(chosen)}
Chained ==
    \A a, b \in Line :
        NextTo(At, Line, a, b) =>
            b \in Bottom[a] \/ (Joining /\ ((a = New /\ b \in Pending) \/ (b = New /\ a \in Pending)))

\* A node that was met is a candidate, or is outdone, or those next to it have been met or
\* are about to be.
Tracked ==
    pc = "search" /\ layer = 0 =>
        /\ visited \subseteq Older /\ candidates \subseteq visited /\ Cardinality(results) <= Ef
        /\ \A v \in visited \ results : Outdone(At, query, results, v)
        /\ \A v \in visited :
              \/ v \in candidates \/ Outdone(At, query, results, v)
              \/ \A b \in Older : NextTo(At, Older, v, b) => b \in visited \cup ToSet(ahead)

\* The heuristic has selected nodes next to the centre only and passed over none.
Subject == IF pc = "prune" THEN Head(chosen) ELSE New
Choosing ==
    pc \in {"select", "prune"} /\ layer = 0 =>
        /\ \A b : NextTo(At, Ids, Subject, b) => b \in candidates \cup ToSet(selected)
        /\ \A s \in ToSet(selected) : NextTo(At, Ids, Subject, s)

Exact == Placed /\ (AllCompared => Chained /\ Tracked /\ Choosing) /\ FindsNearest

LEMMA Positions ==
    ASSUME HnswAssumption, Linked, Placed
    PROVE  /\ At \in [Ids -> Int] /\ Ids \subseteq Nat /\ Older \subseteq Ids /\ Line \subseteq Ids
           /\ \A n, m \in Ids : At[n] = At[m] => n = m
           /\ \A n \in Ids : Vec(n) = At[n] /\ \A v : Away(v, n) = Distance(At[n], v)
           /\ \A n \in Ids : \A v \in Int : Away(v, n) \in Nat
<1>1. Vectors \subseteq Int
  BY DEF HnswAssumption
<1>2. At \in [Ids -> Int] /\ Older \subseteq Ids /\ Line \subseteq Ids
  BY <1>1 DEF Placed, Older, Line
<1>3. \A n, m \in Ids : At[n] = At[m] => n = m
  BY DEF Placed, IsInjective
<1>4. \A n \in Ids : Vec(n) = At[n] /\ \A v : Away(v, n) = Distance(At[n], v)
  BY DEF At, Vec, Away
<1>5. \A n \in Ids : \A v \in Int : Away(v, n) \in Nat
  BY <1>2, <1>4, DistanceIsNatural
<1>6. Ids \subseteq Nat
  BY Typical DEF Linked
<1> QED  BY <1>2, <1>3, <1>4, <1>5, <1>6, Zenon

LEMMA NoTies ==
    ASSUME HnswAssumption, Linked, Placed, NEW q \in Vectors, NEW n \in Ids, NEW m \in Ids, n # m
    PROVE  Distance(At[n], q) # Distance(At[m], q)
<1>1. At[n] \in Vectors /\ At[m] \in Vectors /\ At[n] # At[m] /\ q \in Int /\ At[n] \in Int /\ At[m] \in Int
  BY Positions DEF Placed, HnswAssumption
<1>2. CASE At[n] = q \/ At[m] = q
  BY <1>1, <1>2 DEF Distance
<1>3. CASE At[n] # q /\ At[m] # q
  BY <1>1, <1>3 DEF HnswAssumption
<1> QED  BY <1>2, <1>3

\* What a step does that leaves the nodes alone.
LEMMA PlacesStay ==
    ASSUME UNCHANGED nodes
    PROVE  Ids' = Ids /\ New' = New /\ At' = At /\ Bottom' = Bottom /\ (AllCompared' <=> AllCompared)
BY DEF Ids, New, At, Bottom, Vec, Links, AllCompared

LEMMA ChainStays ==
    ASSUME Chained, UNCHANGED nodes, Line' = Line, Joining' <=> Joining, Joining => UNCHANGED <<pc, chosen>>
    PROVE  Chained'
<1>1. Joining => Pending' = Pending
  BY DEF Pending
<1>2. New' = New /\ At' = At /\ Bottom' = Bottom
  BY PlacesStay
<1> QED  BY <1>1, <1>2 DEF Chained

\* A step outside the linking of the lowest layer.
LEMMA OffTheChain ==
    ASSUME Linked, Exact, UNCHANGED <<nodes, inserting>>, ~ Joining, ~ Joining'
    PROVE  /\ Older' = Older /\ Line' = Line /\ Line = Older
           /\ AllCompared => Chained /\ Tracked /\ Choosing /\ Chained'
<1>1. Older' = Older
  BY PlacesStay DEF Older
<1>2. Line' = Line /\ Line = Older
  BY <1>1 DEF Line
<1> QED  BY <1>1, <1>2, ChainStays DEF Exact

LEMMA FurthestIs ==
    ASSUME HnswAssumption, Linked, Placed, NEW v \in Int, NEW S, S \subseteq Ids, S # {}
    PROVE  Furthest(v, S) \in S /\ \A m \in S : Away(v, m) <= Away(v, Furthest(v, S))
<1> DEFINE Closer(n) == {m \in S : Away(v, m) < Away(v, n)}
           Ranked == {Cardinality(S) - Cardinality(Closer(n)) : n \in S}
<1>1. IsFiniteSet(S)
  <2>1. New \in Nat /\ Ids = 1 .. New
    BY Typical DEF Ids, New, Linked
  <2>2. IsFiniteSet(Ids)
    BY <2>1, FS_Interval
  <2> QED  BY <2>2, FS_Subset
<1>2. ASSUME NEW T \in SUBSET S
      PROVE  IsFiniteSet(T) /\ Cardinality(T) \in Nat /\ Cardinality(T) <= Cardinality(S)
  BY <1>1, FS_Subset, FS_CardinalityType
<1>3. \A n \in S : Closer(n) \in SUBSET S
  OBVIOUS
<1>4. Ranked \subseteq Nat /\ Ranked # {}
  <2>1. Cardinality(S) \in Nat
    BY <1>2
  <2>2. \A n \in S : Cardinality(Closer(n)) \in Nat /\ Cardinality(Closer(n)) <= Cardinality(S)
    BY <1>2, <1>3
  <2> HIDE DEF Closer
  <2> QED  BY <2>1, <2>2
<1>5. PICK d \in Ranked : \A e \in Ranked : d <= e
  <2> HIDE DEF Ranked
  <2> QED  BY <1>4, LeastOf
<1>6. PICK n \in S : \A m \in S : Cardinality(S) - Cardinality(Closer(n)) <= Cardinality(S) - Cardinality(Closer(m))
  <2> HIDE DEF Closer
  <2> QED  BY <1>5
<1>7. ASSUME NEW m \in S, ~ (Away(v, m) <= Away(v, n)) PROVE FALSE
  <2>1. \A x \in S : Away(v, x) \in Nat
    BY Positions
  <2>2. Closer(n) \cup {n} \subseteq Closer(m) /\ n \notin Closer(n)
    BY <1>7, <2>1
  <2>3. Cardinality(Closer(n) \cup {n}) = Cardinality(Closer(n)) + 1
    <3>1. IsFiniteSet(Closer(n))
      BY <1>2, <1>3
    <3> HIDE DEF Closer
    <3> QED  BY <2>2, <3>1, FS_AddElement
  <2>4. Cardinality(Closer(n) \cup {n}) <= Cardinality(Closer(m))
    <3>1. IsFiniteSet(Closer(m))
      BY <1>2, <1>3
    <3> HIDE DEF Closer
    <3> QED  BY <2>2, <3>1, FS_Subset
  <2>5. Cardinality(S) \in Nat /\ Cardinality(Closer(n)) \in Nat /\ Cardinality(Closer(m)) \in Nat
    BY <1>2, <1>3
  <2> HIDE DEF Closer
  <2> QED  BY <1>6, <2>3, <2>4, <2>5
<1> QED  BY <1>7 DEF Furthest

LEMMA LayerBegun ==
    ASSUME HnswAssumption, NEW lc, NEW start, BeginLayer(lc, start), start \in Older'
    PROVE  Tracked' /\ Choosing' /\ FindsNearest' /\ ~ Joining' /\ Line' = Older'
<1>1. /\ pc' = "search" /\ layer' = lc
      /\ visited' = {start} /\ results' = {start} /\ candidates' = {start} /\ ahead' = <<>>
  BY DEF BeginLayer
<1>2. ~ Joining' /\ Line' = Older'
  BY <1>1 DEF Joining, Line
<1>3. Cardinality({start}) <= Ef
  <2>1. Cardinality({start}) = 1
    BY FS_Singleton
  <2> QED  BY <2>1 DEF HnswAssumption
<1>4. Tracked'
  BY <1>1, <1>3 DEF Tracked
<1>5. Choosing' /\ FindsNearest'
  BY <1>1 DEF Choosing, FindsNearest
<1> QED  BY <1>2, <1>4, <1>5

\* What a search on the lowest layer has found so far.
LEMMA SearchFinds ==
    ASSUME HnswAssumption, Linked, Exact, pc = "search", layer = 0, AllCompared
    PROVE  /\ Breadth = Ef /\ Ef \in Nat /\ query \in Int /\ query \in Vectors
           /\ results # {} /\ results \subseteq visited /\ IsFiniteSet(results)
           /\ visited \subseteq Ids /\ candidates \subseteq Ids /\ results \subseteq Ids
           /\ Cardinality(results) \in Nat /\ Cardinality(results) <= Ef
           /\ OnLayer \subseteq Older
<1>1. /\ results # {} /\ results \subseteq visited
      /\ visited \subseteq Older /\ candidates \subseteq visited /\ Cardinality(results) <= Ef
  BY DEF Linked, Searching, Exact, Tracked
<1>2. visited \subseteq Ids /\ candidates \subseteq Ids /\ results \subseteq Ids
  BY <1>1 DEF Older
<1>3. IsFiniteSet(results) /\ Cardinality(results) \in Nat
  <2>1. New \in Nat /\ Ids = 1 .. New
    BY Typical DEF Ids, New, Linked
  <2>2. IsFiniteSet(Ids)
    BY <2>1, FS_Interval
  <2> QED  BY <1>2, <2>2, FS_Subset, FS_CardinalityType
<1>4. Breadth = Ef /\ Ef \in Nat
  BY DEF Breadth, Linked, Phases, HnswAssumption
<1>5. query \in Int /\ query \in Vectors
  BY DEF Linked, Phases, Exact, Placed
<1>6. OnLayer \subseteq Older
  BY DEF OnLayer, Older
<1> QED  BY <1>1, <1>2, <1>3, <1>4, <1>5, <1>6

\* Taking n into the results keeps out who was outdone, and the furthest of them.
LEMMA TakenIntoResults ==
    ASSUME HnswAssumption, Linked, Exact, pc = "search", layer = 0, AllCompared,
           NEW n \in Ids, n \notin results,
           Cardinality(results) < Ef \/ Away(query, n) < Away(query, Furthest(query, results)),
           NEW R,
           \/ Cardinality(results \cup {n}) <= Ef /\ R = results \cup {n}
           \/ Cardinality(results \cup {n}) > Ef /\ R = (results \cup {n}) \ {Furthest(query, results \cup {n})}
    PROVE  /\ Cardinality(R) <= Ef /\ R \subseteq results \cup {n}
           /\ \A v \in Ids \ results : Outdone(At, query, results, v) => Outdone(At, query, R, v)
           /\ \A v \in (results \cup {n}) \ R : Outdone(At, query, R, v)
<1> DEFINE more == results \cup {n}
           f == Furthest(query, more)
           D(x) == Distance(At[x], query)
<1>1. /\ query \in Int /\ query \in Vectors /\ results # {} /\ results \subseteq Ids /\ IsFiniteSet(results)
      /\ Cardinality(results) \in Nat /\ Cardinality(results) <= Ef /\ Ef \in Nat
  BY SearchFinds
<1>2. IsFiniteSet(more) /\ Cardinality(more) = Cardinality(results) + 1
  BY <1>1, FS_AddElement
<1>3. \A x \in Ids : D(x) \in Nat /\ Away(query, x) = D(x)
  BY <1>1, Positions DEF Exact
<1>4. \A x, y \in Ids : x # y => D(x) # D(y)
  BY <1>1, NoTies DEF Exact
<1> HIDE DEF D
<1>5. CASE Cardinality(more) <= Ef
  <2>1. R = more
    BY <1>1, <1>2, <1>5
  <2>2. Cardinality(results) # Ef
    BY <1>1, <1>2, <1>5
  <2> QED  BY <1>5, <2>1, <2>2 DEF Outdone
<1>6. CASE Cardinality(more) > Ef
  <2>1. R = more \ {f}
    <3>1. \A c, d \in Nat : c > d => ~ (c <= d)
      OBVIOUS
    <3>2. Cardinality(more) \in Nat /\ Ef \in Nat
      BY <1>1, <1>2, FS_CardinalityType
    <3>3. ~ (Cardinality(more) <= Ef)
      BY <1>6, <3>1, <3>2
    <3> QED  BY <3>3
  <2>2. f \in more /\ \A m \in more : Away(query, m) <= Away(query, f)
    BY <1>1, FurthestIs DEF Exact
  <2>4. Furthest(query, results) \in results
    BY <1>1, FurthestIs DEF Exact
  <2> HIDE DEF f, more
  <2>3. Cardinality(R) = Ef /\ Cardinality(results) = Ef
    <3>1. f \in more
      BY <2>2
    <3>2. Cardinality(more \ {f}) = Cardinality(more) - 1
      BY <1>2, <3>1, FS_RemoveElement
    <3>3. Cardinality(R) = Cardinality(more) - 1
      BY <2>1, <3>2
    <3>4. /\ Cardinality(more) = Cardinality(results) + 1 /\ Cardinality(more) > Ef
          /\ Cardinality(results) \in Nat /\ Cardinality(results) <= Ef /\ Ef \in Nat
      BY <1>1, <1>2, <1>6
    <3> DEFINE c == Cardinality(more)
               r == Cardinality(results)
    <3> HIDE DEF c, r
    <3>5. c - 1 = Ef /\ r = Ef
      BY <3>4 DEF c, r
    <3> QED  BY <3>3, <3>5 DEF c, r
  <2>5. more \subseteq Ids /\ n \in more /\ results \subseteq more
    BY <1>1 DEF more
  <2>6. \A x \in R : D(x) < D(f)
    BY <1>3, <1>4, <2>1, <2>2, <2>5
  <2>7. ASSUME NEW v \in Ids \ results, Outdone(At, query, results, v)
        PROVE  Outdone(At, query, R, v)
    <3>1. \A x \in results : D(x) < D(v)
      BY <2>7 DEF Outdone, D
    <3>2. D(n) < D(v)
      <4> DEFINE g == Furthest(query, results)
      <4>1. D(g) < D(v) /\ g \in Ids
        BY <1>1, <2>4, <3>1
      <4>2. D(n) < D(g)
        BY <1>1, <1>3, <2>3, <4>1
      <4> HIDE DEF g
      <4> QED  BY <1>3, <4>1, <4>2
    <3>3. \A x \in more : D(x) < D(v)
      BY <3>1, <3>2 DEF more
    <3> QED  BY <2>1, <2>3, <3>3 DEF Outdone, D
  <2>8. \A v \in more \ R : Outdone(At, query, R, v)
    BY <2>1, <2>3, <2>6 DEF Outdone, D
  <2>9. Cardinality(R) <= Ef /\ R \subseteq results \cup {n}
    BY <1>1, <2>1, <2>3 DEF more
  <2>10. \A v \in (results \cup {n}) \ R : Outdone(At, query, R, v)
    BY <2>8 DEF more
  <2> QED  BY <2>7, <2>9, <2>10
<1>7. Cardinality(more) <= Ef \/ Cardinality(more) > Ef
  <2> DEFINE r == Cardinality(results)
  <2>1. r \in Nat /\ Cardinality(more) = r + 1 /\ Ef \in Nat
    BY <1>1, <1>2
  <2> HIDE DEF r
  <2> QED  BY <2>1
<1> QED  BY <1>5, <1>6, <1>7, Zenon

LEMMA VisitTracks ==
    ASSUME HnswAssumption, Linked, Exact, Visit
    PROVE  Exact'
<1> DEFINE n == Head(ahead)
           more == results \cup {n}
<1>1. /\ pc = "search" /\ ahead # <<>> /\ ahead' = Tail(ahead) /\ visited' = visited \cup {n}
      /\ UNCHANGED <<nodes, pc, inserting, query, targetLevel, layer>>
      /\ IF /\ n \notin visited
            /\ Cardinality(results) < Breadth \/ Away(query, n) < Away(query, Furthest(query, results))
         THEN /\ candidates' = candidates \cup {n}
              /\ results' = IF Cardinality(more) > Breadth THEN more \ {Furthest(query, more)} ELSE more
         ELSE UNCHANGED <<candidates, results>>
  BY DEF Visit, graphVars, callVars
<1>2. ~ Joining /\ ~ Joining'
  BY <1>1 DEF Joining
<1>3. /\ Older' = Older /\ At' = At /\ Ids' = Ids /\ New' = New /\ (AllCompared' <=> AllCompared)
      /\ AllCompared => Chained /\ Tracked /\ Choosing /\ Chained'
  BY <1>1, <1>2, OffTheChain, PlacesStay
<1>4. Placed' /\ Choosing' /\ FindsNearest'
  BY <1>1, <1>3 DEF Exact, Placed, Choosing, FindsNearest
<1>5. ASSUME AllCompared, layer = 0
      PROVE  Tracked'
  <2>1. /\ Breadth = Ef /\ Ef \in Nat /\ query \in Int /\ results # {} /\ results \subseteq visited
        /\ visited \subseteq Ids /\ candidates \subseteq Ids /\ results \subseteq Ids
        /\ Cardinality(results) \in Nat /\ Cardinality(results) <= Ef /\ OnLayer \subseteq Older
        /\ query \in Vectors
    BY <1>1, <1>5, SearchFinds
  <2>2. /\ visited \subseteq Older /\ candidates \subseteq visited
        /\ \A v \in visited \ results : Outdone(At, query, results, v)
        /\ \A v \in visited :
              \/ v \in candidates \/ Outdone(At, query, results, v)
              \/ \A b \in Older : NextTo(At, Older, v, b) => b \in visited \cup ToSet(ahead)
    BY <1>1, <1>5 DEF Exact, Tracked
  <2>3. n \in Older /\ n \in Ids /\ ToSet(ahead) = {n} \cup ToSet(Tail(ahead))
    <3>1. ahead \in Seq(OnLayer)
      BY <1>1 DEF Linked, Searching
    <3>2. n \in OnLayer
      BY <1>1, <3>1, Taken
    <3>3. ToSet(ahead) = {n} \cup ToSet(Tail(ahead))
      <4>1. /\ Len(ahead) \in Nat /\ Len(ahead) >= 1 /\ n = ahead[1] /\ DOMAIN ahead = 1 .. Len(ahead)
            /\ DOMAIN Tail(ahead) = 1 .. Len(ahead) - 1
            /\ \A i \in 1 .. Len(ahead) - 1 : Tail(ahead)[i] = ahead[i + 1]
        BY <1>1, <3>1
      <4>2. \A i \in 2 .. Len(ahead) : ahead[i] \in ToSet(Tail(ahead))
        <5>1. \A i \in 2 .. Len(ahead) : i - 1 \in 1 .. Len(ahead) - 1 /\ Tail(ahead)[i - 1] = ahead[i]
          BY <4>1
        <5> QED  BY <4>1, <5>1 DEF ToSet
      <4> HIDE DEF n
      <4>3. ToSet(ahead) \subseteq {n} \cup ToSet(Tail(ahead))
        <5>1. \A i \in 1 .. Len(ahead) : i = 1 \/ i \in 2 .. Len(ahead)
          BY <4>1
        <5> QED  BY <4>1, <4>2, <5>1 DEF ToSet
      <4>4. \A i \in 1 .. Len(ahead) - 1 : i + 1 \in 1 .. Len(ahead)
        BY <4>1
      <4> QED  BY <4>1, <4>3, <4>4 DEF ToSet
    <3> QED  BY <2>1, <3>2, <3>3 DEF Older
  <2>4. visited' \cup ToSet(ahead') = visited \cup ToSet(ahead)
    BY <1>1, <2>3
  <2>5. visited' \subseteq Older /\ candidates' \subseteq visited'
    BY <1>1, <2>2, <2>3
  <2> HIDE DEF n
  <2>6. CASE n \in visited
    <3>1. visited' = visited /\ UNCHANGED <<candidates, results>>
      BY <1>1, <2>6
    <3> QED  BY <1>1, <1>3, <2>1, <2>2, <2>4, <3>1 DEF Tracked
  <2>7. CASE n \notin visited /\ UNCHANGED <<candidates, results>>
             /\ ~ (Cardinality(results) < Breadth \/ Away(query, n) < Away(query, Furthest(query, results)))
    <3>1. Outdone(At, query, results, n)
      <4>1. Cardinality(results) = Ef
        BY <2>1, <2>7
      <4>2. \A r \in results : Away(query, r) <= Away(query, Furthest(query, results))
        BY <2>1, FurthestIs DEF Exact
      <4>3. Furthest(query, results) \in Ids
        BY <2>1, FurthestIs DEF Exact
      <4>4. \A x \in Ids : Away(query, x) \in Nat /\ Away(query, x) = Distance(At[x], query)
        BY <2>1, Positions DEF Exact
      <4>5. ASSUME NEW r \in results PROVE Distance(At[r], query) < Distance(At[n], query)
        <5>1. r \in Ids /\ r # n
          BY <2>1, <2>7
        <5>2. Distance(At[r], query) # Distance(At[n], query)
          BY <2>1, <2>3, <5>1, NoTies DEF Exact
        <5>3. Away(query, r) <= Away(query, n)
          BY <2>3, <2>7, <4>2, <4>3, <4>4, <5>1
        <5> QED  BY <2>3, <4>4, <5>1, <5>2, <5>3
      <4> QED  BY <4>1, <4>5 DEF Outdone
    <3> QED  BY <1>1, <1>3, <2>1, <2>2, <2>4, <2>5, <2>7, <3>1 DEF Tracked
  <2>8. CASE n \notin visited /\ candidates' = candidates \cup {n}
             /\ (Cardinality(results) < Breadth \/ Away(query, n) < Away(query, Furthest(query, results)))
             /\ results' = IF Cardinality(more) > Breadth THEN more \ {Furthest(query, more)} ELSE more
    <3>1. n \notin results
      BY <2>1, <2>8
    <3>2. /\ Cardinality(results') <= Ef /\ results' \subseteq results \cup {n}
          /\ \A v \in Ids \ results : Outdone(At, query, results, v) => Outdone(At, query, results', v)
          /\ \A v \in (results \cup {n}) \ results' : Outdone(At, query, results', v)
      <4>1. Cardinality(results) < Ef \/ Away(query, n) < Away(query, Furthest(query, results))
        BY <2>1, <2>8
      <4>2. results' = IF Cardinality(results \cup {n}) > Ef
                      THEN (results \cup {n}) \ {Furthest(query, results \cup {n})} ELSE results \cup {n}
        BY <2>1, <2>8
      <4>3. pc = "search" /\ layer = 0 /\ AllCompared /\ n \in Ids
        BY <1>1, <1>5, <2>3
      <4> DEFINE R == results'
      <4>4. \/ Cardinality(results \cup {n}) <= Ef /\ R = results \cup {n}
            \/ Cardinality(results \cup {n}) > Ef /\ R = (results \cup {n}) \ {Furthest(query, results \cup {n})}
        <5>1. Cardinality(results \cup {n}) \in Nat /\ Ef \in Nat
          <6>1. IsFiniteSet(results)
            BY <4>3, SearchFinds
          <6>2. IsFiniteSet(results \cup {n})
            BY <6>1, FS_AddElement
          <6> QED  BY <2>1, <6>2, FS_CardinalityType
        <5> QED  BY <4>2, <5>1
      <4> HIDE DEF R
      <4>5. /\ Cardinality(R) <= Ef /\ R \subseteq results \cup {n}
            /\ \A v \in Ids \ results : Outdone(At, query, results, v) => Outdone(At, query, R, v)
            /\ \A v \in (results \cup {n}) \ R : Outdone(At, query, R, v)
        BY <3>1, <4>1, <4>3, <4>4, TakenIntoResults, Zenon
      <4> QED  BY <4>5 DEF R
    <3>3. ASSUME NEW v \in visited' \ results' PROVE Outdone(At, query, results', v)
      BY <1>1, <2>1, <2>2, <3>2, <3>3
    <3>4. ASSUME NEW v \in visited'
          PROVE  \/ v \in candidates' \/ Outdone(At, query, results', v)
                 \/ \A b \in Older : NextTo(At, Older, v, b) => b \in visited' \cup ToSet(ahead')
      <4>1. CASE v = n
        BY <2>8, <4>1
      <4>2. CASE v \in visited /\ Outdone(At, query, results, v)
        <5>1. \A x \in Ids : Distance(At[x], query) \in Nat
          BY <2>1, Positions DEF Exact
        <5>2. v \in Ids \ results
          BY <2>1, <4>2, <5>1 DEF Outdone
        <5> QED  BY <3>2, <4>2, <5>2
      <4>3. CASE v \in visited /\ ~ Outdone(At, query, results, v)
        BY <2>2, <2>4, <2>8, <4>3
      <4> QED  BY <1>1, <4>1, <4>2, <4>3
    <3> QED  BY <1>1, <1>3, <2>5, <3>2, <3>3, <3>4 DEF Tracked
  <2> QED  BY <1>1, <2>6, <2>7, <2>8
<1>6. layer # 0 => Tracked'
  BY <1>1 DEF Tracked
<1> QED  BY <1>3, <1>4, <1>5, <1>6 DEF Exact

LEMMA ExpandTracks ==
    ASSUME HnswAssumption, Linked, Exact, Expand
    PROVE  Exact'
<1> DEFINE current == Nearest(query, candidates)
<1>1. /\ pc = "search" /\ ahead = <<>> /\ candidates # {} /\ candidates' = candidates \ {current}
      /\ ahead' = Neighbors(current, layer)
      /\ UNCHANGED <<nodes, pc, inserting, query, targetLevel, layer, visited, results>>
  BY DEF Expand, Exhausted, graphVars, callVars
<1>2. ~ Joining /\ ~ Joining'
  BY <1>1 DEF Joining
<1>3. /\ Older' = Older /\ At' = At /\ Ids' = Ids /\ New' = New /\ (AllCompared' <=> AllCompared) /\ Line = Older
      /\ AllCompared => Chained /\ Tracked /\ Choosing /\ Chained'
  BY <1>1, <1>2, OffTheChain, PlacesStay
<1>4. Placed' /\ Choosing' /\ FindsNearest'
  BY <1>1, <1>3 DEF Exact, Placed, Choosing, FindsNearest
<1>5. ASSUME AllCompared, layer = 0
      PROVE  Tracked'
  <2>1. /\ visited \subseteq Older /\ candidates \subseteq visited /\ Cardinality(results) <= Ef
        /\ \A v \in visited \ results : Outdone(At, query, results, v)
        /\ \A v \in visited :
              \/ v \in candidates \/ Outdone(At, query, results, v)
              \/ \A b \in Older : NextTo(At, Older, v, b) => b \in visited \cup ToSet(ahead)
    BY <1>1, <1>5 DEF Exact, Tracked
  <2>2. current \in candidates
    <3>1. candidates \subseteq Ids /\ query \in Int
      BY <1>1, <1>5, SearchFinds
    <3> QED  BY <1>1, <3>1, NearestIsIn DEF Linked
  <2> HIDE DEF current
  <2>3. current \in Older /\ current \in Ids
    BY <2>1, <2>2 DEF Older
  <2>4. ToSet(ahead') = Bottom[current]
    <3>1. LevelOf(current) \in Nat
      BY <2>3, Typical DEF Linked
    <3>2. Neighbors(current, 0) = Links(current, 0)
      BY <2>3, <3>1, Typical DEF Linked
    <3> QED  BY <1>1, <1>5, <2>3, <3>2 DEF Bottom, current
  <2>5. \A b \in Older : NextTo(At, Older, current, b) => b \in ToSet(ahead')
    BY <1>2, <1>3, <1>5, <2>3, <2>4 DEF Chained
  <2>6. ToSet(ahead) = {}
    BY <1>1 DEF ToSet
  <2>7. ASSUME NEW v \in visited
        PROVE  \/ v \in candidates' \/ Outdone(At, query, results, v)
               \/ \A b \in Older : NextTo(At, Older, v, b) => b \in visited \cup ToSet(ahead')
    <3>1. CASE v = current
      BY <2>5, <3>1
    <3>2. CASE v # current
      BY <1>1, <2>1, <2>6, <3>2 DEF current
    <3> QED  BY <3>1, <3>2
  <2>8. candidates' \subseteq visited
    BY <1>1, <2>1
  <2> QED  BY <1>1, <1>3, <2>1, <2>7, <2>8 DEF Tracked
<1>6. layer # 0 => Tracked'
  BY <1>1 DEF Tracked
<1> QED  BY <1>3, <1>4, <1>5, <1>6 DEF Exact

\* When the search on the lowest layer ends, it has left out only those who are outdone.
LEMMA LayerIsSearched ==
    ASSUME HnswAssumption, Linked, Exact, LayerSearched, layer = 0, AllCompared
    PROVE  \A u \in Older \ results : Outdone(At, query, results, u)
<1>1. /\ pc = "search" /\ ahead = <<>>
      /\ candidates # {} => Away(query, Nearest(query, candidates)) > Away(query, Furthest(query, results))
  BY DEF LayerSearched, Exhausted
<1>2. /\ query \in Int /\ query \in Vectors /\ results # {} /\ results \subseteq visited
      /\ visited \subseteq Ids /\ candidates \subseteq Ids /\ results \subseteq Ids
  BY <1>1, SearchFinds
<1>3. /\ visited \subseteq Older /\ candidates \subseteq visited
      /\ \A v \in visited \ results : Outdone(At, query, results, v)
      /\ \A v \in visited :
            \/ v \in candidates \/ Outdone(At, query, results, v)
            \/ \A b \in Older : NextTo(At, Older, v, b) => b \in visited \cup ToSet(ahead)
  BY <1>1 DEF Exact, Tracked
<1>4. /\ At \in [Ids -> Int] /\ Older \subseteq Ids
      /\ \A n \in Ids : Away(query, n) \in Nat
  BY <1>2, Positions DEF Exact
<1>5. \A x, y \in Ids : x # y => Distance(At[x], query) # Distance(At[y], query)
  BY <1>2, NoTies DEF Exact
<1>6. ASSUME NEW v \in candidates PROVE Outdone(At, query, results, v)
  <2> DEFINE n == Nearest(query, candidates)
             f == Furthest(query, results)
  <2>1. n \in candidates /\ Away(query, n) <= Away(query, v)
    BY <1>2, NearestIsIn DEF Linked
  <2>2. f \in results /\ \A r \in results : Away(query, r) <= Away(query, f)
    BY <1>2, FurthestIs DEF Exact
  <2>3. Away(query, n) > Away(query, f)
    BY <1>1
  <2> HIDE DEF n, f
  <2>4. v \notin results
    <3>1. n \in Ids /\ f \in Ids /\ v \in Ids
      BY <1>2, <2>1, <2>2
    <3> QED  BY <1>4, <2>1, <2>2, <2>3, <3>1
  <2> QED  BY <1>3, <2>4
<1>7. \A v \in visited :
         Outdone(At, query, results, v) \/ \A b \in Older : NextTo(At, Older, v, b) => b \in visited
  <2>1. ToSet(ahead) = {}
    BY <1>1 DEF ToSet
  <2> QED  BY <1>3, <1>6, <2>1
<1> QED  BY <1>2, <1>3, <1>4, <1>5, <1>7, ChainIsSearched

\* A new node is compared with all others.
LEMMA AllAreFound ==
    ASSUME HnswAssumption, Linked, Exact, LayerSearched, layer = 0, AllCompared, inserting
    PROVE  Older = results
<1>1. pc = "search" /\ results \subseteq Older
  BY DEF LayerSearched, Linked, Exact, Tracked, Searching
<1>2. /\ Ef \in Nat /\ IsFiniteSet(results) /\ Cardinality(results) \in Nat
  BY <1>1, SearchFinds
<1>3. IsFiniteSet(Older) /\ Cardinality(Older) \in Nat /\ Cardinality(Older) <= Ef
  <2>1. /\ New \in Nat /\ Ids = 1 .. New /\ New \in Ids /\ New = Len(nodes) /\ New <= Ef + 1
        /\ Older = 1 .. New - 1
    <3>1. /\ New \in Nat /\ Ids = 1 .. New /\ New = Len(nodes) /\ New <= Ef + 1 /\ nodes # <<>>
      BY <1>1, Typical DEF Ids, New, Linked, AllCompared, Phases
    <3>2. New \in Ids
      BY <3>1, Typical DEF Linked
    <3> QED  BY <3>1, <3>2 DEF Older
  <2>2. 1 \in Int /\ New - 1 \in Int /\ 1 <= New
    BY <2>1
  <2>3. /\ IsFiniteSet(1 .. New - 1)
        /\ Cardinality(1 .. New - 1) = IF 1 > New - 1 THEN 0 ELSE New - 1 - 1 + 1
    BY <2>2, FS_Interval, Zenon
  <2> QED  BY <1>2, <2>1, <2>3
<1>4. ASSUME NEW u \in Older \ results PROVE FALSE
  <2>1. Cardinality(results) = Ef
    BY <1>4, LayerIsSearched DEF Outdone
  <2>2. Cardinality(results \cup {u}) = Cardinality(results) + 1
    BY <1>2, <1>4, FS_AddElement
  <2>3. results \cup {u} \subseteq Older
    BY <1>1, <1>4
  <2>4. Cardinality(results \cup {u}) <= Cardinality(Older)
    BY <1>3, <2>3, FS_Subset
  <2> QED  BY <1>2, <1>3, <2>1, <2>2, <2>4
<1> QED  BY <1>1, <1>4

LEMMA BeginSelectChooses ==
    ASSUME HnswAssumption, Linked, Exact, BeginSelect
    PROVE  Exact'
<1>1. /\ LayerSearched /\ pc = "search" /\ inserting /\ pc' = "select" /\ candidates' = results /\ selected' = <<>>
      /\ UNCHANGED <<nodes, inserting, query, targetLevel, layer>>
  BY DEF BeginSelect, LayerSearched, graphVars, callVars
<1>2. ~ Joining /\ ~ Joining'
  BY <1>1 DEF Joining
<1>3. /\ At' = At /\ Ids' = Ids /\ New' = New /\ (AllCompared' <=> AllCompared)
      /\ AllCompared => Chained'
  BY <1>1, <1>2, OffTheChain, PlacesStay
<1>4. Placed' /\ Tracked' /\ FindsNearest'
  BY <1>1, <1>3 DEF Exact, Placed, Tracked, FindsNearest
<1>5. ASSUME AllCompared, layer = 0 PROVE Choosing'
  <2>1. Older = results
    BY <1>1, <1>5, AllAreFound
  <2>2. Subject' = New
    BY <1>1, <1>3 DEF Subject
  <2>3. \A b : NextTo(At, Ids, New, b) => b \in Older
    BY DEF NextTo, Older
  <2>4. ToSet(<<>>) = {}
    BY DEF ToSet
  <2> QED  BY <1>1, <1>3, <2>1, <2>2, <2>3, <2>4 DEF Choosing
<1>6. layer # 0 => Choosing'
  BY <1>1 DEF Choosing
<1> QED  BY <1>3, <1>4, <1>5, <1>6 DEF Exact

\* Where the heuristic stands.
LEMMA SelectFinds ==
    ASSUME HnswAssumption, Linked, Exact, pc \in {"select", "prune"}
    PROVE  /\ Subject \in Ids /\ Centre = At[Subject] /\ Centre \in Int /\ inserting
           /\ candidates \subseteq Ids /\ Subject \notin candidates
           /\ selected \in Seq(Ids) /\ ToSet(selected) \subseteq Ids /\ IsInjective(selected)
           /\ ToSet(selected) \cap candidates = {}
<1>1. inserting /\ nodes # <<>> /\ layer \in Nat
  BY DEF Linked, Phases
<1>2. New \in Ids
  BY <1>1, Typical DEF Linked
<1> DEFINE from == IF pc = "select" THEN OnLayer ELSE ToSet(Links(Head(chosen), layer))
<1>3. /\ candidates \subseteq from /\ selected \in Seq(from)
      /\ IsInjective(selected) /\ ToSet(selected) \cap candidates = {}
  BY DEF Linked, Selecting
<1>4. Subject \in Ids /\ Centre = At[Subject] /\ from \subseteq Ids /\ Subject \notin from
  <2>1. CASE pc = "select"
    <3>1. Subject = New /\ Centre = query /\ query = At[New] /\ from = OnLayer
      BY <1>1, <2>1 DEF Subject, Centre, Exact, Placed
    <3> QED  BY <1>1, <1>2, <3>1 DEF OnLayer
  <2>2. CASE pc = "prune"
    <3>1. chosen # <<>>
      BY <2>2 DEF Linked, Linking
    <3>2. Head(chosen) \in Ids /\ layer \in 0 .. LevelOf(Head(chosen))
      BY <2>2, <3>1, LinkFinds
    <3>3. Subject = Head(chosen) /\ Centre = Vec(Head(chosen)) /\ from = ToSet(Links(Head(chosen), layer))
      BY <2>2 DEF Subject, Centre, Vec
    <3>4. from \subseteq {m \in Ids : m # Subject /\ LevelOf(m) >= layer}
      BY <3>2, <3>3 DEF Linked, ListsSound, ListSound
    <3> QED  BY <3>2, <3>3, <3>4, Positions DEF Exact
  <2> QED  BY <2>1, <2>2
<1> HIDE DEF from
<1>5. At[Subject] \in Int
  BY <1>4, Positions DEF Exact
<1>6. ToSet(selected) \subseteq Ids
  BY <1>3, <1>4 DEF ToSet
<1>7. selected \in Seq(Ids)
  BY <1>3, <1>6, WithinRange
<1> QED  BY <1>1, <1>3, <1>4, <1>5, <1>6, <1>7

LEMMA SelectChooses ==
    ASSUME HnswAssumption, Linked, Exact, Select
    PROVE  Exact'
<1> DEFINE n == Nearest(Centre, candidates)
           T == ToSet(selected)
<1>1. /\ pc \in {"select", "prune"} /\ candidates # {} /\ candidates' = candidates \ {n}
      /\ selected' = IF ApartFromSelected(n) THEN Append(selected, n) ELSE selected
      /\ UNCHANGED <<nodes, pc, inserting, query, targetLevel, layer, chosen, results>>
  BY DEF Select, graphVars, callVars, layerVars
<1>2. (Joining' <=> Joining) /\ Line' = Line /\ Subject' = Subject
  BY <1>1, PlacesStay DEF Joining, Line, Older, Subject
<1>3. At' = At /\ Ids' = Ids /\ New' = New /\ (AllCompared' <=> AllCompared) /\ (AllCompared => Chained')
  BY <1>1, <1>2, PlacesStay, ChainStays DEF Exact
<1>4. Placed' /\ Tracked' /\ FindsNearest'
  BY <1>1, <1>3 DEF Exact, Placed, Tracked, FindsNearest
<1>5. ASSUME AllCompared, layer = 0 PROVE Choosing'
  <2>1. /\ \A b : NextTo(At, Ids, Subject, b) => b \in candidates \cup T
        /\ \A s \in T : NextTo(At, Ids, Subject, s)
    BY <1>1, <1>5 DEF Exact, Choosing
  <2>2. /\ Subject \in Ids /\ Centre = At[Subject] /\ Centre \in Int
        /\ candidates \subseteq Ids /\ Subject \notin candidates
        /\ selected \in Seq(Ids) /\ T \subseteq Ids /\ T \cap candidates = {}
    BY <1>1, SelectFinds
  <2>3. n \in candidates /\ \A m \in candidates : Away(Centre, n) <= Away(Centre, m)
    BY <1>1, <2>2, NearestIsIn DEF Linked
  <2>4. ApartFromSelected(n) <=> \A s \in T : Distance(At[n], At[s]) > Distance(At[n], Centre)
    <3>1. ApartFromSelected(n) <=> \A i \in DOMAIN selected : Distance(Vec(n), Vec(selected[i])) > Away(Centre, n)
      BY DEF ApartFromSelected, Vec
    <3> HIDE DEF n
    <3>2. n \in Ids
      BY <2>2, <2>3
    <3>3. Vec(n) = At[n] /\ Away(Centre, n) = Distance(At[n], Centre) /\ \A m \in Ids : Vec(m) = At[m]
      BY <3>2, Positions DEF Exact
    <3>4. \A i \in DOMAIN selected : selected[i] \in Ids
      BY <2>2 DEF ToSet
    <3>5. ApartFromSelected(n) <=> \A i \in DOMAIN selected : Distance(At[n], At[selected[i]]) > Distance(At[n], Centre)
      BY <3>1, <3>3, <3>4
    <3> QED  BY <3>5 DEF ToSet
  <2> HIDE DEF n
  <2>5. (\A s \in T : Distance(At[n], At[s]) > Distance(At[n], At[Subject])) <=> NextTo(At, Ids, Subject, n)
    <3>1. n \in Ids /\ n # Subject /\ At \in [Ids -> Int] /\ IsInjective(At)
      BY <2>2, <2>3, Positions DEF Exact, Placed
    <3>2. \A m \in candidates : Distance(At[n], At[Subject]) <= Distance(At[m], At[Subject])
      <4>1. \A m \in Ids : Away(Centre, m) = Distance(At[m], At[Subject])
        BY <2>2, Positions DEF Exact
      <4> QED  BY <2>2, <2>3, <3>1, <4>1
    <3> HIDE DEF T
    <3> QED  BY <2>1, <2>2, <2>3, <3>1, <3>2, SelectsNextOnes
  <2>6. ToSet(selected') = IF NextTo(At, Ids, Subject, n) THEN T \cup {n} ELSE T
    <3>1. n \in Ids
      BY <2>2, <2>3
    <3>2. ToSet(Append(selected, n)) = T \cup {n}
      BY <2>2, <3>1, Appended
    <3>3. ApartFromSelected(n) <=> NextTo(At, Ids, Subject, n)
      BY <2>2, <2>4, <2>5
    <3> QED  BY <1>1, <3>2, <3>3
  <2> HIDE DEF T
  <2>7. \A b : NextTo(At, Ids, Subject, b) => b \in candidates' \cup ToSet(selected')
    BY <1>1, <2>1, <2>6
  <2>8. \A s \in ToSet(selected') : NextTo(At, Ids, Subject, s)
    BY <2>1, <2>6
  <2> QED  BY <1>2, <1>3, <2>7, <2>8 DEF Choosing
<1>6. layer # 0 => Choosing'
  BY <1>1 DEF Choosing
<1> QED  BY <1>3, <1>4, <1>5, <1>6 DEF Exact

\* In the end all those next to the centre are selected: there is room for both.
LEMMA NextOnesSelected ==
    ASSUME HnswAssumption, Linked, Exact, AllCompared, layer = 0, pc \in {"select", "prune"}, Selected,
           NEW b, NextTo(At, Ids, Subject, b)
    PROVE  b \in ToSet(selected)
<1>1. /\ b \in candidates \cup ToSet(selected)
      /\ \A s \in ToSet(selected) : NextTo(At, Ids, Subject, s)
  BY DEF Exact, Choosing
<1>2. Subject \in Ids /\ selected \in Seq(Ids) /\ IsInjective(selected)
  BY SelectFinds
<1>3. CASE candidates = {}
  BY <1>1, <1>3
<1>4. CASE Len(selected) >= LayerMax
  <2>1. Len(selected) \in Nat /\ Len(selected) >= 2 /\ DOMAIN selected = 1 .. Len(selected)
    <3>1. LayerMax = 2 * MaxM /\ MaxM \in Nat /\ MaxM >= 1
      BY DEF LayerMax, HnswAssumption
    <3> QED  BY <1>2, <1>4, <3>1
  <2>2. 1 \in DOMAIN selected /\ 2 \in DOMAIN selected
    BY <2>1
  <2>3. selected[1] \in ToSet(selected) /\ selected[2] \in ToSet(selected) /\ selected[1] # selected[2]
    BY <1>2, <2>2 DEF ToSet, IsInjective
  <2>4. At \in [Ids -> Int] /\ IsInjective(At)
    BY Positions DEF Exact, Placed
  <2>5. b \in {selected[1], selected[2]}
    BY <1>1, <1>2, <2>3, <2>4, TwoSides
  <2> QED  BY <2>3, <2>5
<1> QED  BY <1>3, <1>4 DEF Selected

LEMMA EndSelectJoins ==
    ASSUME HnswAssumption, Linked, Exact, EndSelect
    PROVE  Exact'
<1>1. /\ pc = "select" /\ Selected /\ pc' = "link" /\ chosen' = selected
      /\ UNCHANGED <<nodes, inserting, query, layer>>
  BY DEF EndSelect, graphVars, callVars
<1>2. /\ At' = At /\ Ids' = Ids /\ New' = New /\ Bottom' = Bottom /\ (AllCompared' <=> AllCompared)
      /\ Older' = Older
  BY <1>1, PlacesStay DEF Older
<1>3. Placed' /\ Tracked' /\ FindsNearest' /\ Choosing'
  BY <1>1, <1>2 DEF Exact, Placed, Tracked, FindsNearest, Choosing
<1>4. Line = Older /\ ~ Joining
  BY <1>1 DEF Line, Joining
<1>5. ASSUME AllCompared, layer = 0 PROVE Chained'
  <2>1. Joining' /\ Line' = Ids
    BY <1>1, <1>2, <1>5 DEF Joining, Line
  <2>2. Pending' = ToSet(selected)
    <3>1. DOMAIN selected = 1 .. Len(selected)
      BY <1>1, SelectFinds
    <3> QED  BY <1>1, <3>1 DEF Pending, ToSet
  <2>3. inserting /\ New \in Ids /\ Subject = New
    BY <1>1, SelectFinds DEF Subject
  <2>4. \A b : NextTo(At, Ids, New, b) => b \in Pending'
    BY <1>1, <1>5, <2>2, <2>3, NextOnesSelected
  <2>5. ASSUME NEW a \in Ids, NEW b \in Ids, NextTo(At, Ids, a, b)
        PROVE  b \in Bottom[a] \/ (a = New /\ b \in Pending') \/ (b = New /\ a \in Pending')
    <3>1. CASE a = New
      BY <2>4, <2>5, <3>1
    <3>2. CASE b = New
      <4>1. NextTo(At, Ids, New, a)
        BY <2>5, <3>2, Positions, NextToBothWays DEF Exact
      <4> QED  BY <2>4, <3>2, <4>1
    <3>3. CASE a # New /\ b # New
      <4>1. a \in Older /\ b \in Older /\ NextTo(At, Older, a, b)
        BY <2>5, <3>3 DEF Older, NextTo
      <4> QED  BY <1>4, <1>5, <4>1 DEF Exact, Chained
    <3> QED  BY <3>1, <3>2, <3>3
  <2> QED  BY <1>2, <2>1, <2>5 DEF Chained
<1>6. ASSUME AllCompared, layer # 0 PROVE Chained'
  <2>1. ~ Joining'
    BY <1>1, <1>6 DEF Joining
  <2> QED  BY <1>1, <1>4, <1>6, <2>1, OffTheChain
<1> QED  BY <1>2, <1>3, <1>5, <1>6 DEF Exact

\* What linking does to the lowest layer, and how it uses up the chosen ones.
LEMMA LinkFromBottom ==
    ASSUME HnswAssumption, Linked, Exact, Link
    PROVE  /\ Ids' = Ids /\ New' = New /\ At' = At /\ Older' = Older /\ (AllCompared' <=> AllCompared)
           /\ \A m \in Ids :
                 Bottom'[m] = IF layer = 0 /\ m = New THEN Bottom[m] \cup {Head(chosen)}
                              ELSE IF layer = 0 /\ m = Head(chosen) THEN Bottom[m] \cup {New}
                              ELSE Bottom[m]
<1> DEFINE h == Head(chosen)
<1>1. /\ New \in Ids /\ h \in Ids /\ h # New /\ New \in Nat /\ h \in Nat /\ layer \in Nat
      /\ layer \in 0 .. LevelOf(New) /\ layer \in 0 .. LevelOf(h)
  BY LinkFinds, Typical DEF Link, Linked, Phases
<1>2. /\ Ids' = Ids /\ New' = New
      /\ \A m \in Ids :
            /\ Vec(m)' = Vec(m)
            /\ \A k \in 0 .. LevelOf(m) :
                  Links(m, k)' = IF k = layer /\ m = New THEN Append(Links(New, layer), h)
                                 ELSE IF k = layer /\ m = h THEN Append(Links(m, layer), New)
                                 ELSE Links(m, k)
  BY LinkedLists
<1>3. At' = At
  BY <1>2 DEF At
<1>4. Older' = Older
  BY <1>2 DEF Older, Link, callVars
<1>5. AllCompared' <=> AllCompared
  BY <1>2 DEF AllCompared, New
<1>6. \A m \in Ids : Bottom[m] = ToSet(Links(m, 0)) /\ Bottom'[m] = ToSet(Links(m, 0)')
  BY <1>2 DEF Bottom
<1>7. \A m \in Ids : 0 \in 0 .. LevelOf(m)
  BY Typical DEF Linked
<1>8. /\ ToSet(Append(Links(New, layer), h)) = ToSet(Links(New, layer)) \cup {h}
      /\ ToSet(Append(Links(h, layer), New)) = ToSet(Links(h, layer)) \cup {New}
  <2>1. Links(New, layer) \in Seq(Nat) /\ Links(h, layer) \in Seq(Nat)
    BY <1>1, Typical DEF Linked
  <2>2. New \in Nat /\ h \in Nat
    BY <1>1
  <2> HIDE DEF h
  <2>3. ToSet(Append(Links(New, layer), h)) = ToSet(Links(New, layer)) \cup {h}
    BY <2>1, <2>2, Appended
  <2>4. ToSet(Append(Links(h, layer), New)) = ToSet(Links(h, layer)) \cup {New}
    BY <2>1, <2>2, Appended
  <2> QED  BY <2>3, <2>4
<1> HIDE DEF h
<1>9. ASSUME NEW m \in Ids
      PROVE  Bottom'[m] = IF layer = 0 /\ m = New THEN Bottom[m] \cup {h}
                          ELSE IF layer = 0 /\ m = h THEN Bottom[m] \cup {New}
                          ELSE Bottom[m]
  <2>1. Links(m, 0)' = IF 0 = layer /\ m = New THEN Append(Links(New, layer), h)
                       ELSE IF 0 = layer /\ m = h THEN Append(Links(m, layer), New)
                       ELSE Links(m, 0)
    BY <1>2, <1>7
  <2> QED  BY <1>1, <1>6, <1>8, <2>1
<1> QED  BY <1>2, <1>3, <1>4, <1>5, <1>9 DEF h

LEMMA LinkJoins ==
    ASSUME HnswAssumption, Linked, Exact, Link
    PROVE  Exact'
<1> DEFINE h == Head(chosen)
           back == Append(Links(h, layer), New)
<1>1. /\ pc = "link" /\ chosen # <<>>
      /\ UNCHANGED <<inserting, query, layer, selected>>
      /\ \/ pc' = "prune" /\ candidates' = ToSet(back) /\ UNCHANGED chosen
         \/ pc' = "link" /\ chosen' = Tail(chosen)
  BY DEF Link, callVars, layerVars, Links
<1>2. /\ Ids' = Ids /\ New' = New /\ At' = At /\ Older' = Older /\ (AllCompared' <=> AllCompared)
      /\ \A m \in Ids :
            Bottom'[m] = IF layer = 0 /\ m = New THEN Bottom[m] \cup {h}
                         ELSE IF layer = 0 /\ m = h THEN Bottom[m] \cup {New}
                         ELSE Bottom[m]
  BY LinkFromBottom
<1>3. Placed' /\ Tracked' /\ FindsNearest'
  BY <1>1, <1>2 DEF Exact, Placed, Tracked, FindsNearest
<1>4. New \in Ids /\ h \in Ids /\ h # New /\ layer \in 0 .. LevelOf(h) /\ layer \in Nat /\ inserting
  BY <1>1, LinkFinds DEF Linked, Phases
<1>5. /\ \A i \in 1 .. Len(chosen) : i = 1 \/ i \in 2 .. Len(chosen)
      /\ Pending' = {chosen[i] : i \in 2 .. Len(chosen)} /\ Pending = {chosen[i] : i \in 1 .. Len(chosen)}
      /\ h = chosen[1]
  <2>1. chosen \in Seq(OnLayer)
    BY <1>1 DEF Linked, Linking
  <2>2. /\ Len(chosen) \in Nat /\ h = chosen[1] /\ Len(chosen) >= 1 /\ Len(Tail(chosen)) = Len(chosen) - 1
        /\ \A i \in 1 .. Len(chosen) - 1 : Tail(chosen)[i] = chosen[i + 1]
    BY <1>1, <2>1, Taken
  <2>3. Pending = {chosen[i] : i \in 1 .. Len(chosen)}
    BY <1>1 DEF Pending
  <2>4. CASE pc' = "prune" /\ chosen' = chosen
    BY <2>2, <2>3, <2>4 DEF Pending
  <2>5. CASE pc' = "link" /\ chosen' = Tail(chosen)
    <3>1. Pending' = {Tail(chosen)[i] : i \in 1 .. Len(chosen) - 1}
      BY <2>2, <2>5 DEF Pending
    <3>2. \A i \in 2 .. Len(chosen) : i - 1 \in 1 .. Len(chosen) - 1 /\ Tail(chosen)[i - 1] = chosen[i]
      BY <2>2
    <3>3. \A i \in 1 .. Len(chosen) - 1 : i + 1 \in 2 .. Len(chosen)
      BY <2>2
    <3> HIDE DEF h
    <3>4. {Tail(chosen)[i] : i \in 1 .. Len(chosen) - 1} = {chosen[i] : i \in 2 .. Len(chosen)}
      BY <2>2, <3>2, <3>3
    <3> QED  BY <2>2, <2>3, <3>1, <3>4
  <2> QED  BY <1>1, <2>4, <2>5
<1> HIDE DEF h, back
<1>6. ASSUME AllCompared, layer = 0 PROVE Chained' /\ Choosing'
  <2>1. Joining /\ Joining' /\ Line = Ids /\ Line' = Ids
    BY <1>1, <1>2, <1>6 DEF Joining, Line
  <2>2. \A a, b \in Ids :
           NextTo(At, Ids, a, b) =>
              b \in Bottom[a] \/ (a = New /\ b \in Pending) \/ (b = New /\ a \in Pending)
    BY <1>6, <2>1 DEF Exact, Chained
  <2>3. \A x \in Pending : x = h \/ x \in Pending'
    BY <1>5
  <2>4. /\ \A m \in Ids : Bottom[m] \subseteq Bottom'[m]
        /\ h \in Bottom'[New] /\ New \in Bottom'[h]
    BY <1>2, <1>4, <1>6
  <2>5. ASSUME NEW a \in Ids, NEW b \in Ids, NextTo(At, Ids, a, b)
        PROVE  b \in Bottom'[a] \/ (a = New /\ b \in Pending') \/ (b = New /\ a \in Pending')
    BY <2>2, <2>3, <2>4, <2>5
  <2>6. Chained'
    BY <1>2, <2>1, <2>5 DEF Chained
  <2>7. ASSUME pc' = "prune"
        PROVE  Choosing'
    <3>1. candidates' = ToSet(back) /\ chosen' = chosen /\ Subject' = h
      <4>1. candidates' = ToSet(back) /\ chosen' = chosen
        BY <1>1, <2>7
      <4> QED  BY <2>7, <4>1 DEF Subject, h
    <3>2. selected = <<>> /\ ToSet(<<>>) = {}
      BY <1>1 DEF Linked, Linking, ToSet
    <3>3. ToSet(back) = Bottom[h] \cup {New}
      <4>1. Links(h, layer) \in Seq(Nat) /\ New \in Nat
        BY <1>4, Typical DEF Linked
      <4>2. ToSet(back) = ToSet(Links(h, layer)) \cup {New}
        BY <4>1, Appended DEF back
      <4> QED  BY <1>4, <1>6, <4>2 DEF Bottom
    <3>4. \A b : NextTo(At, Ids, h, b) => b \in Bottom[h] \cup {New}
      BY <1>4, <2>2 DEF NextTo
    <3> QED  BY <1>1, <1>2, <3>1, <3>2, <3>3, <3>4 DEF Choosing
  <2>8. pc' # "prune" => Choosing'
    BY <1>1 DEF Choosing
  <2> QED  BY <2>6, <2>7, <2>8
<1>7. ASSUME AllCompared, layer # 0 PROVE Chained' /\ Choosing'
  <2>1. ~ Joining /\ ~ Joining' /\ Line = Older /\ Line' = Older
    BY <1>1, <1>2, <1>7 DEF Joining, Line
  <2>2. \A m \in Ids : Bottom'[m] = Bottom[m]
    BY <1>2, <1>7
  <2>3. Chained'
    BY <1>2, <1>7, <2>1, <2>2 DEF Exact, Chained, Older
  <2> QED  BY <1>1, <1>7, <2>3 DEF Choosing
<1> QED  BY <1>2, <1>3, <1>6, <1>7 DEF Exact

LEMMA EndPruneJoins ==
    ASSUME HnswAssumption, Linked, Exact, EndPrune
    PROVE  Exact'
<1> DEFINE h == Head(chosen)
<1>1. /\ pc = "prune" /\ Selected /\ pc' = "link" /\ chosen' = Tail(chosen) /\ chosen # <<>>
      /\ UNCHANGED <<inserting, query, layer>>
  BY DEF EndPrune, callVars, Linked, Linking
<1>2. /\ Ids' = Ids /\ New' = New
      /\ \A m \in Ids :
            /\ Vec(m)' = Vec(m)
            /\ \A k \in 0 .. LevelOf(m) :
                  Links(m, k)' = IF k = layer /\ m = h THEN selected ELSE Links(m, k)
  BY PrunedLists
<1>3. /\ At' = At /\ Older' = Older /\ (AllCompared' <=> AllCompared)
  BY <1>1, <1>2 DEF At, Older, AllCompared, New
<1>4. Placed' /\ Tracked' /\ FindsNearest' /\ Choosing'
  BY <1>1, <1>2, <1>3 DEF Exact, Placed, Tracked, FindsNearest, Choosing
<1>5. \A m \in Ids : Bottom'[m] = IF layer = 0 /\ m = h THEN ToSet(selected) ELSE Bottom[m]
  <2>1. \A m \in Ids : Bottom[m] = ToSet(Links(m, 0)) /\ Bottom'[m] = ToSet(Links(m, 0)')
    BY <1>2 DEF Bottom
  <2>2. \A m \in Ids : 0 \in 0 .. LevelOf(m)
    BY Typical DEF Linked
  <2> HIDE DEF h
  <2> QED  BY <1>2, <2>1, <2>2
<1>6. ASSUME AllCompared, layer = 0 PROVE Chained'
  <2>1. Joining /\ Joining' /\ Line = Ids /\ Line' = Ids /\ Subject = h
    BY <1>1, <1>2, <1>6 DEF Joining, Line, Subject
  <2>2. \A a, b \in Ids :
           NextTo(At, Ids, a, b) =>
              b \in Bottom[a] \/ (a = New /\ b \in Pending) \/ (b = New /\ a \in Pending)
    BY <1>6, <2>1 DEF Exact, Chained
  <2>3. Pending' = Pending
    <3>1. chosen \in Seq(OnLayer)
      BY <1>1 DEF Linked, Linking
    <3>2. /\ Len(chosen) \in Nat /\ Len(chosen) >= 1 /\ Len(Tail(chosen)) = Len(chosen) - 1
          /\ \A i \in 1 .. Len(chosen) - 1 : Tail(chosen)[i] = chosen[i + 1]
      BY <1>1, <3>1, Taken
    <3>3. Pending' = {Tail(chosen)[i] : i \in 1 .. Len(chosen) - 1} /\ Pending = {chosen[i] : i \in 2 .. Len(chosen)}
      BY <1>1, <3>2 DEF Pending
    <3>4. \A i \in 2 .. Len(chosen) : i - 1 \in 1 .. Len(chosen) - 1 /\ Tail(chosen)[i - 1] = chosen[i]
      BY <3>2
    <3>5. \A i \in 1 .. Len(chosen) - 1 : i + 1 \in 2 .. Len(chosen)
      BY <3>2
    <3> QED  BY <3>2, <3>3, <3>4, <3>5
  <2>4. \A b : NextTo(At, Ids, h, b) => b \in ToSet(selected)
    BY <1>1, <1>6, <2>1, NextOnesSelected
  <2> HIDE DEF h
  <2>5. ASSUME NEW a \in Ids, NEW b \in Ids, NextTo(At, Ids, a, b)
        PROVE  b \in Bottom'[a] \/ (a = New /\ b \in Pending') \/ (b = New /\ a \in Pending')
    BY <1>5, <1>6, <2>2, <2>3, <2>4, <2>5
  <2> QED  BY <1>2, <1>3, <2>1, <2>5 DEF Chained
<1>7. ASSUME AllCompared, layer # 0 PROVE Chained'
  <2>1. ~ Joining /\ ~ Joining' /\ Line = Older /\ Line' = Older
    BY <1>1, <1>3, <1>7 DEF Joining, Line
  <2> QED  BY <1>2, <1>3, <1>5, <1>7, <2>1 DEF Exact, Chained, Older
<1> QED  BY <1>3, <1>4, <1>6, <1>7 DEF Exact

-----------------------------------------------------------------------------
(* Hnsw: the answers of searchVector.                                      *)

\* The nodes of set that are nearer to the query than n.
Nearer(set, n) == {m \in set : Away(query, m) < Away(query, n)}

Answering == pc = "found" => results \subseteq Ids

LEMMA AnsweringStep ==
    ASSUME Linked, Answering, [IndexNext]_indexVars
    PROVE  Answering'
<1>1. CASE EndQuery
  <2>1. pc = "search" /\ UNCHANGED <<nodes, results>>
    BY <1>1 DEF EndQuery, LayerSearched, graphVars
  <2>2. results \subseteq Ids
    BY <2>1 DEF Linked, Searching, OnLayer
  <2> QED  BY <2>1, <2>2 DEF Answering, Ids
<1>2. CASE ~ EndQuery /\ IndexNext
  <2>1. pc' # "found" \/ UNCHANGED <<pc, nodes, results>>
    <3>1. CASE \E k \in VectorKeys : PutVector(k)
      BY <3>1 DEF PutVector, BeginLayer, callVars, layerVars
    <3>2. CASE \E k \in VectorKeys : RemoveVector(k)
      BY <3>2 DEF RemoveVector, graphVars, layerVars
    <3>3. CASE \E v \in Vectors : BeginQuery(v)
      BY <3>3 DEF BeginQuery, BeginLayer
    <3>4. CASE CallStep
      BY <1>2, <3>4 DEF CallStep, Visit, Expand, Descend, BeginSelect, Select, EndSelect, Link, EndPrune,
                        NextLayer, EndInsert, GiveAnswer, Return, BeginLayer, LayerSearched, LayerLinked
    <3> QED  BY <1>2, <3>1, <3>2, <3>3, <3>4 DEF IndexNext
  <2> QED  BY <2>1 DEF Answering, Ids
<1>3. CASE UNCHANGED indexVars
  BY <1>3 DEF Answering, Ids, indexVars, graphVars, layerVars
<1> QED  BY <1>1, <1>2, <1>3

LEMMA Ranks ==
    ASSUME Graph, query \in Int, NEW S, S \subseteq Ids
    PROVE  /\ IsFiniteSet(S)
           /\ \A n \in Ids : Away(query, n) \in Int
           /\ \A T \in SUBSET S : Cardinality(T) \in Nat /\ Cardinality(T) <= Cardinality(S)
           /\ \A n \in Ids : Nearer(S, n) \in SUBSET S /\ Cardinality(Nearer(S, n)) \in Nat
           /\ \A c : FirstOf(S, c) = {n \in S : Cardinality(Nearer(S, n)) < c}
<1>1. IsFiniteSet(Ids)
  <2>1. New \in Nat /\ Ids = 1 .. New
    BY Typical DEF Ids, New
  <2> QED  BY <2>1, FS_Interval
<1>2. IsFiniteSet(S)
  BY <1>1, FS_Subset
<1>3. \A T \in SUBSET S : Cardinality(T) \in Nat /\ Cardinality(T) <= Cardinality(S)
  BY <1>2, FS_Subset, FS_CardinalityType
<1>4. \A n \in Ids : Away(query, n) \in Int
  <2>1. \A n \in Ids : nodes[n].vector \in Int
    BY Typical
  <2> QED  BY <2>1 DEF Away, Distance
<1>5. \A n : Nearer(S, n) \in SUBSET S
  BY DEF Nearer
<1>6. \A c : FirstOf(S, c) = {n \in S : Cardinality(Nearer(S, n)) < c}
  BY DEF FirstOf, Nearer
<1> QED  BY <1>2, <1>3, <1>4, <1>5, <1>6

\* Who is as near as one of the first is one of them.
LEMMA FirstAreNearest ==
    ASSUME Graph, query \in Int, NEW S, S \subseteq Ids, NEW c \in Nat,
           NEW n \in FirstOf(S, c), NEW m \in Nearer(S, n)
    PROVE  m \in FirstOf(S, c)
<1>1. m \in S /\ n \in S /\ Away(query, m) < Away(query, n)
  BY DEF Nearer, FirstOf
<1>2. Nearer(S, m) \subseteq Nearer(S, n)
  <2>1. \A x \in S : Away(query, x) \in Int
    BY Ranks
  <2> QED  BY <1>1, <2>1 DEF Nearer
<1>3. IsFiniteSet(Nearer(S, n))
  <2>1. Nearer(S, n) \subseteq Ids
    BY DEF Nearer
  <2> QED  BY <2>1, Ranks
<1>4. /\ Cardinality(Nearer(S, m)) <= Cardinality(Nearer(S, n))
      /\ Cardinality(Nearer(S, m)) \in Nat /\ Cardinality(Nearer(S, n)) \in Nat
  BY <1>2, <1>3, FS_Subset, FS_CardinalityType
<1>5. Cardinality(Nearer(S, n)) < c
  BY Ranks
<1> QED  BY <1>1, <1>4, <1>5, Ranks

\* When a subset has the nearest of a set, nobody of them comes earlier or later in it.
LEMMA SameFirst ==
    ASSUME Graph, query \in Int, NEW S, S \subseteq Ids, NEW T, T \subseteq S,
           NEW d \in Nat, NEW c \in Nat, c <= d, FirstOf(S, d) \subseteq T,
           FirstOf(T, c) \subseteq FirstOf(S, d)
    PROVE  FirstOf(T, c) = FirstOf(S, c)
<1>1. ASSUME NEW n \in FirstOf(S, d)
      PROVE  n \in S /\ n \in T /\ Nearer(T, n) = Nearer(S, n)
  <2>1. n \in S /\ n \in T
    BY DEF FirstOf
  <2>2. Nearer(S, n) \subseteq T
    BY FirstAreNearest
  <2> QED  BY <2>1, <2>2 DEF Nearer
<1>2. /\ FirstOf(S, c) = {n \in S : Cardinality(Nearer(S, n)) < c}
      /\ FirstOf(S, d) = {n \in S : Cardinality(Nearer(S, n)) < d}
      /\ \A n \in S : Cardinality(Nearer(S, n)) \in Nat
  BY Ranks
<1>3. FirstOf(T, c) = {n \in T : Cardinality(Nearer(T, n)) < c}
  BY Ranks
<1>4. FirstOf(S, c) \subseteq FirstOf(S, d)
  BY <1>2
<1> QED  BY <1>1, <1>2, <1>3, <1>4

LEMMA EndQueryFinds ==
    ASSUME HnswAssumption, Linked, Exact, EndQuery
    PROVE  Exact'
<1>1. /\ LayerSearched /\ pc = "search" /\ layer = 0 /\ ~ inserting /\ pc' = "found"
      /\ UNCHANGED <<nodes, inserting, query, targetLevel, layer, results>>
  BY DEF EndQuery, LayerSearched, graphVars, callVars
<1>2. ~ Joining /\ ~ Joining'
  BY <1>1 DEF Joining
<1>3. /\ At' = At /\ Ids' = Ids /\ New' = New /\ (AllCompared' <=> AllCompared)
      /\ AllCompared => Chained'
  BY <1>1, <1>2, OffTheChain, PlacesStay
<1>4. Placed' /\ Tracked' /\ Choosing'
  BY <1>1, <1>3 DEF Exact, Placed, Tracked, Choosing
<1>5. ASSUME AllCompared PROVE FirstOf(results, Ef) = FirstOf(Ids, Ef)
  <2>1. Ids = Older /\ \A u \in Ids \ results : Outdone(At, query, results, u)
    <3>1. Ids = Older
      BY <1>1 DEF Older
    <3> QED  BY <1>1, <1>5, <3>1, LayerIsSearched
  <2>2. /\ Ef \in Nat /\ query \in Int /\ results \subseteq Ids /\ IsFiniteSet(results)
        /\ Cardinality(results) \in Nat /\ Cardinality(results) <= Ef /\ Graph
    BY <1>1, <1>5, SearchFinds DEF Linked
  <2>3. \A n \in Ids : Away(query, n) = Distance(At[n], query) /\ Away(query, n) \in Nat
    BY <2>2, Positions DEF Exact
  <2>4. /\ FirstOf(results, Ef) = {n \in results : Cardinality(Nearer(results, n)) < Ef}
        /\ FirstOf(Ids, Ef) = {n \in Ids : Cardinality(Nearer(Ids, n)) < Ef}
    BY <2>2, Ranks
  <2>5. ASSUME NEW n \in results
        PROVE  Nearer(Ids, n) = Nearer(results, n) /\ Cardinality(Nearer(results, n)) < Ef
    <3>1. Nearer(Ids, n) = Nearer(results, n)
      <4>1. \A u \in Ids \ results : ~ (Away(query, u) < Away(query, n))
        BY <2>1, <2>2, <2>3 DEF Outdone
      <4> QED  BY <2>2, <4>1 DEF Nearer
    <3>2. Nearer(results, n) \subseteq results \ {n}
      BY <2>2, <2>3 DEF Nearer
    <3>3. IsFiniteSet(results \ {n}) /\ Cardinality(results \ {n}) = Cardinality(results) - 1
      BY <2>2, FS_RemoveElement
    <3>4. Cardinality(Nearer(results, n)) <= Cardinality(results \ {n}) /\ Cardinality(Nearer(results, n)) \in Nat
      BY <3>2, <3>3, FS_Subset, FS_CardinalityType
    <3> QED  BY <2>2, <3>1, <3>3, <3>4
  <2>6. ASSUME NEW n \in Ids \ results
        PROVE  ~ (Cardinality(Nearer(Ids, n)) < Ef)
    <3>1. Cardinality(results) = Ef /\ results \subseteq Nearer(Ids, n)
      BY <2>1, <2>2, <2>3 DEF Outdone, Nearer
    <3>2. IsFiniteSet(Nearer(Ids, n))
      <4>1. Nearer(Ids, n) \subseteq Ids
        BY DEF Nearer
      <4> QED  BY <2>2, <4>1, Ranks
    <3>3. Cardinality(results) <= Cardinality(Nearer(Ids, n)) /\ Cardinality(Nearer(Ids, n)) \in Nat
      BY <3>1, <3>2, FS_Subset, FS_CardinalityType
    <3> QED  BY <2>2, <3>1, <3>3
  <2>7. FirstOf(results, Ef) = results
    BY <2>4, <2>5
  <2> QED  BY <2>2, <2>4, <2>5, <2>6, <2>7
<1>6. FindsNearest'
  BY <1>1, <1>3, <1>5 DEF FindsNearest, FirstOf, Away
<1> QED  BY <1>3, <1>4, <1>6 DEF Exact

\* The steps that begin a search on a layer.
LEMMA BeginningsKeep ==
    ASSUME HnswAssumption, Linked, Exact,
           Descend \/ NextLayer \/ (\E v \in Vectors : BeginQuery(v))
    PROVE  Exact'
<1>1. PICK lc, start :
         /\ BeginLayer(lc, start) /\ start \in Older /\ ~ Joining /\ query' \in Vectors
         /\ UNCHANGED <<nodes, inserting>> /\ (inserting => UNCHANGED query)
  <2>1. OnLayer \subseteq Older
    BY DEF OnLayer, Older
  <2>2. CASE Descend
    <3>1. /\ pc = "search" /\ BeginLayer(layer - 1, Nearest(query, results))
          /\ UNCHANGED <<nodes, inserting, query>>
      BY <2>2 DEF Descend, LayerSearched, graphVars, callVars
    <3>2. Nearest(query, results) \in results
      <4>1. results # {} /\ results \subseteq Ids /\ query \in Int
        BY <3>1 DEF Linked, Searching, OnLayer, Phases
      <4> QED  BY <4>1, NearestIsIn DEF Linked
    <3>3. Nearest(query, results) \in Older
      BY <2>1, <3>1, <3>2 DEF Linked, Searching
    <3>4. ~ Joining /\ query' \in Vectors
      BY <3>1 DEF Joining, Exact, Placed
    <3> QED  BY <3>1, <3>3, <3>4
  <2>3. CASE NextLayer
    <3>1. /\ pc = "link" /\ layer > 0 /\ BeginLayer(layer - 1, ep) /\ UNCHANGED <<nodes, inserting, query>>
      BY <2>3 DEF NextLayer, LayerLinked, graphVars, callVars
    <3>2. ep \in Older
      BY <2>1, <3>1 DEF Linked, Linking
    <3>3. ~ Joining /\ query' \in Vectors
      BY <3>1 DEF Joining, Exact, Placed
    <3> QED  BY <3>1, <3>2, <3>3
  <2>4. CASE \E v \in Vectors : BeginQuery(v)
    <3>1. PICK v \in Vectors : BeginQuery(v)
      BY <2>4
    <3>2. /\ pc = "idle" /\ nodes # <<>> /\ query' = v /\ BeginLayer(LevelOf(enter), enter)
          /\ UNCHANGED <<nodes, inserting>>
      BY <3>1 DEF BeginQuery, graphVars
    <3>3. ~ inserting /\ enter \in Older
      BY <3>2 DEF Linked, Phases, EnterOnTop, Older
    <3>4. ~ Joining
      BY <3>2 DEF Joining
    <3> QED  BY <3>2, <3>3, <3>4
  <2> QED  BY <2>2, <2>3, <2>4
<1>2. /\ At' = At /\ Ids' = Ids /\ New' = New /\ (AllCompared' <=> AllCompared) /\ Older' = Older
  BY <1>1, PlacesStay DEF Older
<1>3. Tracked' /\ Choosing' /\ FindsNearest' /\ ~ Joining'
  BY <1>1, <1>2, LayerBegun
<1>4. AllCompared => Chained'
  BY <1>1, <1>3, OffTheChain
<1>5. Placed'
  BY <1>1, <1>2 DEF Exact, Placed
<1> QED  BY <1>2, <1>3, <1>4, <1>5 DEF Exact

LEMMA EndingsKeep ==
    ASSUME HnswAssumption, Linked, Exact,
           EndInsert \/ GiveAnswer \/ (\E k \in VectorKeys : RemoveVector(k)) \/ UNCHANGED indexVars
    PROVE  Exact'
<1>1. CASE EndInsert
  <2>1. /\ pc = "link" /\ chosen = <<>> /\ layer = 0 /\ pc' = "idle" /\ ~ inserting' /\ UNCHANGED nodes
    BY <1>1 DEF EndInsert, LayerLinked, Return
  <2>2. /\ At' = At /\ Ids' = Ids /\ New' = New /\ Bottom' = Bottom /\ (AllCompared' <=> AllCompared)
    BY <2>1, PlacesStay
  <2>3. Line = Ids /\ Line' = Ids /\ Pending = {}
    BY <2>1, <2>2 DEF Line, Joining, Older, Pending
  <2>4. AllCompared => Chained'
    BY <2>2, <2>3 DEF Exact, Chained
  <2> QED  BY <2>1, <2>2, <2>4 DEF Exact, Placed, Tracked, Choosing, FindsNearest
<1>2. CASE GiveAnswer
  <2>1. pc = "found" /\ pc' = "idle" /\ ~ inserting' /\ UNCHANGED nodes
    BY <1>2 DEF GiveAnswer, Return, graphVars
  <2>2. /\ At' = At /\ Ids' = Ids /\ New' = New /\ (AllCompared' <=> AllCompared)
    BY <2>1, PlacesStay
  <2>3. ~ Joining /\ ~ Joining' /\ ~ inserting /\ (inserting' <=> inserting)
    BY <2>1 DEF Joining, Linked, Phases
  <2>4. Line' = Line
    BY <2>2, <2>3 DEF Line, Older
  <2>5. AllCompared => Chained'
    BY <2>1, <2>3, <2>4, ChainStays DEF Exact
  <2> QED  BY <2>1, <2>2, <2>5 DEF Exact, Placed, Tracked, Choosing, FindsNearest
<1>3. CASE (\E k \in VectorKeys : RemoveVector(k)) \/ UNCHANGED indexVars
  <2>1. UNCHANGED <<nodes, pc, inserting, query, targetLevel, layer, visited, results, ahead,
                    candidates, selected, chosen>>
    BY <1>3 DEF RemoveVector, indexVars, graphVars, callVars, layerVars, selectVars
  <2>2. /\ At' = At /\ Ids' = Ids /\ New' = New /\ Bottom' = Bottom /\ (AllCompared' <=> AllCompared)
    BY <2>1, PlacesStay
  <2>3. Older' = Older /\ Line' = Line /\ (Joining' <=> Joining) /\ Subject' = Subject
    BY <2>1, <2>2 DEF Older, Line, Joining, Subject
  <2>4. AllCompared => Chained'
    BY <2>1, <2>3, ChainStays DEF Exact
  <2>5. Placed' /\ (AllCompared => Tracked' /\ Choosing')
    BY <2>1, <2>2, <2>3 DEF Exact, Placed, Tracked, Choosing
  <2>6. FindsNearest'
    BY <2>1, <2>2 DEF Exact, FindsNearest, FirstOf, Away
  <2> QED  BY <2>2, <2>4, <2>5, <2>6 DEF Exact
<1> QED  BY <1>1, <1>2, <1>3

\* A new vector is put away from the others, and nobody of the chain changes.
LEMMA PutStarts ==
    ASSUME HnswAssumption, Linked, Exact, NEW k \in VectorKeys, PutVector(k)
    PROVE  Exact'
<1>1. PICK v \in Vectors \ {nodes[n].vector : n \in Ids}, level \in RandomLevels :
         /\ nodes' = Append(nodes, [vector |-> v, neighbors |-> [i \in 1 .. level + 1 |-> <<>>]])
         /\ IF nodes = <<>>
            THEN UNCHANGED <<pc, inserting, query, targetLevel, layer, chosen>>
            ELSE inserting' = TRUE /\ query' = v /\ BeginLayer(LevelOf(enter), enter)
  BY DEF PutVector, callVars, selectVars
<1>2. pc = "idle" /\ ~ inserting
  <2>1. pc = "idle"
    BY DEF PutVector
  <2> QED  BY <2>1 DEF Linked, Phases
<1>3. /\ Len(nodes) \in Nat /\ Ids = 1 .. Len(nodes)
      /\ Len(nodes') = Len(nodes) + 1 /\ nodes'[Len(nodes) + 1].vector = v
      /\ \A n \in Ids : nodes'[n] = nodes[n]
  BY <1>1 DEF Linked, Graph, Nodes, Ids
<1>4. /\ Ids' = Ids \cup {New'} /\ New' \notin Ids /\ New' = Len(nodes) + 1
      /\ At'[New'] = v /\ \A n \in Ids : At'[n] = At[n] /\ Bottom'[n] = Bottom[n]
  <2>1. Ids' = Ids \cup {New'} /\ New' \notin Ids /\ New' = Len(nodes) + 1
    BY <1>3 DEF Ids, New
  <2> QED  BY <1>3, <2>1 DEF At, Bottom, Vec, Links
<1>5. At' \in [Ids' -> Vectors] /\ IsInjective(At')
  <2>1. At' = [n \in Ids' |-> At'[n]] /\ DOMAIN At' = Ids' /\ DOMAIN At = Ids
    BY DEF At
  <2>2. \A n \in Ids : At[n] \in Vectors /\ At[n] # v
    BY <1>1, Positions DEF Exact, Placed, At, Vec
  <2>3. \A n \in Ids' : At'[n] \in Vectors
    BY <1>1, <1>4, <2>2
  <2>4. \A n, m \in Ids : At[n] = At[m] => n = m
    BY Positions DEF Exact
  <2>5. ASSUME NEW n \in Ids', NEW m \in Ids', At'[n] = At'[m] PROVE n = m
    <3>1. CASE n \in Ids /\ m \in Ids
      <4>1. At'[n] = At[n] /\ At'[m] = At[m]
        BY <1>4, <3>1
      <4> QED  BY <2>4, <2>5, <3>1, <4>1
    <3>2. CASE n = New' /\ m \in Ids
      <4>1. At'[n] = v /\ At'[m] = At[m] /\ At[m] # v
        BY <1>4, <2>2, <3>2
      <4> QED  BY <2>5, <4>1
    <3>3. CASE n \in Ids /\ m = New'
      <4>1. At'[m] = v /\ At'[n] = At[n] /\ At[n] # v
        BY <1>4, <2>2, <3>3
      <4> QED  BY <2>5, <4>1
    <3> QED  BY <1>4, <3>1, <3>2, <3>3
  <2> QED  BY <2>1, <2>3, <2>5 DEF IsInjective
<1>6. CASE nodes = <<>>
  <2>1. Ids = {} /\ Ids' = {New'}
    BY <1>3, <1>4, <1>6
  <2>2. pc' = "idle" /\ ~ inserting'
    BY <1>1, <1>2, <1>6
  <2>3. Line' = Ids'
    BY <2>2 DEF Line, Joining, Older
  <2>4. Chained'
    BY <2>1, <2>3 DEF Chained, NextTo
  <2> QED  BY <1>5, <2>2, <2>4 DEF Exact, Placed, Tracked, Choosing, FindsNearest
<1>7. CASE nodes # <<>>
  <2>1. inserting' = TRUE /\ query' = v /\ BeginLayer(LevelOf(enter), enter)
    BY <1>1, <1>7
  <2>2. Older' = Ids
    BY <1>4, <2>1 DEF Older
  <2>3. enter \in Older'
    BY <1>7, <2>2 DEF Linked, EnterOnTop
  <2>4. Tracked' /\ Choosing' /\ FindsNearest' /\ ~ Joining' /\ Line' = Ids
    BY <2>1, <2>2, <2>3, LayerBegun
  <2>5. AllCompared' => AllCompared
    <3>1. Ef \in Nat
      BY DEF HnswAssumption
    <3> QED  BY <1>3, <3>1 DEF AllCompared
  <2>6. ASSUME AllCompared PROVE Chained'
    <3>1. Line = Ids /\ ~ Joining
      BY <1>2 DEF Line, Joining, Older
    <3>2. \A a, b \in Ids : NextTo(At, Ids, a, b) => b \in Bottom[a]
      BY <2>6, <3>1 DEF Exact, Chained
    <3>3. \A a, b \in Ids : NextTo(At', Ids, a, b) => NextTo(At, Ids, a, b)
      BY <1>4 DEF NextTo, Between
    <3> QED  BY <1>4, <2>4, <3>2, <3>3 DEF Chained
  <2>7. Placed'
    BY <1>4, <1>5, <2>1 DEF Placed
  <2> QED  BY <2>4, <2>5, <2>6, <2>7 DEF Exact
<1> QED  BY <1>6, <1>7

LEMMA ExactKept == ASSUME HnswAssumption, Linked, Exact, [IndexNext]_indexVars PROVE Exact'
<1>1. ASSUME NEW k \in VectorKeys, PutVector(k) PROVE Exact'
  BY <1>1, PutStarts
<1>2. CASE Visit
  BY <1>2, VisitTracks
<1>3. CASE Expand
  BY <1>3, ExpandTracks
<1>4. CASE Descend \/ NextLayer \/ (\E v \in Vectors : BeginQuery(v))
  BY <1>4, BeginningsKeep
<1>5. CASE BeginSelect
  BY <1>5, BeginSelectChooses
<1>6. CASE Select
  BY <1>6, SelectChooses
<1>7. CASE EndSelect
  BY <1>7, EndSelectJoins
<1>8. CASE Link
  BY <1>8, LinkJoins
<1>9. CASE EndPrune
  BY <1>9, EndPruneJoins
<1>10. CASE EndQuery
  BY <1>10, EndQueryFinds
<1>11. CASE EndInsert \/ GiveAnswer \/ (\E k \in VectorKeys : RemoveVector(k)) \/ UNCHANGED indexVars
  BY <1>11, EndingsKeep
<1> QED
  BY <1>1, <1>2, <1>3, <1>4, <1>5, <1>6, <1>7, <1>8, <1>9, <1>10, <1>11 DEF IndexNext, CallStep

\* On a line every node is linked to those next to it on the lowest layer, in every state in
\* which no more than efConstruction_ + 1 vectors were put (insert, selectHeuristic).
THEOREM InductiveChain == IndexSpec => [](Linked /\ Exact)
<1>1. IndexInit => Exact
  <2>1. SUFFICES ASSUME IndexInit PROVE Exact
    OBVIOUS
  <2>2. nodes = <<>> /\ pc = "idle" /\ ~ inserting
    BY <2>1 DEF IndexInit
  <2>3. Ids = {} /\ At \in [Ids -> Vectors] /\ IsInjective(At)
    BY <2>2 DEF Ids, At, IsInjective
  <2> QED  BY <2>2, <2>3 DEF Exact, Placed, Chained, Line, Older, Tracked, Choosing, FindsNearest
<1>2. Linked /\ Exact /\ [IndexNext]_indexVars => Exact'
  BY ExactKept, HnswAssumption
<1> QED  BY <1>1, <1>2, InductiveLinks, PTL DEF IndexSpec

\* A search in the index finds the nearest vectors on a line as long as no more than
\* efConstruction_ + 1 were put, whatever was pruned and in whatever order they came
\* (searchLayer, insert and search of the index).
THEOREM SearchIsExact == IndexSpec => []FindsNearest
<1>1. Exact => FindsNearest
  BY DEF Exact
<1> QED  BY <1>1, InductiveChain, PTL

\* Of the nearest 2 * k, at most k are removed when at most k are removed at all.
LEMMA RemovedAreFew ==
    ASSUME Graph, query \in Int, NEW k \in Nat, Len(nodes) - Cardinality(Found(Ids)) <= k
    PROVE  FirstOf(Found(Ids), k) \subseteq FirstOf(Ids, 2 * k)
<1> DEFINE A == Found(Ids)
           D == Ids \ A
<1>1. A \subseteq Ids /\ D \subseteq Ids
  BY DEF Found
<1>2. IsFiniteSet(A) /\ IsFiniteSet(D) /\ IsFiniteSet(Ids) /\ Cardinality(A) \in Nat /\ Cardinality(D) \in Nat
  <2> HIDE DEF A, D
  <2> QED  BY <1>1, Ranks
<1>3. Cardinality(D) <= k
  <2>1. Cardinality(Ids) = Len(nodes)
    <3>1. New \in Nat /\ Ids = 1 .. New /\ New = Len(nodes)
      BY Typical DEF Ids, New
    <3>2. 1 \in Int /\ New \in Int
      BY <3>1
    <3>3. Cardinality(1 .. New) = IF 1 > New THEN 0 ELSE New - 1 + 1
      BY <3>2, FS_Interval, Zenon
    <3> QED  BY <3>1, <3>3
  <2>2. Cardinality(D) = Cardinality(Ids) - Cardinality(Ids \cap A)
    BY <1>2, FS_Difference
  <2>3. Ids \cap A = A /\ Len(nodes) \in Nat
    BY <1>1, Typical DEF New
  <2> QED  BY <1>2, <2>1, <2>2, <2>3
<1>4. ASSUME NEW n \in FirstOf(A, k)
      PROVE  n \in FirstOf(Ids, 2 * k)
  <2>1. n \in A /\ Cardinality(Nearer(A, n)) < k /\ Cardinality(Nearer(A, n)) \in Nat /\ n \in Ids
    BY <1>1, <1>4, Ranks
  <2>2. Nearer(Ids, n) \subseteq Nearer(A, n) \cup D
    BY DEF Nearer
  <2> HIDE DEF A, D
  <2>3. IsFiniteSet(Nearer(A, n)) /\ IsFiniteSet(D)
    <3>1. Nearer(A, n) \subseteq Ids
      BY <1>1 DEF Nearer
    <3> QED  BY <1>2, <3>1, Ranks
  <2>4. /\ IsFiniteSet(Nearer(A, n) \cup D)
        /\ Cardinality(Nearer(A, n) \cup D) <= Cardinality(Nearer(A, n)) + Cardinality(D)
    <3>1. Nearer(A, n) \cap D \subseteq Ids
      BY <1>1
    <3>2. Cardinality(Nearer(A, n) \cap D) \in Nat
      BY <3>1, Ranks, FS_CardinalityType
    <3>3. /\ IsFiniteSet(Nearer(A, n) \cup D)
          /\ Cardinality(Nearer(A, n) \cup D)
                = Cardinality(Nearer(A, n)) + Cardinality(D) - Cardinality(Nearer(A, n) \cap D)
      BY <2>3, FS_Union
    <3> HIDE DEF A, D
    <3> QED  BY <1>2, <2>1, <3>2, <3>3
  <2>5. /\ Cardinality(Nearer(Ids, n)) <= Cardinality(Nearer(A, n) \cup D)
        /\ Cardinality(Nearer(A, n) \cup D) \in Nat /\ Cardinality(Nearer(Ids, n)) \in Nat
    BY <2>2, <2>4, FS_Subset, FS_CardinalityType
  <2>6. Cardinality(Nearer(Ids, n)) < 2 * k
    BY <1>2, <1>3, <2>1, <2>4, <2>5
  <2> QED  BY <2>1, <2>6, Ranks
<1> QED  BY <1>4

\* The nearest found ones are among the nearest 2 * k.
LEMMA TwiceAsMany ==
    ASSUME Graph, query \in Int, NEW k \in Nat, Len(nodes) - Cardinality(Found(Ids)) <= k
    PROVE  FirstOf(Found(FirstOf(Ids, 2 * k)), k) = FirstOf(Found(Ids), k)
<1> DEFINE A == Found(Ids)
           B == Found(FirstOf(Ids, 2 * k))
<1>1. B = A \cap FirstOf(Ids, 2 * k) /\ A \subseteq Ids /\ B \subseteq A
  BY DEF Found, FirstOf
<1>2. FirstOf(A, k) \subseteq B
  <2>1. FirstOf(A, k) \subseteq A
    BY DEF FirstOf
  <2> QED  BY <1>1, <2>1, RemovedAreFew
<1>3. ASSUME NEW n \in FirstOf(B, k)
      PROVE  n \in FirstOf(A, k)
  <2>1. n \in B /\ Cardinality(Nearer(B, n)) < k
    <3> HIDE DEF A, B
    <3> QED  BY DEF FirstOf, Nearer
  <2>2. Nearer(A, n) \subseteq B
    <3>1. Nearer(A, n) \subseteq Nearer(Ids, n) /\ Nearer(A, n) \subseteq A
      BY <1>1 DEF Nearer
    <3>2. 2 * k \in Nat /\ n \in FirstOf(Ids, 2 * k)
      BY <1>1, <2>1
    <3>3. \A m \in Nearer(Ids, n) : m \in FirstOf(Ids, 2 * k)
      BY <3>2, FirstAreNearest
    <3> QED  BY <1>1, <3>1, <3>3
  <2>3. Nearer(B, n) = Nearer(A, n)
    BY <1>1, <2>2 DEF Nearer
  <2> HIDE DEF A, B
  <2> QED  BY <1>1, <2>1, <2>3 DEF FirstOf, Nearer
<1> HIDE DEF A, B
<1>4. FirstOf(B, k) = FirstOf(A, k)
  <2>1. FirstOf(B, k) \subseteq FirstOf(A, k) /\ k <= k
    BY <1>3
  <2> QED  BY <1>1, <1>2, <2>1, SameFirst
<1> QED  BY <1>4 DEF A, B

\* Asking the index for twice as many makes up for removed keys, as long as not more vectors
\* are removed than answers wanted (searchVector).
THEOREM RemovedAreMadeUpFor == IndexSpec => []RemovedMadeUpFor
<1>1. IndexInit => Answering
  BY DEF IndexInit, Answering
<1>2. Linked /\ Answering /\ [IndexNext]_indexVars => Answering'
  BY AnsweringStep
<1>3. Linked /\ Answering /\ FindsNearest => RemovedMadeUpFor
  <2>1. SUFFICES ASSUME Linked, Answering, FindsNearest, pc = "found", AllCompared, NEW k \in 1 .. Ef \div 2,
                        Len(nodes) - Cardinality(Found(Ids)) <= k
                 PROVE  SearchVector(k) = FirstOf(Found(Ids), k)
    BY DEF RemovedMadeUpFor
  <2>2. Graph /\ query \in Int /\ results \subseteq Ids /\ FirstOf(results, Ef) = FirstOf(Ids, Ef)
    BY <2>1 DEF Linked, Phases, Answering, FindsNearest
  <2>3. Ef \in Nat /\ k \in Nat /\ 2 * k \in Nat /\ 2 * k <= Ef
    BY <2>1, HnswAssumption
  <2>4. FirstOf(results, 2 * k) \subseteq FirstOf(results, Ef)
    <3>1. \A n \in results : Cardinality(Nearer(results, n)) \in Nat
      BY <2>2, Ranks
    <3> QED  BY <2>2, <2>3, <3>1, Ranks
  <2>5. FirstOf(results, Ef) \subseteq results
    BY DEF FirstOf
  <2>6. FirstOf(results, 2 * k) = FirstOf(Ids, 2 * k)
    BY <2>2, <2>3, <2>4, <2>5, SameFirst
  <2> QED  BY <2>1, <2>2, <2>3, <2>6, TwiceAsMany DEF SearchVector
<1> QED  BY <1>1, <1>2, <1>3, InductiveLinks, SearchIsExact, PTL DEF IndexSpec

=============================================================================
