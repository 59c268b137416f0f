------------------------------ MODULE SSTable -------------------------------
(***************************************************************************)
(* One SSTable file: SSTableBuilder (with BlockBuilder) cuts a sorted      *)
(* stream of records into blocks and indexes them by their last key;       *)
(* SSTableReader finds the block of a key by binary search and scans it.   *)
(*                                                                         *)
(* Records are named by their place in the stream.  The stream is sorted   *)
(* by key and, for one key, from the newest version to the oldest, as      *)
(* OffHeapSkipList::forEach and the heap of the Compactor deliver it.      *)
(* Offsets count records instead of bytes.                                 *)
(***************************************************************************)
EXTENDS Integers, Sequences, FiniteSets

CONSTANTS
    Keys,         \* never empty byte strings (the service refuses those)
    Sizes,        \* what a record takes in a block
    BlockSize,    \* BLOCK_SIZE
    \* Bounds.
    MaxRecords,   \* records of the file
    MaxVersions   \* versions of one key

ASSUME SSTableAssumption ==
    /\ Keys \subseteq Nat
    /\ Sizes \subseteq Nat \ {0}
    /\ BlockSize \in Nat
    /\ MaxRecords \in Nat /\ MaxVersions \in Nat

VARIABLES
    phase,    \* "build", "open", and of a search "probe", "read" or "done"
    added,    \* the records given to add(), each with its key and size
    buffer,   \* the records in the block being built
    used,     \* and the bytes they take
    data,     \* the records written to the file
    index,    \* memIndex_: the last key of a block and where it starts
    lastKey,  \* lastKey_
    goal,     \* targetKey of a search
    low, high,
    target,   \* the entry (from 0) whose offset is targetBlockOffset, or -1
    answer    \* the record found, or NotFound

buildVars == <<added, buffer, used, data, index, lastKey>>
searchVars == <<goal, low, high, target, answer>>
vars == <<phase, buildVars, searchVars>>

Places == 1 .. Len(added)
Versions(k) == {i \in Places : added[i].key = k}
NotFound == 0
NoKey == -1

Init ==
    /\ phase = "build"
    /\ added = <<>>
    /\ buffer = <<>>
    /\ used = 0
    /\ data = <<>>
    /\ index = <<>>
    /\ lastKey = NoKey
    /\ goal = NoKey
    /\ low = 0
    /\ high = -1
    /\ target = -1
    /\ answer = NotFound

-----------------------------------------------------------------------------
(* SSTableBuilder.                                                         *)

\* A mutant of the next one: the offset is taken after the write.
FlushDataBlockLate ==
    /\ data' = data \o buffer
    /\ index' = IF buffer = <<>> THEN index
                ELSE Append(index, [maxKey |-> lastKey, start |-> Len(data \o buffer) + 1])

FlushDataBlock ==
    /\ data' = data \o buffer
    /\ index' = IF buffer = <<>> THEN index
                ELSE Append(index, [maxKey |-> lastKey, start |-> Len(data) + 1])

\* BlockBuilder::add takes a record of n bytes.
Fits(n) == used + n <= BlockSize

\* The record joins the block if it fits; if not, the block is written out and
\* the record tries an empty one: what is larger than a block is dropped.
Add(k, n) ==
    LET this == Len(added) + 1 IN
    /\ phase = "build"
    /\ Len(added) < MaxRecords
    /\ added # <<>> => k >= lastKey
    /\ Cardinality(Versions(k)) < MaxVersions
    /\ added' = Append(added, [key |-> k, size |-> n])
    /\ lastKey' = k
    /\ \/ /\ Fits(n)
          /\ buffer' = Append(buffer, this)
          /\ used' = used + n
          /\ UNCHANGED <<data, index>>
       \/ /\ ~ Fits(n)
          /\ FlushDataBlock
          /\ buffer' = IF n <= BlockSize THEN <<this>> ELSE <<>>
          /\ used' = IF n <= BlockSize THEN n ELSE 0
    /\ UNCHANGED <<phase, searchVars>>

Finish ==
    /\ phase = "build"
    /\ FlushDataBlock
    /\ buffer' = <<>>
    /\ used' = 0
    /\ phase' = "open"
    /\ UNCHANGED <<added, lastKey, searchVars>>

-----------------------------------------------------------------------------
(* SSTableReader::searchBinaryFullRecord.  The index is counted from 0.    *)

Entry(i) == index[i + 1]
PastLastEntry == Len(index)         \* a mutant of the next one
LastEntry == Len(index) - 1

InKeyRange(k) ==
    added # <<>> /\ added[1].key <= k /\ k <= added[Len(added)].key

\* The caller skips files whose key range excludes the key.  The Bloom filter
\* knows the keys that were added, and possibly takes others for them.
BeginSearch(k) ==
    /\ phase = "open"
    /\ goal' = k
    /\ answer' = NotFound
    /\ target' = -1
    /\ \/ /\ InKeyRange(k)
          /\ low' = 0
          /\ high' = LastEntry
          /\ phase' = "probe"
       \/ /\ ~ InKeyRange(k) \/ Versions(k) = {}
          /\ phase' = "done"
          /\ UNCHANGED <<low, high>>
    /\ UNCHANGED buildVars

\* A mutant of the next one: the upper bound stays on the middle.
ProbeForEver ==
    /\ phase = "probe"
    /\ low <= high
    /\ LET mid == (low + high) \div 2 IN
       \/ /\ goal = Entry(mid).maxKey
          /\ target' = mid
          /\ phase' = "read"
          /\ UNCHANGED <<low, high>>
       \/ /\ goal < Entry(mid).maxKey
          /\ target' = mid
          /\ high' = mid
          /\ UNCHANGED <<phase, low>>
       \/ /\ goal > Entry(mid).maxKey
          /\ low' = mid + 1
          /\ UNCHANGED <<phase, high, target>>
    /\ UNCHANGED <<goal, answer, buildVars>>

\* One round of the binary search.
Probe ==
    /\ phase = "probe"
    /\ low <= high
    /\ LET mid == (low + high) \div 2 IN
       \/ /\ goal = Entry(mid).maxKey
          /\ target' = mid
          /\ phase' = "read"
          /\ UNCHANGED <<low, high>>
       \/ /\ goal < Entry(mid).maxKey
          /\ target' = mid
          /\ high' = mid - 1
          /\ UNCHANGED <<phase, low>>
       \/ /\ goal > Entry(mid).maxKey
          /\ low' = mid + 1
          /\ UNCHANGED <<phase, high, target>>
    /\ UNCHANGED <<goal, answer, buildVars>>

EndProbe ==
    /\ phase = "probe"
    /\ low > high
    /\ phase' = IF target = -1 THEN "done" ELSE "read"
    /\ UNCHANGED <<searchVars, buildVars>>

\* The block reaches to the start of the next one or to the end of the data.
BlockEnd(i) == IF i < LastEntry THEN Entry(i + 1).start - 1 ELSE Len(data)

\* The first record of the block with that key.
ReadBlock ==
    /\ phase = "read"
    /\ LET hits == {p \in Entry(target).start .. BlockEnd(target) : added[data[p]].key = goal}
       IN answer' = IF hits = {} THEN NotFound
                    ELSE data[CHOOSE p \in hits : \A q \in hits : p <= q]
    /\ phase' = "done"
    /\ UNCHANGED <<goal, low, high, target, buildVars>>

EndSearch ==
    /\ phase = "done"
    /\ phase' = "open"
    /\ goal' = NoKey /\ low' = 0 /\ high' = -1 /\ target' = -1 /\ answer' = NotFound
    /\ UNCHANGED buildVars

Next ==
    \/ \E k \in Keys, n \in Sizes : Add(k, n)
    \/ Finish
    \/ \E k \in Keys : BeginSearch(k)
    \/ Probe \/ EndProbe \/ ReadBlock \/ EndSearch

Spec == Init /\ [][Next]_vars

\* A search under way goes on: it never waits.
FairSpec == Spec /\ WF_vars(Probe \/ EndProbe \/ ReadBlock)

-----------------------------------------------------------------------------
(* Properties.                                                             *)

\* The binary search never looks outside the index.
TypeOK ==
    /\ phase \in {"build", "open", "probe", "read", "done"}
    /\ added \in Seq([key : Keys, size : Sizes])
    /\ buffer \in Seq(Places)
    /\ used \in 0 .. BlockSize
    /\ data \in Seq(Places)
    /\ index \in Seq([maxKey : Keys, start : 1 .. Len(data)])
    /\ lastKey \in Keys \cup {NoKey}
    /\ goal \in Keys \cup {NoKey}
    /\ low \in 0 .. Len(index)
    /\ high \in -1 .. Len(index) - 1
    /\ target \in -1 .. Len(index) - 1
    /\ answer \in {NotFound} \cup Places

\* A search returns the newest version in the file, wherever the blocks were
\* cut (sstable_builder.hpp:24-34, sstable_reader.hpp:54-96).
FindsNewest ==
    phase = "done" =>
        IF Versions(goal) = {} THEN answer = NotFound
        ELSE answer \in Versions(goal) /\ \A j \in Versions(goal) : answer <= j

\* The loop that narrows low and high ends.
SearchEnds == phase = "probe" ~> phase = "done"
=============================================================================
