------------------------------- MODULE Merge --------------------------------
(***************************************************************************)
(* Compactor::executeCompaction (engine/compaction): the merge of files by *)
(* a heap that holds, per file, the record its scanner has read last.      *)
(* Keys are numbers in the order of compareKeys; a record is named by its  *)
(* file and its position there.  Engine and Lifecycle use the result.      *)
(***************************************************************************)
EXTENDS Integers, Sequences

CONSTANTS
    FileIds,     \* the files to be merged; the greater the number the newer the file
    Keys,
    MaxRecords   \* bound: records of a file

ASSUME MergeAssumption == FileIds \subseteq Nat /\ Keys \subseteq Nat \ {0} /\ MaxRecords \in Nat

VARIABLES
    in,     \* the files: what a flush wrote, sorted by key, the newest version first
    heap,   \* for each file the position of its record in the heap, or one behind the last
    last,   \* lastProcessedKey, 0 when unset
    out     \* the records added to the builder, as <<file, position>>

mergeVars == <<in, heap, last, out>>

Records == [key : Keys, del : BOOLEAN]
InputFiles == UNION {[1 .. n -> Records] : n \in 0 .. MaxRecords}
Sorted(file) == \A i, j \in DOMAIN file : i <= j => file[i].key <= file[j].key

MergeInit ==
    /\ in \in [FileIds -> {file \in InputFiles : Sorted(file)}]
    /\ heap = [f \in FileIds |-> 1]
    /\ last = 0
    /\ out = <<>>

InHeap(f) == heap[f] \in DOMAIN in[f]
Head_(f) == in[f][heap[f]]

\* CompactionGreater: the smallest key first and, for one key, the newest file.
Above(f, g) == Head_(f).key < Head_(g).key \/ (Head_(f).key = Head_(g).key /\ f >= g)
Top(f) == f \in FileIds /\ InHeap(f) /\ \A g \in FileIds : InHeap(g) => Above(f, g)

AdvanceScanner(f) == heap' = [heap EXCEPT ![f] = @ + 1]

\* An older version of the key processed last.
SkipShadowed(f) ==
    /\ Top(f)
    /\ Head_(f).key = last
    /\ AdvanceScanner(f)
    /\ UNCHANGED <<in, last, out>>

SkipTombstoneOnly(f) ==  \* a mutant: what the tombstone hides is kept
    /\ Top(f)
    /\ Head_(f).key # last
    /\ Head_(f).del
    /\ AdvanceScanner(f)
    /\ UNCHANGED <<in, last, out>>
\* isBottomLevel is always true.
SkipTombstone(f) ==
    /\ Top(f)
    /\ Head_(f).key # last
    /\ Head_(f).del
    /\ last' = Head_(f).key
    /\ AdvanceScanner(f)
    /\ UNCHANGED <<in, out>>

EmitAgain(f) ==  \* a mutant: lastProcessedKey stays
    /\ Top(f)
    /\ Head_(f).key # last
    /\ ~ Head_(f).del
    /\ out' = Append(out, <<f, heap[f]>>)
    /\ AdvanceScanner(f)
    /\ UNCHANGED <<in, last>>
Emit(f) ==
    /\ Top(f)
    /\ Head_(f).key # last
    /\ ~ Head_(f).del
    /\ last' = Head_(f).key
    /\ out' = Append(out, <<f, heap[f]>>)
    /\ AdvanceScanner(f)
    /\ UNCHANGED in

MergeNext == \E f \in FileIds : SkipShadowed(f) \/ SkipTombstone(f) \/ Emit(f)

MergeSpec == MergeInit /\ [][MergeNext]_mergeVars

-----------------------------------------------------------------------------
(* Properties.                                                             *)

\* The newest version of its key: the first one in the newest file that has any.
Newest(f, i) ==
    /\ f \in FileIds
    /\ i \in DOMAIN in[f]
    /\ \A j \in DOMAIN in[f] : in[f][j].key = in[f][i].key => i <= j
    /\ \A g \in FileIds : \A j \in DOMAIN in[g] : in[g][j].key = in[f][i].key => g <= f

\* When the heap is empty the new file holds the newest version of each key that is
\* not deleted, and nothing else.
MergedNewest ==
    (\A f \in FileIds : ~ InHeap(f)) =>
        \A f \in FileIds : \A i \in DOMAIN in[f] :
            (\E n \in DOMAIN out : out[n] = <<f, i>>) <=> Newest(f, i) /\ ~ in[f][i].del

\* The builder gets each key once and in order, as its index and its search need it.
OutputSorted ==
    \A m, n \in DOMAIN out :
        m < n => in[out[m][1]][out[m][2]].key < in[out[n][1]][out[n][2]].key

=============================================================================
