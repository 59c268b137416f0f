----------------------------- MODULE BlockCache -----------------------------
(***************************************************************************)
(* The caches of SSTableReader (cache/block_cache.hpp and the functions    *)
(* get...Lazy of sstable_reader.hpp): a list of entries, the one used last *)
(* in front, and a map from names to places in the list.  They are static: *)
(* the readers of all engines of a process share them.  Values are left    *)
(* out: an entry holds what its file held when it was read.                *)
(***************************************************************************)
EXTENDS Integers, Sequences, FiniteSets, SequencesExt

CONSTANTS
    Engines,      \* engines of the process; the queries of one exclude each other
    Files,        \* the names that readers ask for
    MaxCapacity,  \* maxCapacity_
    Nothing       \* not in Files

ASSUME BlockCacheAssumption == MaxCapacity \in Nat \ {0} /\ Nothing \notin Files

VARIABLES
    order,    \* order_: entries, each with its name and its place in memory
    index,    \* index_: for each name the place of its entry
    missed,   \* per engine: the name that get did not find and pread is fetching
    recent    \* history: all names ever used, the one used last in front

cacheVars == <<order, index, missed, recent>>

CacheInit == order = <<>> /\ index = <<>> /\ missed = [e \in Engines |-> Nothing] /\ recent = <<>>

Position(f) == CHOOSE i \in 1 .. Len(order) : order[i].place = index[f]
ToFront(s, i) == <<s[i]>> \o RemoveAt(s, i)
Use(f) ==
    recent' = IF \E i \in 1 .. Len(recent) : recent[i] = f
              THEN ToFront(recent, CHOOSE i \in 1 .. Len(recent) : recent[i] = f)
              ELSE <<f>> \o recent

TouchNothing(f) == UNCHANGED <<order, index>>  \* a mutant
\* splice
Touch(f) ==
    /\ order' = ToFront(order, Position(f))
    /\ UNCHANGED index

Hit(e) ==
    /\ missed[e] = Nothing
    /\ \E f \in DOMAIN index : Touch(f) /\ Use(f)
    /\ UNCHANGED missed

Miss(e) ==
    /\ missed[e] = Nothing
    /\ \E f \in Files \ DOMAIN index : missed' = [missed EXCEPT ![e] = f]
    /\ UNCHANGED <<order, index, recent>>

Slots == 1 .. MaxCapacity + 1
NewEntry(f) == [key |-> f, place |-> CHOOSE p \in Slots : \A i \in 1 .. Len(order) : order[i].place # p]

InsertUnlinked(f) ==  \* a mutant: the map keeps the iterator of the entry that goes
    LET grown == <<NewEntry(f)>> \o order
    IN /\ order' = IF Len(grown) > MaxCapacity THEN Front(grown) ELSE grown
       /\ index' = [g \in DOMAIN index \cup {f} |-> IF g = f THEN NewEntry(f).place ELSE index[g]]
\* emplace_front, then the last entry goes if there is one too many.
Insert(f) ==
    LET grown == <<NewEntry(f)>> \o order
        placed == [g \in DOMAIN index \cup {f} |-> IF g = f THEN NewEntry(f).place ELSE index[g]]
        full == Len(grown) > MaxCapacity
    IN /\ order' = IF full THEN Front(grown) ELSE grown
       /\ index' = IF full THEN [g \in DOMAIN placed \ {Last(grown).key} |-> placed[g]] ELSE placed

\* Another engine may have missed the same name and put it first.
Put(e) ==
    /\ missed[e] # Nothing
    /\ \/ missed[e] \in DOMAIN index /\ Touch(missed[e])
       \/ missed[e] \notin DOMAIN index /\ Insert(missed[e])
    /\ Use(missed[e])
    /\ missed' = [missed EXCEPT ![e] = Nothing]

CacheNext == \E e \in Engines : Hit(e) \/ Miss(e) \/ Put(e)

CacheSpec == CacheInit /\ [][CacheNext]_cacheVars

-----------------------------------------------------------------------------
(* Properties.                                                             *)

\* List and map agree: every name has one entry, the map leads to it (no iterator
\* outlives its entry), and neither grows beyond the capacity.
ListAndMapAgree ==
    /\ Len(order) <= MaxCapacity
    /\ DOMAIN index = {order[i].key : i \in 1 .. Len(order)}
    /\ Cardinality(DOMAIN index) = Len(order)
    /\ \A i \in 1 .. Len(order) : index[order[i].key] = order[i].place

\* The cache holds the names used last, in the order of their last use, also when two
\* engines missed the same name at the same time.
KeepsMostRecent ==
    [i \in 1 .. Len(order) |-> order[i].key] =
        SubSeq(recent, 1, IF Len(recent) < MaxCapacity THEN Len(recent) ELSE MaxCapacity)

=============================================================================
