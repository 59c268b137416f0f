------------------------------ MODULE MCParts -------------------------------
(***************************************************************************)
(* The smaller components for TLC, side by side: part says which of them a *)
(* behaviour is about; the others rest in their initial states.  The skip  *)
(* list is here once more for its liveness, which needs a smaller instance *)
(* than its safety.  Those components that have theorems are extended, so  *)
(* that TLC checks their assumptions and the theorems' own formulas.       *)
(***************************************************************************)
EXTENDS VectorLog, Merge, Bloom, BlockCache, Server

CONSTANTS
    Writers, Readers, MaxHeight, MaxNodes

VARIABLES
    part,
    used, key, height, next, bottom, pc, goal, current, level, mine, preds, succs,
    rising, answer, cursor, visited, due

List == INSTANCE SkipList WITH order <- bottom

\* The keys of the filter: of one byte and of two.
ShortKeys == [length : {1, 2}, base : {0, 97, 200}]

listVars ==
    <<used, key, height, next, bottom, pc, goal, current, level, mine, preds, succs,
      rising, answer, cursor, visited, due>>
PartsVars == <<part, vars, mergeVars, filterVars, cacheVars, serverVars, listVars>>

Parts == {"merge", "cache", "vlog", "tcp", "filter", "skiplist"}

\* Where many initial states are possible, a part that rests has one.
PartsInit ==
    /\ part \in Parts
    /\ Init
    /\ MergeInit /\ (part = "merge" \/ in = [f \in FileIds |-> <<>>])
    /\ FilterInit /\ (part = "filter" \/ bitSize = 1)
    /\ CacheInit
    /\ ServerInit
    /\ List!Init

Only(p) ==
    /\ part = p /\ UNCHANGED part
    /\ IF p = "merge" THEN TRUE ELSE UNCHANGED mergeVars
    /\ IF p = "cache" THEN TRUE ELSE UNCHANGED cacheVars
    /\ IF p = "vlog" THEN TRUE ELSE UNCHANGED vars
    /\ IF p = "tcp" THEN TRUE ELSE UNCHANGED serverVars
    /\ IF p = "filter" THEN TRUE ELSE UNCHANGED filterVars
    /\ IF p = "skiplist" THEN TRUE ELSE UNCHANGED listVars

TcpStep(c) == Step(c) /\ Only("tcp")
SkipListWriter(t) == List!WriterStep(t) /\ Only("skiplist")
SkipListReader(t) == List!ReaderStep(t) /\ Only("skiplist")

PartsNext ==
    \/ MergeNext /\ Only("merge")
    \/ CacheNext /\ Only("cache")
    \/ Next /\ Only("vlog")
    \/ ServerNext /\ Only("tcp")
    \/ FilterNext /\ Only("filter")
    \/ List!Next /\ Only("skiplist")

PartsSpec ==
    /\ PartsInit /\ [][PartsNext]_PartsVars
    /\ \A c \in Connections : WF_PartsVars(TcpStep(c))
    /\ \A t \in Writers : WF_PartsVars(SkipListWriter(t))
    /\ \A t \in Readers : WF_PartsVars(SkipListReader(t))

-----------------------------------------------------------------------------
(* The properties of the instances, as stated in their modules.            *)

\* Every call on the skip list returns.
CallsReturn == List!CallsReturn

=============================================================================
