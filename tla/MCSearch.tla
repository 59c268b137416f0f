------------------------------ MODULE MCSearch ------------------------------
(***************************************************************************)
(* The two searches for TLC, side by side: that of a table file (SSTable)  *)
(* and that of the vector index (Hnsw).  part says which of them a         *)
(* behaviour is about.  In both, searches go on for ever.                  *)
(***************************************************************************)
EXTENDS SSTable, Hnsw

VARIABLE part

SearchInit == part \in {"file", "graph"} /\ Init /\ IndexInit


FileStep == (Probe \/ EndProbe \/ ReadBlock) /\ part = "file" /\ UNCHANGED <<part, indexVars>>
GraphStep == CallStep /\ part = "graph" /\ UNCHANGED <<part, vars>>

SearchNext ==
    \/ Next /\ part = "file" /\ UNCHANGED <<part, indexVars>>
    \/ IndexNext /\ part = "graph" /\ UNCHANGED <<part, vars>>

SearchSpec ==
    /\ SearchInit /\ [][SearchNext]_<<part, vars, indexVars>>
    /\ WF_<<part, vars, indexVars>>(FileStep) /\ WF_<<part, vars, indexVars>>(GraphStep)

=============================================================================
