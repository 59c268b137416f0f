----------------------------- MODULE VersionMap -----------------------------
(***************************************************************************)
(* What a memtable promises: a map that keeps every version of a key.      *)
(* Each put adds its version in one step, and each lookup answers with     *)
(* the newest version of its key at one moment of the call.                *)
(***************************************************************************)
EXTENDS Integers, Sequences

CONSTANTS Keys, Readers

VARIABLES
    log,     \* the keys of the versions, oldest first
    goal,    \* the key a reader asks for, or NoKey
    answer   \* the version (its place in log) a reader was given last, or 0

vars == <<log, goal, answer>>

NoKey == -1
Versions(k) == {v \in 1 .. Len(log) : log[v] = k}

Init ==
    /\ log = <<>>
    /\ goal = [r \in Readers |-> NoKey]
    /\ answer = [r \in Readers |-> 0]

Insert(k) ==
    /\ log' = Append(log, k)
    /\ UNCHANGED <<goal, answer>>

Ask(r, k) ==
    /\ goal[r] = NoKey
    /\ goal' = [goal EXCEPT ![r] = k]
    /\ answer' = [answer EXCEPT ![r] = 0]
    /\ UNCHANGED log

Answer(r) ==
    /\ goal[r] # NoKey
    /\ goal' = [goal EXCEPT ![r] = NoKey]
    /\ \/ /\ Versions(goal[r]) = {}
          /\ UNCHANGED answer
       \/ \E v \in Versions(goal[r]) :
             /\ \A w \in Versions(goal[r]) : w <= v
             /\ answer' = [answer EXCEPT ![r] = v]
    /\ UNCHANGED log

Next ==
    \/ \E k \in Keys : Insert(k)
    \/ \E r \in Readers : (\E k \in Keys : Ask(r, k)) \/ Answer(r)

Spec == Init /\ [][Next]_vars
=============================================================================
