------------------------------ MODULE KVStore -------------------------------
(***************************************************************************)
(* What CarinaDB promises its clients: a map from keys to values in which  *)
(* put and remove take effect in one step, and which nothing else changes. *)
(* A value is named by the number of the put that stored it.               *)
(***************************************************************************)
EXTENDS Integers

CONSTANT Keys

VARIABLES
    store,   \* the value of each key, or Absent
    ops      \* how many puts and removes took effect

vars == <<store, ops>>

Absent == 0

Init == store = [k \in Keys |-> Absent] /\ ops = 0

Put(k) == ops' = ops + 1 /\ store' = [store EXCEPT ![k] = ops']
Remove(k) == ops' = ops + 1 /\ store' = [store EXCEPT ![k] = Absent]

Next == \E k \in Keys : Put(k) \/ Remove(k)

Spec == Init /\ [][Next]_vars
=============================================================================
