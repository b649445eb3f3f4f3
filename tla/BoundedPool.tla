----------------------------- MODULE BoundedPool -----------------------------
(***************************************************************************)
(* What the message queue promises to all its users, however many threads  *)
(* push and pop: a bounded pool.  An item is put in once, waits in the     *)
(* pool, and is taken out once.  Nothing is promised about the order.      *)
(***************************************************************************)
EXTENDS Naturals, FiniteSets

CONSTANTS Items,      \* everything that may ever be pushed
          Capacity    \* how many items the pool holds

VARIABLES stored,     \* items that are in the pool
          taken       \* items that have been handed to a consumer

poolVars == <<stored, taken>>

PoolInit ==
    /\ stored = {}
    /\ taken = {}

Put(v) ==
    /\ v \notin stored \cup taken
    /\ Cardinality(stored) < Capacity
    /\ stored' = stored \cup {v}
    /\ UNCHANGED taken

Take(v) ==
    /\ v \in stored
    /\ stored' = stored \ {v}
    /\ taken' = taken \cup {v}

PoolNext == \E v \in Items : Put(v) \/ Take(v)

PoolSpec == PoolInit /\ [][PoolNext]_poolVars
==============================================================================
