---------------------------- MODULE KvarnMemory ----------------------------
(***************************************************************************)
(* The pool of KvarnSizing on the budget that KvarnBudget derives from the *)
(* checkpoint: check_and_update_config hands the one to the other before   *)
(* either the weights or the pool are allocated.                           *)
(***************************************************************************)
EXTENDS KvarnSizing, KvarnBudget

MemoryInit == BudgetInit /\ max_slots = MaxSlots /\ Init

MemorySpec == MemoryInit /\ [][Next /\ UNCHANGED budget_vars]_<<vars, budget_vars>>

----------------------------------------------------------------------------
\* The weights are measured as they are loaded, so that the pool is neither
\* strangled nor oversized: the one the cap leads to fits beside them whenever
\* the budget has room for a pool at all.
PoolLeavesTheWeights ==
  /\ EstimateIsTheWeights
  /\ PoolSlots(1, batch) <= max_slots => LeavesTheWeights(pool_size)
=============================================================================
