---------------------------- MODULE KvarnSizing ----------------------------
(***************************************************************************)
(* How many slots the KVarN tail pool has, and how many one step needs.    *)
(*                                                                         *)
(* KVarNConfig turns a memory budget into a cap on concurrent requests,    *)
(* and the cap into a fixed pool. The scheduler then fills a step with up  *)
(* to that many rows and max_num_batched_tokens tokens; a slot is needed   *)
(* for each block a row writes and for its sink (KvarnPool shows why).     *)
(***************************************************************************)
EXTENDS Integers

CONSTANTS
  Group,        \* tokens per block
  Budgets,      \* memory budgets, in slots of all layers
  Batches,      \* values of max_num_batched_tokens
  Requested     \* values of max_num_seqs as configured

ASSUME SizingAssumption ==
  /\ Group \in Nat \ {0}
  /\ Budgets \subseteq Nat /\ Batches \subseteq Nat /\ Requested \subseteq Nat \ {0}

VARIABLES
  max_slots,    \* the budget
  batch,        \* max_num_batched_tokens
  max_seqs,     \* max_num_seqs after check_and_update_config
  pool_size,    \* slots allocated by _ensure_pool
  seqs, tokens, \* rows and tokens scheduled for the step so far
  demand        \* slots the step needs so far

config == <<max_slots, batch, max_seqs, pool_size>>
vars   == <<config, seqs, tokens, demand>>

Headroom == 8
PrefillBlocks(t) == (t + Group - 1) \div Group

\* Mutant: no slots beyond two per request and the prefill.
WithoutHeadroom(s, t) == 2 * s + PrefillBlocks(t)
PoolSlots(s, t) == 2 * s + PrefillBlocks(t) + Headroom

AtLeastOne(n) == IF n < 1 THEN 1 ELSE n

\* The cap: how many requests a pool of that many slots serves.
Supported(slots, t) == AtLeastOne((slots - PrefillBlocks(t) - Headroom) \div 2)

Init ==
  /\ max_slots \in Budgets /\ batch \in Batches
  /\ \E s \in Requested :
       max_seqs = IF s > Supported(max_slots, batch) THEN Supported(max_slots, batch) ELSE s
  /\ pool_size = PoolSlots(max_seqs, batch)
  /\ seqs = 0 /\ tokens = 0 /\ demand = 0

\* A row that starts offset tokens into a block writes this many blocks.
BlocksWritten(offset, q) == (offset + q - 1) \div Group + 1

\* One more row: a decode or verify step or a chunk of a prefill. Its sink is
\* one slot more unless the row writes it.
Schedule(offset, q, sink) ==
  /\ seqs < max_seqs /\ tokens + q <= batch
  /\ seqs' = seqs + 1
  /\ tokens' = tokens + q
  /\ demand' = demand + BlocksWritten(offset, q) + sink
  /\ UNCHANGED config

\* The next step of the engine.
NextStep ==
  /\ seqs > 0
  /\ seqs' = 0 /\ tokens' = 0 /\ demand' = 0
  /\ UNCHANGED config

Next ==
  \/ \E offset \in 0 .. Group - 1, q \in 1 .. batch - tokens, sink \in 0 .. 1 :
       Schedule(offset, q, sink)
  \/ NextStep

Spec == Init /\ [][Next]_vars

----------------------------------------------------------------------------
(* Properties.                                                             *)

\* Every variable has its type.
TypeOK ==
  /\ max_slots \in Budgets /\ batch \in Batches /\ max_seqs \in Nat \ {0} /\ pool_size \in Nat
  /\ seqs \in 0 .. max_seqs /\ tokens \in 0 .. batch /\ demand \in Nat

\* Whatever the scheduler puts in a step, it needs at most max_seqs - Headroom
\* slots more than there are: with eight requests or fewer the pool suffices.
DemandBounded == demand <= pool_size + max_seqs - Headroom

\* The cap inverts the pool's size: if the budget holds a pool for one request,
\* the pool fits it, and a capped configuration could not have had one more.
CapIsTight ==
  PoolSlots(1, batch) <= max_slots =>
    /\ pool_size <= max_slots
    /\ max_seqs \in Requested \/ PoolSlots(max_seqs + 1, batch) > max_slots
=============================================================================
