---------------------------- MODULE KvarnBudget ----------------------------
(***************************************************************************)
(* Where the budget of the KVarN tail pool comes from: the size of the     *)
(* weights is read off the files of the checkpoint, before the engine      *)
(* touches the GPU, and the pool may take a share of what they leave.      *)
(*                                                                         *)
(* A repository is the set of its files; the snapshot on disk when the     *)
(* engine starts may lack some of them, which the loader then fetches.     *)
(* All files hold parameters of the same width.                            *)
(***************************************************************************)
EXTENDS Integers, FiniteSets

CONSTANTS
  Safetensors, Bins, \* the weight files
  Index,        \* [index file -> the files it lists]
  IndexOf,      \* <<the index of safetensors, the index of bins>>
  Singles,      \* <<"model.safetensors", "consolidated.safetensors">>
  Holds,        \* [weight file -> its parameters]
  ParamBytes,
  TotalBytes,   \* of the GPU
  Share, Frac,  \* POOL_USABLE_SHARE_DEFAULT, POOL_MEM_FRAC_DEFAULT, in percent
  SlotLayerBytes, \* _slot_bytes_per_layer
  Utils,        \* gpu_memory_utilization, in percent
  Degrees,      \* tensor-parallel degrees
  Models        \* layers of a model: [full, sliding, linear, draft]

VARIABLES
  repo, snapshot, \* files of the repository, and those on disk
  util, degree,
  layers,       \* of the model
  quant_sliding \* KVARN_QUANT_SLIDING

budget_vars == <<repo, snapshot, util, degree, layers, quant_sliding>>

Unknown == -1
Files   == Safetensors \cup Bins \cup DOMAIN Index
Weights == Safetensors \cup Bins
Params  == UNION {Holds[f] : f \in Weights}

\* The files hold every parameter once.
Whole(files) ==
  /\ UNION {Holds[f] : f \in files} = Params
  /\ \A f, g \in files : f # g => Holds[f] \cap Holds[g] = {}

\* An index lists a whole checkpoint of its format, a single file is one, and
\* there are no other weight files.
ASSUME CheckpointAssumption ==
  /\ IsFiniteSet(Params) /\ Params # {}
  /\ DOMAIN IndexOf = {1, 2} /\ DOMAIN Index = {IndexOf[1], IndexOf[2]}
  /\ \A idx \in DOMAIN Index : Whole(Index[idx])
  /\ DOMAIN Singles = {1, 2}
  /\ \A i \in DOMAIN Singles : Singles[i] \in Safetensors /\ Holds[Singles[i]] = Params
  /\ Safetensors = Index[IndexOf[1]] \cup {Singles[i] : i \in DOMAIN Singles}
  /\ Bins = Index[IndexOf[2]]

\* The layers the pool is sized for: vLLM counts every attention layer.
NumKvarnLayers(m) ==
  IF m.full + m.sliding > 0 THEN m.full + m.sliding ELSE m.full + m.sliding + m.linear

\* The drafter's layers, which are not counted, do not outgrow the share.
ASSUME BudgetAssumption ==
  /\ {ParamBytes, SlotLayerBytes, Share} \subseteq Nat \ {0} /\ {TotalBytes, Frac} \subseteq Nat
  /\ Utils \subseteq Nat /\ Degrees \subseteq Nat \ {0}
  /\ Models \subseteq [full : Nat, sliding : Nat, linear : Nat, draft : Nat]
  /\ \A m \in Models : /\ NumKvarnLayers(m) > 0
                       /\ Share * (m.full + m.sliding + m.draft) <= 100 * NumKvarnLayers(m)

\* A parameter counts in each file that holds it.
SizeOf(files) == ParamBytes * Cardinality(UNION {{f} \X Holds[f] : f \in files})
PerRank(bytes) == bytes \div degree
Least(S) == CHOOSE i \in S : \A j \in S : i <= j

-----------------------------------------------------------------------------
(* estimate_weight_bytes.                                                  *)

\* A manifest counts only if every file it lists is on disk.
Usable(idx) == idx \in snapshot /\ Index[idx] # {} /\ Index[idx] \subseteq snapshot

Glob == IF snapshot \cap Safetensors # {} THEN snapshot \cap Safetensors ELSE snapshot \cap Bins

\* Every weight file is counted (a mutant).
GlobOnly == IF Glob = {} THEN Unknown ELSE PerRank(SizeOf(Glob))

EstimateWeightBytes ==
  LET usable  == {i \in DOMAIN IndexOf : Usable(IndexOf[i])}
      singles == {i \in DOMAIN Singles : Singles[i] \in snapshot}
  IN
  IF usable # {} THEN PerRank(SizeOf(Index[IndexOf[Least(usable)]]))
  ELSE IF singles # {} THEN PerRank(SizeOf({Singles[Least(singles)]}))
  ELSE IF Glob = {} THEN Unknown
  ELSE PerRank(SizeOf(Glob))

-----------------------------------------------------------------------------
(* The budget.                                                             *)

\* A share of the whole card, whatever the weights (issue #15; a mutant).
ShareOfTotal == (TotalBytes * Share) \div 100

PoolBudgetBytes ==
  IF EstimateWeightBytes # Unknown
  THEN LET usable == (util * TotalBytes) - (100 * EstimateWeightBytes)
       IN IF usable < 0 THEN 0 ELSE (Share * usable) \div 10000
  ELSE (TotalBytes * Frac) \div 100

\* What max_supported_seqs divides the budget into.
MaxSlots == PoolBudgetBytes \div (SlotLayerBytes * NumKvarnLayers(layers))

\* The layers that get a pool: sliding-window layers stay in full precision
\* unless asked for, and the drafter has layers of its own.
PooledLayers == layers.full + (IF quant_sliding THEN layers.sliding ELSE 0) + layers.draft

-----------------------------------------------------------------------------
(* vLLM's loader: the files the index lists, or all of the first format.   *)

LoadedFiles ==
  LET format == IF repo \cap Safetensors # {} THEN 1 ELSE 2
      all    == repo \cap (IF format = 1 THEN Safetensors ELSE Bins)
  IN IF IndexOf[format] \in repo THEN Index[IndexOf[format]] ELSE all

Loaded == UNION {Holds[f] : f \in LoadedFiles}
WeightBytes == PerRank(ParamBytes * Cardinality(Loaded))

BudgetInit ==
  /\ repo \in SUBSET Files
  /\ \A idx \in repo \cap DOMAIN Index : Index[idx] \subseteq repo
  /\ Loaded = Params
  /\ snapshot \in SUBSET repo
  /\ util \in Utils /\ degree \in Degrees
  /\ layers \in Models /\ quant_sliding \in BOOLEAN

-----------------------------------------------------------------------------
\* A checkpoint that is all there is measured exactly, however it is laid out:
\* a second copy in one file or in another format is not counted as well.
EstimateIsTheWeights == snapshot = repo => EstimateWeightBytes = WeightBytes

\* Then the pools of all layers, the drafter's too, fit beside the weights in the
\* share of the card the engine may use, when each pool has the given slots.
LeavesTheWeights(slots) ==
  snapshot = repo =>
    100 * (WeightBytes + slots * SlotLayerBytes * PooledLayers) <= util * TotalBytes
=============================================================================
