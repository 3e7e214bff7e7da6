------------------------------ MODULE Exl3Load ------------------------------
(***************************************************************************)
(* The OrcaSAQ plug-in: how vLLM loads a layer of an EXL3 pack.  A fused   *)
(* layer is several tensors of the pack, each trellis (with two sign       *)
(* vectors and at most one codebook marker) or dense, which the loader     *)
(* hands over in the order of the files, under shard ids of four forms;    *)
(* what a layer is made of is only known when the last one has arrived.    *)
(*                                                                         *)
(* Layers share nothing but the plug-in, so a behaviour follows one.  A    *)
(* tensor is its part of the layer, its suffix and its width.  vLLM is     *)
(* external: its constructors, its shard ids, its order of outputs.        *)
(***************************************************************************)
EXTENDS Integers, Sequences, FiniteSets, SequencesExt

CONSTANTS
  Model,        \* [layer -> [kind, leaf, sizes, widths, markers, given]]: outputs and
                \* trellis width of each part, suffixes of its markers, and whether
                \* the model's code gives the layer its quantization config
  GemmMaxRows   \* GEMM_MAX_ROWS

\* vLLM fuses layers of three leaves and gives every linear layer its config;
\* exllamav3 writes 16 values per row of a tile and step, in half steps, so 8.
ASSUME ModelAssumption ==
  \A y \in DOMAIN Model :
    LET m == Model[y]
        n == Len(m.sizes)
    IN
    /\ m.kind \in {"linear", "head", "embed"} /\ (m.kind = "linear" => m.given)
    /\ n \in Nat \ {0} /\ m.sizes \in [1 .. n -> Nat \ {0}] /\ m.widths \in [1 .. n -> Nat]
    /\ m.leaf = "qkv_proj" => n = 3
    /\ m.leaf \in {"gate_up_proj", "in_proj_qkvz"} => n = 2
    /\ m.kind = "embed" \/ m.leaf \notin {"qkv_proj", "gate_up_proj", "in_proj_qkvz"} => n = 1
    /\ \A p \in 1 .. n : m.widths[p] % 8 = 0
    /\ m.markers \subseteq {"mcg", "mul1"}

VARIABLES
  layer,        \* the one followed
  forms,        \* of its parts in the pack: "trellis", "int8" or "dense"
  lost,         \* tensors of the pack that are not there, one at the most
  manifest,     \* the pack has a tensor_storage
  load_stage,   \* "start", "failed" (no plug-in), "loading", "ready" or "refused"
  patched,      \* the two constructors are wrapped
  method,       \* the layer's quant method
  pending,      \* tensors the loader has still to hand over
  shards,       \* [suffix -> the items of the placeholder's dict, in the order
                \* of their insertion: <<slot, tensor>>]
  loaded        \* what apply works on

pack == <<layer, forms, lost, manifest>>
load_vars == <<pack, load_stage, patched, method, pending, shards, loaded>>

L     == Model[layer]
Parts == DOMAIN L.sizes

-----------------------------------------------------------------------------
(* The pack.                                                               *)

StoredAs(p) ==
  CASE forms[p] = "trellis" -> {"trellis", "suh", "svh"} \cup L.markers
    [] forms[p] = "int8"    -> {"qweight", "scales"}
    [] OTHER                -> {"weight"}

Tensors == UNION {{[part |-> p, suffix |-> s] : s \in StoredAs(p)} : p \in Parts}

\* The loss of a marker cannot be told from a pack without one.
Losses == {{}} \cup {{t} : t \in {x \in Tensors : x.suffix \notin {"mcg", "mul1"}}}

\* The id under which vLLM hands over a part.
ShardId(p) ==
  CASE L.leaf = "qkv_proj"     -> [form |-> "name", id |-> <<"q", "k", "v">>[p]]
    [] L.leaf = "gate_up_proj" -> [form |-> "int", id |-> p - 1]
    [] L.leaf = "in_proj_qkvz" -> IF p = 1 THEN [form |-> "tuple", id |-> <<0, 1, 2>>]
                                  ELSE [form |-> "int", id |-> 3]
    [] OTHER                   -> [form |-> "none"]

-----------------------------------------------------------------------------
(* Registration and construction.                                          *)

\* register(), in every process that loads the plug-in; without its CUDA
\* extension the engine does not start.
RegisterPlugin ==
  /\ load_stage = "start" /\ ~patched
  /\ \/ patched' = TRUE /\ UNCHANGED load_stage
     \/ load_stage' = "failed" /\ UNCHANGED patched
  /\ UNCHANGED <<pack, method, pending, shards, loaded>>

\* The constructor leaves the slot as the caller left it (a mutant).
AsGiven == L.given

\* The config a layer is constructed with: the wrapped constructors of the
\* embedding and of the head supply it when the caller left it out.
HasConfig == L.given \/ (patched /\ L.kind \in {"embed", "head"})

QuantizedParts == {p \in Parts : forms[p] = "trellis"}

GetQuantMethod ==
  IF ~HasConfig THEN "none"
  ELSE CASE L.kind = "head"   -> "Exl3LinearMethod"
         [] L.kind = "embed"  -> "Exl3EmbeddingMethod"
         [] L.kind = "linear" -> IF QuantizedParts = {} /\ manifest
                                 THEN "UnquantizedLinearMethod" ELSE "Exl3LinearMethod"

\* create_weights: the placeholders a layer of the method has.
Placeholders(m) ==
  CASE m = "Exl3LinearMethod"    -> {"trellis", "suh", "svh", "mcg", "mul1", "weight"}
    [] m = "Exl3EmbeddingMethod" -> {"qweight", "scales", "weight"}
    [] OTHER                     -> {"weight"}

Construct ==
  /\ load_stage = "start" /\ patched
  /\ method' = GetQuantMethod
  /\ shards' = [s \in Placeholders(GetQuantMethod) |-> <<>>]
  /\ load_stage' = "loading"
  /\ UNCHANGED <<pack, patched, pending, loaded>>

-----------------------------------------------------------------------------
(* The loader.                                                             *)

SHARD_IDS == <<<<"q", "k", "v">>>>

Slot(id) ==
  CASE id.form = "none"  -> 0
    [] id.form = "int"   -> id.id
    [] id.form = "tuple" -> id.id[1]
    [] OTHER             -> LET ids == CHOOSE s \in ToSet(SHARD_IDS) : id.id \in ToSet(s)
                            IN (CHOOSE i \in DOMAIN ids : ids[i] = id.id) - 1

SlotsOf(d) == {d[i][1] : i \in DOMAIN d}
At(d, slot) == d[CHOOSE i \in DOMAIN d : d[i][1] = slot][2]

\* d[slot] = t.
Set(d, slot, t) ==
  IF slot \in SlotsOf(d) THEN [i \in DOMAIN d |-> IF d[i][1] = slot THEN <<slot, t>> ELSE d[i]]
  ELSE Append(d, <<slot, t>>)

\* A tensor arrives: a placeholder captures it; under a name that the layer
\* has no parameter for, the loader fails.  vLLM's own methods put a part in
\* its place.
Capture(t) ==
  /\ load_stage = "loading" /\ t \in pending
  /\ pending' = pending \ {t}
  /\ IF t.suffix \in DOMAIN shards
     THEN /\ shards' = [shards EXCEPT ![t.suffix] =
                          Set(@, IF method \in {"none", "UnquantizedLinearMethod"} THEN t.part
                                 ELSE Slot(ShardId(t.part)), t)]
          /\ UNCHANGED load_stage
     ELSE load_stage' = "refused" /\ UNCHANGED shards
  /\ UNCHANGED <<pack, patched, method, loaded>>

-----------------------------------------------------------------------------
(* process_weights_after_loading.                                          *)

\* sorted(S).  The provers cannot look into SortSeq, on which SetToSortSeq
\* rests.
Sorted(S) ==
  [k \in 1 .. Cardinality(S) |-> CHOOSE i \in S : Cardinality({j \in S : j <= i}) = k]
Refuse == load_stage' = "refused" /\ UNCHANGED loaded
Accept(list) == load_stage' = "ready" /\ loaded' = list

\* In the order of arrival (a mutant).
Arrived(d) == [i \in DOMAIN d |-> d[i][1]]

SlotOrder(d) == Sorted(SlotsOf(d))

\* Steps per tile in halves: the trellis has 16 values of each per row.
TwiceK(width) == width \div 8

\* A shard of a trellis layer; its number of outputs is that of its svh.
Shard(i) ==
  [trellis |-> At(shards["trellis"], i).part, suh |-> At(shards["suh"], i).part,
   svh |-> At(shards["svh"], i).part,
   markers |-> {s \in {"mcg", "mul1"} : i \in SlotsOf(shards[s])},
   twice_k |-> TwiceK(L.widths[At(shards["trellis"], i).part]),
   oc |-> L.sizes[At(shards["svh"], i).part]]

Total(sizes) == MapThenSumSet(LAMBDA p : sizes[p], DOMAIN sizes)
SumSizes(list) == Total([k \in DOMAIN list |-> list[k].oc])
OutTotal == Total(L.sizes)

ProcessLinear ==
  LET tr    == shards["trellis"]
      dense == shards["weight"]
      slots == IF tr # <<>> THEN SlotOrder(tr) ELSE SlotOrder(dense)
      list  == [k \in DOMAIN slots |-> Shard(slots[k])]
  IN
  IF tr = <<>>
  THEN IF dense = <<>> THEN Refuse
       ELSE Accept([k \in DOMAIN slots |-> [dense |-> At(dense, slots[k]).part]])
  ELSE IF \/ dense # <<>>
          \/ \E i \in SlotsOf(tr) : i \notin SlotsOf(shards["suh"]) \cap SlotsOf(shards["svh"])
          \/ SumSizes(list) # OutTotal
       THEN Refuse
       ELSE Accept(list)

ProcessEmbedding ==
  IF shards["qweight"] = <<>>
  THEN IF shards["weight"] = <<>> THEN Refuse ELSE Accept(<<[dense |-> 1]>>)
  ELSE IF shards["scales"] = <<>> THEN Refuse ELSE Accept(<<[int8 |-> 1]>>)

ProcessWeights ==
  /\ load_stage = "loading" /\ pending = {}
  /\ CASE method = "Exl3LinearMethod"    -> ProcessLinear
       [] method = "Exl3EmbeddingMethod" -> ProcessEmbedding
       [] OTHER -> LET slots == Sorted(SlotsOf(shards["weight"]))
                   IN Accept([k \in DOMAIN slots |-> [dense |-> slots[k]]])
  /\ UNCHANGED <<pack, patched, method, pending, shards>>

-----------------------------------------------------------------------------
(* apply.                                                                  *)

Outputs(p) == [j \in 1 .. L.sizes[p] |-> <<p, j>>]
Garbage(n) == [j \in 1 .. n |-> <<0, j>>]

\* shard_gemm: the fused kernel reads the trellis as it is; for more rows the
\* weight is rebuilt, at the K the shard was loaded with.
ShardGemm(s, rows) ==
  LET p == s.trellis IN
  IF /\ s.suh = p /\ s.svh = p /\ s.markers = L.markers
     /\ rows <= GemmMaxRows \/ 8 * s.twice_k = L.widths[p]
  THEN Outputs(p)
  ELSE Garbage(s.oc)

Gemm(s, rows) ==
  IF "trellis" \in DOMAIN s THEN ShardGemm(s, rows)
  ELSE Outputs(IF "dense" \in DOMAIN s THEN s.dense ELSE s.int8)

Apply(rows) == FlattenSeq([k \in DOMAIN loaded |-> Gemm(loaded[k], rows)])

-----------------------------------------------------------------------------
LoadInit ==
  /\ layer \in DOMAIN Model
  /\ forms \in [Parts -> IF L.kind = "embed" THEN {"int8", "dense"} ELSE {"trellis", "dense"}]
  /\ lost \in Losses /\ manifest \in BOOLEAN
  /\ load_stage = "start" /\ patched = FALSE /\ method = "none"
  /\ pending = Tensors \ lost /\ shards = <<>> /\ loaded = <<>>

LoadNext == RegisterPlugin \/ Construct \/ (\E t \in pending : Capture(t)) \/ ProcessWeights

LoadSpec == LoadInit /\ [][LoadNext]_load_vars

-----------------------------------------------------------------------------
Uniform == Cardinality({forms[p] : p \in Parts}) = 1

\* A layer that is served computes the outputs of the pack in the order vLLM
\* concatenates them, for any number of rows and whatever order its tensors
\* came in: all of them if its shards are quantized; if they are dense, those
\* that were found, for dense shards are not counted.
ServedAsPacked ==
  load_stage = "ready" =>
    LET dense == \A k \in DOMAIN loaded : "dense" \in DOMAIN loaded[k]
        found == {p \in Parts : dense => [part |-> p, suffix |-> "weight"] \in Tensors \ lost}
        order == Sorted(found)
    IN \A rows \in {GemmMaxRows, GemmMaxRows + 1} :
         Apply(rows) = FlattenSeq([k \in DOMAIN order |-> Outputs(order[k])])

\* No intact pack is refused: whichever of its layers are dense, whether or
\* not it has a manifest, and for the two layers the model leaves unconfigured.
IntactPackLoads == load_stage = "refused" => lost # {} \/ ~Uniform
=============================================================================
