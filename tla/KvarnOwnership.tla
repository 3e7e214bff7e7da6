--------------------------- MODULE KvarnOwnership ---------------------------
(***************************************************************************)
(* Who drives a KVarN layer, and through which tensors.  A layer's impl    *)
(* has a pool of its own, but its slot dictionary and the GPU mirror of it *)
(* are class-level, keyed by KV-cache group; the builders that mutate them *)
(* are created anew for every KV cache (a small one to profile CUDA        *)
(* graphs, then the real one), once for each target group and once more by *)
(* the drafter for its own layer.  A captured graph keeps the tensors it   *)
(* was captured with.                                                      *)
(*                                                                         *)
(* Which blocks a build flushes and allocates is KvarnPool's subject; here *)
(* a build takes any block it may.  The engine's order of initialisation   *)
(* is vLLM's.                                                              *)
(***************************************************************************)
EXTENDS Integers, FiniteSets

CONSTANTS
  Targets,        \* the KV-cache groups: a set of disjoint sets of layers
  Drafts,         \* the drafter's groups: each a part of one target group
  Shapes,         \* (head_size, num_kv_heads, sliding_window)
  Shape,          \* [layer -> Shapes]: the key an impl has before a builder
  NumGpuBlocks,      \* blocks of the real cache; block 0 is vLLM's null block
  ProfBlocks,     \* blocks of the profiling cache
  LookupFloor,    \* 1024 in the code
  LookupBounds,   \* values _derive_lookup_upper_bound may give
  Slots, Parts,   \* slots of a pool, parts of a block written by one step
  None

Layers    == UNION Targets
LayerSets == Targets \cup Drafts
Builders  == [epoch : 1 .. 2, layers : LayerSets]
Blocks    == 0 .. NumGpuBlocks - 1
Cells     == (Blocks \ {0}) \X Parts

VARIABLES
  phase,        \* "profile", "attn", "warm", "serve"
  epoch,        \* 0, then the number of the KV cache: 1 profiling, 2 real
  lookup_upper_bound,
  live,         \* the builders vLLM holds
  pass,         \* the pass of the engine in progress
  owner,        \* KVarNMetadataBuilder._owner
  impl_by_name, \* the layers a builder claimed at construction
  group_key,    \* impl._group_key
  kv_cache_ref, \* impl._kv_cache_ref: the epoch of the cache, or None
  b2s_ptr,      \* impl._block_to_slot_t: a mirror, or None
  dict_map,     \* _block_to_slot_dict by key, None when absent
  current,      \* _block_to_slot_t_per_device by key, None when absent
  mirror,       \* contents of every mirror tensor ever made
  warmed,       \* the compiled variants: <<kernel, shape, lookup size>>
  graph,        \* what the layer's captured graph launches on, or None
  pool,         \* the cell whose data each place of a layer's pool holds
  tile,         \* cells whose data a layer's tiles of this cache hold
  ran           \* cells the layer's forward passes have written (history)

registry == <<owner, impl_by_name, live>>
impls    == <<group_key, kv_cache_ref, b2s_ptr>>
classvars == <<dict_map, current, mirror, warmed>>
data     == <<pool, tile, ran>>
vars == <<phase, epoch, lookup_upper_bound, pass, graph, registry, impls, classvars, data>>

Keys == Shapes \cup LayerSets
Idle == [mode |-> "idle", builds |-> {}, runs |-> {}, cell |-> <<>>]
Largest(S) == CHOOSE n \in S : \A i \in S : i <= n

\* f with x set to v.
Set(f, x, v) == [y \in {x} \cup DOMAIN f |-> IF y = x THEN v ELSE f[y]]

-----------------------------------------------------------------------------
(* What the engine gives.                                                  *)

\* A layer is in one KV-cache group, and at most one of the drafter's, which
\* leaves out a layer of the target's; None is no builder.
GroupsPartition ==
  /\ None \notin Builders
  /\ \A t \in Targets : IsFiniteSet(t)
  /\ \A s, t \in Targets : s # t => s \cap t = {}
  /\ \A c, d \in Drafts : c # d => c \cap d = {}
  /\ \A d \in Drafts : d \notin Targets /\ \E t \in Targets : d \subseteq t

\* A mirror, what a graph launches on, a dictionary, and a cell's data.
Mirrors == [key : Keys, epoch : 0 .. 2, size : Nat]
Graphs  == [mirror : Mirrors, cache : 1 .. 2]
Dicts   == UNION {[S -> Slots] : S \in SUBSET Blocks}
Tags    == (0 .. 2) \X Blocks

\* Neither cache lacks the null block, the one it profiles with is no larger
\* than the real one, and None is no data.
CacheAssumption ==
  /\ GroupsPartition
  /\ Shape \in [Layers -> Shapes]
  /\ NumGpuBlocks \in Nat \ {0} /\ ProfBlocks \in 1 .. NumGpuBlocks
  /\ LookupFloor \in Nat /\ LookupBounds \subseteq Nat
  /\ None \notin Slots \cup Mirrors \cup Graphs \cup Dicts \cup Tags \cup (0 .. 2)

ASSUME OwnershipAssumption == CacheAssumption

-----------------------------------------------------------------------------
(* The registry of owners.                                                 *)

\* Only an unowned layer can be claimed (a mutant).
MayClaimUnowned(b, l) == owner[l] = None

\* A claimant with no more layers than the owner takes the layer over.
MayClaim(b, l) ==
  \/ owner[l] = None
  \/ Cardinality(b.layers) <= Cardinality(owner[l].layers)

Owned(b) == {l \in impl_by_name[b] : owner[l] = b}

\* Everything that describes the last cache of the group goes; pools stay.
ResetGroupState(k, claims) ==
  /\ dict_map' = [dict_map EXCEPT ![k] = None]
  /\ current' = [current EXCEPT ![k] = None]
  /\ group_key' = [l \in Layers |-> IF l \in claims THEN k ELSE group_key[l]]
  /\ kv_cache_ref' = [l \in Layers |-> IF l \in claims THEN None ELSE kv_cache_ref[l]]
  /\ b2s_ptr' = [l \in Layers |-> IF l \in claims THEN None ELSE b2s_ptr[l]]

\* The constructor of a builder: claim, then reset.
NewBuilder(b) ==
  LET claims == {l \in b.layers : MayClaim(b, l)} IN
  /\ phase = "attn" /\ b.epoch = epoch /\ b \notin live
  /\ b.layers \in Drafts => \A t \in Targets : [epoch |-> epoch, layers |-> t] \in live
  /\ live' = live \cup {b}
  /\ owner' = [l \in Layers |-> IF l \in claims THEN b ELSE owner[l]]
  /\ impl_by_name' = [impl_by_name EXCEPT ![b] = claims]
  /\ ResetGroupState(b.layers, claims)
  /\ UNCHANGED <<phase, epoch, lookup_upper_bound, pass, graph, mirror, warmed, data>>

-----------------------------------------------------------------------------
(* _ensure_pool: the group's allocator and mirror, the layer's pointer.    *)

Held(k) == IF dict_map[k] = None THEN <<>> ELSE dict_map[k]

\* The size follows the blocks seen so far (a mutant).
LookupSizeSeen(hint) == Largest({hint, LookupFloor})

LookupSize(hint) == Largest({hint, LookupFloor, lookup_upper_bound})

TooSmall(k, hint) == current[k] = None \/ current[k].size < LookupSize(hint)

MirrorOf(k, hint) ==
  IF TooSmall(k, hint) THEN [key |-> k, epoch |-> epoch, size |-> LookupSize(hint)]
  ELSE current[k]

\* A new mirror that starts empty (a mutant).
NotResynced(held, size) == [b \in {x \in Blocks : x < size} |-> None]

\* A new mirror starts from the dictionary.
Resynced(held, size) ==
  [b \in {x \in Blocks : x < size} |-> IF b \in DOMAIN held THEN held[b] ELSE None]

Contents(k, hint) ==
  IF TooSmall(k, hint) THEN Resynced(Held(k), LookupSize(hint))
  ELSE mirror[current[k]]

\* The kernels the decode and verify drivers launch with the lookup size as a
\* compile-time constant, and those the warm-up compiles for a layer's shape.
Launched(l, size) ==
  {"fused", "fused_vq", "stage1", "stage1_vq", "packed"} \X {Shape[l]} \X {size}

WarmDecodeKernels(l, size) ==
  {<<kernel, Shape[l], size>> :
     kernel \in {"fused", "stage1", "fused_vq", "stage1_vq", "packed"}}

\* Layer l runs _ensure_pool for key k; the build that called it, if any,
\* leaves held as the dictionary and slots as the contents of the mirror.
EnsurePool(l, k, hint, held, slots) ==
  LET m == MirrorOf(k, hint) IN
  /\ dict_map' = [dict_map EXCEPT ![k] = held]
  /\ current' = [current EXCEPT ![k] = m]
  /\ mirror' = Set(mirror, m, slots)
  /\ b2s_ptr' = [b2s_ptr EXCEPT ![l] = m]
  /\ warmed' = warmed \cup WarmDecodeKernels(l, m.size)

-----------------------------------------------------------------------------
(* One pass of the engine: the builders' builds, then the layers' forwards.*)

\* The mirror does not learn the size of the cache (a mutant).
NoBlocks == 0

CacheBlocks == IF epoch = 1 THEN ProfBlocks ELSE NumGpuBlocks

StartPass(group, mode) ==
  LET bs == [epoch : {epoch}, layers : group] IN
  /\ pass = Idle /\ bs # {} /\ bs \subseteq live
  /\ \/ mode = "warm" /\ phase = "warm"
     \/ /\ mode = "capture" /\ phase = "warm"
        /\ \A l \in Layers : owner[l] \in bs => kv_cache_ref[l] = epoch
     \/ mode = "eager" /\ phase = "serve"
     \/ /\ mode = "replay" /\ phase = "serve"
        /\ \A l \in Layers : owner[l] \in bs => graph[l] # None
  /\ pass' = [mode |-> mode, builds |-> bs, runs |-> UNION {Owned(b) : b \in bs},
              cell |-> <<>>]
  /\ UNCHANGED <<phase, epoch, lookup_upper_bound, graph, registry, impls, classvars, data>>

Dummy == pass.mode \in {"warm", "capture"}

\* Cells a step may write next: a dummy run only names the null block.
NextCells(b) ==
  IF Dummy THEN {0} \X Parts
  ELSE {c \in Cells : \A l \in Owned(b) : c \notin ran[l]}

\* Blocks a build may give up: the null block, and blocks written completely.
Complete(b, k) == \A l \in Owned(b), p \in Parts : <<k, p>> \in ran[l]
Releasable(b) == {k \in DOMAIN Held(b.layers) : k = 0 \/ Complete(b, k)}

\* The flush reaches the layers that know their cache, and only the cache
\* they know.
Flushed(l, held, out) ==
  {c \in Cells : /\ c[1] \in out /\ kv_cache_ref[l] = epoch
                 /\ pool[l][<<held[c[1]], c[2]>>] = <<epoch, c[1]>>}

Without(held, out) == [k \in DOMAIN held \ out |-> held[k]]

Build(b) ==
  /\ b \in pass.builds /\ Owned(b) # {}
  /\ \E c \in NextCells(b), out \in SUBSET (Releasable(b)) :
       LET k    == b.layers
           l0   == CHOOSE l \in Owned(b) : TRUE
           kept == Without(Held(k), out)
           free == Slots \ {kept[x] : x \in DOMAIN kept}
           slot == CHOOSE s \in free : TRUE
           held == IF c[1] \in DOMAIN kept THEN kept ELSE Set(kept, c[1], slot)
           slots == Contents(k, c[1] + 1)
       IN
       /\ c[1] \notin out /\ (c[1] \in DOMAIN kept \/ free # {})
       /\ EnsurePool(l0, k, c[1] + 1, held,
            [x \in DOMAIN slots |-> IF x \in DOMAIN held THEN held[x]
                                    ELSE IF x \in out THEN None ELSE slots[x]])
       /\ group_key' = [l \in Layers |-> IF l \in Owned(b) THEN k ELSE group_key[l]]
       /\ tile' = [l \in Layers |-> IF l \in Owned(b)
                     THEN tile[l] \cup Flushed(l, Held(k), out) ELSE tile[l]]
       /\ pass' = [pass EXCEPT !.builds = @ \ {b}, !.cell = Set(@, b.layers, c)]
  /\ UNCHANGED <<phase, epoch, lookup_upper_bound, graph, registry, kv_cache_ref, pool, ran>>

Finish(l) == IF pass.runs = {l} THEN Idle ELSE [pass EXCEPT !.runs = @ \ {l}]

\* The store of the step's cell, on mirror m.
StoredBy(l, m, c) ==
  IF c[1] \in DOMAIN mirror'[m] /\ mirror'[m][c[1]] # None
  THEN [pool EXCEPT ![l][<<mirror'[m][c[1]], c[2]>>] = <<epoch, c[1]>>]
  ELSE pool

Store(l, m) ==
  LET c == pass.cell[owner[l].layers] IN
  IF Dummy THEN UNCHANGED data
  ELSE /\ pool' = StoredBy(l, m, c)
       /\ ran' = [ran EXCEPT ![l] = @ \cup {c}]
       /\ UNCHANGED tile

\* do_kv_cache_update and forward, run by Python.
RunEager(l) ==
  /\ pass.builds = {} /\ l \in pass.runs /\ pass.mode \in {"warm", "eager"}
  /\ EnsurePool(l, group_key[l], CacheBlocks, Held(group_key[l]),
                Contents(group_key[l], CacheBlocks))
  /\ kv_cache_ref' = [kv_cache_ref EXCEPT ![l] = epoch]
  /\ Store(l, b2s_ptr'[l])
  /\ pass' = Finish(l)
  /\ UNCHANGED <<phase, epoch, lookup_upper_bound, graph, registry, group_key>>

\* Under capture _ensure_pool returns at once: the graph keeps the pointer
\* the layer has.
RunCapture(l) ==
  /\ pass.builds = {} /\ l \in pass.runs /\ pass.mode = "capture"
  /\ kv_cache_ref' = [kv_cache_ref EXCEPT ![l] = epoch]
  /\ graph' = [graph EXCEPT ![l] = [mirror |-> b2s_ptr[l], cache |-> epoch]]
  /\ pass' = Finish(l)
  /\ UNCHANGED <<phase, epoch, lookup_upper_bound, registry, group_key, b2s_ptr, classvars, data>>

\* A replay runs no Python.
RunReplay(l) ==
  /\ pass.builds = {} /\ l \in pass.runs /\ pass.mode = "replay"
  /\ UNCHANGED classvars
  /\ Store(l, graph[l].mirror)
  /\ pass' = Finish(l)
  /\ UNCHANGED <<phase, epoch, lookup_upper_bound, graph, registry, impls>>

-----------------------------------------------------------------------------
(* The life of the engine.                                                 *)

Init ==
  /\ phase = "profile" /\ epoch = 0 /\ lookup_upper_bound \in LookupBounds
  /\ live = {} /\ owner = [l \in Layers |-> None]
  /\ impl_by_name = [b \in Builders |-> {}]
  /\ group_key = Shape
  /\ kv_cache_ref = [l \in Layers |-> None] /\ b2s_ptr = [l \in Layers |-> None]
  /\ dict_map = [k \in Keys |-> None] /\ current = [k \in Keys |-> None]
  /\ mirror = <<>> /\ warmed = {}
  /\ graph = [l \in Layers |-> None]
  /\ pass = [Idle EXCEPT !.mode = "profile", !.runs = Layers]
  /\ pool = [l \in Layers |-> [x \in Slots \X Parts |-> None]]
  /\ tile = [l \in Layers |-> {}] /\ ran = [l \in Layers |-> {}]

\* The profile run: forward() without metadata, before any cache exists.
RunProfile(l) ==
  /\ pass.mode = "profile" /\ l \in pass.runs
  /\ EnsurePool(l, group_key[l], 0, Held(group_key[l]), Contents(group_key[l], 0))
  /\ pass' = Finish(l)
  /\ UNCHANGED <<phase, epoch, lookup_upper_bound, graph, registry, group_key, kv_cache_ref, data>>

\* initialize_kv_cache: the profiling cache may be skipped.
InitKVCache(e) ==
  /\ pass = Idle
  /\ \/ phase = "profile"
     \/ phase = "warm" /\ epoch = 1 /\ e = 2
  /\ phase' = "attn" /\ epoch' = e /\ live' = {}
  /\ graph' = [l \in Layers |-> None]
  /\ tile' = [l \in Layers |-> {}] /\ ran' = [l \in Layers |-> {}]
  /\ UNCHANGED <<lookup_upper_bound, pass, owner, impl_by_name, impls, classvars, pool>>

Advance(from, to) ==
  /\ phase = from /\ phase' = to /\ pass = Idle
  /\ UNCHANGED <<epoch, lookup_upper_bound, pass, graph, registry, impls, classvars, data>>

BuildersReady == live = [epoch : {epoch}, layers : LayerSets] /\ Advance("attn", "warm")
Serve == epoch = 2 /\ Advance("warm", "serve")

Next ==
  \/ \E l \in Layers : RunProfile(l) \/ RunEager(l) \/ RunCapture(l) \/ RunReplay(l)
  \/ \E b \in Builders : NewBuilder(b) \/ Build(b)
  \/ \E g \in {Targets, Drafts}, mode \in {"warm", "capture", "eager", "replay"} :
       StartPass(g, mode)
  \/ \E e \in 1 .. 2 : InitKVCache(e)
  \/ BuildersReady \/ Serve

Spec == Init /\ [][Next]_vars

-----------------------------------------------------------------------------
\* Once vLLM has made the builders of a cache, every layer is driven by
\* exactly one of them, and a draft layer by the drafter's.
OneOwner ==
  phase \in {"warm", "serve"} =>
    \A l \in Layers :
      /\ Cardinality({b \in live : l \in Owned(b)}) = 1
      /\ l \in UNION Drafts => owner[l].layers \in Drafts

\* A graph replayed while serving launches on the mirror the layer's builder
\* writes, of the present cache, and the mirror covers every block of it.
GraphsReadTheLiveMirror ==
  phase = "serve" =>
    \A l \in Layers : graph[l] # None =>
      /\ graph[l].mirror = current[owner[l].layers]
      /\ graph[l].cache = epoch
      /\ graph[l].mirror.size >= NumGpuBlocks

\* (#48) With an upper bound that covers the cache, the variants of the
\* decode kernels compiled in the profile run are the only ones ever needed.
CompiledWhenProfiled ==
  [][Largest({LookupFloor, lookup_upper_bound}) >= NumGpuBlocks /\ phase # "profile"
       => /\ warmed' = warmed
          /\ \A l \in Layers : b2s_ptr[l] # None
               => Launched(l, b2s_ptr[l].size) \subseteq warmed]_vars

\* What a launch of layer l on mirror m reads at a cell.
Holds(l, m, c) ==
  IF m # None /\ c[1] \in DOMAIN mirror[m] /\ mirror[m][c[1]] # None
  THEN pool[l][<<mirror[m][c[1]], c[2]>>] = <<epoch, c[1]>>
  ELSE c \in tile[l]

Launches(l) ==
  {current[group_key[l]]} \cup (IF graph[l] = None THEN {} ELSE {graph[l].mirror})

Readable == [l \in Layers |-> {c \in Cells : \A m \in Launches(l) : Holds(l, m, c)}]

\* Through every flush, resize, capture, replay and change of owner, a layer
\* reads what its forward passes wrote.
Paged == INSTANCE PagedCache WITH stored <- Readable
PagedSpec == Paged!Spec
=============================================================================
