-------------------------- MODULE LabTools_proofs --------------------------
(***************************************************************************)
(* The small programs of the laboratory: what a step can need of the tail  *)
(* pool, the pool beside the weights, the watcher of a container, the      *)
(* target's distribution under lookup drafting, the file of a smaller      *)
(* vocabulary, and the layers of an EXL3 pack.                             *)
(***************************************************************************)
EXTENDS KvarnMemory, ContainerHealth, SuffixLookup, DraftVocab, Exl3Load, FiniteSetTheorems, WellFoundedInduction, TLAPS

----------------------------------------------------------------------------
(* Arithmetic of tiles.                                                    *)

LEMMA DivNat ==
  ASSUME NEW a \in Nat, NEW g \in Nat \ {0}
  PROVE  a \div g \in Nat
  OBVIOUS

LEMMA DivSplit ==
  ASSUME NEW a \in Nat, NEW g \in Nat \ {0}
  PROVE  \E k \in Nat, m \in 0 .. g - 1 : a = k * g + m /\ a \div g = k
<1>1. a = (a \div g) * g + (a % g) /\ a % g \in 0 .. g - 1
  OBVIOUS
<1> QED BY <1>1, DivNat

\* The quotient is the largest factor that fits.
LEMMA DivLeast ==
  ASSUME NEW a \in Nat, NEW g \in Nat \ {0}, NEW k \in Nat, k * g <= a
  PROVE  k <= a \div g
  OBVIOUS

LEMMA DivMono ==
  ASSUME NEW a \in Nat, NEW b \in Nat, NEW g \in Nat \ {0}, a <= b
  PROVE  a \div g <= b \div g
  OBVIOUS

LEMMA DivStep ==
  ASSUME NEW a \in Nat, NEW g \in Nat \ {0}
  PROVE  (a + g) \div g = a \div g + 1
  OBVIOUS

\* Quotients of a sum.
LEMMA DivSum ==
  ASSUME NEW a \in Nat, NEW b \in Nat, NEW g \in Nat \ {0}
  PROVE  a \div g + b \div g <= (a + b) \div g
<1>1. PICK k \in Nat, m \in 0 .. g - 1 : a = k * g + m /\ a \div g = k
  BY DivSplit
<1>2. PICK l \in Nat, n \in 0 .. g - 1 : b = l * g + n /\ b \div g = l
  BY DivSplit
<1>3. (k + l) * g = k * g + l * g
  OBVIOUS
<1>4. (k + l) * g <= a + b
  BY <1>1, <1>2, <1>3
<1> QED BY <1>1, <1>2, <1>4, DivLeast

\* A row of q tokens writes no more than two blocks and those its tokens fill.
LEMMA RowBlocks ==
  ASSUME SizingAssumption, NEW offset \in 0 .. Group - 1, NEW q \in Nat \ {0}
  PROVE  /\ BlocksWritten(offset, q) \in Nat
         /\ BlocksWritten(offset, q) <= q \div Group + 2
<1> USE DEF SizingAssumption
<1>1. offset + q - 1 \in Nat /\ offset + q - 1 <= q + Group
  OBVIOUS
<1>2. (offset + q - 1) \div Group <= (q + Group) \div Group
  BY <1>1, DivMono
<1>3. (q + Group) \div Group = q \div Group + 1
  BY DivStep
<1>4. (offset + q - 1) \div Group \in Nat /\ q \div Group \in Nat
  BY <1>1, DivNat
<1> QED BY <1>2, <1>3, <1>4 DEF BlocksWritten

----------------------------------------------------------------------------
(* The invariant: three slots per row and one per tile of tokens.          *)

SizingInv ==
  /\ TypeOK
  /\ pool_size = PoolSlots(max_seqs, batch)
  /\ demand <= 3 * seqs + tokens \div Group

LEMMA SizingTypes ==
  ASSUME SizingAssumption, NEW t \in Nat
  PROVE  PrefillBlocks(t) \in Nat /\ t \div Group <= PrefillBlocks(t)
<1> USE DEF SizingAssumption
<1>1. t + Group - 1 \in Nat /\ t <= t + Group - 1
  OBVIOUS
<1> QED BY <1>1, DivNat, DivMono DEF PrefillBlocks

LEMMA SupportedType ==
  ASSUME SizingAssumption, NEW slots \in Nat, NEW t \in Nat
  PROVE  Supported(slots, t) \in Nat \ {0}
<1>1. PrefillBlocks(t) \in Nat
  BY SizingTypes
<1>2. (slots - PrefillBlocks(t) - Headroom) \div 2 \in Int
  BY <1>1 DEF Headroom
<1> QED BY <1>2 DEF Supported, AtLeastOne

LEMMA SizingInit == Init => SizingInv
<1> SUFFICES ASSUME Init PROVE SizingInv
  OBVIOUS
<1> USE SizingAssumption DEF SizingAssumption
<1>1. max_slots \in Nat /\ batch \in Nat
  BY DEF Init
<1>2. Supported(max_slots, batch) \in Nat \ {0}
  BY <1>1, SupportedType
<1>3. max_seqs \in Nat \ {0}
  BY <1>2 DEF Init
<1>4. pool_size \in Nat
  <2>1. PrefillBlocks(batch) \in Nat
    BY <1>1, SizingTypes
  <2>2. pool_size = 2 * max_seqs + PrefillBlocks(batch) + 8
    BY DEF Init, PoolSlots, Headroom
  <2> QED BY <1>3, <2>1, <2>2
<1>5. TypeOK
  BY <1>1, <1>3, <1>4 DEF Init, TypeOK
<1>6. 0 \div Group \in Nat
  BY DivNat
<1> QED BY <1>5, <1>6 DEF Init, SizingInv

LEMMA SizingStep == SizingInv /\ [Next]_vars => SizingInv'
<1> SUFFICES ASSUME SizingInv, [Next]_vars PROVE SizingInv'
  OBVIOUS
<1> USE SizingAssumption DEF SizingAssumption, SizingInv
<1>1. ASSUME NEW offset \in 0 .. Group - 1, NEW q \in 1 .. batch - tokens, NEW sink \in 0 .. 1,
             Schedule(offset, q, sink)
      PROVE  SizingInv'
  <2>1. batch \in Nat /\ tokens \in Nat /\ q \in Nat \ {0} /\ seqs \in Nat /\ demand \in Nat
    BY DEF TypeOK
  <2>2. BlocksWritten(offset, q) \in Nat /\ BlocksWritten(offset, q) <= q \div Group + 2
    BY <2>1, RowBlocks
  <2>3. tokens \div Group + q \div Group <= (tokens + q) \div Group
    BY <2>1, DivSum
  <2>4. tokens \div Group \in Nat /\ q \div Group \in Nat /\ (tokens + q) \div Group \in Nat
    BY <2>1, DivNat
  <2>5. TypeOK'
    BY <1>1, <2>1, <2>2 DEF Schedule, config, TypeOK
  <2>6. demand' <= 3 * seqs' + tokens' \div Group
    <3>1. /\ demand' = demand + BlocksWritten(offset, q) + sink
          /\ seqs' = seqs + 1 /\ tokens' = tokens + q
      BY <1>1 DEF Schedule
    <3>2. tokens' \div Group = (tokens + q) \div Group
      BY <3>1
    <3> QED BY <2>1, <2>2, <2>3, <2>4, <3>1, <3>2
  <2>7. pool_size' = PoolSlots(max_seqs', batch')
    BY <1>1 DEF Schedule, config
  <2> QED BY <2>5, <2>6, <2>7
<1>2. ASSUME NextStep PROVE SizingInv'
  <2>1. 0 \div Group \in Nat
    BY DivNat
  <2> QED BY <1>2, <2>1 DEF NextStep, config, TypeOK
<1>3. ASSUME UNCHANGED vars PROVE SizingInv'
  BY <1>3 DEF vars, config, TypeOK
<1> QED BY <1>1, <1>2, <1>3 DEF Next

LEMMA SizingInvariant == Spec => []SizingInv
BY SizingInit, SizingStep, PTL DEF Spec

\* No step needs more than max_seqs - 8 slots beyond the pool: with eight
\* requests or fewer, KVarNConfig.pool_slots cannot be exceeded.
THEOREM SizingDemandBounded == Spec => []DemandBounded
<1>1. SizingInv => DemandBounded
  <2> SUFFICES ASSUME SizingInv PROVE DemandBounded
    OBVIOUS
  <2> USE SizingAssumption DEF SizingAssumption
  <2>1. /\ batch \in Nat /\ tokens \in Nat /\ tokens <= batch /\ demand \in Nat
        /\ seqs \in Nat /\ max_seqs \in Nat /\ seqs <= max_seqs
        /\ pool_size = PoolSlots(max_seqs, batch)
        /\ demand <= 3 * seqs + tokens \div Group
    BY DEF SizingInv, TypeOK
  <2>2. /\ tokens \div Group \in Nat /\ batch \div Group \in Nat
        /\ tokens \div Group <= batch \div Group
    BY <2>1, DivNat, DivMono
  <2>3. PrefillBlocks(batch) \in Nat /\ batch \div Group <= PrefillBlocks(batch)
    BY <2>1, SizingTypes
  <2> QED BY <2>1, <2>2, <2>3 DEF PoolSlots, Headroom, DemandBounded
<1> QED BY <1>1, SizingInvariant, PTL

----------------------------------------------------------------------------
(* The cap.                                                                *)

LEMMA InitCapIsTight == Init => CapIsTight
<1> USE SizingAssumption DEF SizingAssumption
<1> SUFFICES ASSUME Init, PoolSlots(1, batch) <= max_slots
             PROVE  /\ pool_size <= max_slots
                    /\ max_seqs \in Requested \/ PoolSlots(max_seqs + 1, batch) > max_slots
  BY DEF CapIsTight
<1> DEFINE p == PrefillBlocks(batch)
           n == (max_slots - p - 8) \div 2
<1>1. max_slots \in Nat /\ batch \in Nat
  BY DEF Init
<1>2. p \in Nat
  BY <1>1, SizingTypes
<1>3. 2 + p + 8 <= max_slots
  BY DEF PoolSlots, Headroom
<1> HIDE DEF p
<1>4. n \in Nat \ {0} /\ 2 * n <= max_slots - p - 8 /\ max_slots - p - 8 < 2 * (n + 1)
  BY <1>1, <1>2, <1>3
<1>5. Supported(max_slots, batch) = n
  BY <1>4 DEF Supported, AtLeastOne, Headroom, p
<1>6. max_seqs \in Nat /\ max_seqs <= n /\ (max_seqs \in Requested \/ max_seqs = n)
  BY <1>4, <1>5 DEF Init
<1>7. /\ pool_size = 2 * max_seqs + p + 8
      /\ PoolSlots(max_seqs + 1, batch) = 2 * (max_seqs + 1) + p + 8
  BY DEF Init, PoolSlots, Headroom, p
<1> HIDE DEF n
<1> QED BY <1>1, <1>2, <1>4, <1>6, <1>7

\* max_supported_seqs inverts pool_slots for every budget and tile size: a pool
\* that fits at all fits, and the next larger one would not.
THEOREM SizingCapIsTight == Spec => []CapIsTight
<1>1. CapIsTight /\ [Next]_vars => CapIsTight'
  BY DEF CapIsTight, Next, Schedule, NextStep, vars, config, PoolSlots, PrefillBlocks
<1> QED BY <1>1, InitCapIsTight, PTL DEF Spec

----------------------------------------------------------------------------
(* The weights as estimate_weight_bytes measures them.                     *)

\* Files that hold every parameter once are as large as the parameters.
LEMMA WholeSize ==
  ASSUME CheckpointAssumption, NEW files, Whole(files)
  PROVE  SizeOf(files) = ParamBytes * Cardinality(Params)
<1> DEFINE pairs == UNION {{f} \X Holds[f] : f \in files}
           holder == [p \in Params |-> CHOOSE f \in files : p \in Holds[f]]
           pair == [p \in Params |-> <<holder[p], p>>]
<1>1. \A p \in Params : holder[p] \in files /\ p \in Holds[holder[p]]
  BY DEF Whole
<1>2. \A f \in files : \A p \in Holds[f] : p \in Params /\ holder[p] = f
  <2> SUFFICES ASSUME NEW f \in files, NEW p \in Holds[f] PROVE p \in Params /\ holder[p] = f
    OBVIOUS
  <2>1. p \in Params
    BY DEF Whole
  <2> HIDE DEF holder
  <2>2. holder[p] \in files /\ p \in Holds[holder[p]]
    BY <1>1, <2>1
  <2> QED BY <2>1, <2>2 DEF Whole
<1> HIDE DEF holder
<1>3. \A p \in Params : pair[p] \in pairs
  BY <1>1
<1>4. \A x \in pairs : \E p \in Params : pair[p] = x
  <2> SUFFICES ASSUME NEW f \in files, NEW x \in {f} \X Holds[f]
               PROVE  \E p \in Params : pair[p] = x
    OBVIOUS
  <2>1. x = <<f, x[2]>> /\ x[2] \in Holds[f]
    OBVIOUS
  <2>2. x[2] \in Params /\ holder[x[2]] = f
    BY <1>2, <2>1
  <2> QED BY <2>1, <2>2
<1>5. pair \in Bijection(Params, pairs)
  <2>1. pair \in [Params -> pairs]
    BY <1>3
  <2>2. \A p, q \in Params : pair[p] = pair[q] => p = q
    OBVIOUS
  <2> HIDE DEF pair, pairs
  <2> QED BY <1>4, <2>1, <2>2 DEF Bijection, Injection, Surjection, IsInjective
<1>6. IsFiniteSet(Params)
  BY DEF CheckpointAssumption
<1> HIDE DEF pair, pairs
<1>7. Cardinality(pairs) = Cardinality(Params)
  BY <1>5, <1>6, FS_Bijection DEF ExistsBijection
<1> QED BY <1>7 DEF SizeOf, pairs

LEMMA LeastOfTwo ==
  ASSUME NEW S \in SUBSET {1, 2}, S # {}
  PROVE  Least(S) \in S
<1>1. \E i \in S : \A j \in S : i <= j
  <2>1. CASE 1 \in S
    BY <2>1
  <2>2. CASE S = {2}
    BY <2>2
  <2> QED BY <2>1, <2>2
<1> QED BY <1>1 DEF Least

\* The loader finds weights where the estimate looks for them.
LEMMA GlobNotEmpty ==
  ASSUME CheckpointAssumption, BudgetInit, snapshot = repo
  PROVE  /\ Glob # {}
         /\ {i \in DOMAIN IndexOf : Usable(IndexOf[i])} = {} => LoadedFiles = Glob
<1> USE DEF CheckpointAssumption
<1> DEFINE format == IF repo \cap Safetensors # {} THEN 1 ELSE 2
<1>1. LoadedFiles # {}
  BY DEF BudgetInit, Loaded
<1>2. ASSUME IndexOf[format] \in repo
      PROVE  /\ Index[IndexOf[format]] # {} /\ Index[IndexOf[format]] \subseteq repo
             /\ Usable(IndexOf[format])
  <2>1. Index[IndexOf[format]] # {}
    BY <1>1, <1>2 DEF LoadedFiles
  <2>2. IndexOf[format] \in DOMAIN Index
    OBVIOUS
  <2>3. Index[IndexOf[format]] \subseteq repo
    BY <1>2, <2>2 DEF BudgetInit
  <2> QED BY <1>2, <2>1, <2>3 DEF Usable
<1>3. CASE IndexOf[format] \in repo
  <2>1. format \in DOMAIN IndexOf
    OBVIOUS
  <2>2. Index[IndexOf[1]] \subseteq Safetensors /\ Index[IndexOf[2]] \subseteq Bins
    OBVIOUS
  <2> QED BY <1>2, <1>3, <2>1, <2>2 DEF Glob
<1>4. CASE IndexOf[format] \notin repo
  <2>1. LoadedFiles = repo \cap (IF format = 1 THEN Safetensors ELSE Bins)
    BY <1>4 DEF LoadedFiles
  <2>2. LoadedFiles = Glob
    BY <2>1 DEF Glob
  <2> QED BY <1>1, <2>2
<1> QED BY <1>3, <1>4

\* A checkpoint that is all there is measured to the byte, in whichever of its
\* layouts the estimate finds it.
LEMMA EstimateExact ==
  ASSUME CheckpointAssumption, BudgetInit, snapshot = repo
  PROVE  EstimateWeightBytes = WeightBytes
<1> DEFINE usable  == {i \in DOMAIN IndexOf : Usable(IndexOf[i])}
           singles == {i \in DOMAIN Singles : Singles[i] \in snapshot}
<1>0. WeightBytes = PerRank(ParamBytes * Cardinality(Params))
  BY DEF WeightBytes, BudgetInit
<1> USE DEF CheckpointAssumption
<1>1. CASE usable # {}
  <2>1. Least(usable) \in usable
    BY <1>1, LeastOfTwo
  <2>2. Whole(Index[IndexOf[Least(usable)]])
    BY <2>1
  <2>3. EstimateWeightBytes = PerRank(SizeOf(Index[IndexOf[Least(usable)]]))
    BY <1>1 DEF EstimateWeightBytes
  <2> QED BY <1>0, <2>2, <2>3, WholeSize
<1>2. CASE usable = {} /\ singles # {}
  <2>1. Least(singles) \in singles
    BY <1>2, LeastOfTwo
  <2>2. Holds[Singles[Least(singles)]] = Params
    BY <2>1
  <2>3. Whole({Singles[Least(singles)]})
    BY <2>2 DEF Whole
  <2>4. EstimateWeightBytes = PerRank(SizeOf({Singles[Least(singles)]}))
    BY <1>2 DEF EstimateWeightBytes
  <2> QED BY <1>0, <2>3, <2>4, WholeSize
<1>3. CASE usable = {} /\ singles = {}
  <2>1. Glob # {} /\ LoadedFiles = Glob
    BY <1>3, GlobNotEmpty
  <2>2. Glob \subseteq Index[IndexOf[1]] \/ Glob \subseteq Index[IndexOf[2]]
    BY <1>3 DEF Glob
  <2>3. Whole(Index[IndexOf[1]]) /\ Whole(Index[IndexOf[2]])
    OBVIOUS
  <2>4. UNION {Holds[f] : f \in Glob} = Params
    BY <2>1 DEF Loaded, BudgetInit
  <2>5. Whole(Glob)
    BY <2>2, <2>3, <2>4 DEF Whole
  <2>6. EstimateWeightBytes = PerRank(SizeOf(Glob))
    BY <1>3, <2>1 DEF EstimateWeightBytes
  <2> QED BY <1>0, <2>5, <2>6, WholeSize
<1> QED BY <1>1, <1>2, <1>3

----------------------------------------------------------------------------
(* The pool beside the weights.                                            *)

LEMMA ProdNat ==
  ASSUME NEW a \in Nat, NEW b \in Nat
  PROVE  a * b \in Nat
OBVIOUS

LEMMA ProdMono ==
  ASSUME NEW a \in Nat, NEW b \in Nat, NEW c \in Nat, a <= b
  PROVE  a * c <= b * c
<1>1. PICK d \in Nat : b = a + d
  BY b - a \in Nat
<1>2. b * c = a * c + d * c
  BY <1>1
<1> QED BY <1>2, ProdNat

LEMMA ProdCancel ==
  ASSUME NEW a \in Nat, NEW b \in Nat, NEW c \in Nat \ {0}, a * c <= b * c
  PROVE  a <= b
<1> SUFFICES ASSUME b + 1 <= a PROVE FALSE
  OBVIOUS
<1>1. (b + 1) * c <= a * c
  BY ProdMono
<1>2. (b + 1) * c = b * c + c
  OBVIOUS
<1> QED BY <1>1, <1>2, ProdNat

LEMMA DivBelow ==
  ASSUME NEW a \in Nat, NEW g \in Nat \ {0}
  PROVE  a \div g \in Nat /\ (a \div g) * g <= a
<1>1. PICK k \in Nat, m \in 0 .. g - 1 : a = k * g + m /\ a \div g = k
  BY DivSplit
<1> QED BY <1>1, ProdNat

\* What a share of the card pays for: slots whose bytes in n layers fit that
\* share of room fit room itself in l layers that do not outgrow the share.
LEMMA ShareCovers ==
  ASSUME NEW slots \in Nat, NEW bytes \in Nat \ {0}, NEW n \in Nat \ {0}, NEW l \in Nat,
         NEW share \in Nat \ {0}, NEW room \in Nat,
         share * l <= 100 * n,
         slots <= ((share * room) \div 10000) \div (bytes * n)
  PROVE  100 * (slots * bytes * l) <= room
<1> DEFINE b == slots * bytes
           budget == (share * room) \div 10000
<1>1. b \in Nat /\ bytes * n \in Nat \ {0} /\ share * room \in Nat /\ budget \in Nat
  <2>1. bytes * n \in Nat \ {0}
    BY ProdNat, bytes * n # 0
  <2> QED BY <2>1, ProdNat, DivNat
<1>2. slots * (bytes * n) <= budget
  <2>1. budget \div (bytes * n) \in Nat /\ (budget \div (bytes * n)) * (bytes * n) <= budget
    BY <1>1, DivBelow
  <2>2. slots * (bytes * n) <= (budget \div (bytes * n)) * (bytes * n)
    BY <1>1, <2>1, ProdMono
  <2> QED BY <1>1, <2>1, <2>2
<1>3. budget * 10000 <= share * room
  BY <1>1, DivBelow
<1>4. slots * (bytes * n) = b * n
  OBVIOUS
<1>5. (share * l) * b <= (100 * n) * b
  <2>1. share * l \in Nat /\ 100 * n \in Nat
    BY ProdNat
  <2> QED BY <1>1, <2>1, ProdMono
<1>6. (100 * n) * b = 100 * (b * n)
  BY <1>1
<1>7. 100 * ((share * l) * b) <= share * room
  <2>1. b * n \in Nat /\ (share * l) * b \in Nat
    BY <1>1, ProdNat
  <2> HIDE DEF b, budget
  <2> QED BY <1>1, <1>2, <1>3, <1>4, <1>5, <1>6, <2>1
<1>8. 100 * ((share * l) * b) = (100 * (b * l)) * share
  BY <1>1
<1>9. (100 * (b * l)) * share <= room * share
  BY <1>7, <1>8
<1>10. 100 * (b * l) \in Nat
  BY <1>1, ProdNat
<1>11. 100 * (b * l) <= room
  BY <1>9, <1>10, ProdCancel
<1> QED BY <1>11

\* The arithmetic of SizingCapIsTight, with the slots that the budget leads to.
LEMMA MemoryFits ==
  ASSUME CheckpointAssumption, BudgetAssumption, SizingAssumption,
         MemoryInit, snapshot = repo, PoolSlots(1, batch) <= max_slots
  PROVE  100 * (WeightBytes + pool_size * SlotLayerBytes * PooledLayers) <= util * TotalBytes
<1> DEFINE l == PooledLayers
           n == NumKvarnLayers(layers)
           room == util * TotalBytes - 100 * WeightBytes
<1>1. /\ util \in Nat /\ degree \in Nat \ {0} /\ TotalBytes \in Nat /\ Share \in Nat \ {0}
      /\ SlotLayerBytes \in Nat \ {0} /\ ParamBytes \in Nat
      /\ util * TotalBytes \in Nat
  BY ProdNat DEF MemoryInit, BudgetInit, BudgetAssumption
<1>2. WeightBytes \in Nat
  <2>1. Cardinality(Params) \in Nat
    BY FS_CardinalityType DEF CheckpointAssumption
  <2>2. ParamBytes * Cardinality(Params) \in Nat
    BY <1>1, <2>1, ProdNat
  <2> QED BY <1>1, <2>2, DivNat DEF WeightBytes, PerRank, MemoryInit, BudgetInit
<1>3. /\ n \in Nat \ {0} /\ l \in Nat /\ Share * l <= 100 * n
  <2>1. /\ layers \in [full : Nat, sliding : Nat, linear : Nat, draft : Nat]
        /\ n > 0 /\ Share * (layers.full + layers.sliding + layers.draft) <= 100 * n
    BY DEF MemoryInit, BudgetInit, BudgetAssumption
  <2>2. n \in Nat
    BY <2>1 DEF NumKvarnLayers
  <2>3. /\ l \in Nat /\ layers.full + layers.sliding + layers.draft \in Nat
        /\ l <= layers.full + layers.sliding + layers.draft
    BY <2>1 DEF PooledLayers
  <2>4. l * Share <= (layers.full + layers.sliding + layers.draft) * Share
    BY <1>1, <2>3, ProdMono
  <2> HIDE DEF l, n
  <2>5. /\ l * Share = Share * l
        /\ (layers.full + layers.sliding + layers.draft) * Share
             = Share * (layers.full + layers.sliding + layers.draft)
    BY <1>1, <2>3
  <2> QED BY <1>1, <2>1, <2>2, <2>3, <2>4, <2>5, ProdNat
<1>4. EstimateWeightBytes = WeightBytes /\ WeightBytes # Unknown
  BY <1>2, EstimateExact DEF MemoryInit, Unknown
<1>5. /\ max_slots \in Nat /\ batch \in Nat /\ pool_size <= max_slots /\ pool_size \in Nat
      /\ max_slots > 0
  <2>1. Init => CapIsTight
    BY InitCapIsTight
  <2>2. pool_size <= max_slots
    BY <2>1 DEF MemoryInit, CapIsTight
  <2>3. SizingInv
    BY SizingInit DEF MemoryInit
  <2>4. PrefillBlocks(batch) \in Nat /\ max_slots \in Nat /\ batch \in Nat
    BY <2>3, SizingTypes DEF SizingInv, TypeOK, SizingAssumption
  <2> QED BY <2>2, <2>3, <2>4 DEF SizingInv, TypeOK, PoolSlots, Headroom
<1>6. max_slots = PoolBudgetBytes \div (SlotLayerBytes * n)
  BY DEF MemoryInit, MaxSlots
<1>7. PoolBudgetBytes = IF room < 0 THEN 0 ELSE (Share * room) \div 10000
  BY <1>4 DEF PoolBudgetBytes
<1> HIDE DEF l, n
<1>8. SlotLayerBytes * n \in Nat \ {0}
  BY <1>1, <1>3, ProdNat, SlotLayerBytes * n # 0
<1>9. room >= 0
  <2> SUFFICES ASSUME room < 0 PROVE FALSE
    BY <1>1, <1>2
  <2>1. max_slots = 0 \div (SlotLayerBytes * n)
    BY <1>6, <1>7
  <2>2. 0 \div (SlotLayerBytes * n) = 0
    BY <1>8
  <2> QED BY <1>5, <2>1, <2>2
<1>10. room \in Nat
  BY <1>1, <1>2, <1>9
<1>11. max_slots = ((Share * room) \div 10000) \div (SlotLayerBytes * n)
  BY <1>1, <1>2, <1>6, <1>7, <1>9
<1>12. pool_size <= ((Share * room) \div 10000) \div (SlotLayerBytes * n)
  BY <1>5, <1>11
<1> HIDE DEF room
<1>13. 100 * (pool_size * SlotLayerBytes * l) <= room
  BY <1>1, <1>3, <1>5, <1>10, <1>12, ShareCovers
<1>14. pool_size * SlotLayerBytes * l \in Nat
  BY <1>1, <1>3, <1>5, ProdNat
<1> QED BY <1>1, <1>2, <1>13, <1>14 DEF l, room

\* The estimate is exact, and the pool it leads to fits beside the weights, in
\* every checkpoint, model, share and tile size, as long as the engine runs:
\* estimate_weight_bytes, pool_budget_bytes and max_supported_seqs together.
THEOREM MemoryLeavesTheWeights == MemorySpec => []PoolLeavesTheWeights
<1> USE CheckpointAssumption, BudgetAssumption, SizingAssumption
<1>1. MemoryInit => PoolLeavesTheWeights
  BY EstimateExact, MemoryFits
     DEF MemoryInit, PoolLeavesTheWeights, EstimateIsTheWeights, LeavesTheWeights
<1>2. PoolLeavesTheWeights /\ [Next /\ UNCHANGED budget_vars]_<<vars, budget_vars>>
        => PoolLeavesTheWeights'
  <2> SUFFICES ASSUME PoolLeavesTheWeights, [Next /\ UNCHANGED budget_vars]_<<vars, budget_vars>>
               PROVE  PoolLeavesTheWeights'
    OBVIOUS
  <2>1. UNCHANGED <<config, budget_vars>>
    BY DEF Next, Schedule, NextStep, vars
  <2>2. UNCHANGED <<max_slots, batch, max_seqs, pool_size, repo, snapshot, util, degree, layers,
                     quant_sliding>>
    BY <2>1 DEF config, budget_vars
  <2>3. Glob' = Glob /\ Loaded' = Loaded
    BY <2>2 DEF Glob, Loaded, LoadedFiles
  <2>4. \A idx : Usable(idx)' <=> Usable(idx)
    BY <2>2 DEF Usable
  <2>5. EstimateWeightBytes' = EstimateWeightBytes
    BY <2>2, <2>3, <2>4 DEF EstimateWeightBytes, PerRank
  <2>6. WeightBytes' = WeightBytes
    BY <2>2, <2>3 DEF WeightBytes, PerRank
  <2>7. PooledLayers' = PooledLayers /\ PoolSlots(1, batch)' = PoolSlots(1, batch)
    BY <2>2 DEF PooledLayers, PoolSlots, PrefillBlocks
  <2> QED BY <2>2, <2>5, <2>6, <2>7 DEF PoolLeavesTheWeights, EstimateIsTheWeights, LeavesTheWeights
<1> QED BY <1>1, <1>2, PTL DEF MemorySpec

----------------------------------------------------------------------------
(* The watcher of a container.                                             *)

HealthTypeOK ==
  /\ state \in States /\ polled \in States \cup {"unset"}
  /\ registered \in BOOLEAN /\ failed \in BOOLEAN /\ late \in BOOLEAN
  /\ elapsed \in Nat

\* What a poll shows is history when it is judged: a container that was gone
\* has failed, and one that was absent had not been registered yet, unless the
\* grace was over, when late has recorded whether it had.
HealthInv ==
  /\ HealthTypeOK
  /\ state \in Gone => failed
  /\ state = "absent" /\ registered => failed
  /\ state # "absent" => registered
  /\ elapsed >= Grace => registered \/ late
  /\ polled \in Gone => failed
  /\ polled = "absent" /\ elapsed >= Grace => failed \/ late
  /\ NoFalseFailure

LEMMA HealthBase == HealthInit => HealthInv
<1> SUFFICES ASSUME HealthInit PROVE HealthInv
  OBVIOUS
<1>1. HealthTypeOK
  BY DEF HealthInit, HealthTypeOK, States, Transient, Gone
<1>2. ~(elapsed >= Grace)
  BY HealthAssumption DEF HealthInit, HealthAssumption
<1>3. state \notin Gone /\ polled \notin Gone /\ polled # "absent" /\ rc \notin {1, 2}
  BY DEF HealthInit, Gone, NoStatus
<1>4. registered <=> state # "absent"
  BY Zenon DEF HealthInit
<1> QED BY <1>1, <1>2, <1>3, <1>4, Zenon DEF HealthInv, NoFalseFailure

\* Docker forgets nothing: a container that was registered or failed stays so.
LEMMA DockerSteps ==
  ASSUME HealthInv, Docker
  PROVE  /\ state' \in States /\ registered' \in BOOLEAN /\ failed' \in BOOLEAN
         /\ (registered => registered') /\ (failed => failed')
         /\ (state' \in Gone => failed')
         /\ (state' = "absent" /\ registered' => failed')
         /\ (state' # "absent" => registered')
         /\ UNCHANGED watcher
<1> USE DEF HealthInv, HealthTypeOK, States, Transient, Gone
<1>1. CASE Register
  BY <1>1 DEF Register, Become
<1>2. CASE StartUp
  BY <1>2 DEF StartUp, Become
<1>3. CASE Run
  BY <1>3 DEF Run, Become
<1>4. CASE Unpause
  BY <1>4 DEF Unpause, Become
<1>5. CASE Removal
  BY <1>5 DEF Removal, Become
<1>6. CASE Backoff
  BY <1>6 DEF Backoff, Become
<1>7. CASE StartOver
  BY <1>7 DEF StartOver
<1> QED BY <1>1, <1>2, <1>3, <1>4, <1>5, <1>6, <1>7 DEF Docker

LEMMA HealthStep == HealthInv /\ [HealthNext]_health_vars => HealthInv'
<1> SUFFICES ASSUME HealthInv, [HealthNext]_health_vars PROVE HealthInv'
  OBVIOUS
<1>1. CASE Docker
  <2>1. UNCHANGED <<elapsed, polled, late, rc>>
    BY <1>1, DockerSteps DEF watcher
  <2> QED BY <1>1, <2>1, DockerSteps DEF HealthInv, HealthTypeOK, NoFalseFailure
<1>2. CASE Inspect
  <2>1. polled' = state /\ UNCHANGED <<state, registered, failed, elapsed, late, rc>>
    BY <1>2 DEF Inspect, docker
  <2> QED BY <2>1 DEF HealthInv, HealthTypeOK, NoFalseFailure
<1>3. CASE Sleep
  <2>1. /\ polled' = "unset" /\ elapsed' = Slept
        /\ late' = (late \/ (elapsed < Grace /\ elapsed' >= Grace /\ ~registered))
        /\ UNCHANGED <<state, registered, failed, rc>>
    BY <1>3 DEF Sleep, docker
  <2>2. elapsed' \in Nat /\ (elapsed >= Grace => elapsed' = elapsed)
    BY <2>1, HealthAssumption DEF HealthAssumption, Slept, HealthInv, HealthTypeOK
  <2>3. late' \in BOOLEAN /\ (late => late')
    BY <2>1, Zenon DEF HealthInv, HealthTypeOK
  <2>4. elapsed < Grace \/ elapsed >= Grace
    BY HealthAssumption DEF HealthAssumption, HealthInv, HealthTypeOK
  <2>5. elapsed' >= Grace => registered \/ late'
    BY <2>1, <2>4, Zenon DEF HealthInv
  <2> QED BY <2>1, <2>2, <2>3, <2>5 DEF HealthInv, HealthTypeOK, NoFalseFailure, Gone
<1>4. CASE Answer
  <2>1. /\ rc' = Verdict(polled) /\ polled # "unset" /\ ~Waits
        /\ UNCHANGED <<state, registered, failed, elapsed, polled, late>>
    BY <1>4 DEF Answer, docker
  <2>2. rc' \in {1, 2} => failed \/ late
    <3>1. CASE polled = "absent"
      BY <2>1, <3>1 DEF Waits, GraceOver, HealthInv
    <3>2. CASE polled \in Gone
      BY <3>2 DEF HealthInv
    <3>3. CASE polled \in Transient
      BY <2>1, <3>3 DEF Waits
    <3>4. CASE polled = "running"
      BY <2>1, <3>4 DEF Verdict
    <3> QED BY <2>1, <3>1, <3>2, <3>3, <3>4 DEF HealthInv, HealthTypeOK, States
  <2> QED BY <2>1, <2>2 DEF HealthInv, HealthTypeOK, NoFalseFailure
<1>5. CASE UNCHANGED health_vars
  BY <1>5 DEF health_vars, docker, watcher, HealthInv, HealthTypeOK, NoFalseFailure
<1> QED BY <1>1, <1>2, <1>3, <1>4, <1>5 DEF HealthNext, Watch

\* The promise of container-health.sh, for any grace and poll interval and
\* whatever docker does between two polls: a container reported dead or lost
\* has failed, or was not registered in time.
THEOREM HealthNoFalseFailure == HealthSpec => []NoFalseFailure
<1>1. HealthInv => NoFalseFailure
  BY DEF HealthInv
<1> QED BY <1>1, HealthBase, HealthStep, PTL DEF HealthSpec

----------------------------------------------------------------------------
(* Induction over the naturals, and over what a fold has still to take.    *)

\* The induction theorems of the library take an operator; that < is well
\* founded on the naturals does not, and a set takes the operator's place.
LEMMA NatMin ==
  ASSUME NEW S \in SUBSET Nat, S # {}
  PROVE  \E m \in S : \A k \in S : m <= k
<1> DEFINE R == OpToRel(<, Nat)
<1>1. IsWellFoundedOn(R, Nat)
  BY NatLessThanWellFounded
<1>2. \A x, y \in Nat : x < y => <<x, y>> \in R
  BY DEF OpToRel
<1> HIDE DEF R
<1>3. PICK m \in S : \A y \in S : ~ (<<y, m>> \in R)
  BY <1>1, WFMin
<1>4. ASSUME NEW k \in S PROVE m <= k
  <2>1. m \in Nat /\ k \in Nat
    OBVIOUS
  <2>2. ~(k < m)
    BY <1>2, <1>3, <2>1
  <2> QED BY <2>1, <2>2
<1> QED BY <1>4

LEMMA NatSetInduction ==
  ASSUME NEW S \in SUBSET Nat, 0 \in S, \A n \in S : n + 1 \in S
  PROVE  S = Nat
<1> SUFFICES ASSUME Nat \ S # {} PROVE FALSE
  OBVIOUS
<1>1. PICK m \in Nat \ S : \A k \in Nat \ S : m <= k
  BY NatMin
<1>2. m # 0 /\ m - 1 \in Nat
  BY <1>1
<1>3. m - 1 \in S
  BY <1>1, <1>2
<1> QED BY <1>1, <1>3

\* The folds of the community modules take one element after another.
Pick(s) == CHOOSE x \in s : TRUE
Rest(s) == s \ {Pick(s)}

LEMMA SubsetCard ==
  ASSUME NEW S, IsFiniteSet(S), NEW s \in SUBSET S
  PROVE  Cardinality(s) \in Nat /\ (Cardinality(s) <= 0 <=> s = {})
BY FS_Subset, FS_CardinalityType, FS_EmptySet

LEMMA RestSmaller ==
  ASSUME NEW S, IsFiniteSet(S), NEW s \in SUBSET S, s # {}
  PROVE  /\ Pick(s) \in s /\ Rest(s) \in SUBSET S
         /\ Cardinality(s) \in Nat /\ Cardinality(Rest(s)) \in Nat
         /\ Cardinality(Rest(s)) = Cardinality(s) - 1
<1>1. Pick(s) \in s
  BY DEF Pick
<1>2. IsFiniteSet(s)
  BY FS_Subset
<1>3. /\ Cardinality(s) \in Nat
      /\ IsFiniteSet(Rest(s)) /\ Cardinality(Rest(s)) = Cardinality(s) - 1
  BY <1>1, <1>2, FS_RemoveElement, FS_CardinalityType DEF Rest
<1>4. Cardinality(Rest(s)) \in Nat
  BY <1>3, FS_CardinalityType
<1> QED BY <1>1, <1>3, <1>4 DEF Rest

\* What holds of the empty set, and of a set when it holds of the rest that
\* the fold goes on with, holds of every finite set.
LEMMA FoldInduction ==
  ASSUME NEW S, IsFiniteSet(S), NEW A, {} \in A,
         \A s \in SUBSET S : s # {} /\ Rest(s) \in A => s \in A
  PROVE  SUBSET S \subseteq A
<1> DEFINE B == (SUBSET S) \ A
           N == {Cardinality(s) : s \in B}
<1> SUFFICES ASSUME B # {} PROVE FALSE
  OBVIOUS
<1>1. N \in SUBSET Nat /\ N # {}
  BY SubsetCard
<1>2. PICK m \in N : \A k \in N : m <= k
  BY <1>1, NatMin
<1>3. PICK s \in B : Cardinality(s) = m
  OBVIOUS
<1>4. s # {} /\ Rest(s) \in B
  <2>1. s \in SUBSET S /\ s \notin A
    BY <1>3
  <2>2. s # {}
    BY <2>1
  <2>3. Rest(s) \in SUBSET S /\ Rest(s) \notin A
    BY <2>1, <2>2, RestSmaller
  <2> QED BY <2>2, <2>3
<1>5. Cardinality(Rest(s)) \in N /\ Cardinality(Rest(s)) = m - 1 /\ m \in Nat
  BY <1>3, <1>4, RestSmaller
<1> QED BY <1>2, <1>5

\* it is the fold of G over the subsets of S, from base.
IsFold(it, S, base, G) ==
  it = [s \in SUBSET S |-> IF s = {} THEN base ELSE G[<<Pick(s), it[Rest(s)]>>]]

LEMMA FoldExists ==
  ASSUME NEW S, IsFiniteSet(S), NEW T, NEW base \in T, NEW G \in [S \X T -> T]
  PROVE  \E it : IsFold(it, S, base, G)
<1> DEFINE Small(n) == {s \in SUBSET S : Cardinality(s) <= n}
           Next1(g, s) == IF s = {} THEN base ELSE G[<<Pick(s), g[Rest(s)]>>]
           Upto(n, g) == g \in [Small(n) -> T] /\ \A s \in Small(n) : g[s] = Next1(g, s)
           N == {n \in Nat : \E g : Upto(n, g)}
<1>1. 0 \in N
  <2> DEFINE g == [s \in Small(0) |-> base]
  <2>1. \A s \in Small(0) : s = {}
    BY SubsetCard
  <2>2. Upto(0, g)
    BY <2>1
  <2> QED BY <2>2
<1>2. ASSUME NEW n \in N PROVE n + 1 \in N
  <2>1. PICK g : Upto(n, g)
    OBVIOUS
  <2> DEFINE h == [s \in Small(n + 1) |-> Next1(g, s)]
  <2>2. \A s \in Small(n + 1) : s # {} => Pick(s) \in S /\ Rest(s) \in Small(n) /\ Rest(s) \in Small(n + 1)
    BY RestSmaller, SubsetCard
  <2>3. h \in [Small(n + 1) -> T]
    BY <2>1, <2>2
  <2>4. \A s \in Small(n) : s \in Small(n + 1) /\ h[s] = g[s]
    <3>1. \A s \in Small(n) : s \in Small(n + 1)
      BY SubsetCard
    <3> QED BY <2>1, <3>1
  <2>5. \A s \in Small(n + 1) : h[s] = Next1(h, s)
    BY <2>2, <2>4
  <2> HIDE DEF h, Small, Next1
  <2>6. Upto(n + 1, h)
    BY <2>3, <2>5
  <2> QED BY <2>6
<1>3. N = Nat
  <2> HIDE DEF Upto
  <2> QED BY <1>1, <1>2, NatSetInduction
<1>4. Cardinality(S) \in Nat
  BY FS_CardinalityType
<1>5. PICK g : Upto(Cardinality(S), g)
  BY <1>3, <1>4
<1>6. Small(Cardinality(S)) = SUBSET S
  BY FS_Subset
<1>7. IsFold(g, S, base, G)
  <2>1. g = [s \in SUBSET S |-> g[s]]
    BY <1>5, <1>6
  <2> QED BY <1>5, <1>6, <2>1 DEF IsFold
<1> QED BY <1>7

LEMMA FoldType ==
  ASSUME NEW S, IsFiniteSet(S), NEW T, NEW base \in T, NEW G \in [S \X T -> T], NEW it,
         IsFold(it, S, base, G)
  PROVE  it \in [SUBSET S -> T]
<1> DEFINE A == {s \in SUBSET S : it[s] \in T}
<1>1. {} \in A
  BY DEF IsFold
<1>2. \A s \in SUBSET S : s # {} /\ Rest(s) \in A => s \in A
  BY RestSmaller DEF IsFold
<1>3. SUBSET S \subseteq A
  <2> HIDE DEF A
  <2> QED BY <1>1, <1>2, FoldInduction
<1> QED BY <1>3 DEF IsFold

----------------------------------------------------------------------------
(* Sums and products of the values of a function.                          *)

Plus(f) == [z \in (DOMAIN f) \X Int |-> f[z[1]] + z[2]]

\* The product of positive numbers is a multiple of each.
Times(w) == [z \in (DOMAIN w) \X (Nat \ {0}) |-> w[z[1]] * z[2]]

\* it holds the partial sums of f, or of its partial products.
SumsOf(it, S, f) ==
  /\ it \in [SUBSET S -> Int]
  /\ SumOver(f) = it[S]
  /\ \A s \in SUBSET S : it[s] = IF s = {} THEN 0 ELSE f[Pick(s)] + it[Rest(s)]

ProductsOf(it, S, w) ==
  /\ it \in [SUBSET S -> Nat \ {0}]
  /\ Product(w) = it[S]
  /\ \A s \in SUBSET S : it[s] = IF s = {} THEN 1 ELSE w[Pick(s)] * it[Rest(s)]

LEMMA SumIs ==
  ASSUME NEW S, IsFiniteSet(S), NEW f \in [S -> Int]
  PROVE  \E it : SumsOf(it, S, f)
<1> DEFINE Def(it) == it = [s \in SUBSET S |-> IF s = {} THEN 0 ELSE f[Pick(s)] + it[Rest(s)]]
           it0 == CHOOSE it : Def(it)
<1>1. SumOver(f) = it0[S]
  BY DEF SumOver, MapThenSumSet, MapThenFoldSet, Pick, Rest
<1>2. Plus(f) \in [S \X Int -> Int] /\ \A x \in S : \A n \in Int : Plus(f)[<<x, n>>] = f[x] + n
  <2>1. DOMAIN f = S /\ \A z \in S \X Int : f[z[1]] + z[2] \in Int
    OBVIOUS
  <2>2. Plus(f) = [z \in S \X Int |-> f[z[1]] + z[2]]
    BY <2>1 DEF Plus
  <2> QED BY <2>1, <2>2
<1>3. PICK it : IsFold(it, S, 0, Plus(f))
  <2>1. 0 \in Int
    OBVIOUS
  <2> QED BY <1>2, <2>1, FoldExists
<1>4. it \in [SUBSET S -> Int]
  <2>1. 0 \in Int
    OBVIOUS
  <2> QED BY <1>2, <1>3, <2>1, FoldType
<1>5. \A s \in SUBSET S : it[s] = IF s = {} THEN 0 ELSE f[Pick(s)] + it[Rest(s)]
  <2> SUFFICES ASSUME NEW s \in SUBSET S, s # {} PROVE it[s] = f[Pick(s)] + it[Rest(s)]
    BY <1>3 DEF IsFold
  <2>1. Pick(s) \in S /\ Rest(s) \in SUBSET S
    BY RestSmaller
  <2> QED BY <1>2, <1>3, <1>4, <2>1 DEF IsFold
<1>6. Def(it)
  BY <1>4, <1>5
<1>7. Def(it0)
  BY <1>6
<1>8. \A s \in SUBSET S : it0[s] = IF s = {} THEN 0 ELSE f[Pick(s)] + it0[Rest(s)]
  BY <1>7
<1> HIDE DEF it0, Def
<1>9. SUBSET S \subseteq {s \in SUBSET S : it0[s] \in Int}
  <2> DEFINE A == {s \in SUBSET S : it0[s] \in Int}
  <2>1. {} \in A
    <3>1. {} \in SUBSET S
      OBVIOUS
    <3> QED BY <1>8, <3>1
  <2>2. \A s \in SUBSET S : s # {} /\ Rest(s) \in A => s \in A
    BY <1>8, RestSmaller
  <2> HIDE DEF A
  <2>3. SUBSET S \subseteq A
    BY <2>1, <2>2, FoldInduction
  <2> QED BY <2>3 DEF A
<1>10. it0 \in [SUBSET S -> Int]
  BY <1>7, <1>9 DEF Def
<1> QED BY <1>1, <1>8, <1>10 DEF SumsOf

LEMMA SumNat ==
  ASSUME NEW S, IsFiniteSet(S), NEW f \in [S -> Nat]
  PROVE  SumOver(f) \in Nat
<1>1. PICK it : SumsOf(it, S, f)
  <2>1. f \in [S -> Int]
    OBVIOUS
  <2> QED BY <2>1, SumIs
<1> DEFINE A == {s \in SUBSET S : it[s] \in Nat}
<1>2. {} \in A
  BY <1>1 DEF SumsOf
<1>3. \A s \in SUBSET S : s # {} /\ Rest(s) \in A => s \in A
  BY <1>1, RestSmaller DEF SumsOf
<1>4. SUBSET S \subseteq A
  <2> HIDE DEF A
  <2> QED BY <1>2, <1>3, FoldInduction
<1> QED BY <1>1, <1>4 DEF SumsOf

LEMMA SumCovers ==
  ASSUME NEW S, IsFiniteSet(S), NEW f \in [S -> Nat], NEW y \in S
  PROVE  f[y] <= SumOver(f)
<1>1. PICK F : SumsOf(F, S, f)
  <2>1. f \in [S -> Int]
    OBVIOUS
  <2> QED BY <2>1, SumIs
<1> DEFINE A == {s \in SUBSET S : F[s] \in Nat /\ (y \in s => f[y] <= F[s])}
<1>2. {} \in A
  <2>1. {} \in SUBSET S
    OBVIOUS
  <2> QED BY <1>1, <2>1 DEF SumsOf
<1>3. ASSUME NEW s \in SUBSET S, s # {}, Rest(s) \in A PROVE s \in A
  <2>1. Pick(s) \in S /\ Rest(s) \in SUBSET S /\ (y \in s /\ y # Pick(s) => y \in Rest(s))
    BY <1>3, RestSmaller DEF Rest
  <2>2. F[s] = f[Pick(s)] + F[Rest(s)] /\ f[Pick(s)] \in Nat /\ f[y] \in Nat
    BY <1>1, <1>3, <2>1 DEF SumsOf
  <2> QED BY <1>3, <2>1, <2>2
<1>4. SUBSET S \subseteq A
  <2> HIDE DEF A
  <2> QED BY <1>2, <1>3, FoldInduction
<1> QED BY <1>1, <1>4 DEF SumsOf

\* The sum is linear: of scaled parts, and of differences.
LEMMA SumScaled ==
  ASSUME NEW S, IsFiniteSet(S), NEW f \in [S -> Int], NEW c \in Int, NEW h \in [S -> Int],
         \A x \in S : h[x] = c * f[x]
  PROVE  SumOver(h) = c * SumOver(f)
<1>1. PICK F : SumsOf(F, S, f)
  BY SumIs
<1>2. PICK H : SumsOf(H, S, h)
  BY SumIs
<1> DEFINE A == {s \in SUBSET S : H[s] = c * F[s]}
<1>3. {} \in A
  <2>1. {} \in SUBSET S
    OBVIOUS
  <2>2. F[{}] = 0 /\ H[{}] = 0
    BY <1>1, <1>2, <2>1 DEF SumsOf
  <2> QED BY <2>1, <2>2
<1>4. ASSUME NEW s \in SUBSET S, s # {}, Rest(s) \in A PROVE s \in A
  <2>1. Pick(s) \in S /\ Rest(s) \in SUBSET S
    BY <1>4, RestSmaller
  <2>2. f[Pick(s)] \in Int /\ F[Rest(s)] \in Int /\ H[Rest(s)] = c * F[Rest(s)]
    BY <1>1, <1>2, <1>4, <2>1 DEF SumsOf
  <2>3. H[s] = c * f[Pick(s)] + c * F[Rest(s)] /\ F[s] = f[Pick(s)] + F[Rest(s)]
    BY <1>1, <1>2, <1>4, <2>1, <2>2 DEF SumsOf
  <2>4. c * (f[Pick(s)] + F[Rest(s)]) = c * f[Pick(s)] + c * F[Rest(s)]
    BY <2>2
  <2> QED BY <2>3, <2>4
<1>5. SUBSET S \subseteq A
  <2> HIDE DEF A
  <2> QED BY <1>3, <1>4, FoldInduction
<1> QED BY <1>1, <1>2, <1>5 DEF SumsOf

LEMMA SumDifference ==
  ASSUME NEW S, IsFiniteSet(S), NEW f \in [S -> Int], NEW g \in [S -> Int], NEW h \in [S -> Int],
         \A x \in S : h[x] = f[x] - g[x]
  PROVE  SumOver(h) = SumOver(f) - SumOver(g)
<1>1. PICK F : SumsOf(F, S, f)
  BY SumIs
<1>2. PICK G : SumsOf(G, S, g)
  BY SumIs
<1>3. PICK H : SumsOf(H, S, h)
  BY SumIs
<1> DEFINE A == {s \in SUBSET S : H[s] = F[s] - G[s]}
<1>4. {} \in A
  <2>1. {} \in SUBSET S
    OBVIOUS
  <2>2. F[{}] = 0 /\ G[{}] = 0 /\ H[{}] = 0
    BY <1>1, <1>2, <1>3, <2>1 DEF SumsOf
  <2> QED BY <2>1, <2>2
<1>5. ASSUME NEW s \in SUBSET S, s # {}, Rest(s) \in A PROVE s \in A
  <2>1. Pick(s) \in S /\ Rest(s) \in SUBSET S
    BY <1>5, RestSmaller
  <2> QED BY <1>1, <1>2, <1>3, <1>5, <2>1 DEF SumsOf
<1>6. SUBSET S \subseteq A
  <2> HIDE DEF A
  <2> QED BY <1>4, <1>5, FoldInduction
<1> QED BY <1>1, <1>2, <1>3, <1>6 DEF SumsOf

LEMMA ProductIs ==
  ASSUME NEW S, IsFiniteSet(S), NEW w \in [S -> Nat \ {0}]
  PROVE  \E it : ProductsOf(it, S, w)
<1> DEFINE P == Nat \ {0}
           Def(it) == it = [s \in SUBSET S |-> IF s = {} THEN 1 ELSE w[Pick(s)] * it[Rest(s)]]
           it0 == CHOOSE it : Def(it)
<1>1. Product(w) = it0[S]
  BY DEF Product, MapThenFoldSet, Pick, Rest
<1>2. 1 \in P /\ \A m, n \in P : m * n \in P
  OBVIOUS
<1>3. Times(w) \in [S \X P -> P] /\ \A x \in S : \A n \in P : Times(w)[<<x, n>>] = w[x] * n
  <2>1. DOMAIN w = S /\ \A z \in S \X P : w[z[1]] * z[2] \in P
    BY <1>2
  <2>2. Times(w) = [z \in S \X P |-> w[z[1]] * z[2]]
    BY <2>1 DEF Times
  <2> QED BY <2>1, <2>2
<1> HIDE DEF P
<1>4. PICK it : IsFold(it, S, 1, Times(w))
  BY <1>2, <1>3, FoldExists
<1>5. it \in [SUBSET S -> P]
  BY <1>2, <1>3, <1>4, FoldType
<1>6. \A s \in SUBSET S : it[s] = IF s = {} THEN 1 ELSE w[Pick(s)] * it[Rest(s)]
  <2> SUFFICES ASSUME NEW s \in SUBSET S, s # {} PROVE it[s] = w[Pick(s)] * it[Rest(s)]
    BY <1>4 DEF IsFold
  <2>1. Pick(s) \in S /\ Rest(s) \in SUBSET S
    BY RestSmaller
  <2> QED BY <1>3, <1>4, <1>5, <2>1 DEF IsFold
<1>7. Def(it)
  BY <1>5, <1>6
<1>8. Def(it0)
  BY <1>7
<1>9. \A s \in SUBSET S : it0[s] = IF s = {} THEN 1 ELSE w[Pick(s)] * it0[Rest(s)]
  BY <1>8
<1> HIDE DEF it0, Def
<1>10. SUBSET S \subseteq {s \in SUBSET S : it0[s] \in P}
  <2> DEFINE A == {s \in SUBSET S : it0[s] \in P}
  <2>1. {} \in A
    BY <1>2, <1>9
  <2>2. \A s \in SUBSET S : s # {} /\ Rest(s) \in A => s \in A
    BY <1>2, <1>9, RestSmaller DEF P
  <2> HIDE DEF A
  <2>3. SUBSET S \subseteq A
    BY <2>1, <2>2, FoldInduction
  <2> QED BY <2>3 DEF A
<1>11. it0 \in [SUBSET S -> P]
  BY <1>8, <1>10 DEF Def
<1> QED BY <1>1, <1>9, <1>11 DEF P, ProductsOf

LEMMA ProductMultiple ==
  ASSUME NEW S, IsFiniteSet(S), NEW w \in [S -> Nat \ {0}], NEW y \in S
  PROVE  /\ Product(w) \in Nat \ {0} /\ Product(w) \div w[y] \in Nat
         /\ w[y] * (Product(w) \div w[y]) = Product(w)
<1>1. PICK it : ProductsOf(it, S, w)
  BY ProductIs
<1> DEFINE A == {s \in SUBSET S : y \in s => \E k \in Nat : it[s] = k * w[y]}
<1>2. {} \in A
  OBVIOUS
<1>3. ASSUME NEW s \in SUBSET S, s # {}, Rest(s) \in A, y \in s
      PROVE  \E k \in Nat : it[s] = k * w[y]
  <2>1. Pick(s) \in S /\ Rest(s) \in SUBSET S /\ (y # Pick(s) => y \in Rest(s))
    BY <1>3, RestSmaller DEF Rest
  <2>2. w[Pick(s)] \in Nat /\ it[Rest(s)] \in Nat /\ it[s] = w[Pick(s)] * it[Rest(s)]
    BY <1>1, <1>3, <2>1 DEF ProductsOf
  <2>3. CASE y = Pick(s)
    BY <2>2, <2>3
  <2>4. CASE y # Pick(s)
    <3>1. PICK k \in Nat : it[Rest(s)] = k * w[y]
      BY <1>3, <2>1, <2>4
    <3>2. w[Pick(s)] * (k * w[y]) = (w[Pick(s)] * k) * w[y] /\ w[Pick(s)] * k \in Nat
      BY <2>2
    <3> QED BY <2>2, <3>1, <3>2
  <2> QED BY <2>3, <2>4
<1>4. SUBSET S \subseteq A
  <2>1. \A s \in SUBSET S : s # {} /\ Rest(s) \in A => s \in A
    BY <1>3
  <2> HIDE DEF A
  <2> QED BY <1>2, <2>1, FoldInduction
<1>5. PICK k \in Nat : Product(w) = k * w[y]
  BY <1>1, <1>4 DEF ProductsOf
<1>6. w[y] \in Nat \ {0} /\ Product(w) \in Nat \ {0}
  BY <1>1 DEF ProductsOf
<1>7. (k * w[y]) \div w[y] = k
  BY <1>6
<1>8. Product(w) \div w[y] = k
  BY <1>5, <1>7
<1>9. w[y] * k = k * w[y]
  BY <1>6
<1> QED BY <1>5, <1>6, <1>8, <1>9

----------------------------------------------------------------------------
(* Rejection sampling.                                                     *)

LEMMA MinOf ==
  ASSUME NEW a \in Nat, NEW b \in Nat
  PROVE  Min({a, b}) = IF a <= b THEN a ELSE b
BY DEF Min

LEMMA MaxOf ==
  ASSUME NEW a \in Int, NEW b \in Int
  PROVE  Max({a, b}) = IF a <= b THEN b ELSE a
BY DEF Max

\* Rejection sampling: a token drawn from q, whatever q, leaves as one of p.
LEMMA RejectionSampling ==
  ASSUME IsFiniteSet(Tokens), NEW p \in [Tokens -> Nat], NEW q \in [Tokens -> Nat],
         One \in Nat, SumOver(p) = One
  PROVE  Lossless(q, p, q)
<1> DEFINE whole    == [x \in Tokens |-> IF q[x] = 0 THEN 1 ELSE q[x]]
           product  == Product(whole)
           kept     == [x \in Tokens |-> q[x] * (product \div whole[x]) * Min({p[x], whole[x]})]
           rejected == One * product - SumOver(kept)
           residual == [x \in Tokens |-> Max({p[x] - q[x], 0})]
           mass     == SumOver(residual)
           common   == [x \in Tokens |-> IF p[x] <= q[x] THEN p[x] ELSE q[x]]
<1>1. whole \in [Tokens -> Nat \ {0}] /\ common \in [Tokens -> Nat]
  OBVIOUS
<1>2. ASSUME NEW x \in Tokens
      PROVE  /\ product \in Nat \ {0} /\ kept[x] = product * common[x]
             /\ residual[x] = p[x] - common[x]
  <2>1. /\ product \in Nat \ {0} /\ product \div whole[x] \in Nat
        /\ whole[x] * (product \div whole[x]) = product
    <3> HIDE DEF whole
    <3> QED BY <1>1, ProductMultiple
  <2>2. kept[x] = q[x] * (product \div whole[x]) * Min({p[x], whole[x]})
    OBVIOUS
  <2>3. CASE q[x] = 0
    <3>1. whole[x] = 1 /\ common[x] = 0 /\ Min({p[x], whole[x]}) \in Nat
      BY <2>3, MinOf
    <3> HIDE DEF whole, product, kept, common
    <3>2. kept[x] = 0
      BY <2>1, <2>2, <2>3, <3>1
    <3>3. residual[x] = p[x]
      BY <2>3, MaxOf
    <3> HIDE DEF residual
    <3> QED BY <2>1, <2>3, <3>1, <3>2, <3>3
  <2>4. CASE q[x] # 0
    <3>1. whole[x] = q[x] /\ Min({p[x], whole[x]}) = common[x]
      BY <2>4, MinOf
    <3>2. residual[x] = p[x] - common[x]
      BY MaxOf
    <3> HIDE DEF whole, product, kept, common, residual
    <3> QED BY <2>1, <2>2, <3>1, <3>2
  <2> QED BY <2>3, <2>4
<1> HIDE DEF whole, product, kept, common, residual
<1>3. CASE Tokens = {}
  BY <1>3 DEF Lossless
<1>4. CASE Tokens # {}
  <2>1. product \in Nat \ {0}
    BY <1>2, <1>4
  <2>2. kept \in [Tokens -> Int] /\ residual \in [Tokens -> Nat]
    <3>1. \A x \in Tokens : kept[x] \in Int /\ residual[x] \in Nat
      BY <1>2 DEF common
    <3>2. kept = [x \in Tokens |-> kept[x]] /\ residual = [x \in Tokens |-> residual[x]]
      BY DEF kept, residual
    <3> QED BY <3>1, <3>2
  <2>3. SumOver(common) \in Nat
    BY <1>1, SumNat
  <2>4. SumOver(kept) = product * SumOver(common)
    <3>1. common \in [Tokens -> Int] /\ product \in Int
      BY <1>1, <2>1
    <3>2. kept \in [Tokens -> Int] /\ \A x \in Tokens : kept[x] = product * common[x]
      BY <1>2, <2>2
    <3> QED BY <3>1, <3>2, SumScaled
  <2>5. mass = One - SumOver(common)
    <3>1. common \in [Tokens -> Int] /\ p \in [Tokens -> Int] /\ residual \in [Tokens -> Int]
      BY <1>1, <2>2
    <3>2. \A x \in Tokens : residual[x] = p[x] - common[x]
      BY <1>2
    <3>3. SumOver(residual) = SumOver(p) - SumOver(common)
      BY <3>1, <3>2, SumDifference
    <3> QED BY <3>3 DEF mass
  <2>6. rejected = product * mass
    <3>1. One * product - product * SumOver(common) = product * (One - SumOver(common))
      BY <2>1, <2>3
    <3> QED BY <2>4, <2>5, <3>1
  <2> HIDE DEF mass, rejected
  <2>7. ASSUME NEW x \in Tokens
        PROVE  kept[x] * mass + rejected * residual[x] = p[x] * product * mass
    <3>1. /\ kept[x] = product * common[x] /\ residual[x] = p[x] - common[x]
          /\ common[x] \in Nat /\ p[x] \in Nat /\ mass \in Int
      BY <1>1, <1>2, <2>3, <2>5
    <3>2. (product * common[x]) * mass + (product * mass) * (p[x] - common[x]) = p[x] * product * mass
      BY <2>1, <3>1
    <3> QED BY <2>6, <3>1, <3>2
  <2>8. ASSUME mass = 0, NEW x \in Tokens PROVE kept[x] = p[x] * product
    <3>1. residual[x] <= 0 /\ residual[x] \in Nat
      BY <2>2, <2>8, SumCovers DEF mass
    <3>2. common[x] = p[x]
      <4>1. residual[x] = p[x] - common[x] /\ common[x] <= p[x]
        BY <1>2 DEF common
      <4>2. common[x] \in Nat /\ p[x] \in Nat
        BY <1>1
      <4> QED BY <3>1, <4>1, <4>2
    <3>3. kept[x] = product * p[x]
      BY <1>2, <3>2
    <3> QED BY <2>1, <3>3
  <2> QED BY <2>7, <2>8 DEF Lossless, whole, product, kept, rejected, residual, mass
<1> QED BY <1>3, <1>4

\* The distributions of rewrite_proposal_distributions are those the tokens
\* were drawn from, so rejection sampling leaves the target's distribution in
\* every row of the block it verifies: for any vocabulary, any distributions of
\* drafter and target, whatever the two drafters propose and however they agree.
THEOREM LookupOutput == LookupSpec => []OutputIsTheTargets
<1> USE LookupAssumption DEF LookupAssumption
<1>1. OutputIsTheTargets
  <2> SUFFICES ASSUME NEW i \in 1 .. Decision.verify, NEW p \in Targets
               PROVE  Lossless(IF Decision.used[i] THEN PointMass(Decision.tokens[i]) ELSE DraftRow,
                               p, RewriteRows(Decision)[i])
    BY DEF OutputIsTheTargets
  <2>1. i \in 1 .. VerifySteps
    BY DEF Decision, Arbitrate
  <2> DEFINE q == IF Decision.used[i] THEN PointMass(Decision.tokens[i]) ELSE DraftRow
  <2>2. RewriteRows(Decision)[i] = q
    BY <2>1 DEF RewriteRows
  <2>3. One \in Nat
    BY SumNat DEF One
  <2>4. q \in [Tokens -> Nat]
    BY <2>3 DEF PointMass
  <2>5. p \in [Tokens -> Nat] /\ SumOver(p) = One
    BY TargetAssumption
  <2> HIDE DEF q
  <2>6. Lossless(q, p, q)
    BY <2>3, <2>4, <2>5, RejectionSampling
  <2> QED BY <2>2, <2>6 DEF q
<1> QED BY <1>1, PTL

----------------------------------------------------------------------------
(* Sequences of bytes.                                                     *)

LEMMA DivMod ==
  ASSUME NEW a \in Nat, NEW b \in Nat \ {0}, NEW c \in 0 .. b - 1
  PROVE  (a * b + c) \div b = a /\ (a * b + c) % b = c
OBVIOUS

LEMMA DivModOf ==
  ASSUME NEW n \in Nat, NEW b \in Nat \ {0}
  PROVE  /\ n \div b \in Nat /\ n % b \in 0 .. b - 1
         /\ n = (n \div b) * b + (n % b)
OBVIOUS

LEMMA MultipleIs ==
  ASSUME NEW a \in Nat, NEW b \in Nat \ {0}, a % b = 0
  PROVE  \E i \in Nat : a = i * b
<1> DEFINE i == a \div b
<1>1. i \in Nat /\ a = i * b + (a % b)
  BY DivModOf
<1> HIDE DEF i
<1>2. i * b \in Nat
  BY <1>1, ProdNat
<1>3. a = i * b
  BY <1>1, <1>2
<1> QED BY <1>1, <1>3

\* The k-th of m groups of b bytes.
LEMMA InGroups ==
  ASSUME NEW m \in Nat, NEW b \in Nat \ {0}, NEW k \in 1 .. m * b
  PROVE  /\ (k - 1) \div b \in 0 .. m - 1 /\ (k - 1) % b \in 0 .. b - 1
         /\ k - 1 = ((k - 1) \div b) * b + ((k - 1) % b)
<1> DEFINE a == (k - 1) \div b
<1>1. k - 1 \in Nat /\ k - 1 < m * b /\ m * b \in Nat
  BY ProdNat
<1>2. a \in Nat /\ (k - 1) % b \in 0 .. b - 1 /\ k - 1 = a * b + ((k - 1) % b)
  BY <1>1, DivModOf
<1> HIDE DEF a
<1>3. a < m
  <2> SUFFICES ASSUME m <= a PROVE FALSE
    BY <1>2
  <2>1. PICK d \in Nat : a = m + d
    BY <1>2, a - m \in Nat
  <2>2. a * b = m * b + d * b /\ d * b \in Nat
    BY <2>1, ProdNat
  <2> QED BY <1>1, <1>2, <2>2
<1>4. a \in 0 .. m - 1
  BY <1>2, <1>3
<1> QED BY <1>2, <1>4 DEF a

IsSeq(f, n) == n \in Nat /\ Len(f) = n /\ f = [j \in 1 .. n |-> f[j]]

\* f lies at offset off of the sequence a.
InSeq(a, off, f) == off + Len(f) <= Len(a) /\ \A j \in 1 .. Len(f) : a[off + j] = f[j]

LEMMA FunctionIsSeq ==
  ASSUME NEW n \in Nat, NEW f, f = [j \in 1 .. n |-> f[j]]
  PROVE  IsSeq(f, n)
<1> DEFINE S == {f[j] : j \in 1 .. n}
<1>1. f \in [1 .. n -> S]
  OBVIOUS
<1> HIDE DEF S
<1>2. Len(f) = n
  BY <1>1
<1> QED BY <1>2 DEF IsSeq

\* c is a, m long, and b behind it; it holds what a holds.
JoinIs(c, a, m, b, n) ==
  /\ IsSeq(c, m + n) /\ InSeq(c, m, b)
  /\ \A j \in 1 .. m : c[j] = a[j]
  /\ \A j \in 1 .. n : c[m + j] = b[j]
  /\ \A off \in Nat : \A f : Len(f) \in Nat /\ InSeq(a, off, f) => InSeq(c, off, f)

LEMMA Joins ==
  ASSUME NEW m, NEW n, NEW a, NEW b, IsSeq(a, m), IsSeq(b, n)
  PROVE  JoinIs(a \o b, a, m, b, n)
<1> DEFINE S == {a[j] : j \in 1 .. m} \cup {b[j] : j \in 1 .. n}
           ab == a \o b
<1>1. m \in Nat /\ n \in Nat /\ a \in [1 .. m -> S] /\ b \in [1 .. n -> S]
  BY DEF IsSeq
<1> HIDE DEF S
<1>2. a \in Seq(S) /\ b \in Seq(S) /\ Len(a) = m /\ Len(b) = n
  BY <1>1
<1>3. /\ ab \in Seq(S) /\ Len(ab) = m + n
      /\ \A j \in 1 .. m : ab[j] = a[j]
      /\ \A j \in 1 .. n : ab[m + j] = b[j]
  BY <1>1, <1>2
<1> HIDE DEF ab
<1>4. ab = [j \in 1 .. m + n |-> ab[j]]
  BY <1>3
<1>5. IsSeq(ab, m + n)
  BY <1>1, <1>3, <1>4 DEF IsSeq
<1>6. InSeq(ab, m, b)
  BY <1>1, <1>2, <1>3 DEF InSeq
<1>7. ASSUME NEW off \in Nat, NEW f, Len(f) \in Nat, InSeq(a, off, f) PROVE InSeq(ab, off, f)
  BY <1>1, <1>2, <1>3, <1>7 DEF InSeq
<1> QED BY <1>3, <1>5, <1>6, <1>7 DEF ab, JoinIs

\* What lies in a sequence is read back.
LEMMA ReadsBack ==
  ASSUME NEW m, NEW a, IsSeq(a, m), NEW n, NEW f, IsSeq(f, n), NEW off \in Nat, InSeq(a, off, f)
  PROVE  SubSeq(a, off + 1, off + n) = f
<1> DEFINE S == {a[j] : j \in 1 .. m}
<1>1. m \in Nat /\ n \in Nat /\ a \in [1 .. m -> S] /\ off + n <= m
  BY DEF IsSeq, InSeq
<1> HIDE DEF S
<1>2. a \in Seq(S) /\ Len(a) = m
  BY <1>1
<1> DEFINE s == SubSeq(a, off + 1, off + n)
<1>3. s = [j \in 1 .. n |-> a[off + j]]
  BY <1>1, <1>2
<1>4. \A j \in 1 .. n : a[off + j] = f[j]
  BY DEF IsSeq, InSeq
<1> HIDE DEF s
<1>5. s = [j \in 1 .. n |-> f[j]]
  BY <1>3, <1>4
<1> QED BY <1>5 DEF IsSeq, s

----------------------------------------------------------------------------
(* The layout of a file.                                                   *)

LEMMA ByteCounts ==
  /\ Align \in Nat \ {0} /\ RowBytes \in Nat \ {0} /\ IdBytes \in Nat \ {0}
  /\ HeaderBytes \in Nat /\ InfoBytes \in Nat /\ Rows \in Nat
BY LayoutAssumption

LEMMA Padded ==
  ASSUME NEW x \in Nat
  PROVE  PadTo(x) \in Nat /\ PadTo(x) >= x /\ PadTo(x) % Align = 0
<1> DEFINE n == x + Align - 1
           a == n \div Align
<1>1. Align \in Nat \ {0} /\ n \in Nat
  BY ByteCounts
<1>2. a \in Nat /\ n % Align \in 0 .. Align - 1 /\ n = a * Align + (n % Align)
  BY <1>1, DivModOf
<1>3. PadTo(x) = a * Align
  BY DEF PadTo
<1> HIDE DEF a
<1>4. a * Align \in Nat
  BY <1>1, <1>2, ProdNat
<1>5. (a * Align + 0) % Align = 0
  BY <1>1, <1>2, DivMod, 0 \in 0 .. Align - 1
<1>6. a * Align >= x
  <2> DEFINE p == a * Align
             r == n % Align
  <2>1. p \in Nat /\ r \in 0 .. Align - 1 /\ x + Align - 1 = p + r
    BY <1>2, <1>4
  <2> HIDE DEF p, r
  <2>2. p >= x
    BY <1>1, <2>1
  <2> QED BY <2>2 DEF p
<1>7. (a * Align) % Align = 0
  BY <1>4, <1>5
<1> QED BY <1>3, <1>4, <1>6, <1>7, Zenon

\* at holds where each of n tensors starts, and where the last one ends.
IsLayout(at, sizes, n) ==
  /\ at \in [1 .. n + 1 -> Nat] /\ at[1] = 0
  /\ \A i \in 1 .. n : at[i + 1] = at[i] + PadTo(sizes[i])

LEMMA LayoutExists ==
  ASSUME NEW n \in Nat, NEW sizes, \A i \in 1 .. n : sizes[i] \in Nat
  PROVE  \E at : IsLayout(at, sizes, n)
<1> DEFINE N == {k \in Nat : k <= n => \E at : IsLayout(at, sizes, k)}
<1>1. 0 \in N
  <2> DEFINE at == [i \in 1 .. 1 |-> 0]
  <2>1. IsLayout(at, sizes, 0)
    BY DEF IsLayout
  <2> QED BY <2>1
<1>2. ASSUME NEW k \in N PROVE k + 1 \in N
  <2> SUFFICES ASSUME k + 1 <= n PROVE \E at : IsLayout(at, sizes, k + 1)
    OBVIOUS
  <2>1. k \in Nat /\ k + 1 \in 1 .. n
    OBVIOUS
  <2>2. PICK at : IsLayout(at, sizes, k)
    BY <2>1
  <2> DEFINE next == at[k + 1] + PadTo(sizes[k + 1])
             at2 == [i \in 1 .. k + 2 |-> IF i = k + 2 THEN next ELSE at[i]]
  <2>3. next \in Nat
    <3>1. PadTo(sizes[k + 1]) \in Nat
      BY <2>1, Padded
    <3>2. at[k + 1] \in Nat
      BY <2>1, <2>2 DEF IsLayout
    <3> QED BY <3>1, <3>2
  <2> HIDE DEF next
  <2>4. at2 \in [1 .. k + 2 -> Nat] /\ at2[1] = 0 /\ k + 2 = k + 1 + 1
    BY <2>1, <2>2, <2>3 DEF IsLayout
  <2>5. ASSUME NEW i \in 1 .. k + 1 PROVE at2[i + 1] = at2[i] + PadTo(sizes[i])
    <3>1. CASE i = k + 1
      <4>1. at2[k + 2] = next /\ at2[k + 1] = at[k + 1]
        BY <2>1
      <4> QED BY <2>1, <3>1, <4>1 DEF next
    <3>2. CASE i # k + 1
      <4>1. i \in 1 .. k /\ at2[i + 1] = at[i + 1] /\ at2[i] = at[i]
        BY <2>1, <3>2
      <4> QED BY <2>2, <4>1 DEF IsLayout
    <3> QED BY <3>1, <3>2
  <2> HIDE DEF at2
  <2>6. IsLayout(at2, sizes, k + 1)
    BY <2>1, <2>4, <2>5 DEF IsLayout
  <2> QED BY <2>6
<1>3. N = Nat
  <2>1. N \in SUBSET Nat
    OBVIOUS
  <2> HIDE DEF N
  <2> QED BY <1>1, <1>2, <2>1, NatSetInduction
<1>4. n \in N
  BY <1>3
<1> QED BY <1>4

LEMMA LayoutIs ==
  ASSUME NEW n, NEW sizes, IsSeq(sizes, n), \A i \in 1 .. n : sizes[i] \in Nat
  PROVE  IsLayout(LayoutOf(sizes), sizes, n)
<1> DEFINE Def(at) == at = [i \in 1 .. n + 1 |-> IF i = 1 THEN 0 ELSE at[i - 1] + PadTo(sizes[i - 1])]
           at0 == CHOOSE at : Def(at)
<1>1. n \in Nat /\ Len(sizes) = n
  BY DEF IsSeq
<1>2. LayoutOf(sizes) = at0
  BY <1>1 DEF LayoutOf
<1>3. PICK at : IsLayout(at, sizes, n)
  BY <1>1, LayoutExists
<1>4. Def(at)
  <2>1. at = [i \in 1 .. n + 1 |-> at[i]] /\ at[1] = 0
    BY <1>3 DEF IsLayout
  <2>2. ASSUME NEW i \in 1 .. n + 1, i # 1 PROVE at[i] = at[i - 1] + PadTo(sizes[i - 1])
    <3>1. i - 1 \in 1 .. n /\ i - 1 + 1 = i
      BY <1>1, <2>2
    <3> QED BY <1>3, <3>1 DEF IsLayout
  <2> QED BY <2>1, <2>2
<1>5. Def(at0)
  <2> HIDE DEF Def
  <2> QED BY <1>4, Zenon
<1>6. \A i \in 1 .. n + 1 : at0[i] = IF i = 1 THEN 0 ELSE at0[i - 1] + PadTo(sizes[i - 1])
  BY <1>5
<1>7. at0 = [i \in 1 .. n + 1 |-> at0[i]]
  <2> DEFINE V(a, i) == IF i = 1 THEN 0 ELSE a[i - 1] + PadTo(sizes[i - 1])
  <2>1. at0 = [i \in 1 .. n + 1 |-> V(at0, i)]
    <3> HIDE DEF at0
    <3> QED BY <1>5
  <2> HIDE DEF at0, V
  <2>2. \A i \in 1 .. n + 1 : at0[i] = V(at0, i)
    BY <2>1
  <2> QED BY <2>1, <2>2
<1> HIDE DEF at0, Def
<1> DEFINE N == {k \in Nat : k <= n => at0[k + 1] = at[k + 1]}
<1>8. 0 \in N
  <2>1. 0 + 1 = 1 /\ 1 \in 1 .. n + 1
    BY <1>1
  <2>2. at0[1] = 0 /\ at[1] = 0
    BY <1>3, <1>6, <2>1 DEF IsLayout
  <2> QED BY <2>1, <2>2
<1>9. ASSUME NEW k \in N PROVE k + 1 \in N
  <2> SUFFICES ASSUME k + 1 <= n PROVE at0[k + 2] = at[k + 2]
    OBVIOUS
  <2>1. k \in Nat /\ k <= n /\ k + 1 \in 1 .. n /\ k + 2 \in 1 .. n + 1 /\ k + 1 + 1 = k + 2 /\ k + 2 - 1 = k + 1
    BY <1>1
  <2>2. at[k + 2] = at[k + 1] + PadTo(sizes[k + 1])
    BY <1>3, <2>1 DEF IsLayout
  <2>3. at0[k + 2] = at0[k + 1] + PadTo(sizes[k + 1])
    <3>1. k + 2 # 1
      BY <2>1
    <3> QED BY <1>6, <2>1, <3>1
  <2>4. at0[k + 1] = at[k + 1]
    BY <2>1
  <2> QED BY <2>2, <2>3, <2>4
<1>10. N = Nat
  <2>1. N \in SUBSET Nat
    OBVIOUS
  <2> HIDE DEF N
  <2> QED BY <1>8, <1>9, <2>1, NatSetInduction
<1>11. \A i \in 1 .. n + 1 : at0[i] = at[i]
  <2> SUFFICES ASSUME NEW i \in 1 .. n + 1 PROVE at0[i] = at[i]
    OBVIOUS
  <2>1. i - 1 \in Nat /\ i - 1 <= n /\ i - 1 + 1 = i
    BY <1>1
  <2>2. i - 1 \in N
    BY <1>10, <2>1, Zenon
  <2> QED BY <2>1, <2>2
<1>12. at0 = at
  <2>1. at = [i \in 1 .. n + 1 |-> at[i]]
    BY <1>3 DEF IsLayout
  <2> QED BY <1>7, <1>11, <2>1
<1> QED BY <1>2, <1>3, <1>12

\* infos is a table of n tensors laid out at the offsets at.
IsTable(infos, n, at) ==
  /\ IsSeq(infos, n) /\ at \in [1 .. n + 1 -> Nat] /\ at[1] = 0
  /\ \A i \in 1 .. n : /\ infos[i].size \in Nat /\ infos[i].offset = at[i]
                       /\ at[i + 1] = at[i] + PadTo(infos[i].size)

LEMMA TableIs ==
  ASSUME NEW n, NEW tensors, IsSeq(tensors, n), \A i \in 1 .. n : tensors[i][2] \in Nat
  PROVE  /\ \E at : IsTable(Table(tensors), n, at)
         /\ \A i \in 1 .. n : /\ Table(tensors)[i].name = tensors[i][1]
                              /\ Table(tensors)[i].size = tensors[i][2]
<1> DEFINE sizes == [i \in 1 .. n |-> tensors[i][2]]
           infos == [i \in 1 .. n |->
                      [name |-> tensors[i][1], size |-> sizes[i], offset |-> LayoutOf(sizes)[i]]]
<1>1. n \in Nat /\ DOMAIN tensors = 1 .. n
  BY DEF IsSeq
<1>2. Table(tensors) = infos
  BY <1>1 DEF Table
<1>3. IsSeq(sizes, n) /\ \A i \in 1 .. n : sizes[i] = tensors[i][2] /\ sizes[i] \in Nat
  <2>1. sizes = [i \in 1 .. n |-> sizes[i]]
    OBVIOUS
  <2> QED BY <1>1, <2>1, FunctionIsSeq
<1> HIDE DEF sizes
<1>4. IsLayout(LayoutOf(sizes), sizes, n)
  BY <1>3, LayoutIs
<1>5. infos = [i \in 1 .. n |-> infos[i]]
  OBVIOUS
<1>6. \A i \in 1 .. n : /\ infos[i].name = tensors[i][1] /\ infos[i].size = sizes[i]
                        /\ infos[i].offset = LayoutOf(sizes)[i]
  OBVIOUS
<1> HIDE DEF infos
<1>7. IsSeq(infos, n)
  BY <1>1, <1>5, FunctionIsSeq
<1>8. IsTable(infos, n, LayoutOf(sizes))
  BY <1>3, <1>4, <1>6, <1>7 DEF IsTable, IsLayout
<1> QED BY <1>2, <1>3, <1>6, <1>8

\* Every table is laid out as the loader insists on.
LEMMA TableAligned ==
  ASSUME NEW infos, NEW n \in Nat \ {0}, NEW at, IsTable(infos, n, at)
  PROVE  /\ CheckOffsets(infos) /\ \A i \in 1 .. n : infos[i].offset % Align = 0
         /\ DOMAIN infos = 1 .. n /\ Len(infos) = n
<1>1. IsSeq(infos, n) /\ at[1] = 0 /\ at \in [1 .. n + 1 -> Nat]
  BY DEF IsTable
<1>2. DOMAIN infos = 1 .. n /\ Len(infos) = n
  BY <1>1 DEF IsSeq
<1>3. ASSUME NEW i \in 1 .. n, i # 1
      PROVE  infos[i].offset = infos[i - 1].offset + PadTo(infos[i - 1].size)
  <2>1. i - 1 \in 1 .. n /\ i - 1 + 1 = i
    BY <1>3
  <2>2. at[i - 1 + 1] = at[i - 1] + PadTo(infos[i - 1].size) /\ infos[i - 1].offset = at[i - 1]
    BY <2>1 DEF IsTable
  <2>3. infos[i].offset = at[i]
    BY DEF IsTable
  <2> QED BY <2>1, <2>2, <2>3, Zenon
<1>4. CheckOffsets(infos)
  <2>1. 1 \in 1 .. n => infos[1].offset = 0
    BY <1>1 DEF IsTable
  <2> QED BY <1>2, <1>3, <2>1 DEF CheckOffsets
<1> DEFINE N == {k \in Nat : k <= n => at[k + 1] % Align = 0}
<1>5. 0 \in N
  BY <1>1, ByteCounts
<1>6. ASSUME NEW k \in N PROVE k + 1 \in N
  <2> SUFFICES ASSUME k + 1 <= n PROVE at[k + 2] % Align = 0
    OBVIOUS
  <2>1. k \in Nat /\ k + 1 \in 1 .. n /\ k + 1 \in 1 .. n + 1 /\ k + 1 + 1 = k + 2 /\ k <= n
    OBVIOUS
  <2>2. at[k + 2] = at[k + 1] + PadTo(infos[k + 1].size) /\ infos[k + 1].size \in Nat
    BY <2>1 DEF IsTable
  <2> DEFINE p == PadTo(infos[k + 1].size)
             a == at[k + 1]
  <2>3. p \in Nat /\ p % Align = 0
    BY <2>2, Padded
  <2>4. a \in Nat /\ a % Align = 0
    BY <1>1, <2>1
  <2>5. at[k + 2] = a + p
    BY <2>2
  <2> HIDE DEF p, a
  <2>6. \E i \in Nat : a = i * Align
    BY <2>4, ByteCounts, MultipleIs
  <2>7. \E j \in Nat : p = j * Align
    BY <2>3, ByteCounts, MultipleIs
  <2>8. PICK i \in Nat, j \in Nat : a = i * Align /\ p = j * Align
    BY <2>6, <2>7
  <2>9. a + p = (i + j) * Align + 0 /\ i + j \in Nat
    BY <2>8, ByteCounts
  <2>10. ((i + j) * Align + 0) % Align = 0
    BY <2>9, ByteCounts, DivMod, 0 \in 0 .. Align - 1
  <2> QED BY <2>5, <2>9, <2>10
<1>7. N = Nat
  <2>1. N \in SUBSET Nat
    OBVIOUS
  <2> HIDE DEF N
  <2> QED BY <1>5, <1>6, <2>1, NatSetInduction
<1>8. ASSUME NEW i \in 1 .. n PROVE infos[i].offset % Align = 0
  <2>1. i - 1 \in Nat /\ i - 1 <= n /\ i - 1 + 1 = i
    OBVIOUS
  <2>2. i - 1 \in N
    BY <1>7, <2>1, Zenon
  <2>3. infos[i].offset = at[i]
    BY DEF IsTable
  <2> QED BY <2>1, <2>2, <2>3
<1> QED BY <1>2, <1>4, <1>8

\* Where the data of the first w tensors ends.
End(infos, w) ==
  DataStart(infos) + (IF w = 0 THEN 0 ELSE infos[w].offset + PadTo(infos[w].size))

LEMMA EndIs ==
  ASSUME NEW infos, NEW n, NEW at, IsTable(infos, n, at)
  PROVE  /\ DataStart(infos) \in Nat /\ HeaderEnd(infos) \in Nat /\ HeaderEnd(infos) <= DataStart(infos)
         /\ \A w \in 0 .. n : End(infos, w) = DataStart(infos) + at[w + 1] /\ End(infos, w) \in Nat
<1>1. n \in Nat /\ Len(infos) = n
  BY DEF IsTable, IsSeq
<1>2. HeaderEnd(infos) \in Nat
  BY <1>1, ByteCounts, ProdNat DEF HeaderEnd
<1>3. DataStart(infos) \in Nat /\ HeaderEnd(infos) <= DataStart(infos)
  BY <1>2, Padded DEF DataStart
<1>4. ASSUME NEW w \in 0 .. n
      PROVE  End(infos, w) = DataStart(infos) + at[w + 1] /\ End(infos, w) \in Nat
  <2>1. at[w + 1] \in Nat
    BY <1>1 DEF IsTable
  <2>2. CASE w = 0
    BY <1>3, <2>1, <2>2 DEF End, IsTable
  <2>3. CASE w # 0
    <3>1. w \in 1 .. n
      BY <2>3
    <3>2. infos[w].offset + PadTo(infos[w].size) = at[w + 1]
      BY <3>1 DEF IsTable
    <3> QED BY <1>3, <2>1, <2>3, <3>2 DEF End
  <2> QED BY <2>2, <2>3
<1> QED BY <1>2, <1>3, <1>4

----------------------------------------------------------------------------
(* What the truncator writes.                                              *)

\* The entries of d2t, and the kept rows of the head, for the set q.
EntriesOf(q) ==
  [k \in 1 .. Len(q) * IdBytes |-> <<"id", q[(k - 1) \div IdBytes + 1], (k - 1) % IdBytes>>]
RowsOf(q) ==
  [k \in 1 .. Len(q) * RowBytes |->
     <<"head", q[(k - 1) \div RowBytes + 1] * RowBytes + ((k - 1) % RowBytes)>>]

Content(q, t) ==
  IF t.name = "d2t" THEN EntriesOf(q) ELSE IF t.name = "head" THEN RowsOf(q) ELSE TensorBytes(t.name, 0, t.size)

\* A set that a file may be written for.
Good(q) == IsSeq(q, Len(q)) /\ Len(q) \in Sizes /\ Acceptable(q)

LEMMA GoodIs ==
  ASSUME NEW q, Good(q)
  PROVE  Len(q) \in Nat \ {0} /\ \A i \in 1 .. Len(q) : q[i] \in Nat
<1>1. Len(q) \in Nat \ {0} /\ DOMAIN q = 1 .. Len(q)
  BY VocabAssumption DEF Good, IsSeq
<1>2. \A i \in DOMAIN q : q[i] \in 0 .. Rows - 1
  BY DEF Good, Acceptable
<1> QED BY <1>1, <1>2

LEMMA MaxIn ==
  ASSUME NEW b \in Nat, NEW S \in SUBSET (0 .. b), S # {}
  PROVE  Max(S) \in S
<1> DEFINE T == {b - x : x \in S}
<1>1. T \in SUBSET Nat /\ T # {}
  <2>1. \A x \in S : b - x \in Nat
    OBVIOUS
  <2> QED BY <2>1
<1>2. PICK m \in T : \A k \in T : m <= k
  <2> HIDE DEF T
  <2> QED BY <1>1, NatMin
<1>3. PICK x \in S : m = b - x
  OBVIOUS
<1>4. \A y \in S : x >= y
  <2> SUFFICES ASSUME NEW y \in S PROVE x >= y
    OBVIOUS
  <2>1. b - y \in T
    OBVIOUS
  <2>2. m <= b - y
    BY <1>2, <2>1
  <2> QED BY <1>3, <2>2
<1> QED BY <1>4 DEF Max

LEMMA RunIs ==
  ASSUME NEW n \in Nat, IsSeq(ids, n), \A i \in 1 .. n : ids[i] \in Nat, NEW i \in 1 .. n
  PROVE  /\ RunEnd(i) \in i .. n
         /\ \A k \in i .. RunEnd(i) : ids[k] = ids[i] + (k - i)
<1> DEFINE S == {j \in i .. n : \A k \in i .. j : ids[k] = ids[i] + (k - i)}
<1>1. RunEnd(i) = Max(S)
  BY DEF RunEnd, IsSeq
<1>2. i \in S
  <2>1. \A k \in i .. i : ids[k] = ids[i] + (k - i)
    OBVIOUS
  <2> QED BY <2>1
<1>3. S \in SUBSET (0 .. n) /\ S # {}
  BY <1>2
<1>4. \A j \in S : j \in i .. n /\ \A k \in i .. j : ids[k] = ids[i] + (k - i)
  OBVIOUS
<1> HIDE DEF S
<1>5. Max(S) \in S
  BY <1>3, MaxIn
<1> QED BY <1>1, <1>4, <1>5

\* The rows from the i-th on, of n.
RowsFrom(i, n) ==
  [k \in 1 .. (n + 1 - i) * RowBytes |->
     <<"head", ids[(k - 1) \div RowBytes + i] * RowBytes + ((k - 1) % RowBytes)>>]

\* One read covers a run of consecutive rows.
LEMMA RunRead ==
  ASSUME NEW n \in Nat, IsSeq(ids, n), \A j \in 1 .. n : ids[j] \in Nat,
         NEW i \in 1 .. n, NEW e \in i .. n, \A k \in i .. e : ids[k] = ids[i] + (k - i)
  PROVE  TensorBytes("head", ids[i] * RowBytes, (e - i + 1) * RowBytes) \o RowsFrom(e + 1, n)
           = RowsFrom(i, n)
<1> DEFINE first == ids[i] * RowBytes
           p == (e - i + 1) * RowBytes
           r == (n + 1 - (e + 1)) * RowBytes
           a == TensorBytes("head", first, p)
           b == RowsFrom(e + 1, n)
           c == RowsFrom(i, n)
<1>0. RowBytes \in Nat \ {0}
  BY ByteCounts
<1>1. /\ p \in Nat /\ r \in Nat /\ first \in Nat /\ (n + 1 - i) * RowBytes = p + r
      /\ (n + 1 - (e + 1)) * RowBytes = r /\ p = (e - i + 1) * RowBytes /\ first = ids[i] * RowBytes
      /\ e - i + 1 \in Nat /\ n + 1 - (e + 1) \in Nat /\ n + 1 - i \in Nat
  <2>1. e - i + 1 \in Nat /\ n + 1 - (e + 1) \in Nat /\ n + 1 - i \in Nat /\ ids[i] \in Nat
    OBVIOUS
  <2>2. (n + 1 - i) * RowBytes = p + r
    BY <1>0, <2>1
  <2> QED BY <1>0, <2>1, <2>2, ProdNat
<1> HIDE DEF p, r, first
<1>2. IsSeq(a, p) /\ IsSeq(b, r)
  <2>1. a = [k \in 1 .. p |-> a[k]] /\ b = [k \in 1 .. r |-> b[k]]
    BY <1>1 DEF TensorBytes, RowsFrom
  <2> HIDE DEF a, b
  <2> QED BY <1>1, <2>1, FunctionIsSeq
<1>3. c = [k \in 1 .. p + r |-> c[k]]
  BY <1>1 DEF RowsFrom
<1>4. ASSUME NEW k \in 1 .. p + r
      PROVE  /\ k \in 1 .. p => c[k] = a[k]
             /\ k - p \in 1 .. r => c[k] = b[k - p]
  <2> DEFINE q == (k - 1) \div RowBytes
             m == (k - 1) % RowBytes
  <2>1. c[k] = <<"head", ids[q + i] * RowBytes + m>>
    BY <1>1 DEF RowsFrom
  <2>2. q \in Nat /\ m \in 0 .. RowBytes - 1 /\ k - 1 = q * RowBytes + m /\ k - 1 \in Nat
    <3>1. k - 1 \in Nat
      BY <1>1
    <3> QED BY <1>0, <3>1, DivModOf
  <2>3. ASSUME k \in 1 .. p PROVE c[k] = a[k]
    <3>1. a[k] = <<"head", first + k - 1>>
      BY <2>3 DEF TensorBytes
    <3>2. q \in 0 .. e - i + 1 - 1
      <4> DEFINE w == e - i + 1
      <4>1. k \in 1 .. w * RowBytes /\ w \in Nat
        BY <1>0, <1>1, <2>3
      <4> HIDE DEF w
      <4>2. q \in 0 .. w - 1
        BY <1>0, <4>1, InGroups
      <4> QED BY <4>2 DEF w
    <3> HIDE DEF q, m
    <3>3. ids[q + i] = ids[i] + q
      <4>1. q + i \in i .. e /\ q + i - i = q
        BY <3>2
      <4>2. ids[q + i] = ids[i] + (q + i - i)
        BY <3>2, <4>1
      <4> QED BY <4>1, <4>2
    <3>4. (ids[i] + q) * RowBytes = first + q * RowBytes /\ q * RowBytes \in Nat
      BY <1>0, <1>1, <2>2, ProdNat
    <3>5. ids[q + i] * RowBytes + m = first + k - 1
      BY <1>0, <1>1, <2>2, <3>3, <3>4
    <3> QED BY <2>1, <3>1, <3>5
  <2>4. ASSUME k - p \in 1 .. r PROVE c[k] = b[k - p]
    <3> DEFINE q2 == (k - p - 1) \div RowBytes
               m2 == (k - p - 1) % RowBytes
    <3>1. b[k - p] = <<"head", ids[q2 + (e + 1)] * RowBytes + m2>>
      BY <1>1, <2>4 DEF RowsFrom
    <3>2. q2 \in Nat /\ m2 \in 0 .. RowBytes - 1 /\ k - p - 1 = q2 * RowBytes + m2
      <4>1. k - p - 1 \in Nat
        BY <1>0, <1>1, <2>4
      <4> QED BY <1>0, <4>1, DivModOf
    <3> HIDE DEF q2, m2
    <3> DEFINE s == q2 + (e - i + 1)
    <3>3. s * RowBytes = q2 * RowBytes + p /\ s \in Nat
      BY <1>0, <1>1, <3>2
    <3>4. k - 1 = s * RowBytes + m2 /\ q2 * RowBytes \in Nat
      BY <1>0, <1>1, <3>2, <3>3, ProdNat
    <3>5. (s * RowBytes + m2) \div RowBytes = s /\ (s * RowBytes + m2) % RowBytes = m2
      BY <1>0, <1>1, <3>2, <3>3, DivMod
    <3>6. q = s /\ m = m2
      BY <3>4, <3>5
    <3> HIDE DEF q, m
    <3>7. q + i = q2 + (e + 1)
      BY <3>2, <3>6
    <3> QED BY <2>1, <3>1, <3>6, <3>7
  <2> QED BY <2>3, <2>4
<1> HIDE DEF a, b, c
<1> DEFINE ab == a \o b
<1>5. /\ IsSeq(ab, p + r) /\ \A k \in 1 .. p : ab[k] = a[k]
      /\ \A k \in 1 .. r : ab[p + k] = b[k]
  <2>1. JoinIs(ab, a, p, b, r)
    BY <1>2, Joins
  <2> QED BY <2>1 DEF JoinIs
<1> HIDE DEF ab
<1>6. \A k \in 1 .. p + r : ab[k] = c[k]
  <2> SUFFICES ASSUME NEW k \in 1 .. p + r PROVE ab[k] = c[k]
    OBVIOUS
  <2>1. CASE k \in 1 .. p
    BY <1>4, <1>5, <2>1
  <2>2. CASE k \notin 1 .. p
    <3>1. k - p \in 1 .. r /\ p + (k - p) = k
      BY <1>1, <2>2
    <3>2. ab[p + (k - p)] = b[k - p]
      BY <1>5, <3>1
    <3> QED BY <1>4, <3>1, <3>2
  <2> QED BY <2>1, <2>2
<1>7. ab = c
  BY <1>3, <1>5, <1>6 DEF IsSeq
<1> QED BY <1>7 DEF ab, a, b, c, p, first

\* What it writes for the head are the rows of the set, in its order.
LEMMA HeadRowsAre ==
  ASSUME NEW n \in Nat, IsSeq(ids, n), \A j \in 1 .. n : ids[j] \in Nat
  PROVE  HeadRows = RowsOf(ids)
<1> DEFINE Next1(rows, i) ==
             IF i > n THEN <<>>
             ELSE TensorBytes("head", ids[i] * RowBytes, (RunEnd(i) - i + 1) * RowBytes)
                    \o rows[RunEnd(i) + 1]
           Def(rows) == rows = [i \in 1 .. n + 1 |-> Next1(rows, i)]
           rows0 == CHOOSE rows : Def(rows)
           given == [i \in 1 .. n + 1 |-> RowsFrom(i, n)]
<1>1. Len(ids) = n /\ 1 \in 1 .. n + 1
  BY DEF IsSeq
<1>2. HeadRows = rows0[1]
  BY <1>1 DEF HeadRows
\* A step that goes on with the right rows gives the right rows.
<1>3. ASSUME NEW rows, NEW i \in 1 .. n + 1, \A j \in i + 1 .. n + 1 : rows[j] = RowsFrom(j, n)
      PROVE  Next1(rows, i) = RowsFrom(i, n)
  <2>1. CASE i > n
    <3>1. i = n + 1
      BY <2>1
    <3>2. RowsFrom(n + 1, n) = <<>>
      <4>1. (n + 1 - (n + 1)) * RowBytes = 0
        BY ByteCounts
      <4> QED BY <4>1 DEF RowsFrom
    <3> QED BY <2>1, <3>1, <3>2
  <2>2. CASE ~(i > n)
    <3> DEFINE e == RunEnd(i)
    <3>1. i \in 1 .. n
      BY <2>2
    <3>2. e \in i .. n /\ \A k \in i .. e : ids[k] = ids[i] + (k - i)
      BY <3>1, RunIs
    <3> HIDE DEF e
    <3>3. TensorBytes("head", ids[i] * RowBytes, (e - i + 1) * RowBytes) \o RowsFrom(e + 1, n)
            = RowsFrom(i, n)
      BY <3>1, <3>2, RunRead
    <3>4. rows[e + 1] = RowsFrom(e + 1, n)
      <4>1. e + 1 \in i + 1 .. n + 1
        BY <3>1, <3>2
      <4> QED BY <1>3, <4>1
    <3> QED BY <2>2, <3>3, <3>4 DEF e
  <2> QED BY <2>1, <2>2
<1> HIDE DEF Next1
<1>4. Def(given)
  <2>1. ASSUME NEW i \in 1 .. n + 1 PROVE RowsFrom(i, n) = Next1(given, i)
    <3>1. \A j \in i + 1 .. n + 1 : given[j] = RowsFrom(j, n)
      OBVIOUS
    <3> HIDE DEF given
    <3> QED BY <1>3, <3>1
  <2> QED BY <2>1
<1>5. Def(rows0)
  BY <1>4
<1>6. \A i \in 1 .. n + 1 : rows0[i] = Next1(rows0, i)
  BY <1>5
<1> HIDE DEF rows0, Def, given
<1> DEFINE N == {d \in Nat : d <= n => \A j \in n + 1 - d .. n + 1 : rows0[j] = RowsFrom(j, n)}
<1>7. 0 \in N
  <2>1. \A j \in n + 1 - 0 .. n + 1 : j = n + 1 /\ j \in 1 .. n + 1
    OBVIOUS
  <2>2. rows0[n + 1] = RowsFrom(n + 1, n)
    <3>1. \A j \in n + 1 + 1 .. n + 1 : FALSE
      OBVIOUS
    <3>2. n + 1 \in 1 .. n + 1
      OBVIOUS
    <3>3. Next1(rows0, n + 1) = RowsFrom(n + 1, n)
      BY <1>3, <3>1, <3>2
    <3> QED BY <1>6, <3>2, <3>3
  <2> QED BY <2>1, <2>2
<1>8. ASSUME NEW d \in N PROVE d + 1 \in N
  <2> SUFFICES ASSUME d + 1 <= n, NEW j \in n + 1 - (d + 1) .. n + 1
               PROVE  rows0[j] = RowsFrom(j, n)
    OBVIOUS
  <2>1. d \in Nat /\ d <= n /\ j \in 1 .. n + 1
    OBVIOUS
  <2>2. \A k \in n + 1 - d .. n + 1 : rows0[k] = RowsFrom(k, n)
    BY <2>1
  <2>3. \A k \in j + 1 .. n + 1 : rows0[k] = RowsFrom(k, n)
    <3>1. \A k \in j + 1 .. n + 1 : k \in n + 1 - d .. n + 1
      BY <2>1
    <3> QED BY <2>2, <3>1
  <2>4. Next1(rows0, j) = RowsFrom(j, n)
    BY <1>3, <2>1, <2>3
  <2> QED BY <1>6, <2>1, <2>4
<1>9. n \in N
  <2>1. N \in SUBSET Nat
    OBVIOUS
  <2> HIDE DEF N
  <2> QED BY <1>7, <1>8, <2>1, NatSetInduction
<1>10. rows0[1] = RowsFrom(1, n)
  <2>1. 1 \in n + 1 - n .. n + 1
    OBVIOUS
  <2> QED BY <1>9, <2>1
<1>11. RowsFrom(1, n) = RowsOf(ids)
  <2>1. (n + 1 - 1) * RowBytes = n * RowBytes
    BY ByteCounts
  <2> QED BY <1>1, <2>1 DEF RowsFrom, RowsOf
<1> QED BY <1>2, <1>10, <1>11

----------------------------------------------------------------------------
(* A file of the set q, of which the first w tensors are written.          *)

Count == Len(SrcTensors) + 1
OutName(i) == IF i = Count THEN "d2t" ELSE SrcTensors[i][1]
OutSize(q, i) ==
  IF i = Count THEN Len(q) * IdBytes
  ELSE IF SrcTensors[i][1] = "head" THEN Len(q) * RowBytes ELSE SrcTensors[i][2]
Infos(q) == Table(OutTensors(q))

LEMMA SourceIs ==
  /\ Len(SrcTensors) \in Nat /\ IsSeq(SrcTensors, Len(SrcTensors)) /\ Count \in Nat \ {0}
  /\ \A i \in 1 .. Len(SrcTensors) : SrcTensors[i][2] \in Nat /\ SrcTensors[i][1] # "d2t"
  /\ \A i, j \in 1 .. Len(SrcTensors) : SrcTensors[i][1] = SrcTensors[j][1] => i = j
  /\ \E i \in 1 .. Len(SrcTensors) : SrcTensors[i][1] = "head"
<1>1. /\ Len(SrcTensors) \in Nat /\ SrcTensors = [i \in 1 .. Len(SrcTensors) |-> SrcTensors[i]]
      /\ \A i \in DOMAIN SrcTensors :
           /\ SrcTensors[i][2] \in Nat /\ SrcTensors[i][1] # "d2t"
           /\ \A j \in DOMAIN SrcTensors : SrcTensors[i][1] = SrcTensors[j][1] => i = j
      /\ \E i \in DOMAIN SrcTensors : SrcTensors[i] = <<"head", Rows * RowBytes>>
  BY LayoutAssumption, Zenon
<1>2. DOMAIN SrcTensors = 1 .. Len(SrcTensors)
  BY <1>1
<1>3. IsSeq(SrcTensors, Len(SrcTensors)) /\ Count \in Nat \ {0}
  <2>1. Len(SrcTensors) \in Nat
    BY <1>1
  <2>2. Len(SrcTensors) + 1 \in Nat \ {0}
    BY <2>1
  <2> QED BY <1>1, <2>2, Zenon DEF IsSeq, Count
<1>4. \E i \in 1 .. Len(SrcTensors) : SrcTensors[i][1] = "head"
  <2>1. PICK i \in DOMAIN SrcTensors : SrcTensors[i] = <<"head", Rows * RowBytes>>
    BY <1>1
  <2>2. SrcTensors[i][1] = "head"
    BY <2>1
  <2> QED BY <1>2, <2>2
<1> QED BY <1>1, <1>2, <1>3, <1>4, Zenon

LEMMA CountIs == Len(SrcTensors) \in Nat /\ Count = Len(SrcTensors) + 1
BY SourceIs DEF Count

LEMMA NamesDiffer ==
  ASSUME NEW i \in 1 .. Count, NEW j \in 1 .. Count, OutName(i) = OutName(j)
  PROVE  i = j
<1> DEFINE c == Len(SrcTensors)
<1>1. c \in Nat /\ Count = c + 1
  BY CountIs
<1>2. \A k \in 1 .. c : SrcTensors[k][1] # "d2t"
  BY SourceIs
<1>3. \A a, b \in 1 .. c : SrcTensors[a][1] = SrcTensors[b][1] => a = b
  BY SourceIs
<1> HIDE DEF c
<1>4. \A k \in 1 .. c : k # Count
  BY <1>1
<1>5. \A k \in 1 .. Count : k = Count \/ k \in 1 .. c
  BY <1>1
<1>6. \A k \in 1 .. c : OutName(k) = SrcTensors[k][1]
  BY <1>4 DEF OutName
<1>7. OutName(Count) = "d2t"
  BY DEF OutName
<1> QED BY <1>2, <1>3, <1>5, <1>6, <1>7

LEMMA OutTensorsAre ==
  ASSUME NEW q, Len(q) \in Nat
  PROVE  /\ IsSeq(OutTensors(q), Count)
         /\ \A i \in 1 .. Count : /\ OutTensors(q)[i][1] = OutName(i)
                                  /\ OutTensors(q)[i][2] = OutSize(q, i) /\ OutSize(q, i) \in Nat
<1> DEFINE N == Len(SrcTensors)
           a == [i \in DOMAIN SrcTensors |->
                   IF SrcTensors[i][1] = "head" THEN <<"head", Len(q) * RowBytes>> ELSE SrcTensors[i]]
           last == <<"d2t", Len(q) * IdBytes>>
           b == <<last>>
<1>1. N \in Nat /\ DOMAIN SrcTensors = 1 .. N /\ Count = N + 1
  BY SourceIs DEF IsSeq, Count
<1>2. IsSeq(a, N) /\ IsSeq(b, 1)
  <2>1. a = [i \in 1 .. N |-> a[i]] /\ b = [i \in 1 .. 1 |-> b[i]]
    BY <1>1
  <2> HIDE DEF a, b
  <2> QED BY <1>1, <2>1, FunctionIsSeq
<1>3. JoinIs(a \o b, a, N, b, 1)
  <2> HIDE DEF a, b
  <2> QED BY <1>2, Joins
<1>4. OutTensors(q) = a \o b
  BY DEF OutTensors
<1>5. \A i \in 1 .. N : a[i] = IF SrcTensors[i][1] = "head" THEN <<"head", Len(q) * RowBytes>> ELSE SrcTensors[i]
  BY <1>1
<1>6. b[1] = last /\ last[1] = "d2t" /\ last[2] = Len(q) * IdBytes
  OBVIOUS
<1>7. Len(q) * RowBytes \in Nat /\ Len(q) * IdBytes \in Nat
  BY ByteCounts, ProdNat
<1> HIDE DEF a, b, last
<1> DEFINE c == a \o b
<1>8. IsSeq(c, N + 1) /\ (\A i \in 1 .. N : c[i] = a[i]) /\ \A i \in 1 .. 1 : c[N + i] = b[i]
  BY <1>3 DEF JoinIs
<1>9. c = OutTensors(q)
  BY <1>4
<1> HIDE DEF c
<1>10. ASSUME NEW i \in 1 .. Count
       PROVE  c[i][1] = OutName(i) /\ c[i][2] = OutSize(q, i) /\ OutSize(q, i) \in Nat
  <2>1. CASE i = Count
    <3>1. c[i] = b[1]
      BY <1>1, <1>8, <2>1
    <3> QED BY <1>6, <1>7, <2>1, <3>1 DEF OutName, OutSize
  <2>2. CASE i # Count
    <3>1. i \in 1 .. N /\ c[i] = a[i]
      BY <1>1, <1>8, <2>2
    <3>2. SrcTensors[i][2] \in Nat
      BY <3>1, SourceIs
    <3>3. CASE SrcTensors[i][1] = "head"
      <4>1. c[i] = <<"head", Len(q) * RowBytes>>
        BY <1>5, <3>1, <3>3
      <4> QED BY <1>7, <2>2, <3>3, <4>1 DEF OutName, OutSize
    <3>4. CASE SrcTensors[i][1] # "head"
      <4>1. c[i] = SrcTensors[i]
        BY <1>5, <3>1, <3>4
      <4> QED BY <2>2, <3>2, <3>4, <4>1 DEF OutName, OutSize
    <3> QED BY <3>3, <3>4
  <2> QED BY <2>1, <2>2
<1> QED BY <1>1, <1>8, <1>9, <1>10

LEMMA InfosAre ==
  ASSUME NEW q, Len(q) \in Nat
  PROVE  /\ \E at : IsTable(Infos(q), Count, at)
         /\ Len(Infos(q)) = Count /\ DOMAIN Infos(q) = 1 .. Count
         /\ \A i \in 1 .. Count : /\ Infos(q)[i].name = OutName(i)
                                  /\ Infos(q)[i].size = OutSize(q, i) /\ OutSize(q, i) \in Nat
                                  /\ Info(Infos(q), OutName(i)) = Infos(q)[i]
<1>1. IsSeq(OutTensors(q), Count)
  BY OutTensorsAre
<1>2. \A i \in 1 .. Count : /\ OutTensors(q)[i][1] = OutName(i)
                            /\ OutTensors(q)[i][2] = OutSize(q, i) /\ OutSize(q, i) \in Nat
  BY OutTensorsAre
<1>3. \A i \in 1 .. Count : OutTensors(q)[i][2] \in Nat
  BY <1>2
<1>4. /\ \E at : IsTable(Infos(q), Count, at)
      /\ \A i \in 1 .. Count : /\ Infos(q)[i].name = OutTensors(q)[i][1]
                               /\ Infos(q)[i].size = OutTensors(q)[i][2]
  BY <1>1, <1>3, TableIs DEF Infos
<1>5. IsSeq(Infos(q), Count)
  BY <1>4 DEF IsTable
<1>6. Len(Infos(q)) = Count /\ DOMAIN Infos(q) = 1 .. Count
  BY <1>5 DEF IsSeq
<1>7. \A i \in 1 .. Count : Infos(q)[i].name = OutName(i) /\ Infos(q)[i].size = OutSize(q, i)
  BY <1>2, <1>4
<1>8. ASSUME NEW i \in 1 .. Count PROVE Info(Infos(q), OutName(i)) = Infos(q)[i]
  <2> DEFINE j == CHOOSE j \in DOMAIN Infos(q) : Infos(q)[j].name = OutName(i)
  <2>1. j \in 1 .. Count /\ Infos(q)[j].name = OutName(i)
    BY <1>6, <1>7
  <2>2. Info(Infos(q), OutName(i)) = Infos(q)[j]
    BY DEF Info
  <2> HIDE DEF j
  <2>3. j = i
    BY <1>7, <2>1, NamesDiffer
  <2> QED BY <2>2, <2>3
<1> QED BY <1>2, <1>4, <1>6, <1>7, <1>8

LEMMA ContentIs ==
  ASSUME NEW q, Len(q) \in Nat, NEW i \in 1 .. Count
  PROVE  IsSeq(Content(q, Infos(q)[i]), Infos(q)[i].size)
<1> DEFINE t == Infos(q)[i]
<1>1. t.name = OutName(i) /\ t.size = OutSize(q, i) /\ OutSize(q, i) \in Nat
  BY InfosAre
<1> HIDE DEF t
<1>2. CASE i = Count
  <2>1. t.name = "d2t" /\ t.size = Len(q) * IdBytes
    BY <1>1, <1>2 DEF OutName, OutSize
  <2>2. Content(q, t) = EntriesOf(q)
    BY <2>1 DEF Content
  <2>3. EntriesOf(q) = [j \in 1 .. t.size |-> EntriesOf(q)[j]]
    BY <2>1 DEF EntriesOf
  <2> QED BY <1>1, <2>2, <2>3, FunctionIsSeq DEF t
<1>3. CASE i # Count /\ SrcTensors[i][1] = "head"
  <2>1. t.name = "head" /\ t.size = Len(q) * RowBytes
    BY <1>1, <1>3 DEF OutName, OutSize
  <2>2. Content(q, t) = RowsOf(q)
    BY <2>1 DEF Content
  <2>3. RowsOf(q) = [j \in 1 .. t.size |-> RowsOf(q)[j]]
    BY <2>1 DEF RowsOf
  <2> QED BY <1>1, <2>2, <2>3, FunctionIsSeq DEF t
<1>4. CASE i # Count /\ SrcTensors[i][1] # "head"
  <2>1. t.name # "d2t" /\ t.name # "head"
    <3>1. i \in 1 .. Len(SrcTensors)
      BY <1>4, CountIs
    <3> QED BY <1>1, <1>4, <3>1, SourceIs DEF OutName
  <2>2. Content(q, t) = TensorBytes(t.name, 0, t.size)
    BY <2>1 DEF Content
  <2>3. TensorBytes(t.name, 0, t.size) = [j \in 1 .. t.size |-> TensorBytes(t.name, 0, t.size)[j]]
    BY DEF TensorBytes
  <2> QED BY <1>1, <2>2, <2>3, FunctionIsSeq DEF t
<1> QED BY <1>2, <1>3, <1>4

FileFor(f, q, w) ==
  /\ f = [infos |-> Infos(q), bytes |-> f.bytes]
  /\ IsSeq(f.bytes, End(Infos(q), w))
  /\ \A i \in 1 .. w :
       InSeq(f.bytes, DataStart(Infos(q)) + Infos(q)[i].offset, Content(q, Infos(q)[i]))

LEMMA ZerosAre ==
  ASSUME NEW n \in Nat
  PROVE  IsSeq(Zeros(n), n)
<1>1. Zeros(n) = [i \in 1 .. n |-> Zeros(n)[i]]
  BY DEF Zeros
<1> QED BY <1>1, FunctionIsSeq

\* The header and its padding.
LEMMA HeaderWhole ==
  ASSUME NEW q, Len(q) \in Nat, NEW header,
         header = [i \in 1 .. HeaderEnd(Infos(q)) |-> <<"header">>]
                    \o Zeros(DataStart(Infos(q)) - HeaderEnd(Infos(q)))
  PROVE  FileFor([infos |-> Infos(q), bytes |-> header], q, 0)
<1> DEFINE infos == Infos(q)
           h == HeaderEnd(infos)
           d == DataStart(infos)
           a == [i \in 1 .. h |-> <<"header">>]
           b == Zeros(d - h)
<1>1. PICK at : IsTable(infos, Count, at)
  BY InfosAre
<1>2. h \in Nat /\ d \in Nat /\ h <= d /\ Count \in Nat
  BY <1>1, EndIs, CountIs
<1> HIDE DEF infos, h, d
<1>3. IsSeq(a, h) /\ IsSeq(b, d - h)
  <2>1. a = [i \in 1 .. h |-> a[i]]
    OBVIOUS
  <2>2. d - h \in Nat
    BY <1>2
  <2> HIDE DEF a
  <2> QED BY <1>2, <2>1, <2>2, FunctionIsSeq, ZerosAre
<1>4. header = a \o b
  BY DEF infos, h, d
<1> HIDE DEF a, b
<1>5. IsSeq(header, h + (d - h))
  <2>1. JoinIs(header, a, h, b, d - h)
    BY <1>3, <1>4, Joins
  <2> QED BY <2>1 DEF JoinIs
<1>6. h + (d - h) = d /\ End(infos, 0) = d
  BY <1>2 DEF End, d
<1> QED BY <1>5, <1>6 DEF FileFor, infos

LEMMA ExceptBytes ==
  ASSUME NEW x, NEW y, NEW z
  PROVE  [[infos |-> x, bytes |-> y] EXCEPT !.bytes = z] = [infos |-> x, bytes |-> z]
OBVIOUS

\* One more tensor, and its padding.
LEMMA TensorWhole ==
  ASSUME NEW q, Len(q) \in Nat, NEW f, NEW w \in 0 .. Count - 1, FileFor(f, q, w), NEW g,
         g = [f EXCEPT !.bytes = @ \o Content(q, Infos(q)[w + 1])
                                   \o Zeros(PadTo(Infos(q)[w + 1].size) - Infos(q)[w + 1].size)]
  PROVE  Len(f.bytes) = DataStart(Infos(q)) + Infos(q)[w + 1].offset /\ FileFor(g, q, w + 1)
<1> DEFINE infos == Infos(q)
           t == infos[w + 1]
           content == Content(q, t)
           z == PadTo(t.size) - t.size
           a == f.bytes \o content
           b == a \o Zeros(z)
           m == End(infos, w)
<1>1. PICK at : IsTable(infos, Count, at)
  BY InfosAre
<1>2. Count \in Nat /\ w + 1 \in 1 .. Count /\ w \in 0 .. Count /\ w \in Nat
  BY CountIs
<1>3. /\ DataStart(infos) \in Nat /\ m = DataStart(infos) + at[w + 1] /\ m \in Nat
      /\ End(infos, w + 1) = DataStart(infos) + at[w + 1 + 1]
  <2>1. w + 1 \in 0 .. Count
    BY <1>2
  <2> QED BY <1>1, <1>2, <2>1, EndIs
<1>4. /\ t.offset = at[w + 1] /\ t.size \in Nat /\ at[w + 1 + 1] = at[w + 1] + PadTo(t.size)
      /\ at[w + 1] \in Nat
  BY <1>1, <1>2 DEF IsTable
<1>5. IsSeq(content, t.size)
  BY <1>2, ContentIs
<1>6. IsSeq(Zeros(z), z) /\ z \in Nat /\ t.size + z = PadTo(t.size)
  <2>1. z \in Nat
    BY <1>4, Padded
  <2>2. t.size + z = PadTo(t.size)
    BY <1>4, Padded
  <2> QED BY <2>1, <2>2, ZerosAre
<1>7. IsSeq(f.bytes, m) /\ f = [infos |-> infos, bytes |-> f.bytes]
  BY DEF FileFor
<1>8. g = [infos |-> infos, bytes |-> b]
  <2>1. g = [f EXCEPT !.bytes = f.bytes \o content \o Zeros(z)]
    OBVIOUS
  <2>2. g = [f EXCEPT !.bytes = b]
    BY <2>1
  <2> DEFINE x == f.bytes
  <2>3. f = [infos |-> infos, bytes |-> x]
    BY <1>7
  <2> HIDE DEF b, infos, x
  <2>4. g = [[infos |-> infos, bytes |-> x] EXCEPT !.bytes = b]
    BY <2>2, <2>3, Zenon
  <2> QED BY <2>4, ExceptBytes
<1>9. \A i \in 1 .. w : InSeq(f.bytes, DataStart(infos) + infos[i].offset, Content(q, infos[i]))
  BY DEF FileFor
<1> HIDE DEF content, z
<1>10. JoinIs(a, f.bytes, m, content, t.size)
  <2> HIDE DEF m, t
  <2> QED BY <1>5, <1>7, Joins
<1> HIDE DEF a
<1>11. JoinIs(b, a, m + t.size, Zeros(z), z)
  <2>1. IsSeq(a, m + t.size)
    BY <1>10 DEF JoinIs
  <2> HIDE DEF m, t
  <2> QED BY <1>6, <2>1, Joins
<1> HIDE DEF b
<1>12. ASSUME NEW i \in 1 .. w + 1
       PROVE  InSeq(b, DataStart(infos) + infos[i].offset, Content(q, infos[i]))
  <2> DEFINE off == DataStart(infos) + infos[i].offset
             c == Content(q, infos[i])
  <2>1. i \in 1 .. Count
    BY <1>2
  <2>2. off \in Nat /\ Len(c) \in Nat
    <3>1. infos[i].offset \in Nat /\ infos[i].size \in Nat
      BY <1>1, <1>2, <2>1 DEF IsTable
    <3>2. IsSeq(c, infos[i].size)
      BY <2>1, ContentIs
    <3> QED BY <1>3, <3>1, <3>2 DEF IsSeq
  <2>3. InSeq(a, off, c)
    <3>1. CASE i = w + 1
      <4>1. off = m /\ c = content
        BY <1>3, <1>4, <3>1 DEF content
      <4>2. InSeq(a, m, content)
        BY <1>10 DEF JoinIs
      <4> QED BY <4>1, <4>2
    <3>2. CASE i # w + 1
      <4>1. i \in 1 .. w
        BY <1>2, <3>2
      <4>2. InSeq(f.bytes, off, c)
        BY <1>9, <4>1
      <4> HIDE DEF off, c
      <4> QED BY <1>10, <2>2, <4>2, Zenon DEF JoinIs
    <3> QED BY <3>1, <3>2
  <2> HIDE DEF off, c
  <2>4. InSeq(b, off, c)
    BY <1>11, <2>2, <2>3, Zenon DEF JoinIs
  <2> QED BY <2>4 DEF off, c
<1>13. IsSeq(b, End(infos, w + 1))
  <2>1. IsSeq(b, m + t.size + z)
    BY <1>11 DEF JoinIs
  <2>2. End(infos, w + 1) = m + t.size + z
    <3> DEFINE d == DataStart(infos)
               x == at[w + 1]
               s == t.size
               p == PadTo(t.size)
               e == End(infos, w + 1)
    <3>1. d \in Nat /\ x \in Nat /\ s \in Nat /\ z \in Nat /\ s + z = p
      BY <1>3, <1>4, <1>6
    <3>2. m = d + x /\ e = d + (x + p)
      BY <1>3, <1>4
    <3> HIDE DEF d, x, s, p, e, m
    <3>3. e = m + s + z
      BY <3>1, <3>2
    <3> QED BY <3>3 DEF e, s
  <2> QED BY <2>1, <2>2
<1>14. Len(f.bytes) = DataStart(infos) + t.offset
  BY <1>3, <1>4, <1>7 DEF IsSeq
<1>15. g.infos = infos /\ g.bytes = b
  <2> HIDE DEF infos
  <2> QED BY <1>8
<1>16. FileFor(g, q, w + 1)
  BY <1>8, <1>12, <1>13, <1>15 DEF FileFor
<1> QED BY <1>14, <1>16

----------------------------------------------------------------------------
(* What a reader finds in a whole file.                                    *)

LEMMA TensorRead ==
  ASSUME NEW q, Len(q) \in Nat, NEW f, FileFor(f, q, Count), NEW i \in 1 .. Count
  PROVE  /\ f.infos = Infos(q)
         /\ Data(f, OutName(i)) = Content(q, Infos(q)[i])
<1> DEFINE infos == Infos(q)
           t == infos[i]
           off == DataStart(infos) + t.offset
           c == Content(q, t)
<1>1. f.infos = infos
  <2> DEFINE x == f.bytes
  <2>1. f = [infos |-> infos, bytes |-> x]
    BY DEF FileFor
  <2> HIDE DEF infos, x
  <2> QED BY <2>1
<1>2. Info(f.infos, OutName(i)) = t
  BY <1>1, InfosAre
<1>3. Data(f, OutName(i)) = SubSeq(f.bytes, off + 1, off + t.size)
  BY <1>1, <1>2 DEF Data, ReadAt
<1>4. IsSeq(c, t.size)
  BY ContentIs
<1>5. off \in Nat
  <2>1. PICK at : IsTable(infos, Count, at)
    BY InfosAre
  <2>2. DataStart(infos) \in Nat
    BY <2>1, EndIs
  <2>3. Count \in Nat
    BY CountIs
  <2>4. t.offset \in Nat
    BY <2>1, <2>3 DEF IsTable
  <2> QED BY <2>2, <2>4
<1>6. IsSeq(f.bytes, End(infos, Count)) /\ InSeq(f.bytes, off, c)
  BY DEF FileFor
<1> HIDE DEF off, c, t
<1>7. SubSeq(f.bytes, off + 1, off + t.size) = c
  BY <1>4, <1>5, <1>6, ReadsBack
<1> QED BY <1>1, <1>3, <1>7 DEF t, c

LEMMA IdsRead ==
  ASSUME NEW q, Good(q), NEW f, FileFor(f, q, Count)
  PROVE  IdsOf(f) = q
<1> DEFINE n == Len(q)
           d == EntriesOf(q)
<1>1. n \in Nat \ {0} /\ IdBytes \in Nat \ {0}
  BY GoodIs, ByteCounts
<1>2. Data(f, "d2t") = d
  <2>1. Count \in 1 .. Count /\ OutName(Count) = "d2t"
    BY CountIs DEF OutName
  <2>2. Infos(q)[Count].name = "d2t"
    BY <1>1, <2>1, InfosAre
  <2>3. Content(q, Infos(q)[Count]) = d
    BY <2>2 DEF Content
  <2>4. Data(f, OutName(Count)) = Content(q, Infos(q)[Count])
    BY <1>1, <2>1, TensorRead
  <2> QED BY <2>1, <2>3, <2>4
<1>3. Len(d) \div IdBytes = n
  <2>1. d = [k \in 1 .. n * IdBytes |-> d[k]] /\ n * IdBytes \in Nat
    BY <1>1, ProdNat DEF EntriesOf
  <2>2. Len(d) = n * IdBytes
    <3> HIDE DEF d
    <3> QED BY <2>1, FunctionIsSeq DEF IsSeq
  <2>3. (n * IdBytes + 0) \div IdBytes = n
    BY <1>1, DivMod, 0 \in 0 .. IdBytes - 1
  <2>4. n * IdBytes + 0 = n * IdBytes
    BY <2>1
  <2> QED BY <2>2, <2>3, <2>4
<1>4. ASSUME NEW i \in 1 .. n PROVE d[(i - 1) * IdBytes + 1][2] = q[i]
  <2> DEFINE k == (i - 1) * IdBytes + 1
  <2>1. i - 1 \in Nat /\ n - i \in Nat
    BY <1>1
  <2>2. (i - 1) * IdBytes \in Nat /\ (n - i) * IdBytes \in Nat
    BY <1>1, <2>1, ProdNat
  <2>3. n * IdBytes = (i - 1) * IdBytes + IdBytes + (n - i) * IdBytes
    BY <1>1, <2>1
  <2>4. k \in 1 .. n * IdBytes /\ k - 1 = (i - 1) * IdBytes + 0
    BY <1>1, <2>2, <2>3
  <2>5. ((i - 1) * IdBytes + 0) \div IdBytes = i - 1
    BY <1>1, <2>1, DivMod, 0 \in 0 .. IdBytes - 1
  <2>6. (k - 1) \div IdBytes + 1 = i
    BY <2>1, <2>4, <2>5
  <2> HIDE DEF k
  <2>7. d[k] = <<"id", q[(k - 1) \div IdBytes + 1], (k - 1) % IdBytes>>
    BY <2>4 DEF EntriesOf
  <2>8. d[k][2] = q[(k - 1) \div IdBytes + 1]
    BY <2>7
  <2> QED BY <2>6, <2>8 DEF k
<1>5. q = [i \in 1 .. n |-> q[i]]
  BY DEF Good, IsSeq
<1> HIDE DEF d
<1>6. IdsOf(f) = [i \in 1 .. n |-> d[(i - 1) * IdBytes + 1][2]]
  BY <1>2, <1>3 DEF IdsOf
<1>7. [i \in 1 .. n |-> d[(i - 1) * IdBytes + 1][2]] = [i \in 1 .. n |-> q[i]]
  BY <1>4
<1> QED BY <1>5, <1>6, <1>7

LEMMA HeadRead ==
  ASSUME NEW q, Good(q), NEW f, FileFor(f, q, Count)
  PROVE  /\ Info(f.infos, "head").size = Len(q) * RowBytes
         /\ \A k \in 0 .. Len(q) - 1 : HeadRow(f, k) = SrcRow(q[k + 1])
<1>1. Len(q) \in Nat \ {0} /\ RowBytes \in Nat \ {0} /\ \A i \in 1 .. Len(q) : q[i] \in Nat
  BY GoodIs, ByteCounts
<1>2. PICK i \in 1 .. Count : i # Count /\ OutName(i) = "head"
  <2>1. PICK i \in 1 .. Len(SrcTensors) : SrcTensors[i][1] = "head"
    BY SourceIs
  <2>2. i \in 1 .. Count /\ i # Count
    BY CountIs
  <2> QED BY <2>1, <2>2 DEF OutName
<1>3. Infos(q)[i].name = "head" /\ Infos(q)[i].size = Len(q) * RowBytes /\ Info(f.infos, "head") = Infos(q)[i]
  <2>1. Infos(q)[i].name = OutName(i) /\ Infos(q)[i].size = OutSize(q, i)
        /\ Info(Infos(q), OutName(i)) = Infos(q)[i]
    BY <1>1, InfosAre
  <2>2. f.infos = Infos(q)
    BY <1>1, TensorRead
  <2>3. OutSize(q, i) = Len(q) * RowBytes
    BY <1>2 DEF OutSize, OutName
  <2> QED BY <1>2, <2>1, <2>2, <2>3
<1>4. Data(f, "head") = RowsOf(q)
  <2>1. Data(f, OutName(i)) = Content(q, Infos(q)[i])
    BY <1>1, TensorRead
  <2>2. Content(q, Infos(q)[i]) = RowsOf(q)
    BY <1>3 DEF Content
  <2> QED BY <1>2, <2>1, <2>2
<1>5. ASSUME NEW k \in 0 .. Len(q) - 1 PROVE HeadRow(f, k) = SrcRow(q[k + 1])
  <2> DEFINE rows == RowsOf(q)
             row == SrcRow(q[k + 1])
             off == k * RowBytes
             m == Len(q) * RowBytes
  <2>1. /\ k \in Nat /\ k + 1 \in 1 .. Len(q) /\ off \in Nat /\ m \in Nat /\ Len(q) - (k + 1) \in Nat
        /\ q[k + 1] \in Nat /\ q[k + 1] * RowBytes \in Nat
    BY <1>1, ProdNat
  <2>2. (k + 1) * RowBytes = off + RowBytes
    BY <1>1, <2>1
  <2>3. off + RowBytes <= m
    <3>1. m = off + RowBytes + (Len(q) - (k + 1)) * RowBytes
      BY <1>1, <2>1
    <3>2. (Len(q) - (k + 1)) * RowBytes \in Nat
      BY <1>1, <2>1, ProdNat
    <3> QED BY <1>1, <2>1, <3>1, <3>2
  <2>4. HeadRow(f, k) = SubSeq(rows, off + 1, off + RowBytes)
    BY <1>4, <2>2 DEF HeadRow
  <2>5. IsSeq(rows, m)
    <3>1. rows = [j \in 1 .. m |-> rows[j]]
      BY DEF RowsOf
    <3> HIDE DEF rows, m
    <3> QED BY <2>1, <3>1, FunctionIsSeq
  <2>6. IsSeq(row, RowBytes)
    <3>1. row = [j \in 1 .. RowBytes |-> row[j]]
      BY DEF SrcRow, TensorBytes
    <3> HIDE DEF row
    <3> QED BY <1>1, <3>1, FunctionIsSeq
  <2>7. ASSUME NEW j \in 1 .. RowBytes PROVE rows[off + j] = row[j]
    <3> DEFINE p == off + j
    <3>1. p \in 1 .. m /\ j - 1 \in 0 .. RowBytes - 1 /\ p - 1 = k * RowBytes + (j - 1)
      BY <1>1, <2>1, <2>3
    <3>2. (k * RowBytes + (j - 1)) \div RowBytes = k /\ (k * RowBytes + (j - 1)) % RowBytes = j - 1
      <4>1. k \in Nat /\ RowBytes \in Nat \ {0} /\ j - 1 \in 0 .. RowBytes - 1
        BY <1>1, <2>1, <3>1
      <4> DEFINE r == j - 1
      <4> HIDE DEF r
      <4>2. r \in 0 .. RowBytes - 1
        BY <4>1 DEF r
      <4> QED BY <4>1, <4>2, DivMod DEF r
    <3>3. (p - 1) \div RowBytes = k /\ (p - 1) % RowBytes = j - 1
      BY <3>1, <3>2
    <3> HIDE DEF p
    <3>4. rows[p] = <<"head", q[(p - 1) \div RowBytes + 1] * RowBytes + ((p - 1) % RowBytes)>>
      BY <3>1 DEF RowsOf
    <3>5. row[j] = <<"head", q[k + 1] * RowBytes + j - 1>>
      BY DEF SrcRow, TensorBytes
    <3>6. q[k + 1] * RowBytes + (j - 1) = q[k + 1] * RowBytes + j - 1
      BY <2>1
    <3> QED BY <3>3, <3>4, <3>5, <3>6 DEF p
  <2> HIDE DEF rows, row, off, m
  <2>8. InSeq(rows, off, row)
    BY <2>3, <2>5, <2>6, <2>7 DEF InSeq, IsSeq
  <2>9. SubSeq(rows, off + 1, off + RowBytes) = row
    BY <2>1, <2>5, <2>6, <2>8, ReadsBack
  <2> QED BY <2>4, <2>9 DEF row
<1> QED BY <1>3, <1>5

LEMMA OtherRead ==
  ASSUME NEW q, Len(q) \in Nat, NEW f, FileFor(f, q, Count), NEW name \in Names(Src) \ {"head"}
  PROVE  Data(f, name) = TensorBytes(name, 0, Info(Src, name).size)
<1> DEFINE N == Len(SrcTensors)
<1>1. IsSeq(SrcTensors, N) /\ \A i \in 1 .. N : SrcTensors[i][2] \in Nat /\ SrcTensors[i][1] # "d2t"
  BY SourceIs
<1>2. /\ DOMAIN Src = 1 .. N
      /\ \A i \in 1 .. N : Src[i].name = SrcTensors[i][1] /\ Src[i].size = SrcTensors[i][2]
  <2>1. \E at : IsTable(Table(SrcTensors), N, at)
    BY <1>1, TableIs
  <2>2. \A i \in 1 .. N : Src[i].name = SrcTensors[i][1] /\ Src[i].size = SrcTensors[i][2]
    BY <1>1, TableIs DEF Src
  <2>3. IsSeq(Src, N)
    BY <2>1 DEF IsTable, Src
  <2> QED BY <2>2, <2>3 DEF IsSeq
<1> DEFINE j == CHOOSE j \in DOMAIN Src : Src[j].name = name
<1>3. j \in 1 .. N /\ Src[j].name = name /\ Info(Src, name) = Src[j]
  <2>1. \E i \in DOMAIN Src : Src[i].name = name
    BY DEF Names
  <2>2. j \in DOMAIN Src /\ Src[j].name = name
    BY <2>1
  <2> QED BY <1>2, <2>2 DEF Info
<1> HIDE DEF j
<1>4. j \in 1 .. Count /\ j # Count
  BY <1>3, CountIs
<1>5. OutName(j) = name /\ name # "d2t" /\ name # "head"
  BY <1>1, <1>2, <1>3, <1>4 DEF OutName
<1>6. OutSize(q, j) = Info(Src, name).size
  BY <1>2, <1>3, <1>4, <1>5 DEF OutSize
<1>7. Infos(q)[j].name = name /\ Infos(q)[j].size = Info(Src, name).size
  <2>1. Infos(q)[j].name = OutName(j) /\ Infos(q)[j].size = OutSize(q, j)
    BY <1>4, InfosAre
  <2> QED BY <1>5, <1>6, <2>1
<1>8. Content(q, Infos(q)[j]) = TensorBytes(name, 0, Info(Src, name).size)
  BY <1>5, <1>7 DEF Content
<1>9. Data(f, OutName(j)) = Content(q, Infos(q)[j])
  BY <1>4, TensorRead
<1> QED BY <1>5, <1>8, <1>9

----------------------------------------------------------------------------
(* The invariant: what is written so far is right, and what is out is      *)
(* whole, for the set of some run.                                         *)

VocabInv ==
  /\ ids = <<>> \/ (IsSeq(ids, Len(ids)) /\ Len(ids) \in Sizes)
  /\ stage = "writing" => Good(ids) /\ written \in 0 .. Count /\ FileFor(partial, ids, written)
  /\ out = NoFile \/ \E q : Good(q) /\ FileFor(out, q, Count)

LEMMA VocabBase == VocabInit => VocabInv
BY DEF VocabInit, VocabInv

\* The walk leaves the files alone.
LEMMA WalkStep ==
  ASSUME VocabInv, SkipSource \/ EndSource \/ SkipFile \/ OpenFile \/ CountUnit \/ CloseFile
  PROVE  VocabInv'
<1>1. UNCHANGED <<stage, built, ids, partial, written, out>>
  BY DEF SkipSource, EndSource, SkipFile, OpenFile, CountUnit, CloseFile, Walking
<1> QED BY <1>1 DEF VocabInv

\* A set has as many ids as the size that was asked for.
LEMMA BuildStep ==
  ASSUME VocabInv, NEW n \in Sizes, Build(n)
  PROVE  VocabInv'
<1>1. PICK ranked \in SUBSET Candidates :
        IF Cardinality(Forced \cup ranked) = n
        THEN stage' = "built" /\ ids' = InOrder(Forced \cup ranked)
        ELSE stage' = "refused" /\ ids' = ids
  BY DEF Build, kSubset
<1>2. UNCHANGED <<walk, partial, written, out>>
  BY DEF Build
<1>3. ASSUME Cardinality(Forced \cup ranked) = n
      PROVE  IsSeq(ids', Len(ids')) /\ Len(ids') \in Sizes
  <2> DEFINE S == Forced \cup ranked
             q == InOrder(S)
  <2>1. n \in Nat
    BY VocabAssumption
  <2>2. q = [i \in 1 .. n |-> q[i]]
    BY <1>3 DEF InOrder
  <2> HIDE DEF q
  <2>3. IsSeq(q, n) /\ Len(q) = n
    BY <2>1, <2>2, FunctionIsSeq DEF IsSeq
  <2>4. ids' = q
    BY <1>1, <1>3 DEF q
  <2> QED BY <2>3, <2>4
<1>4. stage' # "writing"
  BY <1>1
<1>5. ids' = <<>> \/ (IsSeq(ids', Len(ids')) /\ Len(ids') \in Sizes)
  BY <1>1, <1>3 DEF VocabInv
<1> QED BY <1>2, <1>4, <1>5 DEF VocabInv

LEMMA BeginStep ==
  ASSUME VocabInv, Begin
  PROVE  VocabInv'
<1>1. UNCHANGED <<ids, out>> /\ written' = 0
  BY DEF Begin
<1>2. CASE Acceptable(ids) /\ CheckOffsets(Src)
  <2> DEFINE header == [i \in 1 .. HeaderEnd(Infos(ids)) |-> <<"header">>]
                          \o Zeros(DataStart(Infos(ids)) - HeaderEnd(Infos(ids)))
             f == [infos |-> Infos(ids), bytes |-> header]
  <2>1. Good(ids)
    BY <1>2 DEF VocabInv, Begin, Good
  <2>2. partial' = f
    BY <1>2 DEF Begin, Infos
  <2>3. FileFor(f, ids, 0)
    BY <2>1, GoodIs, HeaderWhole
  <2> HIDE DEF f
  <2>4. 0 \in 0 .. Count
    BY CountIs
  <2> QED BY <1>1, <2>1, <2>2, <2>3, <2>4 DEF VocabInv
<1>3. CASE ~(Acceptable(ids) /\ CheckOffsets(Src))
  <2>1. stage' = "refused"
    BY <1>3 DEF Begin
  <2> QED BY <1>1, <2>1 DEF VocabInv
<1> QED BY <1>2, <1>3

LEMMA WriteStep ==
  ASSUME VocabInv, WriteTensor
  PROVE  VocabInv'
<1> DEFINE t == partial.infos[written + 1]
           content == IF t.name = "d2t" THEN IdEntries
                      ELSE IF t.name = "head" THEN HeadRows ELSE TensorBytes(t.name, 0, t.size)
           g == [partial EXCEPT !.bytes = @ \o content \o Zeros(PadTo(t.size) - t.size)]
<1>1. /\ stage = "writing" /\ written < Len(partial.infos)
      /\ Good(ids) /\ written \in 0 .. Count /\ FileFor(partial, ids, written)
  BY DEF VocabInv, WriteTensor
<1>2. partial.infos = Infos(ids) /\ Len(Infos(ids)) = Count /\ Len(ids) \in Nat
  <2>1. partial.infos = Infos(ids)
    <3> DEFINE x == partial.bytes
    <3>1. partial = [infos |-> Infos(ids), bytes |-> x]
      BY <1>1 DEF FileFor
    <3> HIDE DEF x
    <3> QED BY <3>1
  <2>2. Len(ids) \in Nat
    BY <1>1, GoodIs
  <2> QED BY <2>1, <2>2, InfosAre
<1>3. written \in 0 .. Count - 1 /\ written + 1 \in 0 .. Count
  BY <1>1, <1>2, CountIs
<1>4. content = Content(ids, t)
  <2>1. IdEntries = EntriesOf(ids)
    BY DEF IdEntries, EntriesOf
  <2>2. HeadRows = RowsOf(ids)
    <3>1. IsSeq(ids, Len(ids)) /\ \A i \in 1 .. Len(ids) : ids[i] \in Nat
      BY <1>1, GoodIs DEF Good
    <3> QED BY <1>2, <3>1, HeadRowsAre
  <2> HIDE DEF t
  <2> QED BY <2>1, <2>2 DEF Content
<1>5. t = Infos(ids)[written + 1]
  BY <1>2
<1> HIDE DEF content
<1>6. g = [partial EXCEPT !.bytes = @ \o Content(ids, Infos(ids)[written + 1])
                                      \o Zeros(PadTo(Infos(ids)[written + 1].size) - Infos(ids)[written + 1].size)]
  BY <1>4, <1>5
<1> HIDE DEF g
<1>7. /\ Len(partial.bytes) = DataStart(Infos(ids)) + Infos(ids)[written + 1].offset
      /\ FileFor(g, ids, written + 1)
  BY <1>1, <1>2, <1>3, <1>6, TensorWhole
<1>8. Len(partial.bytes) = DataStart(partial.infos) + t.offset
  BY <1>2, <1>5, <1>7
<1>9. partial' = g /\ written' = written + 1 /\ UNCHANGED <<stage, ids, out>>
  BY <1>8 DEF WriteTensor, g, content
<1> QED BY <1>1, <1>3, <1>7, <1>9 DEF VocabInv

LEMMA PublishStep ==
  ASSUME VocabInv, Publish
  PROVE  VocabInv'
<1>1. UNCHANGED ids /\ stage' = "built" /\ (out' = out \/ out' = partial)
  BY DEF Publish
<1>2. Good(ids) /\ FileFor(partial, ids, written)
  BY DEF VocabInv, Publish
<1>3. written = Count
  <2>1. partial.infos = Infos(ids)
    <3> DEFINE x == partial.bytes
    <3>1. partial = [infos |-> Infos(ids), bytes |-> x]
      BY <1>2 DEF FileFor
    <3> HIDE DEF x
    <3> QED BY <3>1
  <2>2. Len(ids) \in Nat
    BY <1>2, GoodIs
  <2>3. Len(Infos(ids)) = Count
    BY <2>2, InfosAre
  <2> QED BY <2>1, <2>3 DEF Publish
<1>4. out' = partial => \E q : Good(q) /\ FileFor(out', q, Count)
  BY <1>2, <1>3
<1> QED BY <1>1, <1>4 DEF VocabInv

LEMMA VocabStep == VocabInv /\ [VocabNext]_vocab_vars => VocabInv'
<1> SUFFICES ASSUME VocabInv, [VocabNext]_vocab_vars PROVE VocabInv'
  OBVIOUS
<1>1. CASE Stop
  BY <1>1 DEF Stop, VocabInv
<1>2. CASE UNCHANGED vocab_vars
  BY <1>2 DEF vocab_vars, VocabInv
<1> QED BY <1>1, <1>2, WalkStep, BuildStep, BeginStep, WriteStep, PublishStep DEF VocabNext

LEMMA VocabInvariant == VocabSpec => []VocabInv
BY VocabBase, VocabStep, PTL DEF VocabSpec

----------------------------------------------------------------------------
(* The published file, and its validation.                                 *)

LEMMA WholeTable ==
  ASSUME NEW q, Good(q), NEW f, FileFor(f, q, Count)
  PROVE  /\ f.infos = Infos(q) /\ CheckOffsets(f.infos)
         /\ \A i \in DOMAIN f.infos : f.infos[i].offset % Align = 0
         /\ f.infos[Len(f.infos)].name = "d2t"
         /\ Len(f.bytes) = DataStart(f.infos) + DataSize(f.infos)
<1>1. Len(q) \in Nat /\ Count \in 1 .. Count /\ Count \in Nat \ {0}
  BY GoodIs, CountIs
<1>2. f.infos = Infos(q)
  BY <1>1, TensorRead
<1>3. PICK at : IsTable(Infos(q), Count, at)
  BY <1>1, InfosAre
<1>4. /\ CheckOffsets(Infos(q)) /\ \A i \in 1 .. Count : Infos(q)[i].offset % Align = 0
      /\ DOMAIN Infos(q) = 1 .. Count /\ Len(Infos(q)) = Count
  BY <1>1, <1>3, TableAligned
<1>5. Infos(q)[Count].name = "d2t"
  BY <1>1, InfosAre DEF OutName
<1>6. Len(f.bytes) = End(Infos(q), Count)
  BY DEF FileFor, IsSeq
<1>7. End(Infos(q), Count) = DataStart(Infos(q)) + DataSize(Infos(q))
  BY <1>1, <1>4 DEF End, DataSize
<1> QED BY <1>2, <1>4, <1>5, <1>6, <1>7

\* At every moment the published file is absent or whole, for every source,
\* every id set and however often a run was stopped and repeated: what the
\* checks and the os.replace of truncate_drafter.py are for.
THEOREM VocabPublished == VocabSpec => []PublishedIsWhole
<1>1. VocabInv => PublishedIsWhole
  <2> SUFFICES ASSUME VocabInv, out # NoFile
               PROVE  /\ CheckOffsets(out.infos) /\ Acceptable(IdsOf(out))
                      /\ \A k \in 0 .. Len(IdsOf(out)) - 1 : HeadRow(out, k) = SrcRow(IdsOf(out)[k + 1])
                      /\ \A name \in Names(Src) \ {"head"} :
                           Data(out, name) = TensorBytes(name, 0, Info(Src, name).size)
    BY DEF PublishedIsWhole
  <2>1. PICK q : Good(q) /\ FileFor(out, q, Count)
    BY DEF VocabInv
  <2>2. IdsOf(out) = q
    BY <2>1, IdsRead
  <2>3. CheckOffsets(out.infos)
    BY <2>1, WholeTable
  <2>4. Acceptable(q)
    BY <2>1 DEF Good
  <2>5. \A k \in 0 .. Len(q) - 1 : HeadRow(out, k) = SrcRow(q[k + 1])
    BY <2>1, HeadRead
  <2>6. \A name \in Names(Src) \ {"head"} : Data(out, name) = TensorBytes(name, 0, Info(Src, name).size)
    <3>1. Len(q) \in Nat
      BY <2>1, GoodIs
    <3> QED BY <2>1, <3>1, OtherRead
  <2> QED BY <2>2, <2>3, <2>4, <2>5, <2>6
<1> QED BY <1>1, VocabInvariant, PTL

LEMMA RowsDiffer ==
  ASSUME NEW a \in Nat, NEW b \in Nat, SrcRow(a) = SrcRow(b)
  PROVE  a = b
<1>1. RowBytes \in Nat \ {0} /\ 1 \in 1 .. RowBytes
  BY ByteCounts
<1>2. SrcRow(a)[1] = <<"head", a * RowBytes + 1 - 1>> /\ SrcRow(b)[1] = <<"head", b * RowBytes + 1 - 1>>
  BY <1>1 DEF SrcRow, TensorBytes
<1>3. a * RowBytes + 1 - 1 = b * RowBytes + 1 - 1
  <2>1. <<"head", a * RowBytes + 1 - 1>>[2] = <<"head", b * RowBytes + 1 - 1>>[2]
    BY <1>2
  <2> QED BY <2>1
<1>4. a * RowBytes + 0 = b * RowBytes + 0
  <2>1. a * RowBytes \in Nat /\ b * RowBytes \in Nat
    BY <1>1, ProdNat
  <2> QED BY <1>3, <2>1
<1>5. (a * RowBytes + 0) \div RowBytes = a /\ (b * RowBytes + 0) \div RowBytes = b
  BY <1>1, DivMod, 0 \in 0 .. RowBytes - 1
<1> QED BY <1>4, <1>5

\* The last id of a set is not the row it is kept in.
LEMMA LastIsMoved ==
  ASSUME NEW q, Good(q)
  PROVE  q[Len(q)] \in Nat /\ q[Len(q)] > Len(q) - 1
<1> DEFINE n == Len(q)
<1>1. n \in Nat \ {0} /\ DOMAIN q = 1 .. n /\ \A i \in 1 .. n : q[i] \in Nat
  BY GoodIs DEF Good, IsSeq
<1>2. PICK x \in (Special \cup Bytes256) \cap Nat : x >= n
  BY VocabAssumption DEF Good
<1>3. PICK i \in 1 .. n : q[i] = x
  <2>1. x \in Range(q)
    BY DEF Good, Acceptable
  <2> QED BY <1>1, <2>1 DEF Range
<1>4. ASSUME i # n PROVE q[i] < q[n]
  <2>1. i \in DOMAIN q /\ n \in DOMAIN q
    <3> HIDE DEF n
    <3> QED BY <1>1, <1>3
  <2>2. i < n
    <3>1. i \in 1 .. n /\ n \in Nat
      BY <1>1, <1>3
    <3> HIDE DEF n
    <3> QED BY <3>1, <1>4
  <2> QED BY <2>1, <2>2 DEF Good, Acceptable
<1>5. q[n] \in Nat /\ x \in Nat
  BY <1>1, <1>2
<1>6. q[n] >= x
  <2>1. CASE i = n
    BY <1>3, <2>1, <1>5
  <2>2. CASE i # n
    BY <1>3, <1>4, <2>2, <1>5
  <2> QED BY <2>1, <2>2
<1> QED BY <1>1, <1>2, <1>5, <1>6

\* What is in the SampleTensors are tensors of the source.
LEMMA SamplesAre == SampleTensors \subseteq Names(Src) \ {"head"}
<1> SUFFICES ASSUME NEW name \in SampleTensors PROVE name \in Names(Src) /\ name # "head"
  OBVIOUS
<1>1. PICK i \in DOMAIN SrcTensors : SrcTensors[i][1] = name /\ name # "head"
  BY LayoutAssumption
<1>2. DOMAIN Src = DOMAIN SrcTensors /\ Src[i].name = SrcTensors[i][1]
  BY DEF Src, Table
<1>3. name \in Names(Src)
  BY <1>1, <1>2 DEF Names
<1> QED BY <1>1, <1>3

\* validate_drafter.py passes exactly the file of the set it is given, for
\* every sample it takes: whatever an earlier run left is refused when it was
\* written from another set, and no whole file of this one is.
THEOREM VocabValidated == VocabSpec => []ValidatedIsCurrent
<1>1. VocabInv => ValidatedIsCurrent
  <2> SUFFICES ASSUME VocabInv, out # NoFile PROVE Validates(out) <=> IdsOf(out) = ids
    BY DEF ValidatedIsCurrent
  <2>1. PICK q : Good(q) /\ FileFor(out, q, Count)
    BY DEF VocabInv
  <2>2. IdsOf(out) = q
    BY <2>1, IdsRead
  <2>3. Validates(out) => q = ids
    BY <2>2 DEF Validates, Given
  <2>4. ASSUME q = ids PROVE Validates(out)
    <3> DEFINE n == Len(q)
    <3>1. n \in Nat \ {0} /\ DOMAIN q = 1 .. n
      BY <2>1, GoodIs DEF Good, IsSeq
    <3>2. /\ CheckOffsets(out.infos) /\ \A i \in DOMAIN out.infos : out.infos[i].offset % Align = 0
          /\ out.infos[Len(out.infos)].name = "d2t"
          /\ Len(out.bytes) = DataStart(out.infos) + DataSize(out.infos)
      BY <2>1, WholeTable
    <3>3. /\ \A i, j \in DOMAIN q : i < j => q[i] < q[j]
          /\ \A i \in DOMAIN q : q[i] \in 0 .. Rows - 1
      BY <2>1 DEF Good, Acceptable
    <3>4. Info(out.infos, "head").size = n * RowBytes
      BY <2>1, HeadRead
    <3>5. \A k \in 0 .. n - 1 : HeadRow(out, k) = SrcRow(q[k + 1])
      BY <2>1, HeadRead
    <3>6. \A name \in SampleTensors : Data(out, name) = TensorBytes(name, 0, Info(Src, name).size)
      BY <2>1, <3>1, SamplesAre, OtherRead
    <3>7. q[n] # n - 1 /\ HeadRow(out, n - 1) # SrcRow(n - 1)
      <4>1. q[n] \in Nat /\ q[n] > n - 1 /\ n - 1 \in Nat /\ n - 1 \in 0 .. n - 1 /\ n - 1 + 1 = n
        BY <2>1, <3>1, LastIsMoved
      <4>2. HeadRow(out, n - 1) = SrcRow(q[n])
        BY <3>5, <4>1
      <4>3. SrcRow(q[n]) # SrcRow(n - 1)
        <5> DEFINE a == q[n]
                   b == n - 1
        <5>1. a \in Nat /\ b \in Nat /\ a # b
          BY <4>1
        <5> HIDE DEF a, b
        <5>2. SrcRow(a) # SrcRow(b)
          BY <5>1, RowsDiffer
        <5> QED BY <5>2 DEF a, b
      <4> QED BY <4>1, <4>2, <4>3
    <3> HIDE DEF n
    <3>8. \A k \in SampleRows \cap (0 .. n - 1) : HeadRow(out, k) = SrcRow(q[k + 1])
      BY <3>5
    <3>9. q = Given(out)
      BY <2>4 DEF Given
    <3> QED BY <2>2, <3>2, <3>3, <3>4, <3>6, <3>7, <3>8, <3>9, Zenon DEF Validates, n
  <2> QED BY <2>2, <2>3, <2>4
<1> QED BY <1>1, VocabInvariant, PTL
----------------------------------------------------------------------------
(* Sets in their order, and sums over them.                                *)

\* What holds of a set when it holds of all that lack one more of its
\* elements, holds of every finite set.
LEMMA CardInduction ==
  ASSUME NEW S, IsFiniteSet(S), NEW A,
         \A s \in SUBSET S : (\A x \in s : s \ {x} \in A) => s \in A
  PROVE  SUBSET S \subseteq A
<1> DEFINE B == (SUBSET S) \ A
           N == {Cardinality(s) : s \in B}
<1> SUFFICES ASSUME B # {} PROVE FALSE
  OBVIOUS
<1>1. N \in SUBSET Nat /\ N # {}
  BY SubsetCard
<1>2. PICK m \in N : \A k \in N : m <= k
  BY <1>1, NatMin
<1>3. PICK s \in B : Cardinality(s) = m
  OBVIOUS
<1>4. PICK x \in s : s \ {x} \in B
  <2>1. s \in SUBSET S /\ s \notin A
    BY <1>3
  <2> QED BY <2>1
<1>5. Cardinality(s \ {x}) \in N /\ Cardinality(s \ {x}) = m - 1 /\ m \in Nat
  <2>1. IsFiniteSet(s) /\ m \in Nat
    BY <1>1, <1>3, FS_Subset
  <2> QED BY <1>3, <1>4, <2>1, FS_RemoveElement
<1> QED BY <1>2, <1>5

\* g lists the n elements of S in increasing order.
Lists(g, n, S) ==
  /\ n \in Nat /\ g \in [1 .. n -> S] /\ S = {g[k] : k \in 1 .. n}
  /\ \A j, k \in 1 .. n : j < k => g[j] < g[k]

LEMMA SortedIs ==
  ASSUME NEW S \in SUBSET Int, NEW n, NEW g, Lists(g, n, S)
  PROVE  Sorted(S) = g
<1> DEFINE Image(i) == {g[k] : k \in 1 .. i}
<1>1. /\ n \in Nat /\ g \in [1 .. n -> Int] /\ S = Image(n) /\ g = [k \in 1 .. n |-> g[k]]
      /\ \A j, k \in 1 .. n : j < k => g[j] < g[k]
  BY DEF Lists
<1>2. ASSUME NEW i \in 1 .. n PROVE {j \in S : j <= g[i]} = Image(i)
  <2>1. \A k \in 1 .. n : g[k] <= g[i] <=> k \in 1 .. i
    BY <1>1
  <2>2. \A k \in 1 .. i : k \in 1 .. n
    BY <1>1
  <2> QED BY <1>1, <2>1, <2>2
<1> DEFINE N == {i \in Nat : i <= n => IsFiniteSet(Image(i)) /\ Cardinality(Image(i)) = i}
<1>3. 0 \in N
  <2>1. Image(0) = {}
    OBVIOUS
  <2> QED BY <2>1, FS_EmptySet
<1>4. ASSUME NEW i \in N PROVE i + 1 \in N
  <2> SUFFICES ASSUME i + 1 <= n PROVE IsFiniteSet(Image(i + 1)) /\ Cardinality(Image(i + 1)) = i + 1
    OBVIOUS
  <2>1. i \in Nat /\ i <= n
    BY <1>1
  <2>2. IsFiniteSet(Image(i)) /\ Cardinality(Image(i)) = i
    BY <2>1
  <2>3. Image(i + 1) = Image(i) \cup {g[i + 1]}
    <3>1. 1 .. i + 1 = (1 .. i) \cup {i + 1}
      BY <2>1
    <3> QED BY <3>1
  <2>4. g[i + 1] \notin Image(i)
    <3>1. \A k \in 1 .. i : g[k] < g[i + 1] /\ g[k] \in Int
      BY <1>1, <2>1
    <3>2. g[i + 1] \in Int
      BY <1>1, <2>1
    <3> QED BY <3>1, <3>2
  <2> HIDE DEF Image
  <2> QED BY <2>1, <2>2, <2>3, <2>4, FS_AddElement
<1>5. \A i \in 1 .. n : Cardinality({j \in S : j <= g[i]}) = i
  <2>0. N \in SUBSET Nat
    OBVIOUS
  <2> HIDE DEF N
  <2>1. N = Nat
    BY <1>3, <1>4, <2>0, NatSetInduction
  <2> USE DEF N
  <2>2. \A i \in Nat : i <= n => Cardinality(Image(i)) = i
    BY <2>1
  <2> SUFFICES ASSUME NEW i \in 1 .. n PROVE Cardinality({j \in S : j <= g[i]}) = i
    OBVIOUS
  <2>3. i \in Nat /\ i <= n
    BY <1>1
  <2>4. Cardinality(Image(i)) = i
    <3> HIDE DEF Image
    <3> QED BY <2>2, <2>3
  <2> QED BY <1>2, <2>4, Zenon
<1>6. Cardinality(S) = n
  <2>0. N \in SUBSET Nat
    OBVIOUS
  <2> HIDE DEF N
  <2>1. N = Nat
    BY <1>3, <1>4, <2>0, NatSetInduction
  <2> USE DEF N
  <2>2. \A i \in Nat : i <= n => Cardinality(Image(i)) = i
    BY <2>1
  <2> HIDE DEF Image, N
  <2>3. n \in Nat /\ n <= n /\ S = Image(n)
    BY <1>1
  <2> QED BY <2>2, <2>3
<1>7. ASSUME NEW k \in 1 .. n
      PROVE  (CHOOSE i \in S : Cardinality({j \in S : j <= i}) = k) = g[k]
  <2> DEFINE Rank(i) == Cardinality({j \in S : j <= i})
  <2>1. g[k] \in S /\ Rank(g[k]) = k
    BY <1>1, <1>5
  <2>2. \A i \in S : Rank(i) = k => i = g[k]
    <3> SUFFICES ASSUME NEW i \in S, Rank(i) = k PROVE i = g[k]
      OBVIOUS
    <3>1. PICK l \in 1 .. n : i = g[l]
      BY <1>1
    <3>2. Rank(i) = l
      BY <1>5, <3>1
    <3> QED BY <3>1, <3>2
  <2> HIDE DEF Rank
  <2>3. (CHOOSE i \in S : Rank(i) = k) = g[k]
    BY <2>1, <2>2
  <2> QED BY <2>3 DEF Rank
<1> QED BY <1>1, <1>6, <1>7 DEF Sorted

LEMMA ListExists ==
  ASSUME NEW N \in Nat, NEW P \in SUBSET (1 .. N)
  PROVE  \E n, g : Lists(g, n, P)
<1> DEFINE M == {m \in Nat : m <= N => \E n, g : Lists(g, n, P \cap (1 .. m))}
<1>1. 0 \in M
  <2> DEFINE g == [k \in 1 .. 0 |-> 0]
  <2>1. Lists(g, 0, P \cap (1 .. 0))
    BY DEF Lists
  <2> QED BY <2>1
<1>2. ASSUME NEW m \in M PROVE m + 1 \in M
  <2> SUFFICES ASSUME m + 1 <= N PROVE \E n, g : Lists(g, n, P \cap (1 .. m + 1))
    OBVIOUS
  <2>1. m \in Nat /\ 1 .. m + 1 = (1 .. m) \cup {m + 1}
    OBVIOUS
  <2>2. PICK n, g : Lists(g, n, P \cap (1 .. m))
    BY <2>1
  <2>3. CASE m + 1 \notin P
    <3>1. P \cap (1 .. m + 1) = P \cap (1 .. m)
      BY <2>1, <2>3
    <3> QED BY <2>2, <3>1
  <2>4. CASE m + 1 \in P
    <3> DEFINE h == [k \in 1 .. n + 1 |-> IF k = n + 1 THEN m + 1 ELSE g[k]]
               Q == P \cap (1 .. m + 1)
    <3>1. /\ n \in Nat /\ Q = (P \cap (1 .. m)) \cup {m + 1}
          /\ g \in [1 .. n -> P \cap (1 .. m)] /\ P \cap (1 .. m) = {g[k] : k \in 1 .. n}
          /\ \A j, k \in 1 .. n : j < k => g[j] < g[k]
      BY <2>1, <2>2, <2>4 DEF Lists
    <3>2. /\ \A k \in 1 .. n : k # n + 1 /\ k \in 1 .. n + 1 /\ h[k] = g[k] /\ g[k] \in 1 .. m
          /\ n + 1 \in 1 .. n + 1 /\ h[n + 1] = m + 1 /\ 1 .. n + 1 = (1 .. n) \cup {n + 1}
      <4>1. n + 1 \in 1 .. n + 1 /\ 1 .. n + 1 = (1 .. n) \cup {n + 1}
        BY <3>1
      <4>2. \A k \in 1 .. n : k # n + 1 /\ k \in 1 .. n + 1
        BY <3>1
      <4>3. \A k \in 1 .. n : g[k] \in 1 .. m
        BY <3>1
      <4>4. h[n + 1] = m + 1
        BY <4>1
      <4>5. \A k \in 1 .. n : h[k] = g[k]
        BY <4>2
      <4> HIDE DEF h
      <4> QED BY <4>1, <4>2, <4>3, <4>4, <4>5
    <3>3. h \in [1 .. n + 1 -> Q]
      BY <3>1, <3>2
    <3>4. Q = {h[k] : k \in 1 .. n + 1}
      <4> HIDE DEF h
      <4> QED BY <3>1, <3>2
    <3>5. \A j, k \in 1 .. n + 1 : j < k => h[j] < h[k]
      <4> SUFFICES ASSUME NEW j \in 1 .. n + 1, NEW k \in 1 .. n + 1, j < k PROVE h[j] < h[k]
        OBVIOUS
      <4>1. j \in 1 .. n
        BY <3>1
      <4> HIDE DEF h
      <4>2. CASE k = n + 1
        BY <2>1, <3>2, <4>1, <4>2
      <4>3. CASE k \in 1 .. n
        BY <3>1, <3>2, <4>1, <4>3
      <4> QED BY <3>2, <4>2, <4>3
    <3>6. n + 1 \in Nat
      BY <3>1
    <3> HIDE DEF h, Q
    <3>7. Lists(h, n + 1, Q)
      BY <3>3, <3>4, <3>5, <3>6 DEF Lists
    <3> QED BY <3>7 DEF Q
  <2> QED BY <2>3, <2>4
<1>3. M = Nat
  <2>1. M \in SUBSET Nat
    OBVIOUS
  <2> HIDE DEF M
  <2> QED BY <1>1, <1>2, <2>1, NatSetInduction
<1>4. P \cap (1 .. N) = P
  OBVIOUS
<1>5. \E n, g : Lists(g, n, P \cap (1 .. N))
  <2>1. N \in M /\ N <= N
    BY <1>3
  <2> QED BY <2>1
<1> QED BY <1>4, <1>5

\* An increasing function of the elements keeps their order.
LEMMA ListMap ==
  ASSUME NEW P \in SUBSET Int, NEW n, NEW g, Lists(g, n, P), NEW f \in [P -> Int],
         \A p, q \in P : p < q => f[p] < f[q]
  PROVE  Lists([k \in 1 .. n |-> f[g[k]]], n, {f[p] : p \in P})
<1>1. /\ n \in Nat /\ g \in [1 .. n -> P] /\ P = {g[k] : k \in 1 .. n}
      /\ \A j, k \in 1 .. n : j < k => g[j] < g[k]
  BY DEF Lists
<1> DEFINE h == [k \in 1 .. n |-> f[g[k]]]
<1>2. \A k \in 1 .. n : h[k] = f[g[k]] /\ g[k] \in P
  BY <1>1
<1>3. {f[p] : p \in P} = {h[k] : k \in 1 .. n}
  <2>1. \A p \in P : \E k \in 1 .. n : p = g[k]
    BY <1>1
  <2> HIDE DEF h
  <2>2. ASSUME NEW p \in P PROVE \E k \in 1 .. n : f[p] = h[k]
    BY <1>2, <2>1
  <2>3. ASSUME NEW k \in 1 .. n PROVE \E p \in P : h[k] = f[p]
    BY <1>2
  <2>4. {f[p] : p \in P} \subseteq {h[k] : k \in 1 .. n}
    BY <2>2
  <2>5. {h[k] : k \in 1 .. n} \subseteq {f[p] : p \in P}
    BY <2>3
  <2> QED BY <2>4, <2>5
<1>4. \A j, k \in 1 .. n : j < k => h[j] < h[k]
  <2> SUFFICES ASSUME NEW j \in 1 .. n, NEW k \in 1 .. n, j < k PROVE h[j] < h[k]
    OBVIOUS
  <2>1. g[j] < g[k]
    BY <1>1
  <2> HIDE DEF h
  <2> QED BY <1>2, <2>1
<1>5. h \in [1 .. n -> {f[p] : p \in P}]
  BY <1>1, <1>2
<1> HIDE DEF h
<1>6. Lists(h, n, {f[p] : p \in P})
  BY <1>1, <1>3, <1>4, <1>5 DEF Lists
<1> QED BY <1>6 DEF h

----------------------------------------------------------------------------
(* Sums over fewer parts.                                                  *)

\* A sum over a set is the element's, whichever it is, and the others'.
Splits(it, S, f) == \A s \in SUBSET S : \A x \in s : it[s] = f[x] + it[s \ {x}]

LEMMA SumSplits ==
  ASSUME NEW S, IsFiniteSet(S), NEW f \in [S -> Int], NEW it, SumsOf(it, S, f)
  PROVE  Splits(it, S, f)
<1> DEFINE A == {t \in SUBSET S : \A y \in t : it[t] = f[y] + it[t \ {y}]}
<1>1. ASSUME NEW t \in SUBSET S, \A y \in t : t \ {y} \in A PROVE t \in A
  <2> SUFFICES ASSUME NEW y \in t PROVE it[t] = f[y] + it[t \ {y}]
    OBVIOUS
  <2>1. Pick(t) \in t /\ Rest(t) = t \ {Pick(t)} /\ it[t] = f[Pick(t)] + it[Rest(t)]
    BY RestSmaller DEF SumsOf, Rest
  <2>2. CASE y = Pick(t)
    BY <2>1, <2>2
  <2>3. CASE y # Pick(t)
    <3> DEFINE z == Pick(t)
               r == (t \ {y}) \ {z}
    <3>1. z \in t /\ z \in S /\ y \in S /\ r \in SUBSET S /\ y \in t \ {z} /\ z \in t \ {y} /\ (t \ {z}) \ {y} = r
      BY <2>1, <2>3
    <3>2. it[t \ {z}] = f[y] + it[r] /\ it[t \ {y}] = f[z] + it[r]
      <4>1. t \ {z} \in A /\ t \ {y} \in A
        BY <1>1, <3>1
      <4> HIDE DEF z
      <4> QED BY <3>1, <4>1
    <3>3. f[y] \in Int /\ f[z] \in Int /\ it[r] \in Int
      BY <3>1 DEF SumsOf
    <3>4. it[t] = f[z] + it[t \ {z}]
      BY <2>1
    <3> HIDE DEF z, r
    <3> QED BY <3>2, <3>3, <3>4
  <2> QED BY <2>2, <2>3
<1>2. SUBSET S \subseteq A
  <2> HIDE DEF A
  <2> QED BY <1>1, CardInduction
<1> QED BY <1>2 DEF Splits

\* The sum along a list that lacks an element is less than that of all.
LEMMA ListedSumLess ==
  ASSUME NEW S, IsFiniteSet(S), \A x \in S : x \in Int, NEW f, f \in [S -> Nat \ {0}],
         NEW P \in SUBSET S, P # S, NEW n, NEW g, Lists(g, n, P)
  PROVE  SumOver([k \in 1 .. n |-> f[g[k]]]) # SumOver(f)
<1> DEFINE h == [k \in 1 .. n |-> f[g[k]]]
           K == 1 .. n
           Image(i) == {g[k] : k \in 1 .. i}
<1>1. /\ n \in Nat /\ g \in [1 .. n -> P] /\ P = Image(n)
      /\ \A j, k \in 1 .. n : j < k => g[j] < g[k]
  BY DEF Lists
<1>g. n \in Nat /\ g \in [1 .. n -> S]
  <2> HIDE DEF Image
  <2> QED BY <1>1
<1>2. h \in [K -> Int] /\ IsFiniteSet(K) /\ f \in [S -> Int]
  <2>1. n \in Nat /\ \A k \in 1 .. n : g[k] \in S /\ f[g[k]] \in Int
    <3> HIDE DEF K, h, Image
    <3> QED BY <1>g
  <2>2. IsFiniteSet(1 .. n)
    BY <2>1, FS_Interval
  <2> QED BY <2>1, <2>2
<1>3. PICK F : SumsOf(F, S, f)
  BY <1>2, SumIs
<1>4. PICK H : SumsOf(H, K, h)
  <2> HIDE DEF h, K
  <2> QED BY <1>2, SumIs
<1>f. \A s \in SUBSET S : \A x \in s : F[s] = f[x] + F[s \ {x}]
  <2>1. f \in [S -> Int]
    BY <1>2
  <2>2. Splits(F, S, f)
    BY <1>3, <2>1, SumSplits
  <2> QED BY <2>2 DEF Splits
<1>h. \A s \in SUBSET K : \A x \in s : H[s] = h[x] + H[s \ {x}]
  <2> HIDE DEF h, K
  <2>1. h \in [K -> Int] /\ IsFiniteSet(K)
    BY <1>2
  <2>2. Splits(H, K, h)
    BY <1>4, <2>1, SumSplits
  <2> QED BY <2>2 DEF Splits
<1> DEFINE N == {i \in Nat : i <= n => H[1 .. i] = F[Image(i)]}
<1>5. 0 \in N
  <2>1. 1 .. 0 = {} /\ Image(0) = {} /\ {} \in SUBSET S /\ {} \in SUBSET K
    OBVIOUS
  <2>2. H[{}] = 0 /\ F[{}] = 0
    BY <1>3, <1>4, <2>1 DEF SumsOf
  <2> HIDE DEF Image
  <2> QED BY <2>1, <2>2
<1>6. ASSUME NEW i \in N PROVE i + 1 \in N
  <2> SUFFICES ASSUME i + 1 <= n PROVE H[1 .. i + 1] = F[Image(i + 1)]
    OBVIOUS
  <2>1. i \in Nat /\ i <= n /\ i + 1 \in 1 .. n
    BY <1>1
  <2>2. H[1 .. i] = F[Image(i)]
    BY <2>1
  <2>3. /\ 1 .. i + 1 \in SUBSET K /\ i + 1 \in 1 .. i + 1 /\ (1 .. i + 1) \ {i + 1} = 1 .. i
        /\ 1 .. i + 1 = (1 .. i) \cup {i + 1}
    <3>1. n \in Nat
      BY <1>1
    <3> QED BY <2>1, <3>1
  <2>4. H[1 .. i + 1] = h[i + 1] + H[1 .. i]
    <3> HIDE DEF h, K
    <3> QED BY <1>h, <2>3
  <2>5. \A k \in 1 .. i : g[k] < g[i + 1] /\ g[k] \in Int
    <3>1. \A k \in 1 .. i : k \in 1 .. n /\ k < i + 1
      BY <2>1, <1>1
    <3>2. g \in [1 .. n -> Int]
      BY <1>1
    <3> HIDE DEF Image
    <3> QED BY <1>1, <2>1, <3>1, <3>2
  <2>6. Image(i + 1) = Image(i) \cup {g[i + 1]}
    BY <2>3
  <2>7. g[i + 1] \notin Image(i)
    <3>1. g[i + 1] \in Int
      BY <1>1, <2>1
    <3> QED BY <2>5, <3>1
  <2>8. Image(i + 1) \in SUBSET S
    BY <1>1, <2>1
  <2>9. F[Image(i + 1)] = f[g[i + 1]] + F[Image(i)]
    <3> HIDE DEF Image
    <3>1. Image(i + 1) \ {g[i + 1]} = Image(i) /\ g[i + 1] \in Image(i + 1)
      BY <2>6, <2>7
    <3> QED BY <1>f, <2>8, <3>1
  <2>10. h[i + 1] = f[g[i + 1]]
    BY <2>1
  <2> HIDE DEF h, Image
  <2> QED BY <2>2, <2>4, <2>9, <2>10
<1>7. H[K] = F[P]
  <2>1. N \in SUBSET Nat
    OBVIOUS
  <2> HIDE DEF N
  <2>2. N = Nat
    BY <1>5, <1>6, <2>1, NatSetInduction
  <2>3. n \in N /\ n <= n
    BY <1>1, <2>2
  <2> HIDE DEF Image
  <2>4. H[1 .. n] = F[Image(n)]
    BY <2>3 DEF N
  <2> QED BY <1>1, <2>4
<1>8. PICK x \in S : x \notin P
  OBVIOUS
\* No set has a smaller sum than one of its subsets.
<1> DEFINE A == {t \in SUBSET S : F[t] \in Int /\ \A p \in SUBSET t : F[p] \in Int /\ F[p] <= F[t]}
<1>9. ASSUME NEW t \in SUBSET S, \A y \in t : t \ {y} \in A PROVE t \in A
  <2>0. \A p \in SUBSET S : F[p] \in Int
    BY <1>3 DEF SumsOf
  <2> SUFFICES ASSUME NEW p \in SUBSET t PROVE F[p] <= F[t]
    BY <2>0
  <2>1. CASE p = t
    BY <2>0, <2>1
  <2>2. CASE p # t
    <3>1. PICK y \in t : y \notin p
      BY <2>2
    <3>0. p \in SUBSET (t \ {y})
      BY <3>1
    <3>2. F[t] = f[y] + F[t \ {y}] /\ f[y] \in Nat
      BY <1>f
    <3>3. F[p] <= F[t \ {y}] /\ F[p] \in Int /\ F[t \ {y}] \in Int
      <4>1. t \ {y} \in A
        BY <1>9
      <4> QED BY <3>0, <4>1
    <3> QED BY <3>2, <3>3
  <2> QED BY <2>1, <2>2
<1>10. SUBSET S \subseteq A
  <2> HIDE DEF A
  <2> QED BY <1>9, CardInduction
<1>11. F[P] < F[S]
  <2>1. P \in SUBSET (S \ {x}) /\ S \ {x} \in A
    BY <1>8, <1>10
  <2>2. F[P] <= F[S \ {x}] /\ F[P] \in Int /\ F[S \ {x}] \in Int
    BY <2>1
  <2>3. F[S] = f[x] + F[S \ {x}] /\ f[x] \in Nat \ {0}
    BY <1>f, <1>8
  <2> QED BY <2>2, <2>3
<1>12. SumOver(h) = F[P] /\ SumOver(f) = F[S] /\ F[P] \in Int /\ F[S] \in Int
  <2> HIDE DEF h, K
  <2> QED BY <1>3, <1>4, <1>7 DEF SumsOf
<1> HIDE DEF h
<1>13. SumOver(h) # SumOver(f)
  BY <1>11, <1>12
<1> QED BY <1>13 DEF h

----------------------------------------------------------------------------
(* The placeholder's dict: a tensor for each of the parts P, in its slot.  *)

Tensor(p, s) == [part |-> p, suffix |-> s]

Placed(d, s, P, slot) ==
  /\ IsSeq(d, Len(d))
  /\ \A i \in 1 .. Len(d) : \E p \in P : d[i] = <<slot[p], Tensor(p, s)>>
  /\ \A p \in P : \E i \in 1 .. Len(d) : d[i] = <<slot[p], Tensor(p, s)>>

\* Increasing slots for the parts 1 .. n.
Slots(slot, n) ==
  /\ n \in Nat \ {0} /\ slot \in [1 .. n -> Int]
  /\ \A p, q \in 1 .. n : p < q => slot[p] < slot[q]

LEMMA PlacedReads ==
  ASSUME NEW n, NEW slot, Slots(slot, n), NEW P \in SUBSET (1 .. n), NEW d, NEW s, Placed(d, s, P, slot)
  PROVE  /\ SlotsOf(d) = {slot[p] : p \in P}
         /\ \A p \in P : At(d, slot[p]).part = p
         /\ d = <<>> <=> P = {}
<1>1. /\ DOMAIN d = 1 .. Len(d) /\ Len(d) \in Nat
      /\ \A i \in 1 .. Len(d) : \E p \in P : d[i] = <<slot[p], Tensor(p, s)>>
      /\ \A p \in P : \E i \in 1 .. Len(d) : d[i] = <<slot[p], Tensor(p, s)>>
  BY DEF Placed, IsSeq
<1>2. \A p, q \in P : slot[p] = slot[q] => p = q
  BY DEF Slots
<1>3. ASSUME NEW i \in 1 .. Len(d) PROVE \E p \in P : d[i][1] = slot[p] /\ d[i][2] = Tensor(p, s)
  <2>1. PICK p \in P : d[i] = <<slot[p], Tensor(p, s)>>
    BY <1>1
  <2>2. d[i][1] = slot[p] /\ d[i][2] = Tensor(p, s)
    BY <2>1
  <2> QED BY <2>2
<1>4. ASSUME NEW p \in P PROVE \E i \in 1 .. Len(d) : d[i][1] = slot[p] /\ d[i][2] = Tensor(p, s)
  <2>1. PICK i \in 1 .. Len(d) : d[i] = <<slot[p], Tensor(p, s)>>
    BY <1>1
  <2>2. d[i][1] = slot[p] /\ d[i][2] = Tensor(p, s)
    BY <2>1
  <2> QED BY <2>2
<1>d. DOMAIN d = 1 .. Len(d)
  BY <1>1
<1>5. SlotsOf(d) = {slot[p] : p \in P}
  <2>1. SlotsOf(d) = {d[i][1] : i \in 1 .. Len(d)}
    BY <1>d DEF SlotsOf
  <2>2. /\ \A i \in 1 .. Len(d) : \E p \in P : d[i][1] = slot[p]
        /\ \A p \in P : \E i \in 1 .. Len(d) : d[i][1] = slot[p]
    BY <1>3, <1>4
  <2> QED BY <2>1, <2>2
<1>6. ASSUME NEW p \in P PROVE At(d, slot[p]).part = p
  <2> DEFINE j == CHOOSE i \in DOMAIN d : d[i][1] = slot[p]
  <2>1. j \in DOMAIN d /\ d[j][1] = slot[p]
    BY <1>1, <1>4
  <2> HIDE DEF j
  <2>2. d[j][2] = Tensor(p, s)
    BY <1>1, <1>2, <1>3, <2>1
  <2>3. At(d, slot[p]) = d[j][2]
    BY DEF At, j
  <2> QED BY <2>2, <2>3 DEF Tensor
<1>7. d = <<>> <=> P = {}
  <2>1. d = [i \in 1 .. Len(d) |-> d[i]]
    BY DEF Placed, IsSeq
  <2>2. CASE Len(d) = 0
    <3>1. d = <<>>
      BY <2>1, <2>2
    <3> QED BY <1>4, <2>2, <3>1
  <2>3. CASE Len(d) # 0
    <3>1. 1 \in 1 .. Len(d)
      BY <1>1, <2>3
    <3>2. d # <<>>
      BY <2>3
    <3> QED BY <1>3, <3>1, <3>2
  <2> QED BY <2>2, <2>3
<1> QED BY <1>5, <1>6, <1>7

\* A part that comes is put behind the others.
LEMMA PlacedNext ==
  ASSUME NEW n, NEW slot, Slots(slot, n), NEW P \in SUBSET (1 .. n), NEW d, NEW s, Placed(d, s, P, slot),
         NEW q \in 1 .. n, q \notin P
  PROVE  Placed(Set(d, slot[q], Tensor(q, s)), s, P \cup {q}, slot)
<1> DEFINE new == <<slot[q], Tensor(q, s)>>
           e == Append(d, new)
<1>1. slot[q] \notin SlotsOf(d)
  <2>1. \A p \in P : slot[p] # slot[q]
    BY DEF Slots
  <2> QED BY <2>1, PlacedReads
<1>2. Set(d, slot[q], Tensor(q, s)) = e
  BY <1>1 DEF Set
<1>3. IsSeq(d, Len(d))
  BY DEF Placed
<1>4. /\ IsSeq(e, Len(d) + 1) /\ Len(d) \in Nat
      /\ \A i \in 1 .. Len(d) : e[i] = d[i]
      /\ e[Len(d) + 1] = new
  <2> DEFINE V == {d[i] : i \in 1 .. Len(d)} \cup {new}
  <2>1. d \in Seq(V) /\ new \in V /\ Len(d) \in Nat
    BY <1>3 DEF IsSeq
  <2> HIDE DEF V, new
  <2>2. Len(e) = Len(d) + 1 /\ e \in Seq(V) /\ e[Len(d) + 1] = new /\ \A i \in 1 .. Len(d) : e[i] = d[i]
    BY <2>1
  <2> HIDE DEF e
  <2>3. e = [i \in 1 .. Len(d) + 1 |-> e[i]]
    <3>1. e \in [1 .. Len(e) -> V]
      BY <2>2
    <3>2. e \in [1 .. Len(d) + 1 -> V]
      BY <2>2, <3>1
    <3> QED BY <3>2
  <2>4. Len(d) + 1 \in Nat /\ Len(e) = Len(d) + 1
    BY <2>1, <2>2
  <2>5. IsSeq(e, Len(d) + 1)
    BY <2>3, <2>4, Zenon DEF IsSeq
  <2> QED BY <2>1, <2>2, <2>5
<1> HIDE DEF e, new
<1>5. Len(e) = Len(d) + 1 /\ 1 .. Len(e) = (1 .. Len(d)) \cup {Len(d) + 1} /\ IsSeq(e, Len(e))
  BY <1>4 DEF IsSeq
<1>6. /\ \A i \in 1 .. Len(d) : \E p \in P : d[i] = <<slot[p], Tensor(p, s)>>
      /\ \A p \in P : \E i \in 1 .. Len(d) : d[i] = <<slot[p], Tensor(p, s)>>
  BY DEF Placed
<1>7. \A i \in 1 .. Len(e) : \E p \in P \cup {q} : e[i] = <<slot[p], Tensor(p, s)>>
  BY <1>4, <1>5, <1>6 DEF new
<1>8. \A p \in P \cup {q} : \E i \in 1 .. Len(e) : e[i] = <<slot[p], Tensor(p, s)>>
  BY <1>4, <1>5, <1>6 DEF new
<1>9. Placed(e, s, P \cup {q}, slot)
  BY <1>5, <1>7, <1>8 DEF Placed
<1> QED BY <1>2, <1>9

----------------------------------------------------------------------------
(* A layer and its tensors.                                                *)

PartCount == Len(L.sizes)

LEMMA LayerIs ==
  ASSUME layer \in DOMAIN Model
  PROVE  /\ PartCount \in Nat \ {0} /\ Parts = 1 .. PartCount
         /\ L.sizes \in [1 .. PartCount -> Nat \ {0}] /\ L.widths \in [1 .. PartCount -> Nat]
         /\ \A p \in Parts : L.widths[p] % 8 = 0
         /\ L.kind \in {"linear", "head", "embed"} /\ (L.kind = "linear" => L.given)
         /\ L.leaf = "qkv_proj" => PartCount = 3
         /\ L.leaf \in {"gate_up_proj", "in_proj_qkvz"} => PartCount = 2
         /\ L.kind = "embed" \/ L.leaf \notin {"qkv_proj", "gate_up_proj", "in_proj_qkvz"} => PartCount = 1
         /\ L.markers \subseteq {"mcg", "mul1"}
BY ModelAssumption DEF L, Parts, PartCount

\* The slot of each part, under the method the layer has.
Places ==
  [p \in Parts |-> IF method \in {"none", "UnquantizedLinearMethod"} THEN p ELSE Slot(ShardId(p))]

LEMMA NamedSlot ==
  ASSUME NEW p \in 1 .. 3
  PROVE  Slot([form |-> "name", id |-> <<"q", "k", "v">>[p]]) = p - 1
<1> DEFINE names == <<"q", "k", "v">>
           id == [form |-> "name", id |-> names[p]]
           group == CHOOSE s \in ToSet(SHARD_IDS) : id.id \in ToSet(s)
           j == CHOOSE i \in DOMAIN group : group[i] = id.id
<1>1. DOMAIN names = 1 .. 3 /\ names[1] = "q" /\ names[2] = "k" /\ names[3] = "v"
  OBVIOUS
<1>2. \A a, b \in 1 .. 3 : names[a] = names[b] => a = b
  <2>1. \A a \in 1 .. 3 : a = 1 \/ a = 2 \/ a = 3
    OBVIOUS
  <2> QED BY <1>1, <2>1
<1>3. ToSet(SHARD_IDS) = {names}
  BY DEF ToSet, SHARD_IDS
<1>4. names[p] \in ToSet(names)
  BY <1>1 DEF ToSet
<1>5. id.id = names[p] /\ id.form = "name"
  OBVIOUS
<1> HIDE DEF names
<1>6. group = names
  BY <1>3, <1>4, <1>5
<1>7. j = p
  <2>1. \A a \in DOMAIN group : group[a] = id.id => a = p
    BY <1>1, <1>2, <1>5, <1>6
  <2>2. p \in DOMAIN group /\ group[p] = id.id
    BY <1>1, <1>5, <1>6
  <2> HIDE DEF group, id
  <2> QED BY <2>1, <2>2
<1>8. Slot(id) = j - 1
  BY <1>5 DEF Slot
<1> QED BY <1>7, <1>8 DEF names

LEMMA SlotsAre ==
  ASSUME layer \in DOMAIN Model
  PROVE  Slots(Places, PartCount)
<1> DEFINE n == PartCount
<1>1. /\ n \in Nat \ {0} /\ Parts = 1 .. n
      /\ L.leaf = "qkv_proj" => n = 3
      /\ L.leaf \in {"gate_up_proj", "in_proj_qkvz"} => n = 2
      /\ L.leaf \notin {"qkv_proj", "gate_up_proj", "in_proj_qkvz"} => n = 1
  BY LayerIs
<1> HIDE DEF n
<1>2. CASE method \in {"none", "UnquantizedLinearMethod"}
  <2>1. Places = [p \in 1 .. n |-> p]
    BY <1>1, <1>2 DEF Places
  <2> QED BY <1>1, <2>1 DEF Slots, n
<1>3. CASE ~(method \in {"none", "UnquantizedLinearMethod"})
  <2>1. Places = [p \in 1 .. n |-> Slot(ShardId(p))]
    BY <1>1, <1>3 DEF Places
  <2>2. CASE L.leaf = "qkv_proj"
    <3>1. \A p \in 1 .. n : Slot(ShardId(p)) = p - 1
      <4> SUFFICES ASSUME NEW p \in 1 .. 3 PROVE Slot(ShardId(p)) = p - 1
        BY <1>1, <2>2
      <4>1. ShardId(p) = [form |-> "name", id |-> <<"q", "k", "v">>[p]]
        BY <2>2 DEF ShardId
      <4> QED BY <4>1, NamedSlot
    <3>2. Places = [p \in 1 .. n |-> p - 1]
      BY <2>1, <3>1
    <3> QED BY <1>1, <3>2 DEF Slots, n
  <2>3. CASE L.leaf = "gate_up_proj"
    <3>1. \A p \in 1 .. n : Slot(ShardId(p)) = p - 1
      BY <2>3 DEF ShardId, Slot
    <3>2. Places = [p \in 1 .. n |-> p - 1]
      BY <2>1, <3>1
    <3> QED BY <1>1, <3>2 DEF Slots, n
  <2>4. CASE L.leaf = "in_proj_qkvz"
    <3>1. Slot(ShardId(1)) = 0 /\ Slot(ShardId(2)) = 3
      BY <2>4 DEF ShardId, Slot
    <3>2. n = 2
      BY <1>1, <2>4
    <3>3. Places = [p \in 1 .. n |-> IF p = 1 THEN 0 ELSE 3]
      BY <2>1, <3>1, <3>2
    <3>4. Places \in [1 .. n -> Int] /\ \A p, q \in 1 .. n : p < q => p = 1 /\ q = 2
      BY <3>2, <3>3
    <3>5. Places[1] = 0 /\ Places[2] = 3
      BY <3>2, <3>3
    <3>6. \A p, q \in 1 .. n : p < q => Places[p] < Places[q]
      <4>1. \A p, q \in 1 .. n : p < q => Places[p] = 0 /\ Places[q] = 3
        BY <3>4, <3>5
      <4> QED BY <4>1
    <3> QED BY <1>1, <3>4, <3>6 DEF Slots, n
  <2>5. CASE L.leaf \notin {"qkv_proj", "gate_up_proj", "in_proj_qkvz"}
    <3>1. Slot(ShardId(1)) = 0 /\ n = 1
      BY <1>1, <2>5 DEF ShardId, Slot
    <3>2. Places = [p \in 1 .. n |-> 0]
      BY <2>1, <3>1
    <3> QED BY <1>1, <3>1, <3>2 DEF Slots, n
  <2> QED BY <2>2, <2>3, <2>4, <2>5
<1> QED BY <1>2, <1>3

LEMMA TensorsAre ==
  /\ \A t \in Tensors : \E p \in Parts : \E s \in StoredAs(p) : t = Tensor(p, s)
  /\ \A p \in Parts : \A s : Tensor(p, s) \in Tensors <=> s \in StoredAs(p)
  /\ \A p, q, s, r : Tensor(p, s) = Tensor(q, r) => p = q /\ s = r
  /\ \A p, s : Tensor(p, s).part = p /\ Tensor(p, s).suffix = s
<1>1. \A p, q, s, r : Tensor(p, s) = Tensor(q, r) => p = q /\ s = r
  <2> TAKE p, q, s, r
  <2>1. Tensor(p, s).part = p /\ Tensor(p, s).suffix = s /\ Tensor(q, r).part = q /\ Tensor(q, r).suffix = r
    BY DEF Tensor
  <2> QED BY <2>1
<1>2. Tensors = UNION {{Tensor(p, s) : s \in StoredAs(p)} : p \in Parts}
  BY DEF Tensors, Tensor
<1>3. \A t : t \in Tensors <=> \E p \in Parts : \E s \in StoredAs(p) : t = Tensor(p, s)
  BY <1>2
<1>4. \A p, s : Tensor(p, s).part = p /\ Tensor(p, s).suffix = s
  BY DEF Tensor
<1> QED BY <1>1, <1>3, <1>4

\* The parts of a suffix that the pack has, and of those what has come.
There(s) == {p \in Parts : Tensor(p, s) \in Tensors \ lost}
Come(s)  == {p \in Parts : Tensor(p, s) \in (Tensors \ lost) \ pending}

Forms == IF L.kind = "embed" THEN {"int8", "dense"} ELSE {"trellis", "dense"}

\* What suffixes a part has.
LEMMA SuffixesAre ==
  ASSUME layer \in DOMAIN Model, forms \in [Parts -> Forms], NEW p \in Parts
  PROVE  /\ forms[p] = "trellis" => StoredAs(p) = {"trellis", "suh", "svh"} \cup L.markers
         /\ forms[p] = "int8" => StoredAs(p) = {"qweight", "scales"}
         /\ forms[p] = "dense" => StoredAs(p) = {"weight"}
         /\ forms[p] \in Forms
BY DEF StoredAs

\* A loss is of no marker.
LEMMA LostIs ==
  ASSUME lost \in Losses
  PROVE  lost \subseteq Tensors /\ \A t \in lost : t.suffix \notin {"mcg", "mul1"}
BY DEF Losses

----------------------------------------------------------------------------
(* What a layer is accepted with, and that it serves what the pack has.    *)

DenseParts(y, fs, lst) ==
  {p \in 1 .. Len(Model[y].sizes) : fs[p] = "dense" /\ Tensor(p, "weight") \notin lst}

WholeShard(y, p) ==
  [trellis |-> p, suh |-> p, svh |-> p, markers |-> Model[y].markers,
   twice_k |-> TwiceK(Model[y].widths[p]), oc |-> Model[y].sizes[p]]

DenseList(g, n) == [k \in 1 .. n |-> [dense |-> g[k]]]

\* The list is that of the dense parts that were found, or of all parts.
Right(list, y, fs, lst) ==
  \/ \E n, g : Lists(g, n, DenseParts(y, fs, lst)) /\ list = DenseList(g, n)
  \/ Len(Model[y].sizes) = 1 /\ list = [k \in 1 .. 1 |-> [int8 |-> k]]
  \/ list = [p \in 1 .. Len(Model[y].sizes) |-> WholeShard(y, p)]

LEMMA AllListed ==
  ASSUME NEW n \in Nat
  PROVE  Lists([k \in 1 .. n |-> k], n, 1 .. n)
<1> DEFINE g == [k \in 1 .. n |-> k]
<1>1. /\ g \in [1 .. n -> 1 .. n] /\ \A j, k \in 1 .. n : j < k => g[j] < g[k]
      /\ \A k \in 1 .. n : g[k] = k
  OBVIOUS
<1> HIDE DEF g
<1>2. 1 .. n = {g[k] : k \in 1 .. n}
  BY <1>1
<1>3. Lists(g, n, 1 .. n)
  BY <1>1, <1>2 DEF Lists
<1> QED BY <1>3 DEF g

LEMMA WholeGemm ==
  ASSUME layer \in DOMAIN Model, NEW p \in Parts, NEW rows
  PROVE  Gemm(WholeShard(layer, p), rows) = Outputs(p)
<1> DEFINE s == WholeShard(layer, p)
<1>1. /\ "trellis" \in DOMAIN s /\ s.trellis = p /\ s.suh = p /\ s.svh = p /\ s.markers = L.markers
      /\ s.twice_k = L.widths[p] \div 8
  BY DEF WholeShard, L, TwiceK
<1>2. L.widths[p] \in Nat /\ L.widths[p] % 8 = 0
  BY LayerIs
<1>3. 8 * (L.widths[p] \div 8) = L.widths[p]
  BY <1>2
<1> HIDE DEF s
<1>4. Gemm(s, rows) = ShardGemm(s, rows)
  BY <1>1 DEF Gemm
<1>5. ShardGemm(s, rows) = Outputs(p)
  BY <1>1, <1>3 DEF ShardGemm
<1> QED BY <1>4, <1>5 DEF s

LEMMA RightServes ==
  ASSUME layer \in DOMAIN Model, forms \in [Parts -> Forms], Right(loaded, layer, forms, lost)
  PROVE  ServedAsPacked
<1> DEFINE dense == \A k \in DOMAIN loaded : "dense" \in DOMAIN loaded[k]
           found == {p \in Parts : dense => [part |-> p, suffix |-> "weight"] \in Tensors \ lost}
           order == Sorted(found)
           Same == \A rows : [k \in DOMAIN loaded |-> Gemm(loaded[k], rows)]
                              = [k \in DOMAIN order |-> Outputs(order[k])]
           n == PartCount
<1>1. n \in Nat \ {0} /\ Parts = 1 .. n /\ n = Len(Model[layer].sizes)
  BY LayerIs DEF PartCount, L
<1>2. Same
  <2>1. ASSUME NEW m, NEW g, Lists(g, m, DenseParts(layer, forms, lost)),
               loaded = DenseList(g, m)
        PROVE  Same
    <3>0. loaded = [k \in 1 .. m |-> [dense |-> g[k]]]
      BY <2>1 DEF DenseList
    <3>1. dense
      BY <3>0
    <3>2. found = DenseParts(layer, forms, lost)
      <4>1. \A p \in Parts : Tensor(p, "weight") \in Tensors <=> forms[p] = "dense"
        <5> SUFFICES ASSUME NEW p \in Parts PROVE "weight" \in StoredAs(p) <=> forms[p] = "dense"
          BY TensorsAre
        <5>1. forms[p] \in {"trellis", "int8", "dense"}
          BY SuffixesAre DEF Forms
        <5>2. L.markers \subseteq {"mcg", "mul1"}
          BY LayerIs
        <5> QED BY <5>1, <5>2, SuffixesAre
      <4>2. found = {p \in Parts : Tensor(p, "weight") \in Tensors \ lost}
        <5> HIDE DEF dense
        <5> QED BY <3>1 DEF Tensor
      <4> QED BY <1>1, <4>1, <4>2 DEF DenseParts
    <3>3. order = g
      <4>1. DenseParts(layer, forms, lost) \in SUBSET Int
        BY <1>1 DEF DenseParts
      <4> HIDE DEF found
      <4> QED BY <2>1, <3>2, <4>1, SortedIs
    <3>4. m \in Nat /\ DOMAIN g = 1 .. m /\ DOMAIN loaded = 1 .. m
      BY <2>1, <3>0 DEF Lists
    <3>5. \A k \in 1 .. m : \A rows : Gemm(loaded[k], rows) = Outputs(g[k])
      BY <3>0 DEF Gemm
    <3> HIDE DEF order, found, dense
    <3> QED BY <3>3, <3>4, <3>5
  <2>2. ASSUME n = 1, loaded = [k \in 1 .. 1 |-> [int8 |-> k]]
        PROVE  Same
    <3>1. ~dense /\ DOMAIN loaded = 1 .. 1
      <4>1. 1 \in 1 .. 1 /\ DOMAIN loaded = 1 .. 1 /\ "dense" \notin DOMAIN loaded[1]
        BY <2>2
      <4> QED BY <4>1
    <3>2. found = 1 .. 1
      <4> HIDE DEF dense
      <4> QED BY <1>1, <2>2, <3>1
    <3>3. order = [k \in 1 .. 1 |-> k]
      <4>1. Lists([k \in 1 .. n |-> k], n, 1 .. n) /\ 1 .. n \in SUBSET Int
        BY <1>1, AllListed
      <4> HIDE DEF found, n
      <4>2. Sorted(1 .. n) = [k \in 1 .. n |-> k]
        BY <4>1, SortedIs
      <4> QED BY <2>2, <3>2, <4>2
    <3>4. \A k \in 1 .. 1 : \A rows : Gemm(loaded[k], rows) = Outputs(k)
      BY <2>2 DEF Gemm
    <3> HIDE DEF order, found, dense
    <3> QED BY <3>1, <3>3, <3>4
  <2>3. ASSUME loaded = [p \in 1 .. n |-> WholeShard(layer, p)]
        PROVE  Same
    <3>1. ~dense /\ DOMAIN loaded = 1 .. n
      <4>1. 1 \in 1 .. n /\ DOMAIN loaded = 1 .. n
        BY <1>1, <2>3
      <4>2. "dense" \notin DOMAIN loaded[1]
        BY <2>3, <4>1 DEF WholeShard
      <4> QED BY <4>1, <4>2
    <3>2. found = 1 .. n
      <4> HIDE DEF dense
      <4> QED BY <1>1, <3>1
    <3>3. order = [k \in 1 .. n |-> k]
      <4>1. Lists([k \in 1 .. n |-> k], n, 1 .. n) /\ 1 .. n \in SUBSET Int
        BY <1>1, AllListed
      <4> HIDE DEF found, n
      <4> QED BY <3>2, <4>1, SortedIs
    <3>4. \A k \in 1 .. n : \A rows : Gemm(loaded[k], rows) = Outputs(k)
      <4> SUFFICES ASSUME NEW k \in 1 .. n, NEW rows PROVE Gemm(loaded[k], rows) = Outputs(k)
        OBVIOUS
      <4>1. loaded[k] = WholeShard(layer, k) /\ k \in Parts
        BY <1>1, <2>3
      <4> QED BY <4>1, WholeGemm
    <3> HIDE DEF order, found, dense
    <3> QED BY <3>1, <3>3, <3>4
  <2> HIDE DEF dense, found, order, Same
  <2> QED BY <1>1, <2>1, <2>2, <2>3 DEF Right
<1> QED BY <1>2 DEF ServedAsPacked, Apply

----------------------------------------------------------------------------
(* The invariant of the loader.                                            *)

Mixed(y, fs) == Cardinality({fs[p] : p \in 1 .. Len(Model[y].sizes)}) # 1

PackInv == layer \in DOMAIN Model /\ forms \in [Parts -> Forms] /\ lost \in Losses

\* What has been handed over is in its slot under its suffix.
LoadingInv ==
  /\ patched /\ method = GetQuantMethod /\ DOMAIN shards = Placeholders(method)
  /\ pending \subseteq Tensors \ lost
  /\ \A s \in DOMAIN shards : Placed(shards[s], s, Come(s), Places)

LoadInv ==
  /\ PackInv
  /\ load_stage = "start" => pending = Tensors \ lost
  /\ load_stage = "loading" => LoadingInv
  /\ load_stage = "refused" => lost # {} \/ Mixed(layer, forms)
  /\ load_stage = "ready" => Right(loaded, layer, forms, lost)

LEMMA PackKept ==
  ASSUME UNCHANGED pack
  PROVE  L' = L /\ Parts' = Parts /\ Tensors' = Tensors /\ Losses' = Losses /\ Forms' = Forms
<1>1. L' = L /\ Parts' = Parts /\ forms' = forms
  BY DEF pack, L, Parts
<1>2. Tensors' = Tensors
  BY <1>1 DEF Tensors, StoredAs
<1> QED BY <1>1, <1>2 DEF Losses, Forms

LEMMA PackInvKept ==
  ASSUME PackInv, UNCHANGED pack
  PROVE  PackInv'
<1>1. layer' = layer /\ forms' = forms /\ lost' = lost
  BY DEF pack
<1> QED BY <1>1, PackKept DEF PackInv

LEMMA LoadBase == LoadInit => LoadInv
<1> SUFFICES ASSUME LoadInit PROVE LoadInv
  OBVIOUS
<1> QED BY DEF LoadInit, LoadInv, PackInv, Forms

\* The methods that a layer can have.
LEMMA MethodIs ==
  ASSUME PackInv, LoadingInv
  PROVE  \/ L.kind \in {"linear", "head"} /\ method = "Exl3LinearMethod"
         \/ L.kind = "embed" /\ method = "Exl3EmbeddingMethod" /\ PartCount = 1
         \/ /\ L.kind = "linear" /\ method = "UnquantizedLinearMethod"
            /\ \A p \in Parts : forms[p] = "dense"
<1>1. L.kind \in {"linear", "head", "embed"} /\ (L.kind = "linear" => L.given) /\ (L.kind = "embed" => PartCount = 1)
  BY LayerIs DEF PackInv
<1>2. HasConfig
  BY <1>1 DEF HasConfig, LoadingInv
<1>3. CASE QuantizedParts = {} /\ manifest /\ L.kind = "linear"
  <2>1. \A p \in Parts : forms[p] \in {"trellis", "dense"}
    BY <1>3 DEF PackInv, Forms
  <2>2. \A p \in Parts : forms[p] = "dense"
    BY <1>3, <2>1 DEF QuantizedParts
  <2>3. method = "UnquantizedLinearMethod"
    BY <1>2, <1>3 DEF LoadingInv, GetQuantMethod
  <2> QED BY <1>3, <2>2, <2>3
<1>4. CASE ~(QuantizedParts = {} /\ manifest) /\ L.kind = "linear"
  BY <1>2, <1>4 DEF LoadingInv, GetQuantMethod
<1>5. CASE L.kind # "linear"
  BY <1>1, <1>2, <1>5 DEF LoadingInv, GetQuantMethod
<1> QED BY <1>3, <1>4, <1>5

\* So every tensor of the pack has its placeholder.
LEMMA Awaited ==
  ASSUME PackInv, LoadingInv, NEW p \in Parts, NEW s \in StoredAs(p)
  PROVE  s \in DOMAIN shards
<1>1. DOMAIN shards = Placeholders(method) /\ layer \in DOMAIN Model /\ forms \in [Parts -> Forms]
  BY DEF LoadingInv, PackInv
<1>2. L.markers \subseteq {"mcg", "mul1"}
  BY <1>1, LayerIs
<1>3. CASE L.kind \in {"linear", "head"} /\ method = "Exl3LinearMethod"
  BY <1>1, <1>2, <1>3, SuffixesAre DEF Forms, Placeholders
<1>4. CASE L.kind = "embed" /\ method = "Exl3EmbeddingMethod"
  BY <1>1, <1>4, SuffixesAre DEF Forms, Placeholders
<1>5. CASE method = "UnquantizedLinearMethod" /\ forms[p] = "dense"
  BY <1>1, <1>5, SuffixesAre DEF Placeholders
<1> QED BY <1>3, <1>4, <1>5, MethodIs

LEMMA RegisterStep ==
  ASSUME LoadInv, RegisterPlugin
  PROVE  LoadInv'
<1>1. PackInv' /\ UNCHANGED pack /\ Tensors' = Tensors
  BY PackInvKept, PackKept DEF LoadInv, RegisterPlugin
<1>2. lost' = lost /\ pending' = pending /\ load_stage' \in {"start", "failed"} /\ load_stage = "start"
  BY DEF RegisterPlugin, pack
<1> QED BY <1>1, <1>2 DEF LoadInv

LEMMA ConstructStep ==
  ASSUME LoadInv, Construct
  PROVE  LoadInv'
<1>1. PackInv' /\ UNCHANGED pack /\ L' = L /\ Parts' = Parts /\ Tensors' = Tensors
  BY PackInvKept, PackKept DEF LoadInv, Construct
<1>2. /\ lost' = lost /\ pending' = pending /\ pending = Tensors \ lost /\ load_stage' = "loading"
      /\ patched' = patched /\ patched /\ manifest' = manifest /\ forms' = forms
      /\ method' = GetQuantMethod /\ shards' = [s \in Placeholders(method') |-> <<>>]
  BY DEF Construct, pack, LoadInv
<1>3. GetQuantMethod' = GetQuantMethod
  BY <1>1, <1>2 DEF GetQuantMethod, HasConfig, QuantizedParts
<1>4. ASSUME NEW s \in DOMAIN shards' PROVE Placed(shards[s], s, Come(s), Places)'
  <2>1. Come(s)' = {}
    BY <1>1, <1>2 DEF Come
  <2>2. shards'[s] = <<>>
    BY <1>2
  <2>3. \A f : Placed(<<>>, s, {}, f)
    BY DEF Placed, IsSeq
  <2> QED BY <2>1, <2>2, <2>3
<1>5. LoadingInv'
  BY <1>1, <1>2, <1>3, <1>4 DEF LoadingInv
<1> QED BY <1>1, <1>2, <1>5 DEF LoadInv

LEMMA CaptureStep ==
  ASSUME LoadInv, NEW t \in pending, Capture(t)
  PROVE  LoadInv'
<1>1. PackInv /\ LoadingInv /\ UNCHANGED pack /\ PackInv' /\ L' = L /\ Parts' = Parts /\ Tensors' = Tensors
  BY PackInvKept, PackKept DEF LoadInv, Capture
<1>2. t \in Tensors \ lost
  BY <1>1 DEF LoadingInv
<1>a. PICK q \in Parts : \E r \in StoredAs(q) : t = Tensor(q, r)
  BY <1>2, TensorsAre
<1>3. PICK s \in StoredAs(q) : t = Tensor(q, s)
  BY <1>a
<1>4. s \in DOMAIN shards /\ t.suffix = s /\ t.part = q
  BY <1>1, <1>3, Awaited, TensorsAre
<1>5. /\ load_stage' = "loading" /\ pending' = pending \ {t} /\ method' = method /\ patched' = patched
      /\ shards' = [shards EXCEPT ![s] = Set(@, Places[q], t)]
      /\ lost' = lost /\ manifest' = manifest /\ forms' = forms /\ layer' = layer
  <2>1. Places[q] = IF method \in {"none", "UnquantizedLinearMethod"} THEN t.part ELSE Slot(ShardId(t.part))
    BY <1>4 DEF Places
  <2> QED BY <1>1, <1>4, <2>1 DEF Capture, pack
<1>6. GetQuantMethod' = GetQuantMethod
  BY <1>1, <1>5 DEF GetQuantMethod, HasConfig, QuantizedParts
<1>7. Places' = Places
  BY <1>1, <1>5 DEF Places, ShardId
<1>8. \A r : Come(r)' = IF r = s THEN Come(s) \cup {q} ELSE Come(r)
  <2> TAKE r
  <2>1. \A p \in Parts : Tensor(p, r) = t <=> p = q /\ r = s
    BY <1>3, TensorsAre
  <2> QED BY <1>1, <1>2, <1>3, <1>5, <2>1 DEF Come
<1>9. q \notin Come(s)
  BY <1>3 DEF Come
<1>10. Slots(Places, PartCount) /\ Parts = 1 .. PartCount
  BY <1>1, SlotsAre, LayerIs DEF PackInv
<1>11. ASSUME NEW r \in DOMAIN shards' PROVE Placed(shards[r], r, Come(r), Places)'
  <2>1. r \in DOMAIN shards /\ Placed(shards[r], r, Come(r), Places)
    BY <1>1, <1>5 DEF LoadingInv
  <2>2. CASE r # s
    <3>1. shards'[r] = shards[r] /\ Come(r)' = Come(r)
      BY <1>5, <1>8, <2>1, <2>2
    <3> QED BY <1>7, <2>1, <3>1
  <2>3. CASE r = s
    <3>1. shards'[r] = Set(shards[s], Places[q], Tensor(q, s)) /\ Come(r)' = Come(s) \cup {q}
      BY <1>3, <1>5, <1>8, <2>1, <2>3
    <3>2. Come(s) \in SUBSET (1 .. PartCount) /\ q \in 1 .. PartCount
      BY <1>10 DEF Come
    <3>3. Placed(Set(shards[s], Places[q], Tensor(q, s)), s, Come(s) \cup {q}, Places)
      BY <1>9, <1>10, <2>1, <2>3, <3>2, PlacedNext
    <3> QED BY <1>7, <2>3, <3>1, <3>3
  <2> QED BY <2>2, <2>3
<1>12. LoadingInv'
  <2>1. DOMAIN shards' = DOMAIN shards
    BY <1>5
  <2> QED BY <1>1, <1>5, <1>6, <1>11, <2>1 DEF LoadingInv
<1> QED BY <1>1, <1>5, <1>12 DEF LoadInv

----------------------------------------------------------------------------
(* What the layer makes of its placeholders once nothing is pending.       *)

\* Every placeholder has what the pack has of it.
Complete ==
  /\ PackInv /\ LoadingInv /\ pending = {}
  /\ Slots(Places, PartCount)

\* The tensors of a placeholder, by their slots.
Reads(s) ==
  /\ SlotsOf(shards[s]) = {Places[p] : p \in There(s)}
  /\ \A p \in There(s) : At(shards[s], Places[p]).part = p
  /\ shards[s] = <<>> <=> There(s) = {}

LEMMA ReadsIs ==
  ASSUME Complete, NEW s \in DOMAIN shards
  PROVE  Reads(s)
<1>1. Placed(shards[s], s, Come(s), Places) /\ Slots(Places, PartCount)
  BY DEF Complete, LoadingInv
<1>2. Come(s) = There(s)
  BY DEF Come, There, Complete
<1>3. There(s) \in SUBSET (1 .. PartCount)
  BY LayerIs DEF There, Complete, PackInv
<1> QED BY <1>1, <1>2, <1>3, PlacedReads DEF Reads

LEMMA ThereIs ==
  ASSUME PackInv
  PROVE  /\ PartCount \in Nat \ {0} /\ Parts = 1 .. PartCount /\ PartCount = Len(Model[layer].sizes)
         /\ \A s : There(s) \in SUBSET (1 .. PartCount)
         /\ There("trellis") \subseteq {p \in Parts : forms[p] = "trellis"}
         /\ There("weight") = DenseParts(layer, forms, lost)
<1>1. layer \in DOMAIN Model /\ forms \in [Parts -> Forms]
  BY DEF PackInv
<1>2. PartCount \in Nat \ {0} /\ Parts = 1 .. PartCount /\ PartCount = Len(Model[layer].sizes)
  BY <1>1, LayerIs DEF PartCount, L
<1>3. \A p \in Parts : /\ "weight" \in StoredAs(p) <=> forms[p] = "dense"
                       /\ "trellis" \in StoredAs(p) <=> forms[p] = "trellis"
  <2> SUFFICES ASSUME NEW p \in Parts
               PROVE  /\ "weight" \in StoredAs(p) <=> forms[p] = "dense"
                      /\ "trellis" \in StoredAs(p) <=> forms[p] = "trellis"
    OBVIOUS
  <2>1. forms[p] \in {"trellis", "int8", "dense"} /\ L.markers \subseteq {"mcg", "mul1"}
    BY <1>1, LayerIs, SuffixesAre DEF Forms
  <2> QED BY <1>1, <2>1, SuffixesAre
<1>4. There("weight") = {p \in Parts : forms[p] = "dense" /\ Tensor(p, "weight") \notin lost}
  BY <1>3, TensorsAre DEF There
<1>5. There("trellis") \subseteq {p \in Parts : forms[p] = "trellis"}
  BY <1>3, TensorsAre DEF There
<1>6. \A s : There(s) \in SUBSET (1 .. PartCount)
  BY <1>2 DEF There
<1> QED BY <1>2, <1>4, <1>5, <1>6 DEF DenseParts

\* sorted(shards) follows the parts.
LEMMA OrderIs ==
  ASSUME Complete, NEW s \in DOMAIN shards, NEW n, NEW g, Lists(g, n, There(s))
  PROVE  Sorted(SlotsOf(shards[s])) = [k \in 1 .. n |-> Places[g[k]]]
<1> DEFINE P == There(s)
           f == [p \in P |-> Places[p]]
<1>1. P \in SUBSET (1 .. PartCount) /\ PackInv
  BY ThereIs DEF Complete
<1>2. Slots(Places, PartCount)
  BY DEF Complete
<1>3. f \in [P -> Int] /\ (\A p, q \in P : p < q => f[p] < f[q]) /\ P \in SUBSET Int
  <2> HIDE DEF P
  <2> QED BY <1>1, <1>2 DEF Slots
<1>4. \A p \in P : f[p] = Places[p]
  OBVIOUS
<1>5. n \in Nat /\ g \in [1 .. n -> P]
  BY DEF Lists
<1> HIDE DEF f
<1>6. Lists([k \in 1 .. n |-> f[g[k]]], n, {f[p] : p \in P})
  <2> HIDE DEF P
  <2>1. Lists(g, n, P)
    BY DEF P
  <2> QED BY <1>3, <2>1, ListMap
<1>7. {f[p] : p \in P} = SlotsOf(shards[s])
  BY <1>4, ReadsIs DEF Reads
<1>8. [k \in 1 .. n |-> f[g[k]]] = [k \in 1 .. n |-> Places[g[k]]]
  <2> HIDE DEF P
  <2> QED BY <1>4, <1>5
<1>9. SlotsOf(shards[s]) \in SUBSET Int
  <2>1. \A p \in P : f[p] \in Int
    BY <1>3
  <2> QED BY <1>7, <2>1
<1> QED BY <1>6, <1>7, <1>8, <1>9, SortedIs

\* A dense layer is accepted with its parts in order.
LEMMA DenseAccepted ==
  ASSUME Complete, "weight" \in DOMAIN shards, NEW list,
         LET slots == Sorted(SlotsOf(shards["weight"])) IN
         list = [k \in DOMAIN slots |-> [dense |-> At(shards["weight"], slots[k]).part]]
  PROVE  Right(list, layer, forms, lost)
<1> DEFINE P == There("weight")
           slots == Sorted(SlotsOf(shards["weight"]))
<1>1. P \in SUBSET (1 .. PartCount) /\ PartCount \in Nat /\ P = DenseParts(layer, forms, lost)
  BY ThereIs DEF Complete
<1>2. PICK n, g : Lists(g, n, P)
  <2> HIDE DEF P
  <2> QED BY <1>1, ListExists
<1>3. slots = [k \in 1 .. n |-> Places[g[k]]]
  BY <1>2, OrderIs
<1>4. n \in Nat /\ g \in [1 .. n -> P]
  BY <1>2 DEF Lists
<1>5. \A p \in P : At(shards["weight"], Places[p]).part = p
  BY ReadsIs DEF Reads
<1> HIDE DEF slots
<1>6. DOMAIN slots = 1 .. n /\ \A k \in 1 .. n : At(shards["weight"], slots[k]).part = g[k]
  <2>1. \A k \in 1 .. n : slots[k] = Places[g[k]] /\ g[k] \in P
    BY <1>3, <1>4
  <2> HIDE DEF P
  <2> QED BY <1>3, <1>5, <2>1
<1>7. list = DenseList(g, n)
  <2>1. list = [k \in DOMAIN slots |-> [dense |-> At(shards["weight"], slots[k]).part]]
    BY DEF slots
  <2> QED BY <1>6, <2>1 DEF DenseList
<1>8. Lists(g, n, DenseParts(layer, forms, lost))
  <2> HIDE DEF P
  <2> QED BY <1>1, <1>2
<1> QED BY <1>7, <1>8 DEF Right

\* A quantized one is accepted with all of its parts.
LEMMA ShardIs ==
  ASSUME Complete, method = "Exl3LinearMethod", NEW p \in There("trellis"),
         Places[p] \in SlotsOf(shards["suh"]) \cap SlotsOf(shards["svh"])
  PROVE  Shard(Places[p]) = WholeShard(layer, p)
<1>1. \A s \in {"trellis", "suh", "svh", "mcg", "mul1", "weight"} : Reads(s)
  BY ReadsIs DEF Complete, LoadingInv, Placeholders
<1>2. /\ PartCount \in Nat /\ Parts = 1 .. PartCount /\ (\A s : There(s) \in SUBSET Parts)
      /\ p \in Parts /\ forms[p] = "trellis" /\ layer \in DOMAIN Model /\ forms \in [Parts -> Forms]
  BY ThereIs DEF Complete, PackInv
<1>3. \A q, r \in Parts : Places[q] = Places[r] => q = r
  BY <1>2 DEF Complete, Slots
<1>4. \A s \in {"trellis", "suh", "svh", "mcg", "mul1", "weight"} :
        Places[p] \in SlotsOf(shards[s]) <=> p \in There(s)
  <2> SUFFICES ASSUME NEW s \in {"trellis", "suh", "svh", "mcg", "mul1", "weight"}
               PROVE  Places[p] \in SlotsOf(shards[s]) <=> p \in There(s)
    OBVIOUS
  <2>1. SlotsOf(shards[s]) = {Places[q] : q \in There(s)} /\ There(s) \in SUBSET Parts
    BY <1>1, <1>2 DEF Reads
  <2> QED BY <1>2, <1>3, <2>1
<1>5. p \in There("suh") /\ p \in There("svh")
  BY <1>4
<1>6. /\ At(shards["trellis"], Places[p]).part = p
      /\ At(shards["suh"], Places[p]).part = p /\ At(shards["svh"], Places[p]).part = p
  BY <1>1, <1>5 DEF Reads
<1>7. {s \in {"mcg", "mul1"} : Places[p] \in SlotsOf(shards[s])} = L.markers
  <2>1. L.markers \subseteq {"mcg", "mul1"} /\ StoredAs(p) = {"trellis", "suh", "svh"} \cup L.markers
    BY <1>2, LayerIs, SuffixesAre
  <2>2. \A s \in {"mcg", "mul1"} : p \in There(s) <=> s \in L.markers
    <3> SUFFICES ASSUME NEW s \in {"mcg", "mul1"} PROVE p \in There(s) <=> s \in L.markers
      OBVIOUS
    <3>1. Tensor(p, s) \notin lost
      BY LostIs, TensorsAre DEF Complete, PackInv
    <3>2. Tensor(p, s) \in Tensors <=> s \in L.markers
      BY <1>2, <2>1, TensorsAre
    <3> QED BY <1>2, <3>1, <3>2 DEF There
  <2> QED BY <1>4, <2>1, <2>2
<1> QED BY <1>6, <1>7 DEF Shard, WholeShard, L

\* A list of all parts is in their order.
LEMMA ListOfAll ==
  ASSUME NEW m \in Nat, NEW n, NEW g, Lists(g, n, 1 .. m)
  PROVE  n = m /\ g = [k \in 1 .. m |-> k]
<1>1. 1 .. m \in SUBSET Int /\ Lists([k \in 1 .. m |-> k], m, 1 .. m)
  BY AllListed
<1>2. g = [k \in 1 .. m |-> k]
  BY <1>1, SortedIs
<1>3. n \in Nat /\ DOMAIN g = 1 .. n
  BY DEF Lists
<1>4. 1 .. n = 1 .. m
  BY <1>2, <1>3
<1> QED BY <1>2, <1>3, <1>4

\* The slots of the trellis tensors, and the shards of a list of them.
LEMMA TrellisOrder ==
  ASSUME Complete, method = "Exl3LinearMethod",
         \A i \in SlotsOf(shards["trellis"]) : i \in SlotsOf(shards["suh"]) \cap SlotsOf(shards["svh"])
  PROVE  \E n, g : /\ Lists(g, n, There("trellis"))
                   /\ LET slots == SlotOrder(shards["trellis"])
                          list == [k \in DOMAIN slots |-> Shard(slots[k])]
                      IN /\ list = [k \in 1 .. n |-> WholeShard(layer, g[k])]
                         /\ SumSizes(list) = SumOver([k \in 1 .. n |-> L.sizes[g[k]]])
<1> DEFINE P == There("trellis")
           slots == SlotOrder(shards["trellis"])
           list == [k \in DOMAIN slots |-> Shard(slots[k])]
<1>1. PartCount \in Nat /\ P \in SUBSET (1 .. PartCount) /\ "trellis" \in DOMAIN shards
  BY ThereIs DEF Complete, LoadingInv, Placeholders
<1>2. PICK n, g : Lists(g, n, P)
  <2> HIDE DEF P
  <2> QED BY <1>1, ListExists
<1>3. slots = [k \in 1 .. n |-> Places[g[k]]]
  BY <1>1, <1>2, OrderIs DEF SlotOrder
<1>4. n \in Nat /\ \A k \in 1 .. n : g[k] \in P
  BY <1>2 DEF Lists
<1>5. \A p \in P : Shard(Places[p]) = WholeShard(layer, p)
  <2> SUFFICES ASSUME NEW p \in P PROVE Shard(Places[p]) = WholeShard(layer, p)
    OBVIOUS
  <2>1. Places[p] \in SlotsOf(shards["trellis"])
    BY <1>1, ReadsIs DEF Reads
  <2> QED BY <2>1, ShardIs
<1>6. list = [k \in 1 .. n |-> WholeShard(layer, g[k])]
  <2>1. DOMAIN slots = 1 .. n /\ \A k \in 1 .. n : slots[k] = Places[g[k]]
    BY <1>3
  <2>2. \A k \in 1 .. n : Shard(slots[k]) = WholeShard(layer, g[k])
    <3> HIDE DEF slots, P
    <3> QED BY <1>4, <1>5, <2>1
  <2> HIDE DEF slots
  <2> QED BY <2>1, <2>2
<1>7. SumSizes(list) = SumOver([k \in 1 .. n |-> L.sizes[g[k]]])
  <2> HIDE DEF list
  <2>1. \A k \in 1 .. n : list[k].oc = L.sizes[g[k]]
    <3>1. \A p : WholeShard(layer, p).oc = L.sizes[p]
      BY DEF WholeShard, L
    <3> QED BY <1>6, <3>1
  <2>2. DOMAIN list = 1 .. n
    BY <1>6
  <2>3. [k \in DOMAIN list |-> list[k].oc] = [k \in 1 .. n |-> L.sizes[g[k]]]
    BY <2>1, <2>2
  <2>4. \A f : Total(f) = SumOver(f)
    BY DEF Total, SumOver
  <2> QED BY <2>3, <2>4 DEF SumSizes
<1> HIDE DEF P
<1>8. /\ Lists(g, n, P) /\ list = [k \in 1 .. n |-> WholeShard(layer, g[k])]
      /\ SumSizes(list) = SumOver([k \in 1 .. n |-> L.sizes[g[k]]])
  BY <1>2, <1>6, <1>7
<1> QED BY <1>8 DEF P

LEMMA UniformIs ==
  ASSUME PackInv, ~Mixed(layer, forms)
  PROVE  \A p, q \in Parts : forms[p] = forms[q]
<1> DEFINE F == {forms[p] : p \in Parts}
<1>1. Parts = 1 .. Len(Model[layer].sizes) /\ forms \in [Parts -> Forms]
  BY ThereIs DEF PackInv
<1>2. Cardinality(F) = 1
  BY <1>1 DEF Mixed
<1>3. IsFiniteSet(F)
  <2>1. F \subseteq {"trellis", "int8", "dense"}
    BY <1>1 DEF Forms
  <2>2. IsFiniteSet({"trellis", "int8", "dense"})
    <3>1. {"trellis", "int8", "dense"} = ({"trellis"} \cup {"int8"}) \cup {"dense"}
      OBVIOUS
    <3>2. IsFiniteSet({"trellis"}) /\ IsFiniteSet({"int8"}) /\ IsFiniteSet({"dense"})
      BY FS_Singleton
    <3>3. IsFiniteSet({"trellis"} \cup {"int8"})
      BY <3>2, FS_Union, Zenon
    <3>4. IsFiniteSet(({"trellis"} \cup {"int8"}) \cup {"dense"})
      BY <3>2, <3>3, FS_Union, Zenon
    <3> QED BY <3>1, <3>4, Zenon
  <2> QED BY <2>1, <2>2, FS_Subset
<1>4. PICK x : F = {x}
  <2> HIDE DEF F
  <2> QED BY <1>2, <1>3, FS_Singleton
<1> QED BY <1>4

\* The layer goes on as it should: what is loaded is right, or the pack was
\* not whole.
Decided ==
  \/ load_stage' = "ready" /\ Right(loaded', layer, forms, lost)
  \/ load_stage' = "refused" /\ (lost # {} \/ Mixed(layer, forms))

LEMMA LinearDecides ==
  ASSUME Complete, method = "Exl3LinearMethod", ProcessLinear
  PROVE  Decided
<1> DEFINE tr == shards["trellis"]
           heavy == shards["weight"]
           N == PartCount
<1>1. {"trellis", "suh", "svh", "weight"} \subseteq DOMAIN shards
  BY DEF Complete, LoadingInv, Placeholders
<1>2. /\ N \in Nat \ {0} /\ Parts = 1 .. N /\ N = Len(Model[layer].sizes) /\ \A s : There(s) \in SUBSET (1 .. N)
      /\ forms \in [Parts -> Forms] /\ layer \in DOMAIN Model
  BY ThereIs DEF Complete, PackInv
<1>3. \A p \in Parts : forms[p] \in {"trellis", "dense"}
  <2>1. L.kind # "embed"
    BY MethodIs DEF Complete
  <2> QED BY <1>2, <2>1 DEF Forms
<1>4. \A s \in {"trellis", "suh", "svh", "weight"} : Reads(s)
  BY <1>1, ReadsIs
<1>5. \A p \in Parts : forms[p] = "trellis" => {"trellis", "suh", "svh"} \subseteq StoredAs(p) /\ "weight" \notin StoredAs(p)
  <2>1. L.markers \subseteq {"mcg", "mul1"}
    BY <1>2, LayerIs
  <2> QED BY <1>2, <2>1, SuffixesAre
<1>6. CASE tr = <<>> /\ heavy = <<>>
  <2>1. There("trellis") = {} /\ There("weight") = {}
    BY <1>4, <1>6 DEF Reads
  <2>2. 1 \in Parts /\ (forms[1] = "trellis" \/ forms[1] = "dense")
    BY <1>2, <1>3
  <2>3. Tensor(1, "trellis") \in Tensors \/ Tensor(1, "weight") \in Tensors
    BY <1>2, <2>2, SuffixesAre, TensorsAre
  <2>4. lost # {}
    BY <2>1, <2>2, <2>3 DEF There
  <2>5. load_stage' = "refused"
    BY <1>6 DEF ProcessLinear, Refuse
  <2> QED BY <2>4, <2>5 DEF Decided
<1>7. CASE tr = <<>> /\ heavy # <<>>
  <2>1. /\ load_stage' = "ready"
        /\ LET slots == Sorted(SlotsOf(heavy)) IN
           loaded' = [k \in DOMAIN slots |-> [dense |-> At(heavy, slots[k]).part]]
    BY <1>7 DEF ProcessLinear, Accept, SlotOrder
  <2>2. Right(loaded', layer, forms, lost)
    BY <1>1, <2>1, DenseAccepted
  <2> QED BY <2>1, <2>2 DEF Decided
<1>8. CASE tr # <<>>
  <2> DEFINE slots == SlotOrder(tr)
             list == [k \in DOMAIN slots |-> Shard(slots[k])]
             Odd == \E i \in SlotsOf(tr) : i \notin SlotsOf(shards["suh"]) \cap SlotsOf(shards["svh"])
             Bad == heavy # <<>> \/ Odd \/ SumSizes(list) # OutTotal
  <2>1. IF Bad THEN Refuse ELSE Accept(list)
    BY <1>8 DEF ProcessLinear
  <2>2. L.sizes \in [1 .. N -> Nat \ {0}] /\ OutTotal = SumOver(L.sizes)
    BY <1>2, LayerIs DEF OutTotal, Total, SumOver
  <2>3. ASSUME ~Odd
        PROVE  /\ There("trellis") # 1 .. N => SumSizes(list) # OutTotal
               /\ There("trellis") = 1 .. N => list = [p \in 1 .. N |-> WholeShard(layer, p)] /\ SumSizes(list) = OutTotal
    <3>1. PICK n, g : /\ Lists(g, n, There("trellis"))
                      /\ list = [k \in 1 .. n |-> WholeShard(layer, g[k])]
                      /\ SumSizes(list) = SumOver([k \in 1 .. n |-> L.sizes[g[k]]])
      BY <2>3, TrellisOrder
    <3> HIDE DEF list
    <3>2. ASSUME There("trellis") # 1 .. N PROVE SumSizes(list) # OutTotal
      <4> DEFINE S == 1 .. N
      <4>1. IsFiniteSet(S) /\ \A x \in S : x \in Int
        BY <1>2, FS_Interval
      <4>2. There("trellis") \in SUBSET S /\ There("trellis") # S /\ L.sizes \in [S -> Nat \ {0}]
        BY <1>2, <2>2, <3>2
      <4> HIDE DEF S
      <4>3. SumOver([k \in 1 .. n |-> L.sizes[g[k]]]) # SumOver(L.sizes)
        BY <3>1, <4>1, <4>2, ListedSumLess
      <4> QED BY <2>2, <3>1, <4>3
    <3>3. ASSUME There("trellis") = 1 .. N
          PROVE  list = [p \in 1 .. N |-> WholeShard(layer, p)] /\ SumSizes(list) = OutTotal
      <4>1. n = N /\ g = [k \in 1 .. N |-> k]
        BY <1>2, <3>1, <3>3, ListOfAll
      <4>2. list = [p \in 1 .. N |-> WholeShard(layer, p)]
        BY <3>1, <4>1
      <4>3. [k \in 1 .. n |-> L.sizes[g[k]]] = L.sizes
        BY <2>2, <4>1
      <4> QED BY <2>2, <3>1, <4>2, <4>3
    <3> QED BY <3>2, <3>3
  <2>4. CASE ~Bad
    <3>1. load_stage' = "ready" /\ loaded' = list
      BY <2>1, <2>4 DEF Accept
    <3>2. There("trellis") = 1 .. N /\ list = [p \in 1 .. N |-> WholeShard(layer, p)]
      <4> HIDE DEF list, Odd
      <4> QED BY <2>3, <2>4
    <3>3. loaded' = [p \in 1 .. Len(Model[layer].sizes) |-> WholeShard(layer, p)]
      <4> HIDE DEF list
      <4> QED BY <1>2, <3>1, <3>2
    <3> QED BY <3>1, <3>3 DEF Decided, Right
  <2>5. CASE Bad
    <3>1. load_stage' = "refused"
      BY <2>1, <2>5 DEF Refuse
    <3>2. ASSUME lost = {}, ~Mixed(layer, forms) PROVE FALSE
      <4>1. PICK p \in Parts : forms[p] = "trellis"
        <5>1. There("trellis") # {}
          BY <1>4, <1>8 DEF Reads
        <5> QED BY <1>2, <5>1, ThereIs DEF Complete
      <4>2. \A q \in Parts : forms[q] = "trellis"
        BY <3>2, <4>1, UniformIs DEF Complete
      <4>3. \A s \in {"trellis", "suh", "svh"} : There(s) = 1 .. N
        BY <1>2, <1>5, <3>2, <4>2, TensorsAre DEF There
      <4>4. There("weight") = {}
        BY <1>5, <4>2, TensorsAre DEF There
      <4>5. heavy = <<>>
        BY <1>4, <4>4 DEF Reads
      <4>6. ~Odd
        BY <1>4, <4>3 DEF Reads
      <4> HIDE DEF list, Odd, heavy
      <4> QED BY <2>3, <2>5, <4>3, <4>5, <4>6
    <3> QED BY <3>1, <3>2 DEF Decided
  <2> QED BY <2>4, <2>5
<1> QED BY <1>6, <1>7, <1>8

\* The embedding is one part, dense or packed in bytes.
LEMMA EmbeddingDecides ==
  ASSUME Complete, method = "Exl3EmbeddingMethod", ProcessEmbedding
  PROVE  Decided
<1>1. L.kind = "embed" /\ PartCount = 1
  BY MethodIs DEF Complete
<1>2. /\ Parts = {1} /\ Len(Model[layer].sizes) = 1 /\ \A s : There(s) \in SUBSET {1}
      /\ forms \in [Parts -> Forms] /\ layer \in DOMAIN Model /\ There("weight") = DenseParts(layer, forms, lost)
  BY <1>1, ThereIs DEF Complete, PackInv
<1>3. \A s \in {"qweight", "scales", "weight"} : Reads(s)
  BY ReadsIs DEF Complete, LoadingInv, Placeholders
<1>4. forms[1] = "int8" \/ forms[1] = "dense"
  BY <1>1, <1>2 DEF Forms
<1>5. CASE shards["qweight"] = <<>> /\ shards["weight"] # <<>>
  <2>1. There("weight") = {1}
    BY <1>2, <1>3, <1>5 DEF Reads
  <2>2. Lists([k \in 1 .. 1 |-> k], 1, 1 .. 1) /\ 1 .. 1 = {1}
    <3>1. 1 \in Nat
      OBVIOUS
    <3>2. Lists([k \in 1 .. 1 |-> k], 1, 1 .. 1)
      BY <3>1, AllListed, Zenon
    <3> QED BY <3>2
  <2>3. load_stage' = "ready" /\ loaded' = <<[dense |-> 1]>>
    BY <1>5 DEF ProcessEmbedding, Accept
  <2>4. loaded' = DenseList([k \in 1 .. 1 |-> k], 1)
    BY <2>3 DEF DenseList
  <2> HIDE DEF Right
  <2>5. Lists([k \in 1 .. 1 |-> k], 1, DenseParts(layer, forms, lost))
    BY <1>2, <2>1, <2>2
  <2>6. Right(loaded', layer, forms, lost)
    BY <2>4, <2>5 DEF Right
  <2> QED BY <2>3, <2>6 DEF Decided
<1>6. CASE shards["qweight"] # <<>> /\ shards["scales"] # <<>>
  <2>1. load_stage' = "ready" /\ loaded' = <<[int8 |-> 1]>>
    BY <1>6 DEF ProcessEmbedding, Accept
  <2>2. loaded' = [k \in 1 .. 1 |-> [int8 |-> k]]
    BY <2>1
  <2> QED BY <1>2, <2>1, <2>2 DEF Decided, Right
<1>7. CASE \/ shards["qweight"] = <<>> /\ shards["weight"] = <<>>
           \/ shards["qweight"] # <<>> /\ shards["scales"] = <<>>
  <2>1. load_stage' = "refused"
    BY <1>7 DEF ProcessEmbedding, Refuse
  <2>2. lost # {}
    <3>1. \/ There("qweight") = {} /\ There("weight") = {}
          \/ There("qweight") # {} /\ There("scales") = {}
      BY <1>3, <1>7 DEF Reads
    <3>2. 1 \in Parts /\ \A s : s \in StoredAs(1) <=> Tensor(1, s) \in Tensors
      BY <1>2, TensorsAre
    <3>3. CASE forms[1] = "int8"
      <4>1. StoredAs(1) = {"qweight", "scales"}
        BY <1>2, <3>2, <3>3, SuffixesAre
      <4> QED BY <3>1, <3>2, <4>1 DEF There
    <3>4. CASE forms[1] = "dense"
      <4>1. StoredAs(1) = {"weight"}
        BY <1>2, <3>2, <3>4, SuffixesAre
      <4>2. There("qweight") = {}
        BY <1>2, <3>2, <4>1 DEF There
      <4> QED BY <3>1, <3>2, <4>1, <4>2 DEF There
    <3> QED BY <1>4, <3>3, <3>4
  <2> QED BY <2>1, <2>2 DEF Decided
<1> QED BY <1>5, <1>6, <1>7

LEMMA UnquantizedDecides ==
  ASSUME Complete, method = "UnquantizedLinearMethod", load_stage' = "ready",
         LET slots == Sorted(SlotsOf(shards["weight"])) IN loaded' = [k \in DOMAIN slots |-> [dense |-> slots[k]]]
  PROVE  Decided
<1> DEFINE slots == Sorted(SlotsOf(shards["weight"]))
           P == There("weight")
<1>1. "weight" \in DOMAIN shards
  BY DEF Complete, LoadingInv, Placeholders
<1>2. P \in SUBSET (1 .. PartCount) /\ PartCount \in Nat /\ Parts = 1 .. PartCount
  BY ThereIs DEF Complete
<1>3. PICK n, g : Lists(g, n, P)
  <2> HIDE DEF P
  <2> QED BY <1>2, ListExists
<1>4. slots = [k \in 1 .. n |-> Places[g[k]]]
  BY <1>1, <1>3, OrderIs
<1>5. n \in Nat /\ \A k \in 1 .. n : g[k] \in P
  BY <1>3 DEF Lists
<1>6. \A p \in P : Places[p] = p
  BY <1>2 DEF Places
<1> HIDE DEF slots, P
<1>7. DOMAIN slots = 1 .. n /\ \A k \in 1 .. n : slots[k] = g[k]
  BY <1>4, <1>5, <1>6
<1>8. loaded' = DenseList(g, n)
  <2>1. loaded' = [k \in DOMAIN slots |-> [dense |-> slots[k]]]
    BY DEF slots
  <2> QED BY <1>7, <2>1 DEF DenseList
<1>9. Lists(g, n, DenseParts(layer, forms, lost))
  <2>1. P = DenseParts(layer, forms, lost)
    BY ThereIs DEF Complete, P
  <2> QED BY <1>3, <2>1
<1>10. Right(loaded', layer, forms, lost)
  BY <1>8, <1>9 DEF Right
<1> QED BY <1>10 DEF Decided

LEMMA ProcessStep ==
  ASSUME LoadInv, ProcessWeights
  PROVE  LoadInv'
<1>1. PackInv /\ LoadingInv /\ pending = {} /\ UNCHANGED pack
  BY DEF LoadInv, ProcessWeights
<1>2. Complete
  BY <1>1, SlotsAre DEF Complete, PackInv
<1>3. Decided
  <2>1. CASE method = "Exl3LinearMethod"
    <3>1. ProcessLinear
      BY <2>1 DEF ProcessWeights
    <3> QED BY <1>2, <2>1, <3>1, LinearDecides
  <2>2. CASE method = "Exl3EmbeddingMethod"
    <3>1. ProcessEmbedding
      BY <2>2 DEF ProcessWeights
    <3> QED BY <1>2, <2>2, <3>1, EmbeddingDecides
  <2>3. CASE method = "UnquantizedLinearMethod"
    <3>1. /\ load_stage' = "ready"
          /\ LET slots == Sorted(SlotsOf(shards["weight"])) IN loaded' = [k \in DOMAIN slots |-> [dense |-> slots[k]]]
      BY <2>3 DEF ProcessWeights, Accept
    <3> QED BY <1>2, <2>3, <3>1, UnquantizedDecides
  <2> QED BY <1>1, <2>1, <2>2, <2>3, MethodIs
<1>4. PackInv' /\ layer' = layer /\ forms' = forms /\ lost' = lost
  BY <1>1, PackInvKept DEF pack
<1> QED BY <1>3, <1>4 DEF Decided, LoadInv

LEMMA LoadStep == LoadInv /\ [LoadNext]_load_vars => LoadInv'
<1> SUFFICES ASSUME LoadInv, [LoadNext]_load_vars PROVE LoadInv'
  OBVIOUS
<1>1. CASE RegisterPlugin
  BY <1>1, RegisterStep
<1>2. CASE Construct
  BY <1>2, ConstructStep
<1>3. ASSUME NEW t \in pending, Capture(t) PROVE LoadInv'
  BY <1>3, CaptureStep
<1>4. CASE ProcessWeights
  BY <1>4, ProcessStep
<1>5. CASE UNCHANGED load_vars
  <2>1. /\ UNCHANGED <<layer, forms, lost, manifest, load_stage, patched, method, pending, shards, loaded>>
        /\ UNCHANGED pack
    BY <1>5 DEF load_vars, pack
  <2>2. L' = L /\ Parts' = Parts /\ Tensors' = Tensors /\ PackInv'
    BY <2>1, PackKept, PackInvKept DEF LoadInv
  <2>3. Places' = Places /\ GetQuantMethod' = GetQuantMethod /\ \A s : Come(s)' = Come(s)
    BY <2>1, <2>2 DEF Places, ShardId, GetQuantMethod, HasConfig, QuantizedParts, Come
  <2>4. LoadingInv => LoadingInv'
    <3> SUFFICES ASSUME LoadingInv PROVE LoadingInv'
      OBVIOUS
    <3>1. ASSUME NEW s \in DOMAIN shards' PROVE Placed(shards[s], s, Come(s), Places)'
      <4>1. shards'[s] = shards[s] /\ s \in DOMAIN shards
        BY <2>1
      <4> QED BY <2>3, <4>1 DEF LoadingInv
    <3> QED BY <2>1, <2>2, <2>3, <3>1 DEF LoadingInv
  <2> QED BY <2>1, <2>2, <2>4 DEF LoadInv
<1> QED BY <1>1, <1>2, <1>3, <1>4, <1>5 DEF LoadNext

LEMMA LoadInvariant == LoadSpec => []LoadInv
BY LoadBase, LoadStep, PTL DEF LoadSpec

\* A layer that is served computes the outputs of the pack in the order in
\* which vLLM concatenates them: for any fusion, sizes and widths, any tensor
\* lost, any order of arrival and any number of rows.
THEOREM LoadServes == LoadSpec => []ServedAsPacked
<1>1. LoadInv => ServedAsPacked
  <2> SUFFICES ASSUME LoadInv PROVE ServedAsPacked
    OBVIOUS
  <2>1. CASE load_stage = "ready"
    BY <2>1, RightServes DEF LoadInv, PackInv
  <2>2. CASE load_stage # "ready"
    BY <2>2 DEF ServedAsPacked
  <2> QED BY <2>1, <2>2
<1> QED BY <1>1, LoadInvariant, PTL

\* No intact pack is refused, whichever of its layers are dense, with or
\* without a manifest, and though the model leaves two layers unconfigured.
THEOREM LoadAccepts == LoadSpec => []IntactPackLoads
<1>1. LoadInv => IntactPackLoads
  <2> SUFFICES ASSUME LoadInv, load_stage = "refused", lost = {} PROVE ~Uniform
    BY DEF IntactPackLoads
  <2>1. Parts = 1 .. Len(Model[layer].sizes)
    BY ThereIs DEF LoadInv
  <2> QED BY <2>1 DEF LoadInv, Mixed, Uniform
<1> QED BY <1>1, LoadInvariant, PTL

============================================================================
