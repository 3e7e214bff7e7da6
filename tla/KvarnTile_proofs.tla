-------------------------- MODULE KvarnTile_proofs --------------------------
(***************************************************************************)
(* Theorems about KvarnTile, for any presets, head sizes, chunk limits,    *)
(* imbalances, layers, heads and blocks that fit (TileAssumption): the     *)
(* block size is always the tile, and both readers load from a record the  *)
(* bits of the tokens last flushed to its block.                           *)
(*                                                                         *)
(* The argument follows the data.  Sinkhorn keeps the last of the best     *)
(* iterates (BestIsLast), so in one launch or in two a packed record is    *)
(* the ideal one of its source and head (PackedIs).  Laid end to end, or   *)
(* written slice by slice, its fields lie at the offsets (JoinedHolds,     *)
(* WrittenHolds); a chunk gives every position its own tile (FastHolds,    *)
(* LegacyHolds).  In a record that holds a tile each reader finds the bits *)
(* it expects (ReadsK, ReadsV).  TileInv then follows the blocks.          *)
(***************************************************************************)
EXTENDS KvarnTile, FiniteSetTheorems, WellFoundedInduction, TLAPS

----------------------------------------------------------------------------
(* Arithmetic.                                                             *)

LEMMA NatMin ==
  ASSUME NEW S \in SUBSET Nat, S # {}
  PROVE  \E m \in S : \A k \in S : m <= k
<1> DEFINE R == OpToRel(<, Nat)
<1>1. IsWellFoundedOn(R, Nat)
  BY NatLessThanWellFounded
<1>2. \A x, y \in Nat : x < y => <<x, y>> \in R
  BY DEF OpToRel
<1> HIDE DEF R
<1>3. PICK m \in S : \A y \in S : ~ (<<y, m>> \in R)
  BY <1>1, WFMin
<1>4. ASSUME NEW k \in S PROVE m <= k
  <2>1. m \in Nat /\ k \in Nat
    OBVIOUS
  <2>2. ~(k < m)
    BY <1>2, <1>3, <2>1
  <2> QED BY <2>1, <2>2
<1> QED BY <1>4

LEMMA LeastIs ==
  ASSUME NEW S \in SUBSET Nat, S # {}
  PROVE  Least(S) \in S /\ \A k \in S : Least(S) <= k
BY NatMin DEF Least

\* A sum whose second part is below the divisor is its quotient and remainder.
LEMMA DivMod ==
  ASSUME NEW a \in Nat, NEW b \in Nat \ {0}, NEW c \in 0 .. b - 1
  PROVE  (a * b + c) \div b = a /\ (a * b + c) % b = c
OBVIOUS

LEMMA DivModOf ==
  ASSUME NEW n \in Nat, NEW b \in Nat \ {0}
  PROVE  /\ n \div b \in Nat /\ n % b \in 0 .. b - 1
         /\ n = (n \div b) * b + (n % b)
OBVIOUS

LEMMA ProductNat ==
  ASSUME NEW a \in Nat, NEW b \in Nat
  PROVE  a * b \in Nat /\ a * b = b * a
OBVIOUS

LEMMA CeilCovers ==
  ASSUME NEW a \in Nat, NEW b \in Nat \ {0}
  PROVE  CeilDiv(a, b) \in Nat /\ CeilDiv(a, b) * b >= a
<1> DEFINE n == a + b - 1
<1>1. n \in Nat
  OBVIOUS
<1>2. n \div b \in Nat /\ n % b \in 0 .. b - 1 /\ n = (n \div b) * b + (n % b)
  BY <1>1, DivModOf
<1>3. (n \div b) * b \in Nat
  BY <1>2, ProductNat
<1> QED BY <1>2, <1>3 DEF CeilDiv

LEMMA Multiple ==
  ASSUME NEW a \in Nat, NEW b \in Nat \ {0}
  PROVE  (a * b) % b = 0 /\ (a * b) \div b = a
BY DivMod, 0 \in 0 .. b - 1

LEMMA Exact ==
  ASSUME NEW n \in Nat, NEW b \in Nat \ {0}, n % b = 0
  PROVE  n \div b \in Nat /\ n = (n \div b) * b
<1>1. n \div b \in Nat /\ n = (n \div b) * b + (n % b)
  BY DivModOf
<1>2. (n \div b) * b \in Nat
  BY <1>1, ProductNat
<1> QED BY <1>1, <1>2

LEMMA MultipleOf ==
  ASSUME NEW a \in Nat, NEW m \in Nat, NEW b \in Nat \ {0}, m % b = 0
  PROVE  (a * m) % b = 0
<1>1. m \div b \in Nat /\ m = (m \div b) * b
  BY DivModOf
<1>2. a * m = (a * (m \div b)) * b
  BY <1>1
<1>3. a * (m \div b) \in Nat
  BY <1>1, ProductNat
<1> QED BY <1>2, <1>3, Multiple

LEMMA Powers == \A i \in 0 .. 16 : 2 ^ i \in Nat \ {0}
<1>1. \A i : /\ (i = 0 => 2 ^ i = 2 ^ 0) /\ (i = 1 => 2 ^ i = 2 ^ 1) /\ (i = 2 => 2 ^ i = 2 ^ 2)
             /\ (i = 3 => 2 ^ i = 2 ^ 3) /\ (i = 4 => 2 ^ i = 2 ^ 4) /\ (i = 5 => 2 ^ i = 2 ^ 5)
             /\ (i = 6 => 2 ^ i = 2 ^ 6) /\ (i = 7 => 2 ^ i = 2 ^ 7) /\ (i = 8 => 2 ^ i = 2 ^ 8)
             /\ (i = 9 => 2 ^ i = 2 ^ 9) /\ (i = 10 => 2 ^ i = 2 ^ 10) /\ (i = 11 => 2 ^ i = 2 ^ 11)
             /\ (i = 12 => 2 ^ i = 2 ^ 12) /\ (i = 13 => 2 ^ i = 2 ^ 13) /\ (i = 14 => 2 ^ i = 2 ^ 14)
             /\ (i = 15 => 2 ^ i = 2 ^ 15) /\ (i = 16 => 2 ^ i = 2 ^ 16)
  BY Zenon
<1> DEFINE powers == {2 ^ 0, 2 ^ 1, 2 ^ 2, 2 ^ 3, 2 ^ 4, 2 ^ 5, 2 ^ 6, 2 ^ 7, 2 ^ 8, 2 ^ 9, 2 ^ 10,
                      2 ^ 11, 2 ^ 12, 2 ^ 13, 2 ^ 14, 2 ^ 15, 2 ^ 16}
<1>2. powers \subseteq Nat \ {0}
  OBVIOUS
<1> SUFFICES ASSUME NEW i \in 0 .. 16 PROVE 2 ^ i \in Nat \ {0}
  OBVIOUS
<1>3. i \in {0, 1, 2, 3, 4, 5, 6, 7, 8, 9, 10, 11, 12, 13, 14, 15, 16}
  OBVIOUS
<1>4. 2 ^ i \in powers
  BY <1>1, <1>3, Zenon
<1> QED BY <1>2, <1>4, Zenon

----------------------------------------------------------------------------
(* Sizes.                                                                  *)

LEMMA FitsType ==
  ASSUME NEW c, Fits(c)
  PROVE  /\ c.key_bits \in {1, 2, 4, 8} /\ c.value_bits \in {1, 2, 4, 8}
         /\ c.group \in Nat \ {0} /\ c.head_dim \in Nat \ {0}
BY DEF Fits

LEMMA PackedBytes ==
  ASSUME NEW c, Fits(c)
  PROVE  KPackedBytes(c) \in Nat /\ VPackedBytes(c) \in Nat /\ TileBytes(c) \in Nat
<1>1. c.head_dim * c.group * c.key_bits \in Nat /\ c.group * c.head_dim * c.value_bits \in Nat
  BY FitsType, ProductNat
<1>2. KPackedBytes(c) \in Nat /\ VPackedBytes(c) \in Nat
  BY <1>1, CeilCovers DEF KPackedBytes, VPackedBytes
<1> QED BY <1>2, FitsType DEF TileBytes

LEMMA LcmIs ==
  ASSUME NEW a \in Nat \ {0}, NEW b \in Nat \ {0}
  PROVE  Lcm(a, b) \in Nat \ {0} /\ Lcm(a, b) % b = 0
<1> DEFINE S == {m \in 1 .. a * b : m % a = 0 /\ m % b = 0}
<1>1. a * b \in Nat /\ a * b >= 1 /\ (a * b) % b = 0 /\ (a * b) % a = 0
  BY Multiple, ProductNat
<1>2. a * b \in S
  BY <1>1
<1>3. S \in SUBSET Nat /\ \A m \in S : m \in Nat \ {0} /\ m % b = 0
  OBVIOUS
<1>4. Lcm(a, b) = Least(S)
  BY DEF Lcm
<1> HIDE DEF S
<1>5. Least(S) \in S
  BY <1>2, <1>3, LeastIs
<1> QED BY <1>3, <1>4, <1>5

LEMMA LeastPow2Is ==
  ASSUME NEW n \in Nat, n <= 2 ^ 16
  PROVE  LeastPow2(n) \in Nat /\ LeastPow2(n) >= n
<1> DEFINE S == {p \in {2 ^ i : i \in 0 .. 16} : p >= n}
<1>1. S \in SUBSET Nat
  BY Powers
<1>2. 2 ^ 16 \in S
  OBVIOUS
<1>3. \A p \in S : p >= n
  OBVIOUS
<1> HIDE DEF S
<1>4. Least(S) \in S
  BY <1>1, <1>2, LeastIs
<1> QED BY <1>1, <1>3, <1>4 DEF LeastPow2, S

LEMMA AlignedBytes ==
  ASSUME NEW c, Fits(c)
  PROVE  /\ TileBytesAligned(c) \in Nat /\ TileBytesAligned(c) >= TileBytes(c)
         /\ TileBytesAligned(c) % c.group = 0
<1> DEFINE size == TileBytes(c)
           share == CeilDiv(size, c.group)
           unit == Lcm(8, c.group)
           n == CeilDiv(size, unit)
<1>1. size \in Nat /\ c.group \in Nat \ {0}
  BY PackedBytes, FitsType
<1>2. CASE c.head_dim >= WideHead /\ c.pow2
  <2>1. share \in Nat /\ share * c.group >= size
    BY <1>1, CeilCovers
  <2>2. share <= 2 ^ 16
    BY DEF Fits
  <2> DEFINE p == LeastPow2(share)
  <2>3. TileBytesAligned(c) = p * c.group
    BY <1>2 DEF TileBytesAligned
  <2> HIDE DEF share
  <2>4. p \in Nat /\ p >= share
    BY <2>1, <2>2, LeastPow2Is
  <2> HIDE DEF p, size
  <2>5. p * c.group \in Nat /\ p * c.group >= share * c.group
    BY <1>1, <2>1, <2>4
  <2>6. (p * c.group) % c.group = 0
    BY <1>1, <2>4, Multiple
  <2>7. share * c.group \in Nat
    BY <1>1, <2>1, ProductNat
  <2>8. p * c.group >= size
    BY <1>1, <2>1, <2>5, <2>7
  <2> QED BY <2>3, <2>5, <2>6, <2>8 DEF size
<1>3. CASE ~(c.head_dim >= WideHead /\ c.pow2)
  <2>1. unit \in Nat \ {0} /\ unit % c.group = 0
    BY <1>1, LcmIs
  <2>2. TileBytesAligned(c) = n * unit
    BY <1>3 DEF TileBytesAligned
  <2> HIDE DEF unit
  <2>3. n \in Nat /\ n * unit >= size
    BY <1>1, <2>1, CeilCovers
  <2> HIDE DEF n, size
  <2>4. n * unit \in Nat /\ (n * unit) % c.group = 0
    <3>1. (n * unit) % c.group = 0
      BY <1>1, <2>1, <2>3, MultipleOf
    <3>2. n * unit \in Nat
      BY <2>1, <2>3, ProductNat
    <3> QED BY <3>1, <3>2
  <2> DEFINE a == n * unit
  <2>5. a \in Nat /\ a >= size /\ a % c.group = 0 /\ TileBytesAligned(c) = a
    BY <2>2, <2>3, <2>4, Zenon
  <2> HIDE DEF a
  <2> QED BY <2>5, Zenon DEF size
<1> QED BY <1>2, <1>3

----------------------------------------------------------------------------
(* The size of a block.                                                    *)

SetupInv ==
  /\ phase \in {"config", "aligned", "built", "sized", "serving"}
  /\ preset \in DOMAIN Presets /\ head_dim \in HeadDims /\ pow2 \in BOOLEAN /\ fast \in BOOLEAN
  /\ phase # "config" => \E k \in Nat : manager = k * Layout(preset).group
  /\ phase \in {"built", "sized", "serving"} => active = preset
  /\ phase \in {"sized", "serving"} => kernel_block = Layout(preset).group

LEMMA LayoutFits ==
  ASSUME SetupInv
  PROVE  Fits(Layout(preset)) /\ Layout(preset).group = Presets[preset].group
BY TileAssumption DEF SetupInv, Layout, Configs, Config

\* In whatever scope the sizes are asked for, there is one to choose from.
LEMMA OneSize ==
  ASSUME SetupInv, NEW scope, scope = preset \/ (active = preset /\ scope \in {None, "auto"})
  PROVE  KernelBlockSizes(scope) = {Layout(preset).group}
<1>1. preset \in DOMAIN Presets /\ preset # None
  BY TileAssumption DEF SetupInv
<1>2. ActiveCacheDtype(scope) = preset
  BY <1>1, TileAssumption DEF ActiveCacheDtype
<1> QED BY <1>1, <1>2, LayoutFits DEF KernelBlockSizes

LEMMA SetupBase == TileInit => SetupInv
BY DEF TileInit, SetupInv

LEMMA SetupStep == SetupInv /\ [TileNext]_tile_vars => SetupInv'
<1> SUFFICES ASSUME SetupInv, [TileNext]_tile_vars PROVE SetupInv'
  OBVIOUS
<1> DEFINE c == Layout(preset)
<1>0. Fits(c) /\ c.group \in Nat \ {0} /\ c.head_dim \in Nat \ {0}
  BY LayoutFits, FitsType
<1>a. ASSUME UNCHANGED <<preset, head_dim, pow2>> PROVE Layout(preset)' = Layout(preset)
  BY <1>a DEF Layout
<1>1. ASSUME NEW k \in Multiples, AlignBlockSize(k) PROVE SetupInv'
  <2>1. KernelBlockSizes(preset) = {c.group}
    BY OneSize
  <2>2. Least({c.group}) = c.group
    BY <1>0 DEF Least
  <2>3. manager' = k * c.group /\ k \in Nat
    BY <1>1, <2>1, <2>2, TileAssumption DEF AlignBlockSize
  <2> QED BY <1>1, <1>a, <2>3 DEF AlignBlockSize, SetupInv
<1>2. ASSUME ConstructImpl PROVE SetupInv'
  BY <1>2, <1>a DEF ConstructImpl, SetupInv
<1>3. ASSUME NEW scope \in {None, "auto", preset}, SelectBlockSize(scope) PROVE SetupInv'
  <2>1. KernelBlockSizes(scope) = {c.group}
    BY <1>3, OneSize DEF SelectBlockSize, SetupInv
  <2>2. PICK k \in Nat : manager = k * c.group
    BY <1>3 DEF SelectBlockSize, SetupInv
  <2>3. manager % c.group = 0
    BY <1>0, <2>2, Multiple
  <2>4. {g \in KernelBlockSizes(scope) : manager % g = 0} = {c.group}
    BY <2>1, <2>3
  <2>5. Largest({c.group}) = c.group
    BY <1>0 DEF Largest
  <2>6. kernel_block' = c.group
    BY <1>3, <2>4, <2>5 DEF SelectBlockSize
  <2> QED BY <1>3, <1>a, <2>6 DEF SelectBlockSize, SetupInv
<1>4. ASSUME NEW dtype \in {"auto", preset}, AllocateCache(dtype) PROVE SetupInv'
  <2>1. active = preset /\ kernel_block = c.group
    BY <1>4 DEF AllocateCache, SetupInv
  <2>2. (IF dtype \in DOMAIN Presets THEN dtype ELSE active) = preset
    BY <1>4, <2>1, TileAssumption DEF SetupInv
  <2>3. Hk * TileBytesAligned(c) = PageBytes(c)
    <3> DEFINE size == TileBytesAligned(c)
    <3>1. size \in Nat /\ size % c.group = 0 /\ Hk \in Nat
      BY <1>0, AlignedBytes, TileAssumption
    <3>2. PageBytes(c) = c.group * Hk * (size \div c.group)
      BY <2>1 DEF PageBytes
    <3> HIDE DEF size, c
    <3>3. size = (size \div c.group) * c.group /\ size \div c.group \in Nat
      BY <1>0, <3>1, Exact
    <3> QED BY <1>0, <3>1, <3>2, <3>3 DEF size
  <2>4. phase' = "serving"
    BY <1>4, <2>1, <2>2, <2>3 DEF AllocateCache
  <2> QED BY <1>4, <1>a, <2>4 DEF AllocateCache, SetupInv
<1>5. ASSUME UNCHANGED setup PROVE SetupInv'
  BY <1>5, <1>a DEF setup, SetupInv
<1>6. ASSUME NEW b \in Blocks, NEW s \in Slots, Fill(b, s) PROVE SetupInv'
  BY <1>5, <1>6 DEF Fill
<1>7. ASSUME NEW bids, Flush(bids) PROVE SetupInv'
  BY <1>5, <1>7 DEF Flush
<1>8. CASE TileNext
  <2>1. CASE \E k \in Multiples : AlignBlockSize(k)
    BY <1>1, <2>1
  <2>2. CASE \E scope \in {None, "auto", preset} : SelectBlockSize(scope)
    BY <1>3, <2>2
  <2>3. CASE \E dtype \in {"auto", preset} : AllocateCache(dtype)
    BY <1>4, <2>3
  <2>4. CASE \E b \in Blocks, s \in Slots : Fill(b, s)
    BY <1>6, <2>4
  <2>5. CASE \E S \in (SUBSET Held) \ {{}} : \E bids \in Orders(S) : Flush(bids)
    BY <1>7, <2>5
  <2> QED BY <1>2, <1>8, <2>1, <2>2, <2>3, <2>4, <2>5 DEF TileNext
<1> QED BY <1>5, <1>8 DEF tile_vars

\* The block size the runner picks is the tile of the preset, whatever scope it
\* asks in, and the pages of the KV-cache spec hold exactly the records.
THEOREM TileBlocks == TileSpec => []BlocksAreTiles
<1>1. SetupInv => BlocksAreTiles
  BY DEF SetupInv, BlocksAreTiles
<1> QED BY <1>1, SetupBase, SetupStep, PTL DEF TileSpec

----------------------------------------------------------------------------
(* Sinkhorn keeps the last of the best iterates.                           *)

IsLast(imb, n, i) ==
  /\ i \in 1 .. n
  /\ \A j \in 1 .. n : imb[i] < imb[j] \/ (imb[i] = imb[j] /\ j <= i)

Last(imb, n) == CHOOSE i : IsLast(imb, n, i)

Better(imb, i, j) == IF imb[i] <= imb[j] THEN i ELSE j

LEMMA LastUnique ==
  ASSUME NEW imb \in Seq(Nat), NEW n \in 1 .. Len(imb), NEW i, NEW j, IsLast(imb, n, i), IsLast(imb, n, j)
  PROVE  i = j
<1>1. \A k \in 1 .. n : imb[k] \in Nat
  OBVIOUS
<1> QED BY <1>1 DEF IsLast

LEMMA LastStep ==
  ASSUME NEW imb \in Seq(Nat), NEW n \in 1 .. Len(imb), NEW j,
         n = 1 \/ IsLast(imb, n - 1, j)
  PROVE  IsLast(imb, n, IF n = 1 THEN 1 ELSE Better(imb, n, j))
<1>1. \A k \in 1 .. n : imb[k] \in Nat
  OBVIOUS
<1>2. CASE n = 1
  <2>1. IsLast(imb, 1, 1)
    BY <1>1, <1>2 DEF IsLast
  <2> QED BY <1>2, <2>1, Zenon
<1>3. CASE n # 1
  <2>1. j \in 1 .. n - 1 /\ \A k \in 1 .. n - 1 : imb[j] < imb[k] \/ (imb[j] = imb[k] /\ k <= j)
    BY <1>3 DEF IsLast
  <2>2. CASE imb[n] <= imb[j]
    <3>1. \A k \in 1 .. n : imb[n] < imb[k] \/ (imb[n] = imb[k] /\ k <= n)
      BY <1>1, <2>1, <2>2
    <3>2. IsLast(imb, n, n)
      BY <3>1 DEF IsLast
    <3> QED BY <1>3, <2>2, <3>2, Zenon DEF Better
  <2>3. CASE ~(imb[n] <= imb[j])
    <3>1. j \in 1 .. n /\ \A k \in 1 .. n : imb[j] < imb[k] \/ (imb[j] = imb[k] /\ k <= j)
      BY <1>1, <2>1, <2>3
    <3>2. IsLast(imb, n, j)
      BY <3>1, Zenon DEF IsLast
    <3> QED BY <1>3, <2>3, <3>2, Zenon DEF Better
  <2> QED BY <2>2, <2>3
<1> QED BY <1>2, <1>3

LEMMA LastExists ==
  ASSUME NEW imb \in Seq(Nat)
  PROVE  \A n \in 1 .. Len(imb) : IsLast(imb, n, Last(imb, n))
<1> DEFINE S == {n \in 1 .. Len(imb) : ~ \E i : IsLast(imb, n, i)}
<1>1. CASE S = {}
  BY <1>1 DEF Last
<1>2. CASE S # {}
  <2>1. S \in SUBSET Nat
    OBVIOUS
  <2>2. PICK n \in S : \A k \in S : n <= k
    BY <1>2, <2>1, NatMin
  <2>3. n \in 1 .. Len(imb) /\ (n = 1 \/ (n - 1 \in 1 .. Len(imb) /\ ~(n <= n - 1)))
    BY <2>2
  <2>4. n = 1 \/ \E j : IsLast(imb, n - 1, j)
    BY <2>2, <2>3, Zenon
  <2>5. \E i : IsLast(imb, n, i)
    BY <2>4, LastStep
  <2> QED BY <2>2, <2>5
<1> QED BY <1>1, <1>2

LEMMA LastIs ==
  ASSUME NEW imb \in Seq(Nat), NEW n \in 1 .. Len(imb)
  PROVE  /\ n = 1 => Last(imb, n) = 1
         /\ n # 1 => Last(imb, n) = Better(imb, n, Last(imb, n - 1))
<1>1. IsLast(imb, n, Last(imb, n))
  BY LastExists
<1>2. n # 1 => IsLast(imb, n - 1, Last(imb, n - 1))
  BY LastExists
<1>3. IsLast(imb, n, IF n = 1 THEN 1 ELSE Better(imb, n, Last(imb, n - 1)))
  BY <1>2, LastStep
<1> QED BY <1>1, <1>3, LastUnique

\* A recursion over the iterates of one tile, and of a batch.
Kept(imb, f) ==
  [i \in 1 .. Len(imb) |-> IF i = 1 THEN 1 ELSE IF imb[i] <= imb[f[i - 1]] THEN i ELSE f[i - 1]]

LEMMA KeptIsLast ==
  ASSUME NEW imb \in Seq(Nat), imb # <<>>
  PROVE  LET best == CHOOSE f : f = Kept(imb, f) IN best[Len(imb)] = Last(imb, Len(imb))
<1> DEFINE g == [i \in 1 .. Len(imb) |-> Last(imb, i)]
           best == CHOOSE f : f = Kept(imb, f)
<1>1. g = Kept(imb, g)
  <2>1. ASSUME NEW i \in 1 .. Len(imb) PROVE g[i] = Kept(imb, g)[i]
    <3>1. i # 1 => g[i - 1] = Last(imb, i - 1)
      OBVIOUS
    <3>2. Kept(imb, g)[i] = IF i = 1 THEN 1 ELSE Better(imb, i, g[i - 1])
      BY DEF Kept, Better
    <3>3. g[i] = Last(imb, i)
      OBVIOUS
    <3>4. /\ i = 1 => Last(imb, i) = 1
          /\ i # 1 => Last(imb, i) = Better(imb, i, Last(imb, i - 1))
      BY LastIs
    <3> HIDE DEF g
    <3>5. CASE i = 1
      BY <3>2, <3>3, <3>4, <3>5, Zenon
    <3>6. CASE i # 1
      <4>1. g[i] = Better(imb, i, g[i - 1])
        BY <3>1, <3>3, <3>4, <3>6, Zenon
      <4> QED BY <3>2, <3>6, <4>1, Zenon
    <3> QED BY <3>5, <3>6, Zenon
  <2> QED BY <2>1 DEF Kept
<1>2. best = Kept(imb, best)
  BY <1>1, Zenon
<1> DEFINE S == {i \in 1 .. Len(imb) : best[i] # Last(imb, i)}
<1>3. ASSUME NEW i \in 1 .. Len(imb) PROVE best[i] = IF i = 1 THEN 1 ELSE Better(imb, i, best[i - 1])
  <2> HIDE DEF best
  <2>1. Kept(imb, best)[i] = IF i = 1 THEN 1 ELSE Better(imb, i, best[i - 1])
    BY DEF Kept, Better
  <2> QED BY <1>2, <2>1, Zenon
<1> HIDE DEF best, g
<1>4. S = {}
  <2> SUFFICES ASSUME S # {} PROVE FALSE
    OBVIOUS
  <2>1. S \in SUBSET Nat
    OBVIOUS
  <2>2. PICK n \in S : \A k \in S : n <= k
    BY <2>1, NatMin
  <2>3. n # 1 => best[n - 1] = Last(imb, n - 1)
    BY <2>2
  <2>4. n \in 1 .. Len(imb) /\ best[n] # Last(imb, n)
    OBVIOUS
  <2>5. /\ n = 1 => Last(imb, n) = 1
        /\ n # 1 => Last(imb, n) = Better(imb, n, Last(imb, n - 1))
    BY <2>4, LastIs
  <2>6. best[n] = IF n = 1 THEN 1 ELSE Better(imb, n, best[n - 1])
    BY <1>3, <2>4, Zenon
  <2>7. CASE n = 1
    BY <2>4, <2>5, <2>6, <2>7, Zenon
  <2>8. CASE n # 1
    BY <2>3, <2>4, <2>5, <2>6, <2>8, Zenon
  <2> QED BY <2>7, <2>8, Zenon
<1>5. Len(imb) \in 1 .. Len(imb)
  OBVIOUS
<1>6. best[Len(imb)] = Last(imb, Len(imb))
  BY <1>4, <1>5
<1> QED BY <1>6 DEF best

KeptOfAll(D, imb, len, f) ==
  [i \in 1 .. len |->
     IF i = 1 THEN [n \in D |-> 1]
     ELSE LET better == {n \in D : imb[n][i] <= imb[n][f[i - 1][n]]}
          IN [n \in D |-> IF n \in better THEN i ELSE f[i - 1][n]]]

AllBest(D, imb, len) == CHOOSE f : f = KeptOfAll(D, imb, len, f)

LEMMA AllKeptAreLast ==
  ASSUME NEW D, NEW imb, NEW len \in Nat \ {0}, \A n \in D : imb[n] \in Seq(Nat) /\ Len(imb[n]) = len
  PROVE  \A n \in D : AllBest(D, imb, len)[len][n] = Last(imb[n], len)
<1> DEFINE g == [i \in 1 .. len |-> [n \in D |-> Last(imb[n], i)]]
           best == AllBest(D, imb, len)
<1>0. ASSUME NEW f, NEW i \in 1 .. len, NEW n \in D
      PROVE  KeptOfAll(D, imb, len, f)[i][n] = IF i = 1 THEN 1 ELSE Better(imb[n], i, f[i - 1][n])
  BY DEF KeptOfAll, Better
<1>a. ASSUME NEW f, NEW i \in 1 .. len
      PROVE  KeptOfAll(D, imb, len, f)[i] = [n \in D |-> KeptOfAll(D, imb, len, f)[i][n]]
  <2>1. CASE i = 1
    BY <2>1 DEF KeptOfAll
  <2>2. CASE i # 1
    BY <2>2 DEF KeptOfAll
  <2> QED BY <2>1, <2>2
<1>1. g = KeptOfAll(D, imb, len, g)
  <2>1. ASSUME NEW i \in 1 .. len PROVE g[i] = KeptOfAll(D, imb, len, g)[i]
    <3>1. ASSUME NEW n \in D PROVE g[i][n] = KeptOfAll(D, imb, len, g)[i][n]
      <4>1. i # 1 => g[i - 1][n] = Last(imb[n], i - 1)
        OBVIOUS
      <4>2. KeptOfAll(D, imb, len, g)[i][n] = IF i = 1 THEN 1 ELSE Better(imb[n], i, g[i - 1][n])
        <5>1. \A x \in D : KeptOfAll(D, imb, len, g)[i][x] = IF i = 1 THEN 1 ELSE Better(imb[x], i, g[i - 1][x])
          BY <1>0
        <5> QED BY <5>1, Zenon
      <4>3. g[i][n] = Last(imb[n], i)
        OBVIOUS
      <4>4. /\ i = 1 => Last(imb[n], i) = 1
            /\ i # 1 => Last(imb[n], i) = Better(imb[n], i, Last(imb[n], i - 1))
        BY LastIs
      <4> HIDE DEF g
      <4>5. CASE i = 1
        BY <4>2, <4>3, <4>4, <4>5, Zenon
      <4>6. CASE i # 1
        <5>1. g[i][n] = Better(imb[n], i, g[i - 1][n])
          BY <4>1, <4>3, <4>4, <4>6, Zenon
        <5> QED BY <4>2, <4>6, <5>1, Zenon
      <4> QED BY <4>5, <4>6, Zenon
    <3>2. g[i] = [n \in D |-> g[i][n]]
      OBVIOUS
    <3>3. KeptOfAll(D, imb, len, g)[i] = [n \in D |-> KeptOfAll(D, imb, len, g)[i][n]]
      BY <1>a
    <3> HIDE DEF g
    <3> QED BY <3>1, <3>2, <3>3
  <2>2. KeptOfAll(D, imb, len, g) = [i \in 1 .. len |-> KeptOfAll(D, imb, len, g)[i]]
    BY DEF KeptOfAll
  <2>3. g = [i \in 1 .. len |-> g[i]]
    OBVIOUS
  <2> HIDE DEF g
  <2> QED BY <2>1, <2>2, <2>3
<1>2. best = KeptOfAll(D, imb, len, best)
  BY <1>1 DEF AllBest
<1> HIDE DEF best, g
<1> SUFFICES ASSUME NEW n \in D PROVE best[len][n] = Last(imb[n], len)
  BY DEF best
<1> DEFINE S == {i \in 1 .. len : best[i][n] # Last(imb[n], i)}
<1>3. ASSUME NEW i \in 1 .. len PROVE best[i][n] = IF i = 1 THEN 1 ELSE Better(imb[n], i, best[i - 1][n])
  BY <1>0, <1>2
<1>4. S = {}
  <2> SUFFICES ASSUME S # {} PROVE FALSE
    OBVIOUS
  <2>1. S \in SUBSET Nat
    OBVIOUS
  <2>2. PICK i \in S : \A k \in S : i <= k
    BY <2>1, NatMin
  <2>3. i # 1 => best[i - 1][n] = Last(imb[n], i - 1)
    BY <2>2
  <2>4. i \in 1 .. len /\ best[i][n] # Last(imb[n], i)
    OBVIOUS
  <2>5. /\ i = 1 => Last(imb[n], i) = 1
        /\ i # 1 => Last(imb[n], i) = Better(imb[n], i, Last(imb[n], i - 1))
    BY <2>4, LastIs
  <2>6. best[i][n] = IF i = 1 THEN 1 ELSE Better(imb[n], i, best[i - 1][n])
    BY <1>3, <2>4, Zenon
  <2>7. CASE i = 1
    BY <2>4, <2>5, <2>6, <2>7, Zenon
  <2>8. CASE i # 1
    BY <2>3, <2>4, <2>5, <2>6, <2>8, Zenon
  <2> QED BY <2>7, <2>8, Zenon
<1> QED BY <1>4

LEMMA BestIsLast ==
  ASSUME NEW stamp, NEW side, Imbalance[<<stamp, side>>] \in Seq(Nat), Imbalance[<<stamp, side>>] # <<>>
  PROVE  BestIterate(stamp, side) = Last(Imbalance[<<stamp, side>>], Len(Imbalance[<<stamp, side>>]))
<1> DEFINE imb == Imbalance[<<stamp, side>>]
<1>1. DOMAIN imb = 1 .. Len(imb) /\ Len(imb) \in 1 .. Len(imb)
  OBVIOUS
<1>2. BestIterate(stamp, side) =
        CHOOSE i \in 1 .. Len(imb) : \A j \in 1 .. Len(imb) : imb[i] < imb[j] \/ (imb[i] = imb[j] /\ j <= i)
  BY <1>1 DEF BestIterate
<1> HIDE DEF imb
<1>3. IsLast(imb, Len(imb), Last(imb, Len(imb)))
  BY <1>1, LastExists DEF imb
<1>4. IsLast(imb, Len(imb), BestIterate(stamp, side))
  BY <1>2, <1>3 DEF IsLast
<1> QED BY <1>1, <1>3, <1>4, LastUnique DEF imb

Stamp(t) == t.el[<<0, 0>>][2]
Side(t)  == t.el[<<0, 0>>][3]

Balanced(t) ==
  [t EXCEPT !.el = [x \in DOMAIN @ |-> <<@[x], BestIterate(Stamp(t), Side(t))>>]]

LEMMA ImbalanceType ==
  ASSUME NEW x \in DOMAIN Imbalance, NEW y \in DOMAIN Imbalance
  PROVE  Imbalance[x] \in Seq(Nat) /\ Imbalance[x] # <<>> /\ Len(Imbalance[x]) = Len(Imbalance[y])
BY TileAssumption

\* By either way, each tile of a batch is balanced at its own best iterate.
LEMMA BalanceIs ==
  ASSUME NEW N \in Nat \ {0}, NEW tiles, DOMAIN tiles = 1 .. N,
         \A n \in 1 .. N : <<Stamp(tiles[n]), Side(tiles[n])>> \in DOMAIN Imbalance
  PROVE  Balance(tiles) = [n \in 1 .. N |-> Balanced(tiles[n])]
<1>0. \A t : Iterates(t) = Imbalance[<<Stamp(t), Side(t)>>]
  BY DEF Iterates, Stamp, Side
<1>1. ASSUME NEW n \in 1 .. N
      PROVE  /\ Iterates(tiles[n]) \in Seq(Nat) /\ Iterates(tiles[n]) # <<>>
             /\ Len(Iterates(tiles[n])) = Len(Iterates(tiles[1]))
             /\ BestIterate(Stamp(tiles[n]), Side(tiles[n]))
                  = Last(Iterates(tiles[n]), Len(Iterates(tiles[n])))
  <2> DEFINE x == <<Stamp(tiles[n]), Side(tiles[n])>>
  <2>1. x \in DOMAIN Imbalance /\ <<Stamp(tiles[1]), Side(tiles[1])>> \in DOMAIN Imbalance
    OBVIOUS
  <2>2. /\ Imbalance[x] \in Seq(Nat) /\ Imbalance[x] # <<>>
        /\ Len(Imbalance[x]) = Len(Imbalance[<<Stamp(tiles[1]), Side(tiles[1])>>])
    BY <2>1, ImbalanceType
  <2> QED BY <1>0, <2>2, BestIsLast
<1>2. ASSUME NEW n \in 1 .. N
      PROVE  KernelBest(tiles[n]) = BestIterate(Stamp(tiles[n]), Side(tiles[n]))
  <2> DEFINE imb == Iterates(tiles[n])
             best == CHOOSE f : f = Kept(imb, f)
  <2>1. KernelBest(tiles[n]) = best[Len(imb)]
    BY DEF KernelBest, Kept
  <2>2. imb \in Seq(Nat) /\ imb # <<>>
    BY <1>1
  <2> HIDE DEF imb
  <2>3. best[Len(imb)] = Last(imb, Len(imb))
    BY <2>2, KeptIsLast
  <2> HIDE DEF best
  <2> QED BY <1>1, <2>1, <2>3 DEF imb
<1>3. ASSUME NEW n \in 1 .. N
      PROVE  BatchedBest(tiles)[n] = BestIterate(Stamp(tiles[n]), Side(tiles[n]))
  <2> DEFINE imb == [i \in DOMAIN tiles |-> Iterates(tiles[i])]
             len == Len(imb[1])
             best == AllBest(DOMAIN tiles, imb, len)
  <2>0. DOMAIN tiles = 1 .. N /\ 1 \in 1 .. N
    OBVIOUS
  <2>1. BatchedBest(tiles) = best[len]
    BY DEF BatchedBest, KeptOfAll, AllBest
  <2>2. \A i \in 1 .. N : imb[i] = Iterates(tiles[i])
    OBVIOUS
  <2> HIDE DEF imb
  <2>3. len \in Nat \ {0} /\ \A i \in 1 .. N : imb[i] \in Seq(Nat) /\ Len(imb[i]) = len
    BY <1>1, <2>0, <2>2
  <2> HIDE DEF len
  <2>4. best[len][n] = Last(imb[n], len)
    BY <2>0, <2>3, AllKeptAreLast
  <2> HIDE DEF best
  <2> QED BY <1>1, <2>1, <2>2, <2>3, <2>4
<1> DEFINE batched == tiles[1].rows > KernelMax \/ tiles[1].cols > KernelMax
           best == IF batched THEN BatchedBest(tiles) ELSE [n \in 1 .. N |-> KernelBest(tiles[n])]
<1>4. \A n \in 1 .. N : best[n] = BestIterate(Stamp(tiles[n]), Side(tiles[n]))
  BY <1>2, <1>3
<1>5. Balance(tiles) = [n \in 1 .. N |-> [tiles[n] EXCEPT !.el = [x \in DOMAIN @ |-> <<@[x], best[n]>>]]]
  BY DEF Balance
<1> HIDE DEF best
<1> QED BY <1>4, <1>5 DEF Balanced

----------------------------------------------------------------------------
(* What a launch packs.                                                    *)

IdealK(l, stamp, h, c) ==
  Tile(c.head_dim, c.group, [x \in (0 .. c.head_dim - 1) \X (0 .. c.group - 1) |->
         <<<<l, stamp, "K", x[2], h, x[1]>>, BestIterate(stamp, "K")>>])

IdealV(l, stamp, h, c) ==
  Tile(c.group, c.head_dim, [x \in (0 .. c.group - 1) \X (0 .. c.head_dim - 1) |->
         <<<<l, stamp, "V", x[1], h, x[2]>>, BestIterate(stamp, "V")>>])

IdealOut(l, stamp, h, c) ==
  [k |-> StoreTileK(IdealK(l, stamp, h, c), c), v |-> StoreTileV(IdealV(l, stamp, h, c), c)]

LEMMA JoinHalves ==
  ASSUME NEW N \in Nat, NEW a, NEW b, a = [n \in 1 .. N |-> a[n]], b = [n \in 1 .. N |-> b[n]]
  PROVE  /\ Len(a) = N /\ DOMAIN (a \o b) = 1 .. 2 * N
         /\ \A n \in 1 .. N : (a \o b)[n] = a[n] /\ (a \o b)[N + n] = b[n]
<1> DEFINE S == {a[n] : n \in 1 .. N} \cup {b[n] : n \in 1 .. N}
<1>1. a \in [1 .. N -> S] /\ b \in [1 .. N -> S]
  OBVIOUS
<1> HIDE DEF S
<1>2. a \in Seq(S) /\ b \in Seq(S) /\ Len(a) = N /\ Len(b) = N
  BY <1>1
<1>3. a \o b \in Seq(S) /\ Len(a \o b) = 2 * N
  BY <1>2
<1> QED BY <1>2, <1>3

LEMMA SubSeqIs ==
  ASSUME NEW m \in Nat, NEW f, f = [n \in 1 .. m |-> f[n]], NEW i \in 1 .. m, NEW j \in i .. m
  PROVE  \A n \in 1 .. j - i + 1 : SubSeq(f, i, j)[n] = f[i + n - 1]
<1> DEFINE S == {f[n] : n \in 1 .. m}
<1>1. f \in [1 .. m -> S]
  OBVIOUS
<1> HIDE DEF S
<1>2. f \in Seq(S) /\ Len(f) = m
  BY <1>1
<1> QED BY <1>2

HkType == Hk \in Nat \ {0}
LEMMA HkIsPositive == HkType
BY TileAssumption DEF HkType

LEMMA TileIndex ==
  ASSUME NEW m \in Nat \ {0}, NEW k \in Nat \ {0}, NEW n \in 1 .. m * k
  PROVE  (n - 1) \div k + 1 \in 1 .. m /\ (n - 1) % k \in 0 .. k - 1
<1>1. m * k \in Nat
  BY ProductNat
<1>2. n - 1 \in Nat
  BY <1>1
<1> DEFINE q == (n - 1) \div k
<1>3. q \in Nat /\ (n - 1) % k \in 0 .. k - 1 /\ n - 1 = q * k + ((n - 1) % k)
  BY <1>2, DivModOf
<1> HIDE DEF q
<1>4. q * k \in Nat
  BY <1>3, ProductNat
<1>5. q * k < m * k
  BY <1>1, <1>3, <1>4
<1>6. q < m
  BY <1>3, <1>5
<1> QED BY <1>3, <1>6 DEF q

LEMMA BalancedTile ==
  ASSUME NEW t, NEW r, NEW k, NEW el, NEW stamp, NEW side,
         t = Tile(r, k, el), Stamp(t) = stamp, Side(t) = side
  PROVE  Balanced(t) = Tile(r, k, [x \in DOMAIN el |-> <<el[x], BestIterate(stamp, side)>>])
<1> DEFINE to == [x \in DOMAIN el |-> <<el[x], BestIterate(stamp, side)>>]
<1>1. Balanced(t) = [t EXCEPT !.el = [x \in DOMAIN @ |-> <<@[x], BestIterate(stamp, side)>>]]
  BY Zenon DEF Balanced
<1>2. t.el = el
  BY DEF Tile
<1>3. Balanced(t) = [t EXCEPT !.el = to]
  BY <1>1, <1>2
<1> HIDE DEF to
<1>4. Balanced(t) = Tile(r, k, to)
  BY <1>3 DEF Tile
<1> QED BY <1>4 DEF to

\* A tile of a gathered batch, balanced, is that of its source and head.
LEMMA TilesBalanced ==
  ASSUME NEW c, Fits(c), NEW src, NEW m \in Nat \ {0}, Len(src) = m,
         \A i \in 1 .. m : src[i][2] \in 1 .. MaxStamp, NEW n \in 1 .. m * Hk
  PROVE  LET s == src[(n - 1) \div Hk + 1]
             h == (n - 1) % Hk
         IN /\ <<Stamp(KTiles(src, c)[n]), Side(KTiles(src, c)[n])>> \in DOMAIN Imbalance
            /\ <<Stamp(VTiles(src, c)[n]), Side(VTiles(src, c)[n])>> \in DOMAIN Imbalance
            /\ Balanced(KTiles(src, c)[n]) = IdealK(s[1], s[2], h, c)
            /\ Balanced(VTiles(src, c)[n]) = IdealV(s[1], s[2], h, c)
<1> DEFINE i == (n - 1) \div Hk + 1
           s == src[i]
           h == (n - 1) % Hk
           K == KTiles(src, c)[n]
           V == VTiles(src, c)[n]
<1>1. i \in 1 .. m
  BY TileIndex, HkIsPositive DEF HkType
<1>2. s[2] \in 1 .. MaxStamp
  BY <1>1
<1>3. /\ K = Tile(c.head_dim, c.group,
                 [x \in (0 .. c.head_dim - 1) \X (0 .. c.group - 1) |-> <<s[1], s[2], "K", x[2], h, x[1]>>])
      /\ V = Tile(c.group, c.head_dim,
                 [x \in (0 .. c.group - 1) \X (0 .. c.head_dim - 1) |-> <<s[1], s[2], "V", x[1], h, x[2]>>])
  BY DEF KTiles, VTiles
<1> HIDE DEF s, h, K, V
<1>4. <<0, 0>> \in (0 .. c.head_dim - 1) \X (0 .. c.group - 1) /\ <<0, 0>> \in (0 .. c.group - 1) \X (0 .. c.head_dim - 1)
  BY FitsType
<1>5. Stamp(K) = s[2] /\ Side(K) = "K" /\ Stamp(V) = s[2] /\ Side(V) = "V"
  BY <1>3, <1>4 DEF Stamp, Side, Tile
<1>6. DOMAIN Imbalance = (1 .. MaxStamp) \X {"K", "V"}
  BY TileAssumption
<1>7. Balanced(K) = IdealK(s[1], s[2], h, c)
  <2> DEFINE el == [x \in (0 .. c.head_dim - 1) \X (0 .. c.group - 1) |-> <<s[1], s[2], "K", x[2], h, x[1]>>]
  <2>1. K = Tile(c.head_dim, c.group, el)
    BY <1>3
  <2> HIDE DEF el
  <2>2. Balanced(K) = Tile(c.head_dim, c.group, [x \in DOMAIN el |-> <<el[x], BestIterate(s[2], "K")>>])
    BY <1>5, <2>1, BalancedTile
  <2> QED BY <2>2 DEF IdealK, el
<1>8. Balanced(V) = IdealV(s[1], s[2], h, c)
  <2> DEFINE el == [x \in (0 .. c.group - 1) \X (0 .. c.head_dim - 1) |-> <<s[1], s[2], "V", x[1], h, x[2]>>]
  <2>1. V = Tile(c.group, c.head_dim, el)
    BY <1>3
  <2> HIDE DEF el
  <2>2. Balanced(V) = Tile(c.group, c.head_dim, [x \in DOMAIN el |-> <<el[x], BestIterate(s[2], "V")>>])
    BY <1>5, <2>1, BalancedTile
  <2> QED BY <2>2 DEF IdealV, el
<1> QED BY <1>2, <1>5, <1>6, <1>7, <1>8 DEF s, h, K, V

\* In one launch or in two, each record packs the tiles of its source and head.
LEMMA PackedIs ==
  ASSUME NEW c, Fits(c), NEW src, NEW m \in Nat \ {0}, Len(src) = m,
         \A i \in 1 .. m : src[i][2] \in 1 .. MaxStamp, NEW n \in 1 .. m * Hk
  PROVE  LET s == src[(n - 1) \div Hk + 1]
         IN Packed(src, c)[n] = IdealOut(s[1], s[2], (n - 1) % Hk, c)
<1> DEFINE N == m * Hk
           K == KTiles(src, c)
           V == VTiles(src, c)
           good(t) == <<Stamp(t), Side(t)>> \in DOMAIN Imbalance
           s == src[(n - 1) \div Hk + 1]
           h == (n - 1) % Hk
<1>1. N \in Nat \ {0} /\ 2 * N \in Nat \ {0}
  BY HkIsPositive DEF HkType
<1>2. K = [i \in 1 .. N |-> K[i]] /\ V = [i \in 1 .. N |-> V[i]] /\ DOMAIN K = 1 .. N /\ DOMAIN V = 1 .. N
  BY DEF KTiles, VTiles
<1>3. \A i \in 1 .. N : good(K[i]) /\ good(V[i])
  BY TilesBalanced
<1>4. Balanced(K[n]) = IdealK(s[1], s[2], h, c) /\ Balanced(V[n]) = IdealV(s[1], s[2], h, c)
  BY TilesBalanced
<1> HIDE DEF K, V, s, h
<1>5. Len(K) = N /\ DOMAIN (K \o V) = 1 .. 2 * N
      /\ \A i \in 1 .. N : (K \o V)[i] = K[i] /\ (K \o V)[N + i] = V[i]
  BY <1>1, <1>2, JoinHalves
<1> HIDE DEF N
<1>6. \A i \in 1 .. 2 * N : good((K \o V)[i])
  <2> SUFFICES ASSUME NEW i \in 1 .. 2 * N PROVE good((K \o V)[i])
    OBVIOUS
  <2>1. CASE i \in 1 .. N
    BY <1>3, <1>5, <2>1
  <2>2. CASE i \notin 1 .. N
    <3>1. i - N \in 1 .. N /\ i = N + (i - N)
      BY <1>1, <2>2
    <3>2. (K \o V)[i] = V[i - N]
      BY <1>5, <3>1
    <3> QED BY <1>3, <3>1, <3>2
  <2> QED BY <2>1, <2>2
<1> DEFINE fused == Balance(K \o V)
<1>7. fused = [i \in 1 .. 2 * N |-> Balanced((K \o V)[i])]
  BY <1>1, <1>5, <1>6, BalanceIs
<1>8. Balance(K) = [i \in 1 .. N |-> Balanced(K[i])] /\ Balance(V) = [i \in 1 .. N |-> Balanced(V[i])]
  BY <1>1, <1>2, <1>3, BalanceIs
<1> HIDE DEF fused, good
<1>9. n \in 1 .. N /\ 1 \in 1 .. 2 * N /\ N \in 1 .. 2 * N /\ N + 1 \in 1 .. 2 * N /\ 2 * N \in N + 1 .. 2 * N
  BY <1>1 DEF N
<1>10. fused = [i \in 1 .. 2 * N |-> fused[i]] /\ Len(fused) = 2 * N
  <2>1. fused = [i \in 1 .. 2 * N |-> fused[i]]
    BY <1>7
  <2>2. Len(fused) = 2 * N
    BY <1>1, <2>1, JoinHalves
  <2> QED BY <2>1, <2>2
<1>11. SubSeq(fused, 1, N)[n] = Balanced(K[n])
  <2>1. SubSeq(fused, 1, N)[n] = fused[n]
    BY <1>1, <1>9, <1>10, SubSeqIs
  <2> QED BY <1>5, <1>7, <1>9, <2>1
<1>12. SubSeq(fused, N + 1, Len(fused))[n] = Balanced(V[n])
  <2> DEFINE i == N + 1
             j == 2 * N
  <2>0. /\ j \in Nat /\ i \in 1 .. j /\ j \in i .. j /\ n \in 1 .. j - i + 1 /\ i + n - 1 = N + n
        /\ fused = [k \in 1 .. j |-> fused[k]] /\ Len(fused) = j
    BY <1>1, <1>9, <1>10
  <2> HIDE DEF i, j
  <2>1. SubSeq(fused, i, j)[n] = fused[N + n]
    BY <2>0, SubSeqIs
  <2>2. N + n \in 1 .. 2 * N
    BY <1>1, <1>9
  <2> QED BY <1>5, <1>7, <1>9, <2>0, <2>1, <2>2 DEF i
<1> DEFINE square == K[1].rows = V[1].rows /\ K[1].cols = V[1].cols
           kbal == IF square THEN SubSeq(fused, 1, N) ELSE Balance(K)
           vbal == IF square THEN SubSeq(fused, N + 1, Len(fused)) ELSE Balance(V)
<1>13. kbal[n] = Balanced(K[n]) /\ vbal[n] = Balanced(V[n])
  BY <1>8, <1>9, <1>11, <1>12
<1>14. Packed(src, c) = [i \in 1 .. N |-> [k |-> StoreTileK(kbal[i], c), v |-> StoreTileV(vbal[i], c)]]
  BY <1>5 DEF Packed, SinkhornPackKV, K, V, fused
<1> HIDE DEF kbal, vbal
<1> QED BY <1>4, <1>9, <1>13, <1>14 DEF IdealOut, s, h

----------------------------------------------------------------------------
(* Reading the fields of a record.                                         *)

\* seq lies at offset off of rec.
FieldAt(rec, off, seq) == \A j \in 1 .. Len(seq) : rec[off + (j - 1)] = seq[j]

LEMMA FunctionLen ==
  ASSUME NEW N \in Nat, NEW f, f = [n \in 1 .. N |-> f[n]]
  PROVE  Len(f) = N
BY JoinHalves

LEMMA FloatByte ==
  ASSUME NEW n \in Nat, NEW values, Len(values) = n
  PROVE  /\ Len(Float16s(values)) = 2 * n
         /\ \A k \in 1 .. 2 * n : \A i \in 0 .. 7 :
              Float16s(values)[k][i] = <<values[(k + 1) \div 2], (8 * ((k - 1) % 2)) + i>>
<1> DEFINE f == Float16s(values)
<1>1. f = [k \in 1 .. 2 * n |-> [i \in 0 .. 7 |-> <<values[(k + 1) \div 2], (8 * ((k - 1) % 2)) + i>>]]
  BY DEF Float16s
<1>2. f = [k \in 1 .. 2 * n |-> f[k]]
  BY <1>1
<1>3. \A k \in 1 .. 2 * n : \A i \in 0 .. 7 : f[k][i] = <<values[(k + 1) \div 2], (8 * ((k - 1) % 2)) + i>>
  BY <1>1
<1> HIDE DEF f
<1>4. Len(f) = 2 * n
  BY <1>2, FunctionLen
<1> QED BY <1>3, <1>4 DEF f

\* An fp16 value is found by its two bytes.
LEMMA FloatRead ==
  ASSUME NEW n \in Nat, NEW values, Len(values) = n, NEW rec, NEW off \in Nat, off % 2 = 0,
         FieldAt(rec, off, Float16s(values)), NEW d \in 0 .. n - 1
  PROVE  /\ Load16(rec, off, d) = AllBits(values[d + 1], 16)
         /\ View16(rec, off, n)[d] = AllBits(values[d + 1], 16)
<1>1. ASSUME NEW i \in 0 .. 15
      PROVE  rec[off + 2 * d + i \div 8][i % 8] = <<values[d + 1], i>>
  <2> DEFINE k == 2 * d + (i \div 8) + 1
  <2>1. i \div 8 \in {0, 1} /\ i % 8 \in 0 .. 7 /\ 8 * (i \div 8) + (i % 8) = i
    OBVIOUS
  <2>2. k \in 1 .. 2 * n /\ (k + 1) \div 2 = d + 1 /\ (k - 1) % 2 = i \div 8 /\ off + (k - 1) = off + 2 * d + i \div 8
    BY <2>1
  <2> HIDE DEF k
  <2>3. rec[off + (k - 1)] = Float16s(values)[k]
    BY <2>2, FloatByte DEF FieldAt
  <2>4. Float16s(values)[k][i % 8] = <<values[(k + 1) \div 2], (8 * ((k - 1) % 2)) + (i % 8)>>
    BY <2>1, <2>2, FloatByte
  <2> QED BY <2>1, <2>2, <2>3, <2>4
<1>2. \A i \in 0 .. 15 : 2 * (off \div 2 + d) + i \div 8 = off + 2 * d + i \div 8
  OBVIOUS
<1>3. Load16(rec, off, d) = [i \in 0 .. 15 |-> rec[off + 2 * d + i \div 8][i % 8]]
  BY <1>2 DEF Load16
<1>4. View16(rec, off, n)[d] = [i \in 0 .. 15 |-> rec[off + 2 * d + i \div 8][i % 8]]
  BY DEF View16
<1>5. AllBits(values[d + 1], 16) = [i \in 0 .. 15 |-> <<values[d + 1], i>>]
  BY DEF AllBits
<1> QED BY <1>1, <1>3, <1>4, <1>5

LEMMA Bits ==
  ASSUME NEW bits \in {1, 2, 4, 8}
  PROVE  /\ 8 \div bits \in Nat \ {0} /\ (8 \div bits) * bits = 8
         /\ \A j \in 0 .. (8 \div bits) - 1 : \A i \in 0 .. bits - 1 :
              j * bits + i \in 0 .. 7 /\ (j * bits + i) \div bits = j /\ (j * bits + i) % bits = i
OBVIOUS

BytesOf(t, bits) ==
  \A k \in 1 .. t.rows * (t.cols \div (8 \div bits)) : \A i \in 0 .. 7 :
    PackLowbit(t, bits)[k][i] = <<Integer(t, 8 \div bits, k - 1, i \div bits), i % bits>>

LEMMA PackedByte ==
  ASSUME NEW bits \in {1, 2, 4, 8}, NEW t, t.rows \in Nat, t.cols \in Nat, t.cols % (8 \div bits) = 0
  PROVE  LET pack == 8 \div bits
             w    == t.cols \div pack
         IN /\ w \in Nat /\ t.cols = w * pack /\ t.rows * w \in Nat
            /\ Len(PackLowbit(t, bits)) = t.rows * w
            /\ BytesOf(t, bits)
<1> DEFINE pack == 8 \div bits
           w == t.cols \div pack
           f == PackLowbit(t, bits)
<1>1. pack \in Nat \ {0}
  BY Bits
<1>2. f = [k \in 1 .. t.rows * w |-> [i \in 0 .. 7 |-> <<Integer(t, pack, k - 1, i \div bits), i % bits>>]]
  BY DEF PackLowbit
<1> HIDE DEF pack
<1>3. w \in Nat /\ t.cols = w * pack
  BY <1>1, Exact DEF pack
<1>4. t.rows * w \in Nat
  BY <1>3, ProductNat
<1>5. f = [k \in 1 .. t.rows * w |-> f[k]]
  BY <1>2
<1>6. \A k \in 1 .. t.rows * w : \A i \in 0 .. 7 : f[k][i] = <<Integer(t, pack, k - 1, i \div bits), i % bits>>
  BY <1>2
<1>8. BytesOf(t, bits)
  BY <1>6, Zenon DEF BytesOf, pack
<1> HIDE DEF f, w
<1>7. Len(f) = t.rows * w
  BY <1>4, <1>5, FunctionLen
<1> QED BY <1>3, <1>4, <1>7, <1>8 DEF f, w, pack

Splits(b) == \A a \in Nat, c \in 0 .. b - 1 : (a * b + c) \div b = a /\ (a * b + c) % b = c
LEMMA SplitsIs ==
  ASSUME NEW b \in Nat \ {0}
  PROVE  Splits(b)
BY DivMod DEF Splits

\* An integer is found by its row, its byte in the row, and its place there.
IntegersFound(rec, off, t, bits) ==
  \A r \in 0 .. t.rows - 1, x \in 0 .. t.cols - 1, i \in 0 .. bits - 1 :
    LET pack == 8 \div bits
    IN rec[off + r * (t.cols \div pack) + x \div pack][(x % pack) * bits + i] = <<<<"q", t.el[<<r, x>>]>>, i>>

LEMMA IntegerRead ==
  ASSUME NEW bits \in {1, 2, 4, 8}, NEW t, t.rows \in Nat, t.cols \in Nat, t.cols % (8 \div bits) = 0,
         NEW rec, NEW off \in Nat, FieldAt(rec, off, PackLowbit(t, bits))
  PROVE  IntegersFound(rec, off, t, bits)
<1> SUFFICES ASSUME NEW r \in 0 .. t.rows - 1, NEW x \in 0 .. t.cols - 1, NEW i \in 0 .. bits - 1
             PROVE  LET pack == 8 \div bits
                    IN rec[off + r * (t.cols \div pack) + x \div pack][(x % pack) * bits + i]
                         = <<<<"q", t.el[<<r, x>>]>>, i>>
  BY DEF IntegersFound
<1> DEFINE pack == 8 \div bits
           w == t.cols \div pack
           y == x \div pack
           j == x % pack
           k == r * w + y + 1
<1>0. x \in Nat /\ r \in Nat /\ i \in Nat /\ x < t.cols
  OBVIOUS
<1>1. pack \in Nat \ {0} /\ w \in Nat /\ t.cols = w * pack /\ t.rows * w \in Nat
  BY Bits, PackedByte
<1> HIDE DEF w
<1>2. j * bits + i \in 0 .. 7 /\ (j * bits + i) \div bits = j /\ (j * bits + i) % bits = i /\ j \in 0 .. pack - 1
  BY Bits
<1> HIDE DEF pack
<1>3. y \in Nat /\ x = y * pack + j
  BY <1>0, <1>1, DivModOf
<1>4. y < w
  <2>1. y * pack < w * pack /\ y * pack \in Nat
    BY <1>0, <1>1, <1>2, <1>3, ProductNat
  <2> HIDE DEF y
  <2> QED BY <1>1, <1>3, <2>1
<1> HIDE DEF y, j
<1>5. w \in Nat \ {0} /\ y \in 0 .. w - 1
  BY <1>1, <1>3, <1>4
<1>6. (r * w + y) \div w = r /\ (r * w + y) % w = y
  <2>1. Splits(w)
    BY <1>5, SplitsIs
  <2> QED BY <1>0, <1>5, <2>1, Zenon DEF Splits
<1>7. r * w \in Nat /\ r * w + w <= t.rows * w
  <2>1. r + 1 <= t.rows /\ r \in Nat
    OBVIOUS
  <2>2. (r + 1) * w <= t.rows * w /\ (r + 1) * w = r * w + w
    BY <1>5, <2>1
  <2> QED BY <1>5, <2>1, <2>2, ProductNat
<1>8. k \in 1 .. t.rows * w /\ k - 1 = r * w + y /\ off + (k - 1) = off + r * w + y
  BY <1>1, <1>5, <1>7
<1> HIDE DEF k
<1>9. rec[off + (k - 1)] = PackLowbit(t, bits)[k]
  BY <1>8, PackedByte DEF FieldAt, w, pack
<1>10. PackLowbit(t, bits)[k][j * bits + i] = <<Integer(t, pack, k - 1, (j * bits + i) \div bits), (j * bits + i) % bits>>
  <2>1. BytesOf(t, bits)
    BY PackedByte
  <2> QED BY <1>2, <1>8, <2>1, Zenon DEF BytesOf, w, pack
<1>11. Integer(t, pack, k - 1, j) = <<"q", t.el[<<(k - 1) \div w, (pack * ((k - 1) % w)) + j>>]>>
  BY DEF Integer, w
<1>12. pack * y + j = x
  BY <1>1, <1>3
<1>13. Integer(t, pack, k - 1, j) = <<"q", t.el[<<r, x>>]>>
  BY <1>6, <1>8, <1>11, <1>12
<1>14. rec[off + r * w + y][j * bits + i] = <<<<"q", t.el[<<r, x>>]>>, i>>
  BY <1>2, <1>8, <1>9, <1>10, <1>13
<1> QED BY <1>14 DEF pack, w, y, j

----------------------------------------------------------------------------
(* A record that holds a tile, and what both readers find in it.           *)

HoldsTile(rec, o, c) ==
  /\ FieldAt(rec, KPackedOffset(c), o.k.q)   /\ FieldAt(rec, KSColOffset(c), o.k.s_col)
  /\ FieldAt(rec, KZpOffset(c), o.k.zp)      /\ FieldAt(rec, KSRowOffset(c), o.k.s_row)
  /\ FieldAt(rec, VPackedOffset(c), o.v.q)   /\ FieldAt(rec, VSColOffset(c), o.v.s_col)
  /\ FieldAt(rec, VSRowOffset(c), o.v.s_row) /\ FieldAt(rec, VZpOffset(c), o.v.zp)

\* The packed integers fill their bytes.
Whole(rows, cols, bits) ==
  /\ cols \div (8 \div bits) \in Nat
  /\ CeilDiv(rows * cols * bits, 8) = rows * (cols \div (8 \div bits))

LEMMA WholeBytes ==
  ASSUME NEW rows \in Nat, NEW cols \in Nat, NEW bits \in {1, 2, 4, 8}, cols % (8 \div bits) = 0
  PROVE  Whole(rows, cols, bits)
<1> DEFINE pack == 8 \div bits
           w == cols \div pack
<1>1. pack \in Nat \ {0} /\ pack * bits = 8
  BY Bits
<1> HIDE DEF pack
<1>2. w \in Nat /\ cols = w * pack
  BY <1>1, Exact DEF pack
<1> HIDE DEF w
<1>3. rows * cols * bits = (rows * w) * (pack * bits)
  BY <1>1, <1>2
<1>4. rows * w \in Nat
  BY <1>2, ProductNat
<1>5. rows * cols * bits = (rows * w) * 8
  BY <1>1, <1>3
<1> DEFINE n == rows * w
<1> HIDE DEF n
<1>6. CeilDiv(n * 8, 8) = n
  BY <1>4 DEF CeilDiv, n
<1>7. CeilDiv(rows * cols * bits, 8) = rows * w
  BY <1>5, <1>6, Zenon DEF n
<1> QED BY <1>2, <1>7, Zenon DEF Whole, w, pack

EvenProduct == \A a, b \in Nat : a % 2 = 0 => (a * b) % 2 = 0
LEMMA EvenTimes == EvenProduct
<1> SUFFICES ASSUME NEW a \in Nat, NEW b \in Nat, a % 2 = 0 PROVE (a * b) % 2 = 0
  BY DEF EvenProduct
<1>1. (b * a) % 2 = 0
  BY MultipleOf, 2 \in Nat \ {0}
<1>2. a * b = b * a
  BY ProductNat
<1> QED BY <1>1, <1>2

\* Where the fields lie: one behind the other, at even offsets.
LEMMA Offsets ==
  ASSUME NEW c, Fits(c)
  PROVE  /\ KPackedBytes(c) \in Nat /\ KPackedBytes(c) % 2 = 0
         /\ KPackedBytes(c) = c.head_dim * KRowBytes(c) /\ KRowBytes(c) \in Nat
         /\ VPackedBytes(c) \in Nat /\ VPackedBytes(c) % 2 = 0
         /\ VPackedBytes(c) = c.group * VRowBytes(c) /\ VRowBytes(c) \in Nat
         /\ KPackedOffset(c) = 0
         /\ KSColOffset(c) = KPackedBytes(c)
         /\ KZpOffset(c) = KSColOffset(c) + 2 * c.head_dim
         /\ KSRowOffset(c) = KZpOffset(c) + 2 * c.head_dim
         /\ VPackedOffset(c) = KSRowOffset(c) + 2 * c.group
         /\ VSColOffset(c) = VPackedOffset(c) + VPackedBytes(c)
         /\ VSRowOffset(c) = VSColOffset(c) + 2 * c.head_dim
         /\ VZpOffset(c) = VSRowOffset(c) + 2 * c.group
         /\ TileBytes(c) = VZpOffset(c) + 2 * c.group
<1>1. /\ c.key_bits \in {1, 2, 4, 8} /\ c.value_bits \in {1, 2, 4, 8}
      /\ c.group \in Nat /\ c.head_dim \in Nat
      /\ c.group % 2 = 0 /\ c.head_dim % 2 = 0
      /\ c.group % (8 \div c.key_bits) = 0 /\ c.head_dim % (8 \div c.value_bits) = 0
  BY DEF Fits
<1> DEFINE D == c.head_dim
           G == c.group
<1>2. KPackedBytes(c) = D * KRowBytes(c) /\ KRowBytes(c) \in Nat
  <2> DEFINE bits == c.key_bits
  <2>0. bits \in {1, 2, 4, 8} /\ D \in Nat /\ G \in Nat /\ G % (8 \div bits) = 0
    BY <1>1
  <2> HIDE DEF D, G, bits
  <2>1. G \div (8 \div bits) \in Nat /\ CeilDiv(D * G * bits, 8) = D * (G \div (8 \div bits))
    <3>1. Whole(D, G, bits)
      BY <2>0, WholeBytes
    <3> QED BY <3>1, Zenon DEF Whole
  <2>2. KPackedBytes(c) = CeilDiv(D * G * bits, 8) /\ KRowBytes(c) = G \div (8 \div bits)
    BY Zenon DEF KPackedBytes, KRowBytes, D, G, bits
  <2> QED BY <2>1, <2>2, Zenon
<1>3. VPackedBytes(c) = G * VRowBytes(c) /\ VRowBytes(c) \in Nat
  <2> DEFINE bits == c.value_bits
  <2>0. bits \in {1, 2, 4, 8} /\ D \in Nat /\ G \in Nat /\ D % (8 \div bits) = 0
    BY <1>1
  <2> HIDE DEF D, G, bits
  <2>1. D \div (8 \div bits) \in Nat /\ CeilDiv(G * D * bits, 8) = G * (D \div (8 \div bits))
    <3>1. Whole(G, D, bits)
      BY <2>0, WholeBytes
    <3> QED BY <3>1, Zenon DEF Whole
  <2>2. VPackedBytes(c) = CeilDiv(G * D * bits, 8) /\ VRowBytes(c) = D \div (8 \div bits)
    BY Zenon DEF VPackedBytes, VRowBytes, D, G, bits
  <2> QED BY <2>1, <2>2, Zenon
<1>4. KPackedBytes(c) \in Nat /\ KPackedBytes(c) % 2 = 0 /\ VPackedBytes(c) \in Nat /\ VPackedBytes(c) % 2 = 0
  <2> DEFINE k == KRowBytes(c)
             v == VRowBytes(c)
  <2>0. D \in Nat /\ G \in Nat /\ D % 2 = 0 /\ G % 2 = 0 /\ k \in Nat /\ v \in Nat
    BY <1>1, <1>2, <1>3
  <2>1. KPackedBytes(c) = D * k /\ VPackedBytes(c) = G * v
    BY <1>2, <1>3
  <2> HIDE DEF D, G, k, v
  <2>2. D * k \in Nat /\ G * v \in Nat
    BY <2>0, ProductNat
  <2>3. (D * k) % 2 = 0 /\ (G * v) % 2 = 0
    BY <2>0, EvenTimes DEF EvenProduct
  <2> QED BY <2>1, <2>2, <2>3
<1>a. D \in Nat /\ G \in Nat /\ c.head_dim * 2 = 2 * D /\ c.group * 2 = 2 * G
  BY <1>1
<1>b. TileBytes(c) = KPackedBytes(c) + (2 * D + G) * 2 + VPackedBytes(c) + (D + 2 * G) * 2
  BY DEF TileBytes
<1>5. /\ KPackedOffset(c) = 0
      /\ KSColOffset(c) = KPackedBytes(c)
      /\ KZpOffset(c) = KSColOffset(c) + 2 * D
      /\ KSRowOffset(c) = KZpOffset(c) + 2 * D
      /\ VPackedOffset(c) = KSRowOffset(c) + 2 * G
      /\ VSColOffset(c) = VPackedOffset(c) + VPackedBytes(c)
      /\ VSRowOffset(c) = VSColOffset(c) + 2 * D
      /\ VZpOffset(c) = VSRowOffset(c) + 2 * G
  BY <1>a, <1>4 DEF KPackedOffset, KSColOffset, KZpOffset, KSRowOffset, VPackedOffset, VSColOffset,
                    VSRowOffset, VZpOffset
<1> HIDE DEF D, G
<1>6. TileBytes(c) = VZpOffset(c) + 2 * G
  BY <1>a, <1>b, <1>4, <1>5
<1> QED BY <1>2, <1>3, <1>4, <1>5, <1>6 DEF D, G

LEMMA EvenOffsets ==
  ASSUME NEW c, Fits(c)
  PROVE  \A off \in {KPackedOffset(c), KSColOffset(c), KZpOffset(c), KSRowOffset(c),
                     VPackedOffset(c), VSColOffset(c), VSRowOffset(c), VZpOffset(c)} :
           off \in Nat /\ off % 2 = 0
<1>1. c.group \in Nat /\ c.head_dim \in Nat
  BY FitsType
<1> QED BY <1>1, Offsets


\* The scales of a tile as the readers find them.
LEMMA ScalesRead ==
  ASSUME NEW t, t.rows \in Nat, t.cols \in Nat, NEW rec, NEW off \in Nat, off % 2 = 0
  PROVE  /\ FieldAt(rec, off, RowScales(t)) => \A r \in 0 .. t.rows - 1 :
               /\ Load16(rec, off, r) = AllBits(RowScale(t, r), 16)
               /\ View16(rec, off, t.rows)[r] = AllBits(RowScale(t, r), 16)
         /\ FieldAt(rec, off, RowZeros(t)) => \A r \in 0 .. t.rows - 1 :
               /\ Load16(rec, off, r) = AllBits(RowZero(t, r), 16)
               /\ View16(rec, off, t.rows)[r] = AllBits(RowZero(t, r), 16)
         /\ FieldAt(rec, off, ColScales(t)) => \A k \in 0 .. t.cols - 1 :
               /\ Load16(rec, off, k) = AllBits(ColScale(t, k), 16)
               /\ View16(rec, off, t.cols)[k] = AllBits(ColScale(t, k), 16)
<1>1. ASSUME FieldAt(rec, off, RowScales(t)), NEW r \in 0 .. t.rows - 1
      PROVE  /\ Load16(rec, off, r) = AllBits(RowScale(t, r), 16)
             /\ View16(rec, off, t.rows)[r] = AllBits(RowScale(t, r), 16)
  <2> DEFINE values == [x \in 1 .. t.rows |-> RowScale(t, x - 1)]
  <2>1. values[r + 1] = RowScale(t, r) /\ values = [x \in 1 .. t.rows |-> values[x]]
    OBVIOUS
  <2>2. FieldAt(rec, off, Float16s(values))
    BY <1>1 DEF RowScales
  <2> HIDE DEF values
  <2>3. Len(values) = t.rows
    BY <2>1, FunctionLen
  <2> QED BY <2>1, <2>2, <2>3, FloatRead
<1>2. ASSUME FieldAt(rec, off, RowZeros(t)), NEW r \in 0 .. t.rows - 1
      PROVE  /\ Load16(rec, off, r) = AllBits(RowZero(t, r), 16)
             /\ View16(rec, off, t.rows)[r] = AllBits(RowZero(t, r), 16)
  <2> DEFINE values == [x \in 1 .. t.rows |-> RowZero(t, x - 1)]
  <2>1. values[r + 1] = RowZero(t, r) /\ values = [x \in 1 .. t.rows |-> values[x]]
    OBVIOUS
  <2>2. FieldAt(rec, off, Float16s(values))
    BY <1>2 DEF RowZeros
  <2> HIDE DEF values
  <2>3. Len(values) = t.rows
    BY <2>1, FunctionLen
  <2> QED BY <2>1, <2>2, <2>3, FloatRead
<1>3. ASSUME FieldAt(rec, off, ColScales(t)), NEW k \in 0 .. t.cols - 1
      PROVE  /\ Load16(rec, off, k) = AllBits(ColScale(t, k), 16)
             /\ View16(rec, off, t.cols)[k] = AllBits(ColScale(t, k), 16)
  <2> DEFINE values == [x \in 1 .. t.cols |-> ColScale(t, x - 1)]
  <2>1. values[k + 1] = ColScale(t, k) /\ values = [x \in 1 .. t.cols |-> values[x]]
    OBVIOUS
  <2>2. FieldAt(rec, off, Float16s(values))
    BY <1>3 DEF ColScales
  <2> HIDE DEF values
  <2>3. Len(values) = t.cols
    BY <2>1, FunctionLen
  <2> QED BY <2>1, <2>2, <2>3, FloatRead
<1> QED BY <1>1, <1>2, <1>3

LEMMA ReadsK ==
  ASSUME NEW c, Fits(c), NEW rec, NEW l, NEW stamp, NEW h, HoldsTile(rec, IdealOut(l, stamp, h, c), c),
         NEW t \in 0 .. c.group - 1, NEW d \in 0 .. c.head_dim - 1
  PROVE  /\ KernelK(rec, t, d, c) = ExpectedK(l, stamp, t, h, d, c)
         /\ GatherK(rec, t, d, c) = KernelK(rec, t, d, c)
<1> DEFINE K == IdealK(l, stamp, h, c)
           pack == 8 \div c.key_bits
           best == BestIterate(stamp, "K")
<1>1. /\ c.key_bits \in {1, 2, 4, 8} /\ c.group \in Nat \ {0} /\ c.head_dim \in Nat \ {0}
      /\ c.group % pack = 0
  BY DEF Fits
<1>2. /\ K.rows = c.head_dim /\ K.cols = c.group
      /\ \A r \in 0 .. c.head_dim - 1, k \in 0 .. c.group - 1 :
           K.el[<<r, k>>] = <<<<l, stamp, "K", k, h, r>>, best>>
  BY DEF IdealK, Tile
<1>3. /\ FieldAt(rec, KPackedOffset(c), PackLowbit(K, c.key_bits))
      /\ FieldAt(rec, KSColOffset(c), RowScales(K))
      /\ FieldAt(rec, KZpOffset(c), RowZeros(K))
      /\ FieldAt(rec, KSRowOffset(c), ColScales(K))
  BY DEF HoldsTile, IdealOut, StoreTileK
<1> HIDE DEF K, best
<1>4. KPackedOffset(c) = 0 /\ 0 \in Nat /\ t \in Nat /\ d \in Nat /\ 0 \in 0 .. c.group - 1 /\ 0 \in 0 .. c.head_dim - 1
  <2>1. KPackedOffset(c) = 0
    BY Zenon DEF KPackedOffset
  <2>2. t \in Nat /\ d \in Nat /\ 0 \in 0 .. c.group - 1 /\ 0 \in 0 .. c.head_dim - 1
    BY <1>1, SMTT(20)
  <2> QED BY <2>1, <2>2
<1>5. ASSUME NEW i \in 0 .. c.key_bits - 1
      PROVE  rec[KPackedOffset(c) + d * (c.group \div pack) + t \div pack][(t % pack) * c.key_bits + i]
               = <<<<"q", K.el[<<d, t>>]>>, i>>
  <2> DEFINE bits == c.key_bits
             off == KPackedOffset(c)
  <2>1. /\ bits \in {1, 2, 4, 8} /\ K.rows \in Nat /\ K.cols \in Nat /\ K.cols % (8 \div bits) = 0
        /\ off \in Nat /\ FieldAt(rec, off, PackLowbit(K, bits))
        /\ d \in 0 .. K.rows - 1 /\ t \in 0 .. K.cols - 1 /\ i \in 0 .. bits - 1
    BY <1>1, <1>2, <1>3, <1>4
  <2> HIDE DEF bits, off
  <2>2. rec[off + d * (K.cols \div (8 \div bits)) + t \div (8 \div bits)][(t % (8 \div bits)) * bits + i]
          = <<<<"q", K.el[<<d, t>>]>>, i>>
    <3>1. IntegersFound(rec, off, K, bits)
      BY <2>1, IntegerRead
    <3> QED BY <2>1, <3>1, Zenon DEF IntegersFound
  <2> QED BY <1>2, <2>2 DEF bits, off
<1>6. <<"q", K.el[<<d, t>>]>> = Quantity("q", l, stamp, "K", t, h, d)
  BY <1>2 DEF Quantity, best
<1>7. /\ RowScale(K, d) = Quantity("scale", l, stamp, "K", 0, h, d)
      /\ RowZero(K, d) = Quantity("zp", l, stamp, "K", 0, h, d)
      /\ ColScale(K, t) = Quantity("other", l, stamp, "K", t, h, 0)
  BY <1>2, <1>4 DEF Quantity, RowScale, RowZero, ColScale, best
<1>8. /\ KSColOffset(c) \in Nat /\ KSColOffset(c) % 2 = 0
      /\ KZpOffset(c) \in Nat /\ KZpOffset(c) % 2 = 0
      /\ KSRowOffset(c) \in Nat /\ KSRowOffset(c) % 2 = 0
  BY EvenOffsets
<1>9. /\ Load16(rec, KSColOffset(c), d) = ExpectedK(l, stamp, t, h, d, c).s_col
      /\ View16(rec, KSColOffset(c), c.head_dim)[d] = ExpectedK(l, stamp, t, h, d, c).s_col
  BY <1>1, <1>2, <1>3, <1>7, <1>8, ScalesRead DEF ExpectedK
<1>10. /\ Load16(rec, KZpOffset(c), d) = ExpectedK(l, stamp, t, h, d, c).zp
       /\ View16(rec, KZpOffset(c), c.head_dim)[d] = ExpectedK(l, stamp, t, h, d, c).zp
  BY <1>1, <1>2, <1>3, <1>7, <1>8, ScalesRead DEF ExpectedK
<1>11. /\ Load16(rec, KSRowOffset(c), t) = ExpectedK(l, stamp, t, h, d, c).s_row
       /\ View16(rec, KSRowOffset(c), c.group)[t] = ExpectedK(l, stamp, t, h, d, c).s_row
  BY <1>1, <1>2, <1>3, <1>7, <1>8, ScalesRead DEF ExpectedK
<1> DEFINE q == [i \in 0 .. c.key_bits - 1 |->
                   rec[KPackedOffset(c) + d * (c.group \div pack) + t \div pack][(t % pack) * c.key_bits + i]]
<1>12. q = ExpectedK(l, stamp, t, h, d, c).q
  BY <1>5, <1>6 DEF ExpectedK, AllBits
<1>13. KernelK(rec, t, d, c).q = q /\ UnpackLowbit(rec, KPackedOffset(c), d, c.group, c.key_bits)[t] = q
  BY DEF KernelK, KRowBytes, UnpackLowbit
<1> HIDE DEF q
<1>14. KernelK(rec, t, d, c) = ExpectedK(l, stamp, t, h, d, c)
  BY <1>9, <1>10, <1>11, <1>12, <1>13 DEF KernelK, ExpectedK
<1>15. GatherK(rec, t, d, c) = ExpectedK(l, stamp, t, h, d, c)
  BY <1>9, <1>10, <1>11, <1>12, <1>13 DEF GatherK, ExpectedK
<1> QED BY <1>14, <1>15

LEMMA ReadsV ==
  ASSUME NEW c, Fits(c), NEW rec, NEW l, NEW stamp, NEW h, HoldsTile(rec, IdealOut(l, stamp, h, c), c),
         NEW t \in 0 .. c.group - 1, NEW d \in 0 .. c.head_dim - 1
  PROVE  /\ KernelV(rec, t, d, c) = ExpectedV(l, stamp, t, h, d, c)
         /\ GatherV(rec, t, d, c) = KernelV(rec, t, d, c)
<1> DEFINE V == IdealV(l, stamp, h, c)
           pack == 8 \div c.value_bits
           best == BestIterate(stamp, "V")
<1>1. /\ c.value_bits \in {1, 2, 4, 8} /\ c.group \in Nat \ {0} /\ c.head_dim \in Nat \ {0}
      /\ c.head_dim % pack = 0
  BY DEF Fits
<1>2. /\ V.rows = c.group /\ V.cols = c.head_dim
      /\ \A r \in 0 .. c.group - 1, k \in 0 .. c.head_dim - 1 :
           V.el[<<r, k>>] = <<<<l, stamp, "V", r, h, k>>, best>>
  BY DEF IdealV, Tile
<1>3. /\ FieldAt(rec, VPackedOffset(c), PackLowbit(V, c.value_bits))
      /\ FieldAt(rec, VSColOffset(c), ColScales(V))
      /\ FieldAt(rec, VSRowOffset(c), RowScales(V))
      /\ FieldAt(rec, VZpOffset(c), RowZeros(V))
  BY DEF HoldsTile, IdealOut, StoreTileV
<1> HIDE DEF V, best
<1>4. /\ VPackedOffset(c) \in Nat
      /\ t \in Nat /\ d \in Nat /\ 0 \in 0 .. c.group - 1 /\ 0 \in 0 .. c.head_dim - 1
  <2>1. VPackedOffset(c) \in Nat
    BY EvenOffsets, ZenonT(30)
  <2> QED BY <1>1, <2>1, SMTT(20)
<1>5. ASSUME NEW i \in 0 .. c.value_bits - 1
      PROVE  rec[VPackedOffset(c) + t * (c.head_dim \div pack) + d \div pack][(d % pack) * c.value_bits + i]
               = <<<<"q", V.el[<<t, d>>]>>, i>>
  <2> DEFINE bits == c.value_bits
             off == VPackedOffset(c)
  <2>1. /\ bits \in {1, 2, 4, 8} /\ V.rows \in Nat /\ V.cols \in Nat /\ V.cols % (8 \div bits) = 0
        /\ off \in Nat /\ FieldAt(rec, off, PackLowbit(V, bits))
        /\ t \in 0 .. V.rows - 1 /\ d \in 0 .. V.cols - 1 /\ i \in 0 .. bits - 1
    BY <1>1, <1>2, <1>3, <1>4
  <2> HIDE DEF bits, off
  <2>2. rec[off + t * (V.cols \div (8 \div bits)) + d \div (8 \div bits)][(d % (8 \div bits)) * bits + i]
          = <<<<"q", V.el[<<t, d>>]>>, i>>
    <3>1. IntegersFound(rec, off, V, bits)
      BY <2>1, IntegerRead
    <3> QED BY <2>1, <3>1, Zenon DEF IntegersFound
  <2> QED BY <1>2, <2>2 DEF bits, off
<1>6. <<"q", V.el[<<t, d>>]>> = Quantity("q", l, stamp, "V", t, h, d)
  BY <1>2 DEF Quantity, best
<1>7. /\ ColScale(V, d) = Quantity("other", l, stamp, "V", 0, h, d)
      /\ RowZero(V, t) = Quantity("zp", l, stamp, "V", t, h, 0)
      /\ RowScale(V, t) = Quantity("scale", l, stamp, "V", t, h, 0)
  BY <1>2, <1>4 DEF Quantity, RowScale, RowZero, ColScale, best
<1>8. /\ VSColOffset(c) \in Nat /\ VSColOffset(c) % 2 = 0
      /\ VSRowOffset(c) \in Nat /\ VSRowOffset(c) % 2 = 0
      /\ VZpOffset(c) \in Nat /\ VZpOffset(c) % 2 = 0
  BY EvenOffsets
<1>9. /\ Load16(rec, VSColOffset(c), d) = ExpectedV(l, stamp, t, h, d, c).s_col
      /\ View16(rec, VSColOffset(c), c.head_dim)[d] = ExpectedV(l, stamp, t, h, d, c).s_col
  BY <1>1, <1>2, <1>3, <1>7, <1>8, ScalesRead DEF ExpectedV
<1>10. /\ Load16(rec, VZpOffset(c), t) = ExpectedV(l, stamp, t, h, d, c).zp
       /\ View16(rec, VZpOffset(c), c.group)[t] = ExpectedV(l, stamp, t, h, d, c).zp
  BY <1>1, <1>2, <1>3, <1>7, <1>8, ScalesRead DEF ExpectedV
<1>11. /\ Load16(rec, VSRowOffset(c), t) = ExpectedV(l, stamp, t, h, d, c).s_row
       /\ View16(rec, VSRowOffset(c), c.group)[t] = ExpectedV(l, stamp, t, h, d, c).s_row
  BY <1>1, <1>2, <1>3, <1>7, <1>8, ScalesRead DEF ExpectedV
<1> DEFINE q == [i \in 0 .. c.value_bits - 1 |->
                   rec[VPackedOffset(c) + t * (c.head_dim \div pack) + d \div pack][(d % pack) * c.value_bits + i]]
<1>12. q = ExpectedV(l, stamp, t, h, d, c).q
  BY <1>5, <1>6 DEF ExpectedV, AllBits
<1>13. KernelV(rec, t, d, c).q = q /\ UnpackLowbit(rec, VPackedOffset(c), t, c.head_dim, c.value_bits)[d] = q
  BY DEF KernelV, VRowBytes, UnpackLowbit
<1> HIDE DEF q
<1>14. KernelV(rec, t, d, c) = ExpectedV(l, stamp, t, h, d, c)
  BY <1>9, <1>10, <1>11, <1>12, <1>13 DEF KernelV, ExpectedV
<1>15. GatherV(rec, t, d, c) = ExpectedV(l, stamp, t, h, d, c)
  BY <1>9, <1>10, <1>11, <1>12, <1>13 DEF GatherV, ExpectedV
<1> QED BY <1>14, <1>15

----------------------------------------------------------------------------
(* Writing a record.                                                       *)

IsSeq(f, n) == n \in Nat /\ Len(f) = n /\ f = [j \in 1 .. n |-> f[j]]

\* f lies at offset off of the sequence a.
InSeq(a, off, f) == off + Len(f) <= Len(a) /\ \A j \in 1 .. Len(f) : a[off + j] = f[j]

LEMMA Joins ==
  ASSUME NEW m, NEW n, NEW a, NEW b, IsSeq(a, m), IsSeq(b, n)
  PROVE  /\ IsSeq(a \o b, m + n) /\ InSeq(a \o b, m, b)
         /\ \A off \in Nat : \A f : Len(f) \in Nat /\ InSeq(a, off, f) => InSeq(a \o b, off, f)
<1> DEFINE S == {a[j] : j \in 1 .. m} \cup {b[j] : j \in 1 .. n}
           ab == a \o b
<1>1. m \in Nat /\ n \in Nat /\ a \in [1 .. m -> S] /\ b \in [1 .. n -> S]
  BY DEF IsSeq
<1> HIDE DEF S
<1>2. a \in Seq(S) /\ b \in Seq(S) /\ Len(a) = m /\ Len(b) = n
  BY <1>1
<1>3. /\ ab \in Seq(S) /\ Len(ab) = m + n
      /\ \A j \in 1 .. m : ab[j] = a[j]
      /\ \A j \in 1 .. n : ab[m + j] = b[j]
  BY <1>1, <1>2
<1> HIDE DEF ab
<1>4. ab = [j \in 1 .. m + n |-> ab[j]]
  BY <1>3
<1>5. IsSeq(ab, m + n)
  BY <1>1, <1>3, <1>4 DEF IsSeq
<1>6. InSeq(ab, m, b)
  BY <1>1, <1>2, <1>3 DEF InSeq
<1>7. ASSUME NEW off \in Nat, NEW f, Len(f) \in Nat, InSeq(a, off, f) PROVE InSeq(ab, off, f)
  BY <1>1, <1>2, <1>3, <1>7 DEF InSeq
<1> QED BY <1>5, <1>6, <1>7 DEF ab

LEMMA ScaleFields ==
  ASSUME NEW t, t.rows \in Nat, t.cols \in Nat
  PROVE  /\ IsSeq(RowScales(t), 2 * t.rows) /\ IsSeq(RowZeros(t), 2 * t.rows)
         /\ IsSeq(ColScales(t), 2 * t.cols)
<1>1. ASSUME NEW n \in Nat, NEW values, values = [r \in 1 .. n |-> values[r]]
      PROVE  IsSeq(Float16s(values), 2 * n)
  <2>1. Len(values) = n
    BY <1>1, FunctionLen
  <2>2. Len(Float16s(values)) = 2 * n
    BY <2>1, FloatByte
  <2>3. Float16s(values) = [k \in 1 .. 2 * n |-> Float16s(values)[k]]
    BY <2>1 DEF Float16s
  <2> QED BY <2>2, <2>3 DEF IsSeq
<1>2. IsSeq(RowScales(t), 2 * t.rows)
  <2> DEFINE values == [r \in 1 .. t.rows |-> RowScale(t, r - 1)]
  <2>1. values = [r \in 1 .. t.rows |-> values[r]] /\ RowScales(t) = Float16s(values)
    BY DEF RowScales
  <2> HIDE DEF values
  <2> QED BY <1>1, <2>1
<1>3. IsSeq(RowZeros(t), 2 * t.rows)
  <2> DEFINE values == [r \in 1 .. t.rows |-> RowZero(t, r - 1)]
  <2>1. values = [r \in 1 .. t.rows |-> values[r]] /\ RowZeros(t) = Float16s(values)
    BY DEF RowZeros
  <2> HIDE DEF values
  <2> QED BY <1>1, <2>1
<1>4. IsSeq(ColScales(t), 2 * t.cols)
  <2> DEFINE values == [k \in 1 .. t.cols |-> ColScale(t, k - 1)]
  <2>1. values = [k \in 1 .. t.cols |-> values[k]] /\ ColScales(t) = Float16s(values)
    BY DEF ColScales
  <2> HIDE DEF values
  <2> QED BY <1>1, <2>1
<1> QED BY <1>2, <1>3, <1>4

LEMMA PackedField ==
  ASSUME NEW bits \in {1, 2, 4, 8}, NEW t, t.rows \in Nat, t.cols \in Nat, t.cols % (8 \div bits) = 0
  PROVE  IsSeq(PackLowbit(t, bits), t.rows * (t.cols \div (8 \div bits)))
<1>1. PackLowbit(t, bits) = [k \in 1 .. t.rows * (t.cols \div (8 \div bits)) |-> PackLowbit(t, bits)[k]]
  BY DEF PackLowbit
<1>2. /\ t.rows * (t.cols \div (8 \div bits)) \in Nat
      /\ Len(PackLowbit(t, bits)) = t.rows * (t.cols \div (8 \div bits))
  BY PackedByte
<1> QED BY <1>1, <1>2 DEF IsSeq

\* The fields of a record have the sizes its configuration gives them.
FieldsFit(o, c) ==
  /\ IsSeq(o.k.q, KPackedBytes(c)) /\ IsSeq(o.k.s_col, 2 * c.head_dim)
  /\ IsSeq(o.k.zp, 2 * c.head_dim) /\ IsSeq(o.k.s_row, 2 * c.group)
  /\ IsSeq(o.v.q, VPackedBytes(c)) /\ IsSeq(o.v.s_col, 2 * c.head_dim)
  /\ IsSeq(o.v.s_row, 2 * c.group) /\ IsSeq(o.v.zp, 2 * c.group)

LEMMA IdealFits ==
  ASSUME NEW c, Fits(c), NEW l, NEW stamp, NEW h
  PROVE  FieldsFit(IdealOut(l, stamp, h, c), c)
<1> DEFINE K == IdealK(l, stamp, h, c)
           V == IdealV(l, stamp, h, c)
<1>1. /\ c.key_bits \in {1, 2, 4, 8} /\ c.value_bits \in {1, 2, 4, 8}
      /\ c.group \in Nat /\ c.head_dim \in Nat
      /\ c.group % (8 \div c.key_bits) = 0 /\ c.head_dim % (8 \div c.value_bits) = 0
  BY DEF Fits
<1>2. K.rows = c.head_dim /\ K.cols = c.group /\ V.rows = c.group /\ V.cols = c.head_dim
  BY DEF IdealK, IdealV, Tile
<1> HIDE DEF K, V
<1>3. /\ KPackedBytes(c) = c.head_dim * (c.group \div (8 \div c.key_bits))
      /\ VPackedBytes(c) = c.group * (c.head_dim \div (8 \div c.value_bits))
  BY Offsets DEF KRowBytes, VRowBytes
<1>4. IsSeq(PackLowbit(K, c.key_bits), K.rows * (K.cols \div (8 \div c.key_bits)))
  BY <1>1, <1>2, PackedField
<1>5. IsSeq(PackLowbit(V, c.value_bits), V.rows * (V.cols \div (8 \div c.value_bits)))
  BY <1>1, <1>2, PackedField
<1>6. /\ IsSeq(RowScales(K), 2 * c.head_dim) /\ IsSeq(RowZeros(K), 2 * c.head_dim) /\ IsSeq(ColScales(K), 2 * c.group)
      /\ IsSeq(RowScales(V), 2 * c.group) /\ IsSeq(RowZeros(V), 2 * c.group) /\ IsSeq(ColScales(V), 2 * c.head_dim)
  BY <1>1, <1>2, ScaleFields
<1> QED BY <1>2, <1>3, <1>4, <1>5, <1>6 DEF FieldsFit, IdealOut, StoreTileK, StoreTileV, K, V

\* Laid one behind the other, the fields lie at their offsets.
Carries(a, b) == \A off \in Nat : \A f : Len(f) \in Nat /\ InSeq(a, off, f) => InSeq(b, off, f)

LEMMA JoinOne ==
  ASSUME NEW m, NEW n, NEW a, NEW b, IsSeq(a, m), IsSeq(b, n), NEW p, p = m + n
  PROVE  IsSeq(a \o b, p) /\ InSeq(a \o b, m, b) /\ Carries(a, a \o b)
BY Joins DEF Carries

LEMMA JoinedHolds ==
  ASSUME NEW c, Fits(c), NEW out, NEW n, FieldsFit(out[n], c),
         NEW rec, NEW size \in Nat, size >= TileBytes(c),
         rec = [a \in 0 .. size - 1 |-> IF a < Len(Joined(out, n)) THEN Joined(out, n)[a + 1] ELSE Padding]
  PROVE  HoldsTile(rec, out[n], c)
<1> DEFINE k == out[n].k
           v == out[n].v
           s1 == k.q
           s2 == s1 \o k.s_col
           s3 == s2 \o k.zp
           s4 == s3 \o k.s_row
           s5 == s4 \o v.q
           s6 == s5 \o v.s_col
           s7 == s6 \o v.s_row
           s8 == s7 \o v.zp
<1>0. Joined(out, n) = s8
  BY DEF Joined
<1>1. /\ IsSeq(k.q, KPackedBytes(c)) /\ IsSeq(k.s_col, 2 * c.head_dim)
      /\ IsSeq(k.zp, 2 * c.head_dim) /\ IsSeq(k.s_row, 2 * c.group)
      /\ IsSeq(v.q, VPackedBytes(c)) /\ IsSeq(v.s_col, 2 * c.head_dim)
      /\ IsSeq(v.s_row, 2 * c.group) /\ IsSeq(v.zp, 2 * c.group)
  BY DEF FieldsFit
<1> HIDE DEF k, v
<1>2. /\ KPackedOffset(c) = 0 /\ KPackedBytes(c) \in Nat
      /\ KSColOffset(c) = KPackedBytes(c)
      /\ KZpOffset(c) = KSColOffset(c) + 2 * c.head_dim
      /\ KSRowOffset(c) = KZpOffset(c) + 2 * c.head_dim
      /\ VPackedOffset(c) = KSRowOffset(c) + 2 * c.group
      /\ VSColOffset(c) = VPackedOffset(c) + VPackedBytes(c)
      /\ VSRowOffset(c) = VSColOffset(c) + 2 * c.head_dim
      /\ VZpOffset(c) = VSRowOffset(c) + 2 * c.group
      /\ TileBytes(c) = VZpOffset(c) + 2 * c.group
  BY Offsets
<1>3. /\ KPackedOffset(c) \in Nat /\ KSColOffset(c) \in Nat /\ KZpOffset(c) \in Nat /\ KSRowOffset(c) \in Nat
      /\ VPackedOffset(c) \in Nat /\ VSColOffset(c) \in Nat /\ VSRowOffset(c) \in Nat /\ VZpOffset(c) \in Nat
  BY EvenOffsets
<1>4. /\ Len(k.q) \in Nat /\ Len(k.s_col) \in Nat /\ Len(k.zp) \in Nat /\ Len(k.s_row) \in Nat
      /\ Len(v.q) \in Nat /\ Len(v.s_col) \in Nat /\ Len(v.s_row) \in Nat /\ Len(v.zp) \in Nat
  BY <1>1 DEF IsSeq
<1>s1. IsSeq(s1, KSColOffset(c)) /\ InSeq(s1, KPackedOffset(c), k.q)
  BY <1>1, <1>2 DEF IsSeq, InSeq
<1> HIDE DEF s1
<1>s2. IsSeq(s2, KZpOffset(c)) /\ InSeq(s2, KSColOffset(c), k.s_col) /\ Carries(s1, s2)
  BY <1>s1, <1>1, <1>2, JoinOne
<1> HIDE DEF s2
<1>s3. IsSeq(s3, KSRowOffset(c)) /\ InSeq(s3, KZpOffset(c), k.zp) /\ Carries(s2, s3)
  BY <1>s2, <1>1, <1>2, JoinOne
<1> HIDE DEF s3
<1>s4. IsSeq(s4, VPackedOffset(c)) /\ InSeq(s4, KSRowOffset(c), k.s_row) /\ Carries(s3, s4)
  BY <1>s3, <1>1, <1>2, JoinOne
<1> HIDE DEF s4
<1>s5. IsSeq(s5, VSColOffset(c)) /\ InSeq(s5, VPackedOffset(c), v.q) /\ Carries(s4, s5)
  BY <1>s4, <1>1, <1>2, JoinOne
<1> HIDE DEF s5
<1>s6. IsSeq(s6, VSRowOffset(c)) /\ InSeq(s6, VSColOffset(c), v.s_col) /\ Carries(s5, s6)
  BY <1>s5, <1>1, <1>2, JoinOne
<1> HIDE DEF s6
<1>s7. IsSeq(s7, VZpOffset(c)) /\ InSeq(s7, VSRowOffset(c), v.s_row) /\ Carries(s6, s7)
  BY <1>s6, <1>1, <1>2, JoinOne
<1> HIDE DEF s7
<1>s8. IsSeq(s8, TileBytes(c)) /\ InSeq(s8, VZpOffset(c), v.zp) /\ Carries(s7, s8)
  BY <1>s7, <1>1, <1>2, JoinOne
<1> HIDE DEF s8
<1>5. \A off \in Nat : \A f : Len(f) \in Nat =>
        /\ InSeq(s1, off, f) => InSeq(s2, off, f)
        /\ InSeq(s2, off, f) => InSeq(s3, off, f)
        /\ InSeq(s3, off, f) => InSeq(s4, off, f)
        /\ InSeq(s4, off, f) => InSeq(s5, off, f)
        /\ InSeq(s5, off, f) => InSeq(s6, off, f)
        /\ InSeq(s6, off, f) => InSeq(s7, off, f)
        /\ InSeq(s7, off, f) => InSeq(s8, off, f)
  BY <1>s2, <1>s3, <1>s4, <1>s5, <1>s6, <1>s7, <1>s8 DEF Carries
<1>6. /\ InSeq(s8, KPackedOffset(c), k.q) /\ InSeq(s8, KSColOffset(c), k.s_col)
      /\ InSeq(s8, KZpOffset(c), k.zp) /\ InSeq(s8, KSRowOffset(c), k.s_row)
  BY <1>s1, <1>s2, <1>s3, <1>s4, <1>3, <1>4, <1>5
<1>7. /\ InSeq(s8, VPackedOffset(c), v.q) /\ InSeq(s8, VSColOffset(c), v.s_col)
      /\ InSeq(s8, VSRowOffset(c), v.s_row) /\ InSeq(s8, VZpOffset(c), v.zp)
  BY <1>s5, <1>s6, <1>s7, <1>s8, <1>3, <1>4, <1>5
<1>8. ASSUME NEW off \in Nat, NEW f, Len(f) \in Nat, InSeq(s8, off, f) PROVE FieldAt(rec, off, f)
  <2> SUFFICES ASSUME NEW j \in 1 .. Len(f) PROVE rec[off + (j - 1)] = f[j]
    BY DEF FieldAt
  <2>1. Len(s8) = TileBytes(c) /\ TileBytes(c) \in Nat
    BY <1>s8 DEF IsSeq
  <2>a. off + Len(f) <= Len(s8)
    BY <1>8, Zenon DEF InSeq
  <2>2. off + (j - 1) \in 0 .. size - 1 /\ off + (j - 1) < Len(s8) /\ (off + (j - 1)) + 1 = off + j
    <3> DEFINE len == Len(f)
               all == Len(s8)
               tile == TileBytes(c)
    <3>1. /\ off \in Nat /\ len \in Nat /\ off + len <= all /\ all = tile /\ tile \in Nat
          /\ size \in Nat /\ size >= tile /\ j \in 1 .. len
      BY <1>8, <2>1, <2>a, Zenon
    <3> HIDE DEF len, all, tile
    <3>2. off + (j - 1) \in 0 .. size - 1 /\ off + (j - 1) < all /\ (off + (j - 1)) + 1 = off + j
      BY <3>1
    <3> QED BY <3>2, Zenon DEF all
  <2>3. rec[off + (j - 1)] = s8[off + j]
    <3> DEFINE a == off + (j - 1)
    <3>1. a \in 0 .. size - 1 /\ a < Len(s8) /\ a + 1 = off + j
      BY <2>2
    <3> HIDE DEF a
    <3>2. rec[a] = s8[a + 1]
      BY <1>0, <3>1
    <3> QED BY <3>1, <3>2, Zenon DEF a
  <2> QED BY <1>8, <2>3 DEF InSeq
<1> QED BY <1>3, <1>4, <1>6, <1>7, <1>8 DEF HoldsTile, k, v

\* Slices that do not overlap are all found where they were written.
LEMMA SlicesHold ==
  ASSUME NEW n \in Nat, NEW fields, DOMAIN fields = 1 .. n, Len(fields) = n, NEW old,
         \A i \in 1 .. n : fields[i][1] \in Nat /\ Len(fields[i][2]) \in Nat,
         \A i \in 1 .. n : \A j \in i + 1 .. n : fields[i][1] + Len(fields[i][2]) <= fields[j][1],
         \A i \in 1 .. n : \A a \in Nat : Covers(fields[i], a) => a \in DOMAIN old
  PROVE  \A i \in 1 .. n : FieldAt(WriteSlices(old, fields), fields[i][1], fields[i][2])
<1> SUFFICES ASSUME NEW i \in 1 .. n, NEW j \in 1 .. Len(fields[i][2])
             PROVE  WriteSlices(old, fields)[fields[i][1] + (j - 1)] = fields[i][2][j]
  BY DEF FieldAt
<1> DEFINE a == fields[i][1] + (j - 1)
           last == CHOOSE x \in DOMAIN fields :
                     Covers(fields[x], a) /\ \A y \in x + 1 .. Len(fields) : ~Covers(fields[y], a)
<1>1. /\ a \in Nat /\ Covers(fields[i], a) /\ (a - fields[i][1]) + 1 = j /\ a \in DOMAIN old
  <2>1. a \in Nat /\ Covers(fields[i], a) /\ (a - fields[i][1]) + 1 = j
    BY DEF Covers
  <2> QED BY <2>1
<1> HIDE DEF a
<1>2. ASSUME NEW x \in 1 .. n, Covers(fields[x], a) PROVE x = i
  <2>1. CASE x < i
    <3>1. i \in x + 1 .. n
      BY <2>1
    <3>2. fields[x][1] + Len(fields[x][2]) <= fields[i][1]
      BY <3>1, Zenon
    <3>3. a < fields[x][1] + Len(fields[x][2]) /\ fields[i][1] <= a
      BY <1>1, <1>2, Zenon DEF Covers
    <3>4. fields[x][1] \in Nat /\ Len(fields[x][2]) \in Nat /\ fields[i][1] \in Nat
      BY Zenon
    <3> QED BY <1>1, <3>2, <3>3, <3>4
  <2>2. CASE i < x
    <3>1. x \in i + 1 .. n
      BY <2>2
    <3>2. fields[i][1] + Len(fields[i][2]) <= fields[x][1]
      BY <3>1, Zenon
    <3>3. a < fields[i][1] + Len(fields[i][2]) /\ fields[x][1] <= a
      BY <1>1, <1>2, Zenon DEF Covers
    <3>4. fields[i][1] \in Nat /\ Len(fields[i][2]) \in Nat /\ fields[x][1] \in Nat
      BY Zenon
    <3> QED BY <1>1, <3>2, <3>3, <3>4
  <2>3. i \in Nat /\ x \in Nat
    OBVIOUS
  <2> HIDE DEF a
  <2> QED BY <2>1, <2>2, <2>3
<1>3. last = i
  <2>1. \A y \in i + 1 .. Len(fields) : ~Covers(fields[y], a)
    <3> SUFFICES ASSUME NEW y \in i + 1 .. n, Covers(fields[y], a) PROVE FALSE
      OBVIOUS
    <3>1. y \in 1 .. n /\ y # i
      OBVIOUS
    <3> QED BY <1>2, <3>1
  <2>2. /\ last \in DOMAIN fields /\ Covers(fields[last], a)
    BY <1>1, <2>1
  <2> QED BY <1>2, <2>2
<1>4. WriteSlices(old, fields)[a] = fields[last][2][(a - fields[last][1]) + 1]
  BY <1>1, Zenon DEF WriteSlices
<1> HIDE DEF last
<1> QED BY <1>1, <1>3, <1>4, Zenon DEF a

\* Eight pieces one behind the other do not overlap.
LEMMA InARow ==
  ASSUME NEW off, NEW len, NEW end, \A i \in 1 .. 8 : len[i] \in Nat, off[1] = 0,
         off[2] = off[1] + len[1], off[3] = off[2] + len[2], off[4] = off[3] + len[3],
         off[5] = off[4] + len[4], off[6] = off[5] + len[5], off[7] = off[6] + len[6],
         off[8] = off[7] + len[7], end = off[8] + len[8]
  PROVE  /\ \A i \in 1 .. 8 : off[i] \in Nat /\ off[i] + len[i] \in Nat /\ off[i] + len[i] <= end
         /\ \A i \in 1 .. 8 : \A j \in i + 1 .. 8 : off[i] + len[i] <= off[j]
<1>1. off[1] \in Nat /\ off[2] \in Nat /\ off[3] \in Nat
  OBVIOUS
<1>2. off[4] \in Nat /\ off[5] \in Nat
  BY <1>1
<1>3. off[6] \in Nat /\ off[7] \in Nat
  BY <1>2
<1>4. off[8] \in Nat /\ end \in Nat
  BY <1>3
<1> DEFINE edge(i) == off[i] + len[i]
<1>5. \A i \in 1 .. 8 : off[i] \in Nat
  BY <1>1, <1>2, <1>3, <1>4
<1>6. \A i \in 1 .. 8 : off[i] + len[i] \in Nat
  BY <1>5
<1>7. off[1] <= off[2] /\ off[2] <= off[3] /\ off[3] <= off[4] /\ off[4] <= off[5]
  BY <1>5
<1>8. off[5] <= off[6] /\ off[6] <= off[7] /\ off[7] <= off[8] /\ off[8] <= end
  BY <1>5, <1>4
<1>9. \A i \in 1 .. 7 : off[i] + len[i] = off[i + 1]
  OBVIOUS
<1>10. \A i \in 1 .. 8 : \A j \in i .. 8 : off[i] <= off[j]
  <2>1. (\A j \in 7 .. 8 : off[7] <= off[j]) /\ (\A j \in 8 .. 8 : off[8] <= off[j])
    BY <1>5, <1>8
  <2>2. \A j \in 6 .. 8 : off[6] <= off[j]
    BY <1>5, <1>8, <2>1
  <2>3. \A j \in 5 .. 8 : off[5] <= off[j]
    BY <1>5, <1>8, <2>2
  <2>4. \A j \in 4 .. 8 : off[4] <= off[j]
    BY <1>5, <1>7, <2>3
  <2>5. \A j \in 3 .. 8 : off[3] <= off[j]
    BY <1>5, <1>7, <2>4
  <2>6. \A j \in 2 .. 8 : off[2] <= off[j]
    BY <1>5, <1>7, <2>5
  <2>7. \A j \in 1 .. 8 : off[1] <= off[j]
    BY <1>5, <1>7, <2>6
  <2> QED BY <2>1, <2>2, <2>3, <2>4, <2>5, <2>6, <2>7
<1>11. ASSUME NEW i \in 1 .. 8, NEW j \in i + 1 .. 8 PROVE off[i] + len[i] <= off[j]
  <2>1. i \in 1 .. 7 /\ i + 1 \in 1 .. 8 /\ j \in (i + 1) .. 8
    OBVIOUS
  <2> QED BY <1>9, <1>10, <2>1
<1>12. ASSUME NEW i \in 1 .. 8 PROVE off[i] + len[i] <= end
  <2>1. CASE i = 8
    BY <1>4, <2>1
  <2>2. CASE i # 8
    <3>1. off[i] + len[i] <= off[8]
      BY <1>11, <2>2
    <3> QED BY <1>4, <1>5, <1>6, <1>8, <3>1
  <2> QED BY <2>1, <2>2
<1> QED BY <1>5, <1>6, <1>11, <1>12

\* The eight slices of a record are one behind the other.
LEMMA WrittenHolds ==
  ASSUME NEW c, Fits(c), NEW o, FieldsFit(o, c), NEW size \in Nat, size >= TileBytes(c),
         NEW old, DOMAIN old = 0 .. size - 1
  PROVE  HoldsTile(WritePacked(old, o, c), o, c)
<1> DEFINE fields == <<<<KPackedOffset(c), o.k.q>>, <<KSColOffset(c), o.k.s_col>>,
                     <<KZpOffset(c), o.k.zp>>, <<KSRowOffset(c), o.k.s_row>>,
                     <<VPackedOffset(c), o.v.q>>, <<VSColOffset(c), o.v.s_col>>,
                     <<VSRowOffset(c), o.v.s_row>>, <<VZpOffset(c), o.v.zp>>>>
           off == <<KPackedOffset(c), KSColOffset(c), KZpOffset(c), KSRowOffset(c),
                    VPackedOffset(c), VSColOffset(c), VSRowOffset(c), VZpOffset(c)>>
           len == <<Len(o.k.q), Len(o.k.s_col), Len(o.k.zp), Len(o.k.s_row),
                    Len(o.v.q), Len(o.v.s_col), Len(o.v.s_row), Len(o.v.zp)>>
<1>1. DOMAIN fields = 1 .. 8 /\ Len(fields) = 8
  OBVIOUS
<1>2. /\ off[1] = KPackedOffset(c) /\ len[1] = Len(o.k.q)
      /\ off[2] = KSColOffset(c) /\ len[2] = Len(o.k.s_col)
      /\ off[3] = KZpOffset(c) /\ len[3] = Len(o.k.zp)
      /\ off[4] = KSRowOffset(c) /\ len[4] = Len(o.k.s_row)
      /\ off[5] = VPackedOffset(c) /\ len[5] = Len(o.v.q)
      /\ off[6] = VSColOffset(c) /\ len[6] = Len(o.v.s_col)
      /\ off[7] = VSRowOffset(c) /\ len[7] = Len(o.v.s_row)
      /\ off[8] = VZpOffset(c) /\ len[8] = Len(o.v.zp)
  OBVIOUS
<1>4. WritePacked(old, o, c) = WriteSlices(old, fields)
  BY DEF WritePacked
<1>5. /\ fields[1] = <<KPackedOffset(c), o.k.q>> /\ fields[2] = <<KSColOffset(c), o.k.s_col>>
      /\ fields[3] = <<KZpOffset(c), o.k.zp>> /\ fields[4] = <<KSRowOffset(c), o.k.s_row>>
      /\ fields[5] = <<VPackedOffset(c), o.v.q>> /\ fields[6] = <<VSColOffset(c), o.v.s_col>>
      /\ fields[7] = <<VSRowOffset(c), o.v.s_row>> /\ fields[8] = <<VZpOffset(c), o.v.zp>>
  OBVIOUS
<1> HIDE DEF fields, off, len
<1>3. \A i \in 1 .. 8 : fields[i][1] = off[i] /\ Len(fields[i][2]) = len[i]
  <2>1. /\ fields[1][1] = off[1] /\ Len(fields[1][2]) = len[1] /\ fields[2][1] = off[2] /\ Len(fields[2][2]) = len[2]
        /\ fields[3][1] = off[3] /\ Len(fields[3][2]) = len[3] /\ fields[4][1] = off[4] /\ Len(fields[4][2]) = len[4]
    BY <1>2, <1>5
  <2>2. /\ fields[5][1] = off[5] /\ Len(fields[5][2]) = len[5] /\ fields[6][1] = off[6] /\ Len(fields[6][2]) = len[6]
        /\ fields[7][1] = off[7] /\ Len(fields[7][2]) = len[7] /\ fields[8][1] = off[8] /\ Len(fields[8][2]) = len[8]
    BY <1>2, <1>5
  <2>3. \A i \in 1 .. 8 : i = 1 \/ i = 2 \/ i = 3 \/ i = 4 \/ i = 5 \/ i = 6 \/ i = 7 \/ i = 8
    OBVIOUS
  <2> QED BY <2>1, <2>2, <2>3, Zenon
<1>6. /\ Len(o.k.q) = KPackedBytes(c) /\ Len(o.k.s_col) = 2 * c.head_dim
      /\ Len(o.k.zp) = 2 * c.head_dim /\ Len(o.k.s_row) = 2 * c.group
      /\ Len(o.v.q) = VPackedBytes(c) /\ Len(o.v.s_col) = 2 * c.head_dim
      /\ Len(o.v.s_row) = 2 * c.group /\ Len(o.v.zp) = 2 * c.group
  BY DEF FieldsFit, IsSeq
<1>7. /\ Len(o.k.q) \in Nat /\ Len(o.k.s_col) \in Nat /\ Len(o.k.zp) \in Nat /\ Len(o.k.s_row) \in Nat
      /\ Len(o.v.q) \in Nat /\ Len(o.v.s_col) \in Nat /\ Len(o.v.s_row) \in Nat /\ Len(o.v.zp) \in Nat
  BY DEF FieldsFit, IsSeq
<1>8. \A i \in 1 .. 8 : len[i] \in Nat
  <2>1. len[1] \in Nat /\ len[2] \in Nat /\ len[3] \in Nat /\ len[4] \in Nat
    BY <1>2, <1>7, Zenon
  <2>2. len[5] \in Nat /\ len[6] \in Nat /\ len[7] \in Nat /\ len[8] \in Nat
    BY <1>2, <1>7, Zenon
  <2>3. \A i \in 1 .. 8 : i = 1 \/ i = 2 \/ i = 3 \/ i = 4 \/ i = 5 \/ i = 6 \/ i = 7 \/ i = 8
    OBVIOUS
  <2> QED BY <2>1, <2>2, <2>3, Zenon
<1>9. /\ KPackedOffset(c) = 0 /\ KSColOffset(c) = KPackedOffset(c) + KPackedBytes(c)
      /\ KZpOffset(c) = KSColOffset(c) + 2 * c.head_dim
      /\ KSRowOffset(c) = KZpOffset(c) + 2 * c.head_dim
      /\ VPackedOffset(c) = KSRowOffset(c) + 2 * c.group
      /\ VSColOffset(c) = VPackedOffset(c) + VPackedBytes(c)
      /\ VSRowOffset(c) = VSColOffset(c) + 2 * c.head_dim
      /\ VZpOffset(c) = VSRowOffset(c) + 2 * c.group
      /\ TileBytes(c) = VZpOffset(c) + 2 * c.group
  BY Offsets
<1>10. /\ off[1] = 0
       /\ off[2] = off[1] + len[1] /\ off[3] = off[2] + len[2] /\ off[4] = off[3] + len[3]
       /\ off[5] = off[4] + len[4] /\ off[6] = off[5] + len[5] /\ off[7] = off[6] + len[6]
       /\ off[8] = off[7] + len[7] /\ TileBytes(c) = off[8] + len[8]
  BY <1>2, <1>6, <1>9, Zenon
<1>11. \A i \in 1 .. 8 : off[i] \in Nat /\ off[i] + len[i] \in Nat /\ off[i] + len[i] <= TileBytes(c)
  BY <1>8, <1>10, InARow
<1>12. \A i \in 1 .. 8 : \A j \in i + 1 .. 8 : off[i] + len[i] <= off[j]
  BY <1>8, <1>10, InARow
<1>13. TileBytes(c) \in Nat
  BY PackedBytes
<1>14. \A i \in 1 .. 8 : \A a \in Nat : Covers(fields[i], a) => a \in DOMAIN old
  <2> SUFFICES ASSUME NEW i \in 1 .. 8, NEW a \in Nat, Covers(fields[i], a) PROVE a \in 0 .. size - 1
    OBVIOUS
  <2>1. a < off[i] + len[i]
    BY <1>3 DEF Covers
  <2>2. off[i] + len[i] \in Nat
    BY <1>11
  <2>3. a < TileBytes(c)
    <3>1. off[i] + len[i] <= TileBytes(c)
      BY <1>11
    <3> QED BY <1>13, <2>1, <2>2, <3>1
  <2> QED BY <1>13, <2>3
<1>15. \A i \in 1 .. 8 : fields[i][1] \in Nat /\ Len(fields[i][2]) \in Nat
  BY <1>3, <1>8, <1>11
<1>16. \A i \in 1 .. 8 : \A j \in i + 1 .. 8 : fields[i][1] + Len(fields[i][2]) <= fields[j][1]
  <2> SUFFICES ASSUME NEW i \in 1 .. 8, NEW j \in i + 1 .. 8
               PROVE  fields[i][1] + Len(fields[i][2]) <= fields[j][1]
    OBVIOUS
  <2>1. j \in 1 .. 8
    OBVIOUS
  <2> QED BY <1>3, <1>12, <2>1
<1>17. \A i \in 1 .. 8 : FieldAt(WriteSlices(old, fields), fields[i][1], fields[i][2])
  BY <1>1, <1>14, <1>15, <1>16, SlicesHold
<1> QED BY <1>4, <1>5, <1>17 DEF HoldsTile

----------------------------------------------------------------------------
(* The two flush paths.                                                    *)

\* The chunk of a position starts below it and reaches it.
InChunk(N, seq, p, n) ==
  /\ ChunkStart(p, n) \in Nat
  /\ \E m \in Nat \ {0} :
       /\ DOMAIN Chunk(seq, p, n) = 1 .. m /\ p - ChunkStart(p, n) \in 1 .. m
       /\ \A i \in 1 .. m : ChunkStart(p, n) + i \in 1 .. N /\ Chunk(seq, p, n)[i] = seq[ChunkStart(p, n) + i]

LEMMA ChunkIs ==
  ASSUME NEW N, NEW seq, IsSeq(seq, N), NEW p \in 1 .. N, NEW n \in Nat \ {0}
  PROVE  InChunk(N, seq, p, n)
<1> DEFINE start == ChunkStart(p, n)
           end == IF start + n < N THEN start + n ELSE N
           m == end - start
<1>0. N \in Nat
  BY DEF IsSeq
<1>1. start \in Nat /\ start <= p - 1 /\ p - 1 < start + n
  <2> DEFINE q == (p - 1) \div n
             r == (p - 1) % n
  <2>1. p - 1 \in Nat
    BY <1>0
  <2>2. q \in Nat /\ r \in 0 .. n - 1 /\ p - 1 = q * n + r
    BY <2>1, DivModOf
  <2>3. start = q * n
    BY DEF ChunkStart
  <2> HIDE DEF q, r
  <2>4. start \in Nat /\ p - 1 = start + r
    BY <2>2, <2>3, ProductNat
  <2> QED BY <2>2, <2>4
<1>2. end \in start + 1 .. N /\ p <= end /\ m \in Nat \ {0} /\ p - start \in 1 .. m
  BY <1>0, <1>1
<1>3. end \in Nat /\ start + 1 \in 1 .. N /\ (end - (start + 1)) + 1 = m
  BY <1>0, <1>1
<1>4. Len(seq) = N /\ N \in Nat /\ seq = [i \in 1 .. N |-> seq[i]]
  BY DEF IsSeq
<1>5. Chunk(seq, p, n) = SubSeq(seq, start + 1, end)
  BY <1>4 DEF Chunk
<1> HIDE DEF start, end
<1>6. \A i \in 1 .. m : SubSeq(seq, start + 1, end)[i] = seq[start + i]
  <2>1. start + 1 \in 1 .. N /\ end \in start + 1 .. N
    BY <1>2, <1>3
  <2>2. \A i \in 1 .. end - (start + 1) + 1 : SubSeq(seq, start + 1, end)[i] = seq[start + 1 + i - 1]
    BY <1>4, <2>1, SubSeqIs
  <2>3. \A i \in 1 .. m : start + 1 + i - 1 = start + i
    BY <1>1
  <2> QED BY <1>3, <2>2, <2>3
<1>7. DOMAIN SubSeq(seq, start + 1, end) = 1 .. m
  <2> DEFINE S == {seq[i] : i \in 1 .. N}
  <2>1. seq \in [1 .. N -> S]
    BY <1>4
  <2> HIDE DEF S
  <2>2. seq \in Seq(S) /\ Len(seq) = N
    BY <1>4, <2>1
  <2>3. start + 1 \in 1 .. N /\ end \in start + 1 .. N /\ end - (start + 1) + 1 = m
    BY <1>2, <1>3
  <2> QED BY <2>2, <2>3
<1>8. \A i \in 1 .. m : start + i \in 1 .. N
  BY <1>0, <1>1, <1>2
<1> QED BY <1>1, <1>2, <1>5, <1>6, <1>7, <1>8 DEF InChunk, start

\* The tiles of a source lie one behind the other, head by head.
LEMMA TilePlace ==
  ASSUME NEW m \in Nat, NEW i \in 1 .. m, NEW k \in Nat \ {0}, NEW h \in 0 .. k - 1,
         NEW n, n = (i - 1) * k + (h + 1)
  PROVE  n \in 1 .. m * k /\ (n - 1) \div k + 1 = i /\ (n - 1) % k = h
<1>1. (i - 1) * k \in Nat /\ m * k \in Nat /\ (m - 1) * k \in Nat
  BY ProductNat
<1>2. i - 1 \in Nat /\ n - 1 = (i - 1) * k + h
  BY <1>1
<1>3. (n - 1) \div k = i - 1 /\ (n - 1) % k = h
  BY <1>2, DivMod
<1>4. (i - 1) * k <= (m - 1) * k
  <2>1. (m - 1) * k = (i - 1) * k + (m - i) * k
    OBVIOUS
  <2>2. (m - i) * k \in Nat
    BY ProductNat
  <2> QED BY <1>1, <2>1, <2>2
<1>5. (m - 1) * k + k = m * k
  OBVIOUS
<1>6. n <= m * k
  BY <1>1, <1>2, <1>4, <1>5
<1> QED BY <1>1, <1>2, <1>3, <1>6

\* What a launch packs for a head of one of its sources.
LEMMA LaunchPacks ==
  ASSUME NEW c, Fits(c), NEW m \in Nat, NEW src, IsSeq(src, m),
         \A i \in 1 .. m : src[i][2] \in 1 .. MaxStamp,
         NEW i \in 1 .. m, NEW h \in 0 .. Hk - 1, NEW n, n = (i - 1) * Hk + (h + 1)
  PROVE  Packed(src, c)[n] = IdealOut(src[i][1], src[i][2], h, c)
<1>1. Len(src) = m /\ m \in Nat \ {0}
  BY DEF IsSeq
<1>2. n \in 1 .. m * Hk /\ (n - 1) \div Hk + 1 = i /\ (n - 1) % Hk = h
  BY TilePlace, HkIsPositive DEF HkType
<1> QED BY <1>1, <1>2, PackedIs

\* The record that the fast flush writes.
LEMMA FastHolds ==
  ASSUME NEW c, Fits(c), NEW l, NEW N, NEW bids, IsSeq(bids, N),
         \A i \in 1 .. N : pool[l][dict_map[bids[i]]] \in 1 .. MaxStamp,
         NEW b \in {bids[i] : i \in 1 .. N}, NEW h \in Heads
  PROVE  /\ HoldsTile(FastRecord(l, bids, b, h, c), IdealOut(l, pool[l][dict_map[b]], h, c), c)
         /\ DOMAIN FastRecord(l, bids, b, h, c) = 0 .. TileBytesAligned(c) - 1
<1> DEFINE size == IF MaxTiles \div Hk < 1 THEN 1 ELSE MaxTiles \div Hk
           p == Place(bids, b)
           blks == Chunk(bids, p, size)
           src == [i \in DOMAIN blks |-> Source(l, blks[i])]
           start == ChunkStart(p, size)
           out == Packed(src, c)
           n == (p - 1 - start) * Hk + (h + 1)
           rec == [a \in 0 .. TileBytesAligned(c) - 1 |->
                     IF a < Len(Joined(out, n)) THEN Joined(out, n)[a + 1] ELSE Padding]
<1>1. FastRecord(l, bids, b, h, c) = rec
  BY DEF FastRecord
<1>2. size \in Nat \ {0}
  <2>1. Hk \in Nat \ {0} /\ MaxTiles \in Nat
    BY TileAssumption
  <2>2. MaxTiles \div Hk \in Nat
    BY <2>1, DivModOf
  <2> QED BY <2>2
<1>3. p \in 1 .. N /\ bids[p] = b
  <2>1. DOMAIN bids = 1 .. N
    BY DEF IsSeq
  <2> QED BY <2>1 DEF Place
<1> HIDE DEF size, p
<1>4. /\ start \in Nat
      /\ \E m \in Nat \ {0} :
           /\ DOMAIN blks = 1 .. m /\ p - start \in 1 .. m
           /\ \A i \in 1 .. m : start + i \in 1 .. N /\ blks[i] = bids[start + i]
  <2>1. InChunk(N, bids, p, size)
    BY <1>2, <1>3, ChunkIs DEF IsSeq
  <2> QED BY <2>1, Zenon DEF InChunk
<1>5. PICK m \in Nat \ {0} :
           /\ DOMAIN blks = 1 .. m /\ p - start \in 1 .. m
           /\ \A i \in 1 .. m : start + i \in 1 .. N /\ blks[i] = bids[start + i]
  BY <1>4
<1> DEFINE at == p - start
<1>6. IsSeq(src, m) /\ \A i \in 1 .. m : src[i] = Source(l, bids[start + i])
  <2>1. src = [i \in 1 .. m |-> src[i]] /\ \A i \in 1 .. m : src[i] = Source(l, bids[start + i])
    BY <1>5
  <2> HIDE DEF src
  <2> QED BY <2>1, FunctionLen DEF IsSeq
<1>7. at \in 1 .. m /\ start + at = p /\ n = (at - 1) * Hk + (h + 1)
  BY <1>3, <1>4, <1>5
<1> HIDE DEF blks, src, start, n, at, out
<1>8. \A i \in 1 .. m : src[i] = <<l, pool[l][dict_map[bids[start + i]]]>> /\ start + i \in 1 .. N
  BY <1>5, <1>6 DEF Source
<1>9. \A i \in 1 .. m : src[i][2] \in 1 .. MaxStamp
  <2> SUFFICES ASSUME NEW i \in 1 .. m PROVE src[i][2] \in 1 .. MaxStamp
    OBVIOUS
  <2>1. src[i][2] = pool[l][dict_map[bids[start + i]]] /\ start + i \in 1 .. N
    BY <1>8
  <2> QED BY <2>1, Zenon
<1>10. src[at][1] = l /\ src[at][2] = pool[l][dict_map[b]]
  <2>1. src[at] = <<l, pool[l][dict_map[bids[start + at]]]>>
    BY <1>7, <1>8
  <2> QED BY <1>3, <1>7, <2>1
<1>11. out[n] = IdealOut(l, pool[l][dict_map[b]], h, c)
  <2>1. h \in 0 .. Hk - 1 /\ m \in Nat
    BY DEF Heads
  <2>2. Packed(src, c)[n] = IdealOut(src[at][1], src[at][2], h, c)
    BY <1>6, <1>7, <1>9, <2>1, LaunchPacks
  <2> QED BY <1>10, <2>2 DEF out
<1>12. FieldsFit(out[n], c)
  BY <1>11, IdealFits
<1>13. TileBytesAligned(c) \in Nat /\ TileBytesAligned(c) >= TileBytes(c)
  BY AlignedBytes
<1>14. HoldsTile(rec, out[n], c)
  BY <1>12, <1>13, JoinedHolds
<1> QED BY <1>1, <1>11, <1>14

LEMMA LayersAre ==
  /\ Len(Layers) \in Nat \ {0} /\ DOMAIN Layers = 1 .. Len(Layers)
  /\ LayerSet = {Layers[i] : i \in 1 .. Len(Layers)}
BY TileAssumption DEF LayerSet

\* The pairs of a launch: every layer meets every block.
AllPairs(pairs, bids, N, M) ==
  /\ \A p \in 1 .. M : \E x \in LayerSet, i \in 1 .. N : pairs[p] = <<x, bids[i]>>
  /\ \A x \in LayerSet, i \in 1 .. N : \E p \in 1 .. M : pairs[p] = <<x, bids[i]>>

LEMMA PairsAre ==
  ASSUME NEW N \in Nat \ {0}, NEW bids, IsSeq(bids, N)
  PROVE  IsSeq(Pairs(bids), Len(Layers) * N) /\ AllPairs(Pairs(bids), bids, N, Len(Layers) * N)
<1> DEFINE L == Len(Layers)
<1>1. Len(bids) = N /\ L \in Nat \ {0} /\ LayerSet = {Layers[i] : i \in 1 .. L}
  BY LayersAre DEF IsSeq
<1>2. Pairs(bids) = [p \in 1 .. L * N |-> <<Layers[(p - 1) \div N + 1], bids[((p - 1) % N) + 1]>>]
  BY <1>1 DEF Pairs
<1> HIDE DEF L
<1>3. L * N \in Nat
  BY <1>1, ProductNat
<1>4. ASSUME NEW p \in 1 .. L * N
      PROVE  \E x \in LayerSet, i \in 1 .. N : Pairs(bids)[p] = <<x, bids[i]>>
  <2>1. (p - 1) \div N + 1 \in 1 .. L /\ (p - 1) % N \in 0 .. N - 1
    BY <1>1, TileIndex
  <2>2. Layers[(p - 1) \div N + 1] \in LayerSet /\ ((p - 1) % N) + 1 \in 1 .. N
    BY <1>1, <2>1
  <2>3. Pairs(bids)[p] = <<Layers[(p - 1) \div N + 1], bids[((p - 1) % N) + 1]>>
    BY <1>2
  <2> QED BY <2>2, <2>3
<1>5. ASSUME NEW x \in LayerSet, NEW i \in 1 .. N
      PROVE  \E p \in 1 .. L * N : Pairs(bids)[p] = <<x, bids[i]>>
  <2>1. PICK y \in 1 .. L : Layers[y] = x
    BY <1>1
  <2> DEFINE p == (y - 1) * N + ((i - 1) + 1)
  <2>2. i - 1 \in 0 .. N - 1
    OBVIOUS
  <2>3. p \in 1 .. L * N /\ (p - 1) \div N + 1 = y /\ (p - 1) % N = i - 1
    BY <1>1, <2>1, <2>2, TilePlace
  <2> HIDE DEF p
  <2>4. Pairs(bids)[p] = <<Layers[(p - 1) \div N + 1], bids[((p - 1) % N) + 1]>>
    BY <1>2, <2>3
  <2>5. ((p - 1) % N) + 1 = i
    BY <2>3
  <2> QED BY <2>1, <2>3, <2>4, <2>5
<1>6. Pairs(bids) = [p \in 1 .. L * N |-> Pairs(bids)[p]]
  BY <1>2
<1>7. IsSeq(Pairs(bids), L * N)
  <2>1. Len(Pairs(bids)) = L * N
    BY <1>3, <1>6, FunctionLen
  <2> QED BY <1>3, <1>6, <2>1, Zenon DEF IsSeq
<1>8. AllPairs(Pairs(bids), bids, N, L * N)
  BY <1>4, <1>5, Zenon DEF AllPairs
<1> QED BY <1>7, <1>8, Zenon DEF L

\* The record that the legacy flush writes.
LEMMA LegacyHolds ==
  ASSUME NEW c, Fits(c), NEW N \in Nat \ {0}, NEW bids, IsSeq(bids, N),
         \A x \in LayerSet : \A i \in 1 .. N : pool[x][dict_map[bids[i]]] \in 1 .. MaxStamp,
         NEW l \in LayerSet, NEW b \in {bids[i] : i \in 1 .. N}, NEW h \in Heads,
         DOMAIN cache[l][b][h] = 0 .. TileBytesAligned(c) - 1
  PROVE  /\ HoldsTile(LegacyRecord(l, bids, b, h, c), IdealOut(l, pool[l][dict_map[b]], h, c), c)
         /\ DOMAIN LegacyRecord(l, bids, b, h, c) = 0 .. TileBytesAligned(c) - 1
<1> DEFINE pairs == Pairs(bids)
           M == Len(Layers) * N
           p == Place(pairs, <<l, b>>)
           chunk == Chunk(pairs, p, MaxPairs)
           src == [i \in DOMAIN chunk |-> Source(chunk[i][1], chunk[i][2])]
           start == ChunkStart(p, MaxPairs)
           out == Packed(src, c)
           n == (p - 1 - start) * Hk + h + 1
<1>1. LegacyRecord(l, bids, b, h, c) = WritePacked(cache[l][b][h], out[n], c)
  BY DEF LegacyRecord
<1>2. MaxPairs \in Nat \ {0}
  BY TileAssumption
<1>a. IsSeq(pairs, M) /\ AllPairs(pairs, bids, N, M)
  BY PairsAre
<1> HIDE DEF pairs, M
<1>3. DOMAIN pairs = 1 .. M /\ M \in Nat
  BY <1>a DEF IsSeq
<1>4. /\ \A q \in 1 .. M : \E x \in LayerSet, i \in 1 .. N : pairs[q] = <<x, bids[i]>>
      /\ \A x \in LayerSet, i \in 1 .. N : \E q \in 1 .. M : pairs[q] = <<x, bids[i]>>
  BY <1>a, Zenon DEF AllPairs
<1>5. p \in 1 .. M /\ p \in Nat /\ pairs[p] = <<l, b>>
  <2>1. PICK i \in 1 .. N : bids[i] = b
    OBVIOUS
  <2>2. \E q \in 1 .. M : pairs[q] = <<l, b>>
    BY <1>4, <2>1
  <2>3. DOMAIN pairs = 1 .. M
    BY <1>3
  <2>4. p \in 1 .. M /\ pairs[p] = <<l, b>>
    BY <2>2, <2>3 DEF Place
  <2> QED BY <1>3, <2>4
<1>6. ASSUME NEW q \in 1 .. M
      PROVE  Source(pairs[q][1], pairs[q][2])[2] \in 1 .. MaxStamp
  <2>1. PICK x \in LayerSet, i \in 1 .. N : pairs[q] = <<x, bids[i]>>
    BY <1>4
  <2>2. Source(pairs[q][1], pairs[q][2]) = <<x, pool[x][dict_map[bids[i]]]>>
    BY <2>1 DEF Source
  <2> QED BY <2>2
<1> HIDE DEF p
<1>7. /\ start \in Nat
      /\ \E m \in Nat \ {0} :
           /\ DOMAIN chunk = 1 .. m /\ p - start \in 1 .. m
           /\ \A i \in 1 .. m : start + i \in 1 .. M /\ chunk[i] = pairs[start + i]
  <2>1. InChunk(M, pairs, p, MaxPairs)
    BY <1>2, <1>a, <1>5, ChunkIs
  <2> QED BY <2>1, Zenon DEF InChunk
<1>8. PICK m \in Nat \ {0} :
           /\ DOMAIN chunk = 1 .. m /\ p - start \in 1 .. m
           /\ \A i \in 1 .. m : start + i \in 1 .. M /\ chunk[i] = pairs[start + i]
  BY <1>7
<1> DEFINE at == p - start
<1>9. IsSeq(src, m) /\ \A i \in 1 .. m : src[i] = Source(pairs[start + i][1], pairs[start + i][2])
  <2>1. /\ src = [i \in 1 .. m |-> src[i]]
        /\ \A i \in 1 .. m : src[i] = Source(pairs[start + i][1], pairs[start + i][2])
    BY <1>8
  <2> HIDE DEF src
  <2> QED BY <2>1, FunctionLen DEF IsSeq
<1>10. at \in 1 .. m /\ start + at = p
  BY <1>5, <1>7, <1>8
<1>11. n = (at - 1) * Hk + (h + 1)
  <2>1. (p - 1 - start) = at - 1 /\ (at - 1) \in Nat
    BY <1>5, <1>7, <1>10
  <2>2. (at - 1) * Hk \in Nat
    BY <2>1, ProductNat, HkIsPositive DEF HkType
  <2>3. h \in Nat
    BY HkIsPositive DEF HkType, Heads
  <2> QED BY <2>1, <2>2, <2>3
<1> HIDE DEF chunk, src, start, n, at, out
<1>12. \A i \in 1 .. m : src[i][2] \in 1 .. MaxStamp
  <2> SUFFICES ASSUME NEW i \in 1 .. m PROVE src[i][2] \in 1 .. MaxStamp
    OBVIOUS
  <2>1. start + i \in 1 .. M /\ src[i] = Source(pairs[start + i][1], pairs[start + i][2])
    BY <1>8, <1>9
  <2> QED BY <1>6, <2>1
<1>13. src[at][1] = l /\ src[at][2] = pool[l][dict_map[b]]
  <2>1. src[at] = Source(pairs[p][1], pairs[p][2])
    BY <1>9, <1>10
  <2> QED BY <1>5, <2>1 DEF Source
<1>14. out[n] = IdealOut(l, pool[l][dict_map[b]], h, c)
  <2>1. h \in 0 .. Hk - 1 /\ m \in Nat
    BY DEF Heads
  <2>2. Packed(src, c)[n] = IdealOut(src[at][1], src[at][2], h, c)
    BY <1>9, <1>10, <1>11, <1>12, <2>1, LaunchPacks
  <2> QED BY <1>13, <2>2 DEF out
<1>15. FieldsFit(out[n], c)
  BY <1>14, IdealFits
<1>16. TileBytesAligned(c) \in Nat /\ TileBytesAligned(c) >= TileBytes(c)
  BY AlignedBytes
<1>17. HoldsTile(WritePacked(cache[l][b][h], out[n], c), out[n], c)
  BY <1>15, <1>16, WrittenHolds
<1>18. DOMAIN WritePacked(cache[l][b][h], out[n], c) = DOMAIN cache[l][b][h]
  BY Zenon DEF WritePacked, WriteSlices
<1> QED BY <1>1, <1>14, <1>17, <1>18

----------------------------------------------------------------------------
(* What a flushed block holds.                                             *)

\* A block's tokens are in its slot, in every layer.
PoolInv ==
  /\ stamps \in 0 .. MaxStamp
  /\ \A l \in LayerSet : DOMAIN pool[l] = Slots
  /\ \A b \in Blocks : dict_map[b] # None =>
       /\ dict_map[b] \in Slots
       /\ pool[Layers[1]][dict_map[b]] \in 1 .. MaxStamp
       /\ \A l \in LayerSet : pool[l][dict_map[b]] = pool[Layers[1]][dict_map[b]]

\* A record has the bytes of a tile; once flushed it holds one.
RecordInv(c, bytes, w) ==
  \A l \in LayerSet, b \in Blocks, h \in Heads :
    /\ DOMAIN bytes[l][b][h] = 0 .. TileBytesAligned(c) - 1
    /\ w[b] # None => HoldsTile(bytes[l][b][h], IdealOut(l, w[b], h, c), c)

TileInv ==
  /\ SetupInv /\ PoolInv
  /\ DOMAIN dict_map = Blocks
  /\ phase # "serving" => \A b \in Blocks : dict_map[b] = None /\ want[b] = None
  /\ phase = "serving" => RecordInv(Layout(preset), cache, want)

LEMMA FirstLayer == Layers[1] \in LayerSet
BY LayersAre

LEMMA TileBase == TileInit => TileInv
<1> SUFFICES ASSUME TileInit PROVE TileInv
  OBVIOUS
<1>1. SetupInv
  BY SetupBase
<1>2. PoolInv
  BY TileAssumption DEF TileInit, PoolInv
<1> QED BY <1>1, <1>2 DEF TileInit, TileInv

LEMMA FillPool ==
  ASSUME PoolInv, DOMAIN dict_map = Blocks, NEW b \in Blocks, NEW s \in Slots, Fill(b, s)
  PROVE  PoolInv'
<1>1. /\ stamps < MaxStamp /\ stamps' = stamps + 1 /\ \A k \in Blocks : dict_map[k] # s
      /\ dict_map' = [dict_map EXCEPT ![b] = s]
      /\ pool' = [l \in LayerSet |-> [pool[l] EXCEPT ![s] = stamps + 1]]
  BY DEF Fill
<1>2. stamps' \in 1 .. MaxStamp /\ stamps' \in 0 .. MaxStamp
  BY <1>1, TileAssumption DEF PoolInv
<1>3. \A l \in LayerSet : DOMAIN pool'[l] = Slots
  BY <1>1 DEF PoolInv
<1>4. \A l \in LayerSet : \A x \in Slots : pool'[l][x] = IF x = s THEN stamps' ELSE pool[l][x]
  BY <1>1 DEF PoolInv
<1>5. ASSUME NEW k \in Blocks, dict_map'[k] # None
      PROVE  /\ dict_map'[k] \in Slots
             /\ pool'[Layers[1]][dict_map'[k]] \in 1 .. MaxStamp
             /\ \A l \in LayerSet : pool'[l][dict_map'[k]] = pool'[Layers[1]][dict_map'[k]]
  <2>1. CASE k = b
    <3>1. dict_map'[k] = s
      BY <1>1, <2>1
    <3>2. \A l \in LayerSet : pool'[l][s] = stamps'
      BY <1>4
    <3> QED BY <1>2, <3>1, <3>2, FirstLayer
  <2>2. CASE k # b
    <3>1. dict_map'[k] = dict_map[k] /\ dict_map[k] # s /\ dict_map[k] \in Slots
      BY <1>1, <1>5, <2>2 DEF PoolInv
    <3>2. \A l \in LayerSet : pool'[l][dict_map[k]] = pool[l][dict_map[k]]
      BY <1>4, <3>1
    <3> QED BY <1>5, <3>1, <3>2, FirstLayer DEF PoolInv
  <2> QED BY <2>1, <2>2
<1> QED BY <1>2, <1>3, <1>5 DEF PoolInv

LEMMA Listed ==
  ASSUME NEW S \in (SUBSET Held) \ {{}}, NEW bids \in Orders(S)
  PROVE  \E N \in Nat \ {0} : IsSeq(bids, N) /\ S = {bids[i] : i \in 1 .. N}
<1> DEFINE N == Cardinality(S)
<1>1. S \subseteq Blocks /\ IsFiniteSet(Blocks)
  BY TileAssumption DEF Held
<1>2. N \in Nat
  BY <1>1, FS_Subset, FS_CardinalityType
<1> HIDE DEF N
<1>3. bids \in [1 .. N -> S] /\ \A x \in S : \E i \in 1 .. N : bids[i] = x
  BY DEF Orders, N
<1>4. N # 0
  BY <1>2, <1>3
<1>5. IsSeq(bids, N)
  BY <1>2, <1>3, FunctionLen DEF IsSeq
<1> QED BY <1>2, <1>3, <1>4, <1>5

\* Whichever path is taken, the flush leaves in a block's record what its slot held.
LEMMA FlushRecords ==
  ASSUME TileInv, NEW S \in (SUBSET Held) \ {{}}, NEW bids \in Orders(S), Flush(bids)
  PROVE  TileInv'
<1> DEFINE c == Layout(preset)
<1>1. PICK N \in Nat \ {0} : IsSeq(bids, N) /\ S = {bids[i] : i \in 1 .. N}
  BY Listed
<1>2. {bids[i] : i \in DOMAIN bids} = S
  BY <1>1 DEF IsSeq
<1>3. \A b \in S : b \in Blocks /\ dict_map[b] # None
  BY DEF Held
<1>4. phase = "serving" /\ RecordInv(c, cache, want)
  BY <1>3 DEF TileInv
<1>5. Fits(c)
  BY LayoutFits DEF TileInv
<1> HIDE DEF c
<1>6. UNCHANGED <<setup, pool, stamps>>
  BY DEF Flush
<1>7. /\ dict_map' = [b \in Blocks |-> IF b \in S THEN None ELSE dict_map[b]]
      /\ want' = [b \in Blocks |-> IF b \in S THEN pool[Layers[1]][dict_map[b]] ELSE want[b]]
      /\ cache' = [l \in LayerSet |-> [b \in Blocks |-> [h \in Heads |->
           IF b \notin S THEN cache[l][b][h]
           ELSE IF fast THEN FastRecord(l, bids, b, h, c) ELSE LegacyRecord(l, bids, b, h, c)]]]
  BY <1>2 DEF Flush, c
<1>8. SetupInv'
  BY <1>6, SetupStep DEF TileInv, TileNext, tile_vars
<1>9. PoolInv'
  BY <1>6, <1>7 DEF TileInv, PoolInv
<1>10. \A x \in LayerSet : \A i \in 1 .. N : pool[x][dict_map[bids[i]]] \in 1 .. MaxStamp
  <2> SUFFICES ASSUME NEW x \in LayerSet, NEW i \in 1 .. N PROVE pool[x][dict_map[bids[i]]] \in 1 .. MaxStamp
    OBVIOUS
  <2>1. bids[i] \in Blocks /\ dict_map[bids[i]] # None
    BY <1>1, <1>3
  <2> QED BY <2>1 DEF TileInv, PoolInv
<1>11. ASSUME NEW l \in LayerSet, NEW b \in Blocks, NEW h \in Heads
       PROVE  /\ DOMAIN cache'[l][b][h] = 0 .. TileBytesAligned(c) - 1
              /\ want'[b] # None => HoldsTile(cache'[l][b][h], IdealOut(l, want'[b], h, c), c)
  <2>1. CASE b \notin S
    <3>1. cache'[l][b][h] = cache[l][b][h] /\ want'[b] = want[b]
      BY <1>7, <2>1
    <3> QED BY <1>4, <3>1 DEF RecordInv
  <2>2. CASE b \in S /\ fast
    <3>1. cache'[l][b][h] = FastRecord(l, bids, b, h, c)
      BY <1>7, <2>2
    <3>2. want'[b] = pool[l][dict_map[b]]
      BY <1>3, <1>7, <2>2 DEF TileInv, PoolInv
    <3>3. /\ HoldsTile(FastRecord(l, bids, b, h, c), IdealOut(l, pool[l][dict_map[b]], h, c), c)
          /\ DOMAIN FastRecord(l, bids, b, h, c) = 0 .. TileBytesAligned(c) - 1
      BY <1>1, <1>5, <1>10, <2>2, FastHolds
    <3> QED BY <3>1, <3>2, <3>3
  <2>3. CASE b \in S /\ ~fast
    <3>1. cache'[l][b][h] = LegacyRecord(l, bids, b, h, c)
      BY <1>7, <2>3
    <3>2. want'[b] = pool[l][dict_map[b]]
      BY <1>3, <1>7, <2>3 DEF TileInv, PoolInv
    <3>3. DOMAIN cache[l][b][h] = 0 .. TileBytesAligned(c) - 1
      BY <1>4 DEF RecordInv
    <3>4. /\ HoldsTile(LegacyRecord(l, bids, b, h, c), IdealOut(l, pool[l][dict_map[b]], h, c), c)
          /\ DOMAIN LegacyRecord(l, bids, b, h, c) = 0 .. TileBytesAligned(c) - 1
      BY <1>1, <1>5, <1>10, <2>3, <3>3, LegacyHolds
    <3> QED BY <3>1, <3>2, <3>4
  <2> QED BY <2>1, <2>2, <2>3
<1>12. Layout(preset)' = c /\ phase' = "serving"
  BY <1>4, <1>6 DEF setup, Layout, c
<1>13. RecordInv(Layout(preset), cache, want)'
  BY <1>11, <1>12 DEF RecordInv
<1> QED BY <1>7, <1>8, <1>9, <1>12, <1>13 DEF TileInv

\* The pages of the KV-cache spec hold the records: the cache is allocated.
LEMMA Allocated ==
  ASSUME TileInv, NEW dtype \in {"auto", preset}, AllocateCache(dtype)
  PROVE  TileInv'
<1> DEFINE c == Layout(preset)
<1>1. SetupInv'
  BY SetupStep DEF TileInv, TileNext
<1>2. phase' # "crashed" /\ active = preset /\ preset \in DOMAIN Presets
  BY <1>1 DEF TileInv, SetupInv, AllocateCache
<1>3. (IF dtype \in DOMAIN Presets THEN dtype ELSE active) = preset
  BY <1>2, TileAssumption
<1>4. phase' = "serving"
  BY <1>2 DEF AllocateCache
<1>5. cache' = [l \in LayerSet |-> [b \in Blocks |-> [h \in Heads |->
                  [a \in 0 .. TileBytesAligned(c) - 1 |-> Padding]]]]
  BY <1>2, <1>3 DEF AllocateCache
<1>6. /\ UNCHANGED <<preset, head_dim, pow2, dict_map, pool, stamps, want>>
      /\ \A b \in Blocks : want[b] = None
  BY DEF AllocateCache, TileInv
<1>7. Layout(preset)' = c
  BY <1>6 DEF Layout
<1> HIDE DEF c
<1>8. RecordInv(Layout(preset), cache, want)'
  BY <1>5, <1>6, <1>7 DEF RecordInv
<1>9. PoolInv'
  BY <1>6 DEF TileInv, PoolInv
<1> QED BY <1>1, <1>4, <1>6, <1>8, <1>9 DEF TileInv

LEMMA TileStep == TileInv /\ [TileNext]_tile_vars => TileInv'
<1> SUFFICES ASSUME TileInv, [TileNext]_tile_vars PROVE TileInv'
  OBVIOUS
<1>1. SetupInv'
  BY SetupStep DEF TileInv
<1>2. ASSUME UNCHANGED <<dict_map, pool, stamps, want>>, phase # "serving", phase' # "serving"
      PROVE  TileInv'
  BY <1>1, <1>2 DEF TileInv, PoolInv
<1>3. ASSUME UNCHANGED <<setup, cache, want, dict_map, pool, stamps>> PROVE TileInv'
  BY <1>1, <1>3 DEF TileInv, PoolInv, RecordInv, setup, Layout
<1>4. ASSUME NEW k \in Multiples, AlignBlockSize(k) PROVE TileInv'
  BY <1>2, <1>4 DEF AlignBlockSize
<1>5. ASSUME ConstructImpl PROVE TileInv'
  BY <1>2, <1>5 DEF ConstructImpl
<1>6. ASSUME NEW scope \in {None, "auto", preset}, SelectBlockSize(scope) PROVE TileInv'
  BY <1>2, <1>6 DEF SelectBlockSize
<1>7. ASSUME NEW b \in Blocks, NEW s \in Slots, Fill(b, s) PROVE TileInv'
  <2>1. PoolInv'
    BY <1>7, FillPool DEF TileInv
  <2>2. /\ phase = "serving" /\ UNCHANGED <<setup, cache, want>>
        /\ dict_map' = [dict_map EXCEPT ![b] = s]
    BY <1>7 DEF Fill
  <2>3. phase' = "serving" /\ Layout(preset)' = Layout(preset) /\ DOMAIN dict_map' = Blocks
    BY <2>2 DEF setup, Layout, TileInv
  <2>4. RecordInv(Layout(preset), cache, want)'
    BY <2>2, <2>3 DEF TileInv, RecordInv
  <2> QED BY <1>1, <2>1, <2>3, <2>4 DEF TileInv
<1>8. CASE TileNext
  <2>1. CASE \E k \in Multiples : AlignBlockSize(k)
    BY <1>4, <2>1
  <2>2. CASE \E scope \in {None, "auto", preset} : SelectBlockSize(scope)
    BY <1>6, <2>2
  <2>3. CASE \E dtype \in {"auto", preset} : AllocateCache(dtype)
    BY <2>3, Allocated
  <2>4. CASE \E b \in Blocks, s \in Slots : Fill(b, s)
    BY <1>7, <2>4
  <2>5. CASE \E S \in (SUBSET Held) \ {{}} : \E bids \in Orders(S) : Flush(bids)
    BY <2>5, FlushRecords
  <2> QED BY <1>5, <1>8, <2>1, <2>2, <2>3, <2>4, <2>5 DEF TileNext
<1> QED BY <1>3, <1>8 DEF tile_vars

\* Whichever path wrote a record, in whichever chunk of whichever launch, the
\* decode kernels and the slow gather load from it exactly the bits of the tokens
\* last flushed to its block, at the iterate that balanced them best.
THEOREM TileReaders == TileSpec => []ReadersFindTheTile
<1>1. TileInv => ReadersFindTheTile
  <2> SUFFICES ASSUME TileInv, phase = "serving",
                      NEW l \in LayerSet, NEW b \in {x \in Blocks : want[x] # None}, NEW h \in Heads,
                      NEW t \in 0 .. Layout(preset).group - 1, NEW d \in 0 .. Layout(preset).head_dim - 1
               PROVE  LET c == Layout(preset)
                          rec == cache[l][b][h]
                      IN /\ KernelK(rec, t, d, c) = ExpectedK(l, want[b], t, h, d, c)
                         /\ KernelV(rec, t, d, c) = ExpectedV(l, want[b], t, h, d, c)
                         /\ GatherK(rec, t, d, c) = KernelK(rec, t, d, c)
                         /\ GatherV(rec, t, d, c) = KernelV(rec, t, d, c)
    BY Zenon DEF ReadersFindTheTile
  <2> DEFINE c == Layout(preset)
             rec == cache[l][b][h]
  <2>1. Fits(c)
    BY LayoutFits DEF TileInv
  <2>2. HoldsTile(rec, IdealOut(l, want[b], h, c), c)
    BY DEF TileInv, RecordInv
  <2>3. t \in 0 .. c.group - 1 /\ d \in 0 .. c.head_dim - 1
    OBVIOUS
  <2> HIDE DEF c, rec
  <2>4. /\ KernelK(rec, t, d, c) = ExpectedK(l, want[b], t, h, d, c)
        /\ GatherK(rec, t, d, c) = KernelK(rec, t, d, c)
    BY <2>1, <2>2, <2>3, ReadsK
  <2>5. /\ KernelV(rec, t, d, c) = ExpectedV(l, want[b], t, h, d, c)
        /\ GatherV(rec, t, d, c) = KernelV(rec, t, d, c)
    BY <2>1, <2>2, <2>3, ReadsV
  <2> QED BY <2>4, <2>5 DEF c, rec
<1> QED BY <1>1, TileBase, TileStep, PTL DEF TileSpec
=============================================================================
