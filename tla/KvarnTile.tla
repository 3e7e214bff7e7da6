----------------------------- MODULE KvarnTile -----------------------------
(***************************************************************************)
(* The KVarN tile: one packed record per (block, head), from the choice of *)
(* the block size to the bits the readers load.  A flush gathers pool      *)
(* slots, balances the tiles, rounds them, packs the integers and scales   *)
(* into bytes, and writes the record by one of two paths; the Triton       *)
(* kernels and the slow gather each find the fields by arithmetic of their *)
(* own.                                                                    *)
(*                                                                         *)
(* Numbers are symbols: a quantity is a tag that names the element of the  *)
(* pool it was computed from and the Sinkhorn iterate it was computed at,  *)
(* a bit is <<quantity, position>>, a byte a function on 0 .. 7.  Rotation *)
(* acts within a token and is left out.                                    *)
(***************************************************************************)
EXTENDS Integers, Sequences, FiniteSets

CONSTANTS
  Presets,      \* [name -> [key_bits, value_bits, group]]: KVARN_PRESETS
  HeadDims,     \* supported head dimensions
  WideHead,     \* 256: from here on KVARN_POW2_SLOT applies
  KernelMax,    \* 256: longer tiles take the batched PyTorch Sinkhorn
  Layers,       \* the layers of a group, in the builder's order (a sequence)
  Hk,           \* KV heads
  Blocks, Slots,
  MaxTiles,     \* 2048 tiles per launch of the fast flush
  MaxPairs,     \* 256 (layer, block) pairs per launch of the legacy flush
  Multiples,    \* of the alignment that the manager's block may be
  MaxStamp,     \* bound: blocks filled in a behaviour
  Imbalance,    \* [stamps \X sides -> Seq(Nat)]: imbalance of each iterate
  None

VARIABLES
  phase,        \* "config", "built", "sized", "serving" or "crashed"
  preset,       \* --kv-cache-dtype
  head_dim,     \* of the model
  pow2, fast,   \* KVARN_POW2_SLOT, KVARN_FAST_FLUSH
  active,       \* KVarNAttentionImpl._active_cache_dtype
  manager,      \* the KV manager's block size
  kernel_block, \* the block size the runner gives get_kv_cache_shape
  dict_map,     \* the group's slot of a block
  pool,         \* the stamp of the tokens in a layer's slots
  cache,        \* the bytes of a record, by layer, block and head
  stamps,       \* blocks filled so far
  want          \* the stamp a flushed block holds (history)

setup     == <<phase, preset, head_dim, pow2, fast, active, manager, kernel_block>>
tile_vars == <<setup, dict_map, pool, cache, stamps, want>>

-----------------------------------------------------------------------------
(* KVarNConfig: sizes and offsets of the fields of a record.               *)

Config(p, d, w) ==
  [key_bits |-> Presets[p].key_bits, value_bits |-> Presets[p].value_bits, group |-> Presets[p].group,
   head_dim |-> d, pow2 |-> w]
Configs   == {Config(p, d, w) : p \in DOMAIN Presets, d \in HeadDims, w \in BOOLEAN}
Layout(p) == Config(p, head_dim, pow2)

CeilDiv(a, b) == (a + b - 1) \div b
KPackedBytes(c) == CeilDiv(c.head_dim * c.group * c.key_bits, 8)
VPackedBytes(c) == CeilDiv(c.group * c.head_dim * c.value_bits, 8)
TileBytes(c) == KPackedBytes(c) + (2 * c.head_dim + c.group) * 2
                  + VPackedBytes(c) + (c.head_dim + 2 * c.group) * 2

Least(S) == CHOOSE n \in S : \A i \in S : n <= i
LeastPow2(n) == Least({p \in {2 ^ i : i \in 0 .. 16} : p >= n})
Lcm(a, b) == Least({m \in 1 .. a * b : m % a = 0 /\ m % b = 0})

TileBytesAligned(c) ==
  IF c.head_dim >= WideHead /\ c.pow2
  THEN LeastPow2(CeilDiv(TileBytes(c), c.group)) * c.group
  ELSE CeilDiv(TileBytes(c), Lcm(8, c.group)) * Lcm(8, c.group)

\* Integers fill their bytes (kvarn_store.py:94), tiles are even, a token's
\* share of a record is below 2^16 bytes.
Fits(c) ==
  /\ {c.key_bits, c.value_bits} \subseteq {1, 2, 4, 8}
  /\ {c.group, c.head_dim} \subseteq Nat \ {0} /\ c.group % 2 = 0 /\ c.head_dim % 2 = 0
  /\ c.group % (8 \div c.key_bits) = 0 /\ c.head_dim % (8 \div c.value_bits) = 0
  /\ CeilDiv(TileBytes(c), c.group) <= 2 ^ 16

\* Every tile goes through as many iterates.
ASSUME TileAssumption ==
  /\ \A c \in Configs : Fits(c)
  /\ None \notin DOMAIN Presets /\ "auto" \notin DOMAIN Presets
  /\ {Hk, MaxTiles, MaxPairs} \subseteq Nat \ {0} /\ Multiples \subseteq Nat \ {0} /\ MaxStamp \in Nat
  /\ IsFiniteSet(Blocks) /\ Layers # <<>> /\ Layers \in Seq({Layers[i] : i \in DOMAIN Layers})
  /\ DOMAIN Imbalance = (1 .. MaxStamp) \X {"K", "V"}
  /\ \A x, y \in DOMAIN Imbalance : /\ Imbalance[x] \in Seq(Nat) /\ Imbalance[x] # <<>>
                                    /\ Len(Imbalance[x]) = Len(Imbalance[y])

KPackedOffset(c) == 0
KSColOffset(c) == KPackedOffset(c) + KPackedBytes(c)
KZpOffset(c) == KSColOffset(c) + c.head_dim * 2
KSRowOffset(c) == KZpOffset(c) + c.head_dim * 2
VPackedOffset(c) == KSRowOffset(c) + c.group * 2
VSColOffset(c) == VPackedOffset(c) + VPackedBytes(c)
VSRowOffset(c) == VSColOffset(c) + c.head_dim * 2
VZpOffset(c) == VSRowOffset(c) + c.group * 2

-----------------------------------------------------------------------------
(* Sinkhorn: the scales of the best iterate so far, per tile.              *)

\* A tile in [rows, columns] orientation; the rows are the absorb axis.  An
\* element is <<layer, stamp, side, token, head, channel>>.
Tile(r, c, el) == [rows |-> r, cols |-> c, el |-> el]
Iterates(t) == LET e == t.el[<<0, 0>>] IN Imbalance[<<e[2], e[3]>>]

\* One program per tile.
KernelBest(t) ==
  LET imb == Iterates(t)
      best[i \in 1 .. Len(imb)] ==
        IF i = 1 THEN 1 ELSE IF imb[i] <= imb[best[i - 1]] THEN i ELSE best[i - 1]
  IN best[Len(imb)]

\* The whole batch, with a mask of the tiles that improved.
BatchedBest(tiles) ==
  LET imb == [n \in DOMAIN tiles |-> Iterates(tiles[n])]
      best[i \in 1 .. Len(imb[1])] ==
        IF i = 1 THEN [n \in DOMAIN tiles |-> 1]
        ELSE LET better == {n \in DOMAIN tiles : imb[n][i] <= imb[n][best[i - 1][n]]}
             IN [n \in DOMAIN tiles |-> IF n \in better THEN i ELSE best[i - 1][n]]
  IN best[Len(imb[1])]

\* Elements become <<element, iterate>>.
Balance(tiles) ==
  LET best == IF tiles[1].rows > KernelMax \/ tiles[1].cols > KernelMax
              THEN BatchedBest(tiles) ELSE [n \in DOMAIN tiles |-> KernelBest(tiles[n])]
  IN [n \in DOMAIN tiles |->
        [tiles[n] EXCEPT !.el = [x \in DOMAIN @ |-> <<@[x], best[n]>>]]]

-----------------------------------------------------------------------------
(* Rounding to integers per row, and packing.                              *)

\* The row's scale and zero, with its Sinkhorn scale absorbed, and the scale
\* of the other axis.
RowScale(t, r) == <<"scale", t.el[<<r, 0>>]>>
RowZero(t, r)  == <<"zp", t.el[<<r, 0>>]>>
ColScale(t, k) == <<"other", t.el[<<0, k>>]>>

\* Integer j of byte k in a packed tile, pack of them to a byte.
Integer(t, pack, k, j) ==
  LET w == t.cols \div pack IN <<"q", t.el[<<k \div w, (pack * (k % w)) + j>>]>>

PackLowbit(t, bits) ==
  LET pack == 8 \div bits IN
  [k \in 1 .. t.rows * (t.cols \div pack) |->
     [i \in 0 .. 7 |-> <<Integer(t, pack, k - 1, i \div bits), i % bits>>]]

\* A tensor of fp16 values seen as bytes.
Float16s(values) ==
  [k \in 1 .. 2 * Len(values) |->
     [i \in 0 .. 7 |-> <<values[(k + 1) \div 2], (8 * ((k - 1) % 2)) + i>>]]

RowScales(t) == Float16s([r \in 1 .. t.rows |-> RowScale(t, r - 1)])
RowZeros(t)  == Float16s([r \in 1 .. t.rows |-> RowZero(t, r - 1)])
ColScales(t) == Float16s([k \in 1 .. t.cols |-> ColScale(t, k - 1)])

StoreTileK(t, c) ==
  [q |-> PackLowbit(t, c.key_bits), s_col |-> RowScales(t), zp |-> RowZeros(t), s_row |-> ColScales(t)]

StoreTileV(t, c) ==
  [q |-> PackLowbit(t, c.value_bits), s_col |-> ColScales(t), s_row |-> RowScales(t), zp |-> RowZeros(t)]

\* One launch for square tiles, two otherwise.
SinkhornPackKV(K, V, c) ==
  LET nk     == Len(K)
      square == K[1].rows = V[1].rows /\ K[1].cols = V[1].cols
      fused  == Balance(K \o V)
      kbal   == IF square THEN SubSeq(fused, 1, nk) ELSE Balance(K)
      vbal   == IF square THEN SubSeq(fused, nk + 1, Len(fused)) ELSE Balance(V)
  IN [n \in 1 .. nk |-> [k |-> StoreTileK(kbal[n], c), v |-> StoreTileV(vbal[n], c)]]

-----------------------------------------------------------------------------
(* The two flush paths.  A source is the <<layer, stamp>> of a pool slot.  *)

Heads == 0 .. Hk - 1

\* Gather, permute and reshape: tile n is head n % Hk of source n \div Hk.
KTiles(src, c) ==
  [n \in 1 .. Len(src) * Hk |-> Tile(c.head_dim, c.group,
     [x \in (0 .. c.head_dim - 1) \X (0 .. c.group - 1) |->
        LET s == src[(n - 1) \div Hk + 1] IN <<s[1], s[2], "K", x[2], (n - 1) % Hk, x[1]>>])]

VTiles(src, c) ==
  [n \in 1 .. Len(src) * Hk |-> Tile(c.group, c.head_dim,
     [x \in (0 .. c.group - 1) \X (0 .. c.head_dim - 1) |->
        LET s == src[(n - 1) \div Hk + 1] IN <<s[1], s[2], "V", x[1], (n - 1) % Hk, x[2]>>])]

Packed(src, c) == SinkhornPackKV(KTiles(src, c), VTiles(src, c), c)

\* The chunk of seq that position p is in, for chunks of n.
ChunkStart(p, n) == ((p - 1) \div n) * n
Chunk(seq, p, n) ==
  LET end == ChunkStart(p, n) + n IN
  SubSeq(seq, ChunkStart(p, n) + 1, IF end < Len(seq) THEN end ELSE Len(seq))

Source(l, b) == <<l, pool[l][dict_map[b]]>>
Place(seq, x) == CHOOSE p \in DOMAIN seq : seq[p] = x

Padding == [i \in 0 .. 7 |-> <<None, i>>]

\* The fields in the order of their offsets.
Joined(out, n) ==
  LET k == out[n].k
      v == out[n].v
  IN k.q \o k.s_col \o k.zp \o k.s_row \o v.q \o v.s_col \o v.s_row \o v.zp

\* _batched_flush: per layer, in chunks of blocks, one record per tile.
FastRecord(l, bids, b, h, c) ==
  LET size == IF MaxTiles \div Hk < 1 THEN 1 ELSE MaxTiles \div Hk
      p    == Place(bids, b)
      blks == Chunk(bids, p, size)
      out  == Packed([i \in DOMAIN blks |-> Source(l, blks[i])], c)
      rec  == Joined(out, (p - 1 - ChunkStart(p, size)) * Hk + (h + 1))
  IN [a \in 0 .. TileBytesAligned(c) - 1 |-> IF a < Len(rec) THEN rec[a + 1] ELSE Padding]

\* A slice of bytes at an offset; of those that cover a byte the last wrote it.
Covers(f, a) == f[1] <= a /\ a < f[1] + Len(f[2])
WriteSlices(old, fields) ==
  LET last(a) == CHOOSE i \in DOMAIN fields :
                   Covers(fields[i], a) /\ \A j \in i + 1 .. Len(fields) : ~Covers(fields[j], a)
  IN [a \in DOMAIN old |->
        IF \E i \in DOMAIN fields : Covers(fields[i], a)
        THEN LET f == fields[last(a)] IN f[2][a - f[1] + 1] ELSE old[a]]

\* _write_packed: eight slices, at the offsets of the configuration.
WritePacked(old, o, c) ==
  WriteSlices(old, <<<<KPackedOffset(c), o.k.q>>, <<KSColOffset(c), o.k.s_col>>,
                     <<KZpOffset(c), o.k.zp>>, <<KSRowOffset(c), o.k.s_row>>,
                     <<VPackedOffset(c), o.v.q>>, <<VSColOffset(c), o.v.s_col>>,
                     <<VSRowOffset(c), o.v.s_row>>, <<VZpOffset(c), o.v.zp>>>>)

\* _batched_flush_legacy: over (layer, block) pairs, layers outermost.
Pairs(bids) ==
  [p \in 1 .. Len(Layers) * Len(bids) |->
     <<Layers[(p - 1) \div Len(bids) + 1], bids[((p - 1) % Len(bids)) + 1]>>]

LegacyRecord(l, bids, b, h, c) ==
  LET p     == Place(Pairs(bids), <<l, b>>)
      chunk == Chunk(Pairs(bids), p, MaxPairs)
      out   == Packed([i \in DOMAIN chunk |-> Source(chunk[i][1], chunk[i][2])], c)
  IN WritePacked(cache[l][b][h], out[(p - 1 - ChunkStart(p, MaxPairs)) * Hk + h + 1], c)

-----------------------------------------------------------------------------
(* The two readers of a record.                                            *)

\* Two values to a byte, whatever the width (a mutant).
HalfRow(c) == c.head_dim \div 2

VRowBytes(c) == c.head_dim \div (8 \div c.value_bits)
KRowBytes(c) == c.group \div (8 \div c.key_bits)

\* tl.load of element d behind a byte offset, through the uint16 pointer.
Load16(rec, offset, d) ==
  [i \in 0 .. 15 |-> rec[2 * (offset \div 2 + d) + i \div 8][i % 8]]

\* What every decode kernel loads of token t and channel d.
KernelK(rec, t, d, c) ==
  LET pack == 8 \div c.key_bits
      byte == rec[KPackedOffset(c) + d * KRowBytes(c) + t \div pack]
  IN [q |-> [i \in 0 .. c.key_bits - 1 |-> byte[(t % pack) * c.key_bits + i]],
      s_col |-> Load16(rec, KSColOffset(c), d), zp |-> Load16(rec, KZpOffset(c), d),
      s_row |-> Load16(rec, KSRowOffset(c), t)]

KernelV(rec, t, d, c) ==
  LET pack == 8 \div c.value_bits
      byte == rec[VPackedOffset(c) + t * VRowBytes(c) + d \div pack]
  IN [q |-> [i \in 0 .. c.value_bits - 1 |-> byte[(d % pack) * c.value_bits + i]],
      s_col |-> Load16(rec, VSColOffset(c), d), zp |-> Load16(rec, VZpOffset(c), t),
      s_row |-> Load16(rec, VSRowOffset(c), t)]

\* flat[offset : offset + 2 * n].view(float16).
View16(rec, offset, n) ==
  [x \in 0 .. n - 1 |-> [i \in 0 .. 15 |-> rec[offset + 2 * x + i \div 8][i % 8]]]

\* _unpack_lowbit of byte row r: value j of every byte goes to j, j + pack, ...
UnpackLowbit(rec, offset, r, n, bits) ==
  LET pack == 8 \div bits IN
  [x \in 0 .. n - 1 |->
     [i \in 0 .. bits - 1 |-> rec[offset + r * (n \div pack) + x \div pack][(x % pack) * bits + i]]]

\* _read_block_dequantized: the K tile is transposed to tokens by channels.
GatherK(rec, t, d, c) ==
  [q |-> UnpackLowbit(rec, KPackedOffset(c), d, c.group, c.key_bits)[t],
   s_col |-> View16(rec, KSColOffset(c), c.head_dim)[d],
   zp |-> View16(rec, KZpOffset(c), c.head_dim)[d],
   s_row |-> View16(rec, KSRowOffset(c), c.group)[t]]

GatherV(rec, t, d, c) ==
  [q |-> UnpackLowbit(rec, VPackedOffset(c), t, c.head_dim, c.value_bits)[d],
   s_col |-> View16(rec, VSColOffset(c), c.head_dim)[d],
   zp |-> View16(rec, VZpOffset(c), c.group)[t],
   s_row |-> View16(rec, VSRowOffset(c), c.group)[t]]

-----------------------------------------------------------------------------
(* From the preset to the cache.                                           *)

Groups == {Presets[p].group : p \in DOMAIN Presets}
Largest(S) == CHOOSE n \in S : \A i \in S : i <= n

\* The preset in the configuration in scope, and nothing else (a mutant).
InScope(scope) == IF scope \in DOMAIN Presets THEN scope ELSE None

\* _active_kvarn_cache_dtype: scope is the cache_dtype of the configuration
\* in scope, None without one.
ActiveCacheDtype(scope) == IF scope \in DOMAIN Presets THEN scope ELSE active

KernelBlockSizes(scope) ==
  IF ActiveCacheDtype(scope) = None THEN Groups ELSE {Presets[ActiveCacheDtype(scope)].group}

LayerSet == {Layers[i] : i \in DOMAIN Layers}

TileInit ==
  /\ phase = "config" /\ active = None /\ manager = 0 /\ kernel_block = 0
  /\ preset \in DOMAIN Presets /\ head_dim \in HeadDims
  /\ pow2 \in BOOLEAN /\ fast \in BOOLEAN
  /\ dict_map = [b \in Blocks |-> None]
  /\ pool = [l \in LayerSet |-> [s \in Slots |-> None]]
  /\ cache = <<>> /\ stamps = 0 /\ want = [b \in Blocks |-> None]

\* The manager's block is a multiple of the kernel's alignment.
AlignBlockSize(k) ==
  /\ phase = "config" /\ phase' = "aligned"
  /\ manager' = k * Least(KernelBlockSizes(preset))
  /\ UNCHANGED <<preset, head_dim, pow2, fast, active, kernel_block, dict_map, pool, cache, stamps, want>>

\* KVarNAttentionImpl.__init__ records the preset.
ConstructImpl ==
  /\ phase = "aligned" /\ phase' = "built" /\ active' = preset
  /\ UNCHANGED <<preset, head_dim, pow2, fast, manager, kernel_block, dict_map, pool, cache, stamps, want>>

\* select_common_block_size takes the largest size that divides the block.
SelectBlockSize(scope) ==
  /\ phase = "built" /\ phase' = "sized"
  /\ kernel_block' = Largest({g \in KernelBlockSizes(scope) : manager % g = 0})
  /\ UNCHANGED <<preset, head_dim, pow2, fast, active, manager, dict_map, pool, cache, stamps, want>>

\* The page of a block in the KV-cache spec: slots of whole bytes per token.
PageBytes(c) == kernel_block * Hk * (TileBytesAligned(c) \div c.group)

\* get_kv_cache_shape; its assertion, and the view on the pages, may fail.
AllocateCache(dtype) ==
  LET c == Layout(IF dtype \in DOMAIN Presets THEN dtype ELSE active)
      fits == kernel_block = c.group /\ Hk * TileBytesAligned(c) = PageBytes(Layout(preset))
  IN
  /\ phase = "sized" /\ phase' = IF fits THEN "serving" ELSE "crashed"
  /\ cache' = IF ~fits THEN <<>>
              ELSE [l \in LayerSet |-> [b \in Blocks |-> [h \in Heads |->
                      [a \in 0 .. TileBytesAligned(c) - 1 |-> Padding]]]]
  /\ UNCHANGED <<preset, head_dim, pow2, fast, active, manager, kernel_block, dict_map, pool, stamps, want>>

-----------------------------------------------------------------------------
(* Serving: blocks are filled in the pool, then flushed.                   *)

\* All tokens of a block are stored in slot s, by every layer.
Fill(b, s) ==
  /\ phase = "serving" /\ stamps < MaxStamp
  /\ dict_map[b] = None /\ \A k \in Blocks : dict_map[k] # s
  /\ dict_map' = [dict_map EXCEPT ![b] = s]
  /\ stamps' = stamps + 1
  /\ pool' = [l \in LayerSet |-> [pool[l] EXCEPT ![s] = stamps + 1]]
  /\ UNCHANGED <<setup, cache, want>>

Held == {b \in Blocks : dict_map[b] # None}
Orders(S) == {q \in [1 .. Cardinality(S) -> S] : \A x \in S : \E i \in DOMAIN q : q[i] = x}

\* The flush of a build: every layer writes every block, then the slots go.
Flush(bids) ==
  LET c == Layout(preset)
      out == {bids[i] : i \in DOMAIN bids}
  IN
  /\ cache' = [l \in LayerSet |-> [b \in Blocks |-> [h \in Heads |->
       IF b \notin out THEN cache[l][b][h]
       ELSE IF fast THEN FastRecord(l, bids, b, h, c) ELSE LegacyRecord(l, bids, b, h, c)]]]
  /\ want' = [b \in Blocks |-> IF b \in out THEN pool[Layers[1]][dict_map[b]] ELSE want[b]]
  /\ dict_map' = [b \in Blocks |-> IF b \in out THEN None ELSE dict_map[b]]
  /\ UNCHANGED <<setup, pool, stamps>>

TileNext ==
  \/ \E k \in Multiples : AlignBlockSize(k)
  \/ ConstructImpl
  \/ \E scope \in {None, "auto", preset} : SelectBlockSize(scope)
  \/ \E dtype \in {"auto", preset} : AllocateCache(dtype)
  \/ \E b \in Blocks, s \in Slots : Fill(b, s)
  \/ \E S \in (SUBSET Held) \ {{}} : \E bids \in Orders(S) : Flush(bids)

TileSpec == TileInit /\ [][TileNext]_tile_vars

-----------------------------------------------------------------------------
\* (2.1.2 of the port's plan) Whatever configuration is in scope when the
\* runner asks, the block size it picks is the tile of the preset, and the
\* pages the scheduler accounts for hold exactly the records.
BlocksAreTiles == phase # "crashed"

\* The integer, scales and zero of an element of a tile balanced by its best
\* iterate: the last of those with the least imbalance.
BestIterate(stamp, side) ==
  LET imb == Imbalance[<<stamp, side>>] IN
  CHOOSE i \in DOMAIN imb : \A j \in DOMAIN imb : imb[i] < imb[j] \/ (imb[i] = imb[j] /\ j <= i)

Quantity(kind, l, stamp, side, t, h, d) ==
  <<kind, <<<<l, stamp, side, t, h, d>>, BestIterate(stamp, side)>>>>

AllBits(x, n) == [i \in 0 .. n - 1 |-> <<x, i>>]

ExpectedK(l, stamp, t, h, d, c) ==
  [q |-> AllBits(Quantity("q", l, stamp, "K", t, h, d), c.key_bits),
   s_col |-> AllBits(Quantity("scale", l, stamp, "K", 0, h, d), 16),
   zp |-> AllBits(Quantity("zp", l, stamp, "K", 0, h, d), 16),
   s_row |-> AllBits(Quantity("other", l, stamp, "K", t, h, 0), 16)]

ExpectedV(l, stamp, t, h, d, c) ==
  [q |-> AllBits(Quantity("q", l, stamp, "V", t, h, d), c.value_bits),
   s_col |-> AllBits(Quantity("other", l, stamp, "V", 0, h, d), 16),
   zp |-> AllBits(Quantity("zp", l, stamp, "V", t, h, 0), 16),
   s_row |-> AllBits(Quantity("scale", l, stamp, "V", t, h, 0), 16)]

\* Both readers find in every record exactly the bits of the tokens last
\* flushed to the block, by whichever path and in whichever chunk of whichever
\* launch: key per channel and value per token, at the best iterate.
ReadersFindTheTile ==
  phase = "serving" =>
    LET c == Layout(preset) IN
    \A l \in LayerSet, b \in {x \in Blocks : want[x] # None}, h \in Heads :
      LET rec == cache[l][b][h] IN
      \A t \in 0 .. c.group - 1, d \in 0 .. c.head_dim - 1 :
        /\ KernelK(rec, t, d, c) = ExpectedK(l, want[b], t, h, d, c)
        /\ KernelV(rec, t, d, c) = ExpectedV(l, want[b], t, h, d, c)
        /\ GatherK(rec, t, d, c) = KernelK(rec, t, d, c)
        /\ GatherV(rec, t, d, c) = KernelV(rec, t, d, c)
=============================================================================
