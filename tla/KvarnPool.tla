----------------------------- MODULE KvarnPool -----------------------------
(***************************************************************************)
(* The fp16 tail pool of the KVarN attention backend: which KV-cache       *)
(* blocks hold a slot of the pool, which have been quantised into their    *)
(* int4 tile, and what attention reads for each.                           *)
(*                                                                         *)
(* One step of the engine is: the scheduler plans the batch (vLLM, modelled*)
(* from how build() uses it); KVarNMetadataBuilder.build() marks sinks,    *)
(* flushes and reclaims, allocates; the forward pass stores the new tokens *)
(* and attends; the sampler keeps some of the tokens; the drafter may run  *)
(* further builds that may not flush.                                      *)
(*                                                                         *)
(* Token values are abstracted to freshness: an offset is in poolFresh[s]  *)
(* (tileFresh[b]) when that copy is the last token the block's present     *)
(* owners wrote there.                                                     *)
(***************************************************************************)
EXTENDS Integers, Sequences, FiniteSets

CONSTANTS
  Blocks,        \* physical KV-cache blocks
  Slots,         \* slots of the fp16 pool
  NoSlot,        \* "-1": the block has no slot
  Reqs,          \* requests; the same request may come back after it ended
  Prompt,        \* [Reqs -> Nat]: prompt length in tokens
  MaxLen,        \* longest sequence, in tokens
  Keys, NoKey,   \* content hashes of full blocks
  Stream,        \* [Reqs -> Seq(Keys)]: the hash of each of a request's blocks
  Group,         \* tokens per block (= per tile)
  Chunk,         \* longest prefill chunk
  MaxQuery,      \* 1 + number of speculative tokens of a verify step
  DraftPasses    \* drafter passes with draft_index >= 1 after a step

ASSUME PoolAssumption ==
  /\ IsFiniteSet(Blocks) /\ IsFiniteSet(Slots)
  /\ NoSlot \notin Slots /\ NoKey \notin Keys
  /\ {Group, Chunk, MaxQuery, MaxLen} \subseteq Nat \ {0}
  /\ DraftPasses \in Nat
  /\ MaxQuery <= Group          \* a verify step is shorter than a tile
  /\ Prompt \in [Reqs -> 1 .. MaxLen]
  /\ Stream \in [Reqs -> Seq(Keys)]
  /\ \A r \in Reqs : Len(Stream[r]) * Group >= MaxLen

VARIABLES
  phase,         \* where the engine is in its step
  pass,          \* 0 for the target's build, i for draft_index i
  live,          \* requests the scheduler is running
  table,         \* block table row of each request
  computed,      \* tokens of a request that are computed and accepted
  hash,          \* the prefix cache: content hash of a block, or NoKey
  seqLen,        \* row of the batch: sequence length, 0 when not in the batch
  queryLen,      \* row of the batch: tokens computed in this step
  dict_map,      \* _block_to_slot_dict
  b2s_t,         \* its GPU mirror, which the kernels read
  free_slots,    \* _free_slots
  sinks,         \* _global_sink_blocks
  retired,       \* _retired_sinks
  fill,          \* _block_fill, 0 when there is no entry
  needed,        \* blocks_needed of the build in progress
  poolFresh,     \* offsets of a slot that hold the block's last write
  tileFresh      \* offsets of a block's int4 tile that hold its last write

scheduler == <<live, table, computed, hash>>
batch     == <<seqLen, queryLen>>
slots     == <<dict_map, b2s_t, free_slots>>
labels    == <<sinks, retired, fill>>
data      == <<poolFresh, tileFresh>>
vars      == <<phase, pass, scheduler, batch, slots, labels, needed, data>>

Offsets == 0 .. Group - 1
Phases  == {"idle", "mark", "flush", "alloc", "attend", "dead"}

----------------------------------------------------------------------------
(* Rows of the batch.                                                      *)

InBatch      == {r \in Reqs : seqLen[r] > 0}
Committed(r) == seqLen[r] - queryLen[r]
BlockAt(r, p) == table[r][(p \div Group) + 1]

\* Indices of the blocks row r writes in this step.
WrittenIdx(r) == (Committed(r) \div Group) .. ((seqLen[r] - 1) \div Group)
Written       == UNION {{table[r][k + 1] : k \in WrittenIdx(r)} : r \in InBatch}
FirstBlocks   == {table[r][1] : r \in InBatch}

Held  == {b \in Blocks : dict_map[b] # NoSlot}
InUse == UNION {{table[r][i] : i \in DOMAIN table[r]} : r \in live}

Smaller(x, y) == IF x < y THEN x ELSE y

\* _block_fill after row r's step, for the block at index k of its row.
\* Mutant: the fill before the step.
FillBefore(r, k) == Smaller(Committed(r), (k + 1) * Group) - k * Group
FillAfter(r, k) == Smaller(seqLen[r], (k + 1) * Group) - k * Group

----------------------------------------------------------------------------
(* The scheduler (external: vLLM 0.27.1).                                  *)

\* A request is admitted with the longest prefix of cached full blocks, or
\* less of it on a hybrid model; at least one prompt token is recomputed.
Hits(r, h) ==
  {t \in [1 .. h -> Blocks] : \A i \in 1 .. h : hash[t[i]] = Stream[r][i]}

Arrive(r) ==
  /\ phase = "idle" /\ r \notin live
  /\ InBatch = {}                       \* no hit on a block of the same step
  /\ \E h \in 0 .. ((Prompt[r] - 1) \div Group) : \E t \in Hits(r, h) :
       /\ table' = [table EXCEPT ![r] = t]
       /\ computed' = [computed EXCEPT ![r] = h * Group]
  /\ live' = live \cup {r}
  /\ UNCHANGED <<phase, pass, hash, batch, slots, labels, needed, data>>

\* A request finishes, is aborted, or is preempted because another row took
\* the blocks it needs: its blocks are free again and keep their hash.
Leave(r) ==
  /\ phase = "idle" /\ r \in live /\ seqLen[r] = 0
  /\ live' = live \ {r}
  /\ table' = [table EXCEPT ![r] = << >>]
  /\ computed' = [computed EXCEPT ![r] = 0]
  /\ UNCHANGED <<phase, pass, hash, batch, slots, labels, needed, data>>

Extensions(n) ==
  {t \in [1 .. n -> Blocks \ InUse] : \A i, j \in 1 .. n : t[i] = t[j] => i = j}

Queries(r) ==
  IF computed[r] < Prompt[r] THEN 1 .. Smaller(Chunk, Prompt[r] - computed[r])
                             ELSE 1 .. Smaller(MaxQuery, MaxLen - computed[r])

\* Row r joins the batch: blocks for its tokens and for the draft tokens that
\* may follow, and the hashes of the blocks its known tokens complete. What a
\* recycled block holds is not its new owner's.
ScheduleRow(r) ==
  /\ phase = "idle" /\ r \in live /\ seqLen[r] = 0
  /\ \E q \in Queries(r) :
       LET sl   == computed[r] + q
           upTo == Smaller(sl + DraftPasses, MaxLen)
           need == ((upTo + Group - 1) \div Group) - Len(table[r])
           sure == IF computed[r] < Prompt[r] THEN sl ELSE computed[r] + 1
       IN \E ext \in Extensions(IF need > 0 THEN need ELSE 0) :
            LET row == table[r] \o ext
                complete(b) == \E k \in 1 .. (sure \div Group) : row[k] = b
                index(b)    == CHOOSE k \in 1 .. (sure \div Group) : row[k] = b
                new(b)      == \E i \in DOMAIN ext : ext[i] = b
            IN /\ table' = [table EXCEPT ![r] = row]
               /\ hash' = [b \in Blocks |-> IF complete(b) THEN Stream[r][index(b)]
                                            ELSE IF new(b) THEN NoKey ELSE hash[b]]
               /\ seqLen' = [seqLen EXCEPT ![r] = sl]
               /\ queryLen' = [queryLen EXCEPT ![r] = q]
               /\ poolFresh' = [s \in Slots |->
                    IF \E b \in Held : new(b) /\ dict_map[b] = s THEN {} ELSE poolFresh[s]]
               /\ tileFresh' = [b \in Blocks |-> IF new(b) THEN {} ELSE tileFresh[b]]
  /\ UNCHANGED <<phase, pass, live, computed, slots, labels, needed>>

\* Every running request is in the batch.
Dispatch ==
  /\ phase = "idle" /\ live # {} /\ InBatch = live
  /\ phase' = "mark"
  /\ UNCHANGED <<pass, scheduler, batch, slots, labels, needed, data>>

----------------------------------------------------------------------------
(* KVarNMetadataBuilder.build().                                           *)

\* Mutant: drafter passes flush too.
AlwaysFlush == TRUE
AllowFlush == pass = 0

\* (1) blocks_needed: what the step writes, and the sinks of its rows.
\* Mutant: a sink that is not written is not protected.
OnlyWritten == Written
BlocksNeeded == Written \cup (FirstBlocks \cap sinks)

\* Retired sinks back in use. Mutant: they stay evictable.
NoneUnretired(need) == {}
Unretired(need) == retired \cap need

\* Sinks are marked, blocks in use un-retired; a block that is no first block
\* sheds its label as it is un-retired.
MarkSinks ==
  /\ phase = "mark"
  /\ LET need      == BlocksNeeded
         unretired == Unretired(need)
         shed      == unretired \ FirstBlocks
     IN /\ needed' = need
        /\ sinks' = (sinks \cup (FirstBlocks \cap Written)) \ shed
        /\ retired' = retired \ unretired
  /\ fill' = [b \in Blocks |->
                IF b \in Written
                THEN LET r == CHOOSE r \in InBatch :
                                \E k \in WrittenIdx(r) : table[r][k + 1] = b
                         k == CHOOSE k \in WrittenIdx(r) : table[r][k + 1] = b
                     IN FillAfter(r, k)
                ELSE fill[b]]
  /\ phase' = "flush"
  /\ UNCHANGED <<pass, scheduler, batch, slots, data>>

\* (2) Blocks met walking row r backward from the committed boundary while
\* they hold a slot and are no sink; never the first block of the row.
Flushable(b) == b \in Held /\ b \notin sinks
WalkFrom(r, last) ==
  {table[r][k + 1] : k \in {k \in 1 .. last :
     \A j \in k .. last : Flushable(table[r][j + 1])}}

\* The walk starts at the last block that is committed whole.
WalkBack(r) == WalkFrom(r, (Committed(r) \div Group) - 1)

\* (2b) Slot-holding blocks that are neither needed nor queued.
Queued    == UNION {WalkBack(r) : r \in InBatch}
Leftover  == Held \ (needed \cup Queued)
Complete  == {b \in Leftover : fill[b] >= Group}
ToRetire  == Complete \cap sinks
ToFlush   == Queued \cup (Complete \ sinks)
\* Mutant: incomplete blocks of finished requests are kept.
NothingDiscarded == {}
ToDiscard == Leftover \ Complete

\* The slots that come back. Mutant: those of discarded blocks are forgotten.
ReturnedByFlush(gone) == {dict_map[b] : b \in gone \cap ToFlush}
Returned(gone) == {dict_map[b] : b \in gone}

FlushAndReclaim ==
  /\ phase = "flush" /\ AllowFlush
  /\ tileFresh' = [b \in Blocks |-> IF b \in ToFlush THEN poolFresh[dict_map[b]]
                                    ELSE tileFresh[b]]
  /\ LET gone == ToFlush \cup ToDiscard
     IN /\ dict_map' = [b \in Blocks |-> IF b \in gone THEN NoSlot ELSE dict_map[b]]
        /\ b2s_t' = [b \in Blocks |-> IF b \in gone THEN NoSlot ELSE b2s_t[b]]
        /\ fill' = [b \in Blocks |-> IF b \in gone THEN 0 ELSE fill[b]]
        /\ free_slots' = free_slots \cup Returned(gone)
  /\ retired' = retired \cup ToRetire
  /\ sinks' = sinks \ ToDiscard
  /\ phase' = "alloc"
  /\ UNCHANGED <<pass, scheduler, batch, needed, poolFresh>>

\* Drafter passes with draft_index >= 1 neither flush nor reclaim.
SkipFlush ==
  /\ phase = "flush" /\ ~AllowFlush
  /\ phase' = "alloc"
  /\ UNCHANGED <<pass, scheduler, batch, slots, labels, needed, data>>

\* (3) Allocation, one block at a time; a slot handed out holds old data.
Unslotted == needed \ Held

Allocate(b) ==
  /\ phase = "alloc" /\ b \in Unslotted /\ free_slots # {}
  /\ LET s == CHOOSE s \in free_slots : TRUE
     IN /\ dict_map' = [dict_map EXCEPT ![b] = s]
        /\ b2s_t' = [b2s_t EXCEPT ![b] = s]
        /\ free_slots' = free_slots \ {s}
        /\ poolFresh' = [poolFresh EXCEPT ![s] = {}]
  /\ UNCHANGED <<phase, pass, scheduler, batch, labels, needed, tileFresh>>

\* No free slot: a retired sink is flushed and gives its slot up. The code
\* takes the oldest; any victim is allowed here.
EvictRetired(old) ==
  /\ phase = "alloc" /\ Unslotted # {} /\ free_slots = {} /\ old \in retired
  /\ retired' = retired \ {old}
  /\ sinks' = sinks \ {old}
  /\ fill' = [fill EXCEPT ![old] = 0]
  /\ dict_map' = [dict_map EXCEPT ![old] = NoSlot]
  /\ b2s_t' = [b2s_t EXCEPT ![old] = NoSlot]
  /\ IF old \in Held
     THEN /\ tileFresh' = [tileFresh EXCEPT ![old] = poolFresh[dict_map[old]]]
          /\ free_slots' = {dict_map[old]}
     ELSE UNCHANGED <<tileFresh, free_slots>>
  /\ UNCHANGED <<phase, pass, scheduler, batch, needed, poolFresh>>

\* RuntimeError: the engine dies.
PoolExhausted ==
  /\ phase = "alloc" /\ Unslotted # {} /\ free_slots = {} /\ retired = {}
  /\ phase' = "dead"
  /\ UNCHANGED <<pass, scheduler, batch, slots, labels, needed, data>>

----------------------------------------------------------------------------
(* The forward pass and the sampler.                                       *)

\* do_kv_cache_update: every token of the step goes to its block's slot; the
\* kernel drops the token of a block that has none.
StoredAt(b) == {p % Group : p \in UNION
                  {{q \in Committed(r) .. (seqLen[r] - 1) : BlockAt(r, q) = b}
                     : r \in InBatch}}

Store ==
  /\ phase = "alloc" /\ Unslotted = {}
  /\ poolFresh' = [s \in Slots |->
                     poolFresh[s] \cup UNION {StoredAt(b) : b \in {c \in Blocks : b2s_t[c] = s}}]
  /\ tileFresh' = [b \in Blocks |-> tileFresh[b] \ StoredAt(b)]
  /\ phase' = "attend"
  /\ UNCHANGED <<pass, scheduler, batch, slots, labels, needed>>

\* Where attention reads a block: the pool while it has a slot, else the tile.
View(b) == IF b2s_t[b] # NoSlot THEN poolFresh[b2s_t[b]] ELSE tileFresh[b]

\* Prefill tokens are all kept; of a verify step, a prefix of at least one.
Kept(r) == IF computed[r] < Prompt[r] THEN {queryLen[r]} ELSE 1 .. queryLen[r]

NoRow == [r \in Reqs |-> 0]

\* Rows of drafter pass i: one token past the accepted ones, for the requests
\* that decode and whose row has room for it.
DraftRows(i, accepted) ==
  {r \in live : /\ accepted[r] >= Prompt[r]
                /\ accepted[r] + i <= Smaller(MaxLen, Len(table[r]) * Group)}

DraftBatch(i, accepted) ==
  LET rows == DraftRows(i, accepted)
  IN /\ seqLen' = [r \in Reqs |-> IF r \in rows THEN accepted[r] + i ELSE 0]
     /\ queryLen' = [r \in Reqs |-> IF r \in rows THEN 1 ELSE 0]

\* After a pass: the next drafter pass, or the next step.
NextPass(accepted) ==
  IF pass < DraftPasses /\ DraftRows(pass + 1, accepted) # {}
  THEN /\ pass' = pass + 1 /\ phase' = "mark"
       /\ DraftBatch(pass + 1, accepted)
  ELSE /\ pass' = 0 /\ phase' = "idle"
       /\ seqLen' = NoRow /\ queryLen' = NoRow

Sample ==
  /\ phase = "attend" /\ pass = 0
  /\ \E kept \in [live -> 1 .. (MaxQuery + Chunk)] :
       /\ \A r \in live : kept[r] \in Kept(r)
       /\ LET accepted == [r \in Reqs |-> IF r \in live THEN computed[r] + kept[r] ELSE 0]
          IN computed' = accepted /\ NextPass(accepted)
  /\ needed' = {}
  /\ UNCHANGED <<live, table, hash, slots, labels, data>>

Draft ==
  /\ phase = "attend" /\ pass > 0
  /\ NextPass(computed)
  /\ needed' = {}
  /\ UNCHANGED <<scheduler, slots, labels, data>>

----------------------------------------------------------------------------
(* A builder over a fresh KV cache: _reset_group_state, then _ensure_pool. *)

Init ==
  /\ phase = "idle" /\ pass = 0
  /\ live = {} /\ table = [r \in Reqs |-> << >>] /\ computed = [r \in Reqs |-> 0]
  /\ hash = [b \in Blocks |-> NoKey]
  /\ seqLen = NoRow /\ queryLen = NoRow
  /\ dict_map = [b \in Blocks |-> NoSlot] /\ b2s_t = [b \in Blocks |-> NoSlot]
  /\ free_slots = Slots
  /\ sinks = {} /\ retired = {} /\ fill = [b \in Blocks |-> 0]
  /\ needed = {}
  /\ poolFresh = [s \in Slots |-> {}] /\ tileFresh = [b \in Blocks |-> {}]

\* A dead engine is started again from nothing.
Restart ==
  /\ phase = "dead"
  /\ phase' = "idle" /\ pass' = 0
  /\ live' = {} /\ table' = [r \in Reqs |-> << >>] /\ computed' = [r \in Reqs |-> 0]
  /\ hash' = [b \in Blocks |-> NoKey]
  /\ seqLen' = NoRow /\ queryLen' = NoRow
  /\ dict_map' = [b \in Blocks |-> NoSlot] /\ b2s_t' = [b \in Blocks |-> NoSlot]
  /\ free_slots' = Slots
  /\ sinks' = {} /\ retired' = {} /\ fill' = [b \in Blocks |-> 0]
  /\ needed' = {}
  /\ poolFresh' = [s \in Slots |-> {}] /\ tileFresh' = [b \in Blocks |-> {}]

Builder ==
  \/ MarkSinks \/ FlushAndReclaim \/ SkipFlush
  \/ \E b \in Blocks : Allocate(b) \/ EvictRetired(b)
  \/ PoolExhausted

Next ==
  \/ \E r \in Reqs : Arrive(r) \/ Leave(r) \/ ScheduleRow(r)
  \/ Dispatch \/ Builder \/ Store \/ Sample \/ Draft \/ Restart

Spec == Init /\ [][Next]_vars

----------------------------------------------------------------------------
(* Properties.                                                             *)

\* Every variable has its type.
TypeOK ==
  /\ phase \in Phases /\ pass \in 0 .. DraftPasses
  /\ live \in SUBSET Reqs /\ table \in [Reqs -> Seq(Blocks)]
  /\ computed \in [Reqs -> Nat] /\ hash \in [Blocks -> Keys \cup {NoKey}]
  /\ seqLen \in [Reqs -> Nat] /\ queryLen \in [Reqs -> Nat]
  /\ dict_map \in [Blocks -> Slots \cup {NoSlot}]
  /\ b2s_t \in [Blocks -> Slots \cup {NoSlot}]
  /\ free_slots \in SUBSET Slots
  /\ sinks \in SUBSET Blocks /\ retired \in SUBSET Blocks
  /\ fill \in [Blocks -> Int] /\ needed \in SUBSET Blocks
  /\ poolFresh \in [Slots -> SUBSET Offsets]
  /\ tileFresh \in [Blocks -> SUBSET Offsets]

\* No slot is shared by two blocks, leaked or both free and in use, across
\* every flush, discard, eviction and allocation; and the GPU mirror the
\* kernels read says the same as the builder's dictionary.
SlotPartition ==
  /\ \A b, c \in Held : b # c => dict_map[b] # dict_map[c]
  /\ free_slots = Slots \ {dict_map[b] : b \in Held}
  /\ b2s_t = dict_map

\* The backend behaves as a plain paged cache: wherever a batch attends, each
\* token of each row, its own or a sharer's, is the last one written there,
\* whether the block sits in the pool or in its tile.
ReadsAsWritten ==
  phase = "attend" =>
    \A r \in InBatch : \A p \in 0 .. seqLen[r] - 1 :
      (p % Group) \in View(BlockAt(r, p))

\* A block the prefix cache may hand out (hashed), whether its request lives,
\* ended, or its slot was evicted, can be read whole between steps.
CacheHitsFindData ==
  phase = "idle" /\ InBatch = {} =>
    \A b \in Blocks : hash[b] # NoKey => View(b) = Offsets

\* Labels: a retired sink is a sink with a slot, never one the build in
\* progress needs, so an eviction takes no block that is being written.
RetiredIsSpare ==
  /\ retired \subseteq sinks \cap Held
  /\ phase \in {"flush", "alloc"} => retired \cap needed = {}

\* The pool runs dry only when the blocks of one step outnumber its slots:
\* retired sinks and finished requests never cost a live request its slot.
\* (Drafter passes, which do not reclaim, are outside the claim.)
ExhaustedOnlyByDemand ==
  phase = "dead" /\ pass = 0 => Cardinality(needed) > Cardinality(Slots)

\* A running request's fp16 sink stays fp16: label and slot are kept as long
\* as the request runs, also when its block is shared or was re-adopted.
LiveSinkStays ==
  [][\A r \in live \cap live' :
       table[r] # << >> /\ table[r][1] \in sinks \cap Held =>
         table'[r][1] \in sinks' /\ dict_map'[table[r][1]] # NoSlot]_vars
=============================================================================
