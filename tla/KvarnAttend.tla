---------------------------- MODULE KvarnAttend ----------------------------
(***************************************************************************)
(* Which keys a query token of a KVarN layer attends to. The builder splits*)
(* the batch into decodes and prefills, plans one virtual row per decode   *)
(* token in a buffer that outlives the step, and forward() picks one of six*)
(* kernels or fallbacks for each part. KvarnPool says what a position      *)
(* holds; this module says which positions are read, for whom, how often.  *)
(*                                                                         *)
(* Heads, rotation and softmax are left out: a kernel's result for a row is*)
(* the block-table row it read and the positions each of its KV splits saw.*)
(* Sliding windows are left out: kvarn-0.27.1.patch keeps such layers away *)
(* from this backend.                                                      *)
(***************************************************************************)
EXTENDS Integers, Sequences, FiniteSets

CONSTANTS
  MaxRows, MaxTokens,  \* bounds: requests and tokens of a batch
  MaxLen,              \* max_model_len
  Group,               \* tokens per block
  MaxQuery,            \* 1 + number of speculative tokens
  MaxFused,            \* KVARN_FUSED_VERIFY_MAXQ
  MinBlocks,           \* KVARN_FUSED_VERIFY_MIN_BLOCKS
  ScratchRows,         \* fa_scratch_rows
  KVHeads, SMs,        \* programs per row, and what the device runs at once
  Splits, SplitBlocks, \* adaptive_num_kv_splits, and the context it pays from
  Options              \* environment variables a deployment may set

ASSUME AttendAssumption ==
  /\ {MaxRows, MaxTokens, MaxLen, Group, MaxQuery, KVHeads, Splits} \subseteq Nat \ {0}
  /\ {MaxFused, MinBlocks, ScratchRows, SMs, SplitBlocks} \subseteq Nat
  /\ Options \subseteq [fused_verify : BOOLEAN, fused_decode : BOOLEAN, shared : BOOLEAN,
                        split : {"auto", "on", "off"}, flash : BOOLEAN]

VARIABLES
  stage,
  option,             \* the deployment's environment
  causal,             \* CommonAttentionMetadata.causal
  rows,               \* one record per request of the batch
  tokens,             \* num_actual_tokens, padding included
  num_decodes, num_decode_tokens,
  vq,                 \* the persistent buffers _vq_req_buf and _vq_seqlen_buf
  md,                 \* KVarNMetadata
  out                 \* the output of each token

batch       == <<causal, rows, tokens, num_decodes, num_decode_tokens>>
attend_vars == <<stage, option, batch, vq, md, out>>

Threshold == IF option.fused_verify THEN MaxQuery ELSE 1
MaxBlocks == (MaxLen + Group - 1) \div Group

NoPlan == [row |-> 1, len |-> 0]
AttendInit ==
  /\ stage = "batch" /\ option \in Options /\ causal \in BOOLEAN
  /\ rows = <<>> /\ tokens = 0 /\ num_decodes = 0 /\ num_decode_tokens = 0
  /\ vq = [i \in 0 .. MaxTokens - 1 |-> NoPlan]
  /\ md = [plan |-> FALSE, qlen |-> 0, cached |-> FALSE]
  /\ out = <<>>

----------------------------------------------------------------------------
(* The batch (external: vLLM's runner and split_decodes_and_prefills).     *)

\* A row computes its last q of s tokens; cu counts the keys up to its end.
Row(q, s) ==
  [start |-> tokens, q |-> q, s |-> s,
   cu |-> s + IF rows = <<>> THEN 0 ELSE rows[Len(rows)].cu]

AllDecodes == num_decodes = Len(rows)
Padded     == \E b \in DOMAIN rows : rows[b].q = 0

\* The runner puts decodes first: behind a longer row, only a fresh prompt is
\* as short as one.
AddRow(q, s) ==
  /\ stage = "batch" /\ ~Padded /\ Len(rows) < MaxRows /\ tokens + q <= MaxTokens
  /\ ~AllDecodes /\ q <= Threshold => q = s
  /\ rows' = Append(rows, Row(q, s))
  /\ tokens' = tokens + q
  /\ IF AllDecodes /\ q <= Threshold
     THEN /\ num_decodes' = num_decodes + 1
          /\ num_decode_tokens' = num_decode_tokens + q
     ELSE UNCHANGED <<num_decodes, num_decode_tokens>>
  /\ UNCHANGED <<stage, option, causal, vq, md, out>>

\* A captured graph has a fixed size: a uniform decode batch is filled up with
\* requests of no tokens, whose places in the token buffers remain.
Pad ==
  /\ stage = "batch" /\ rows # <<>> /\ AllDecodes /\ Len(rows) < MaxRows
  /\ \A b \in DOMAIN rows : rows[b].q \in {0, rows[1].q}
  /\ tokens + rows[1].q <= MaxTokens
  /\ rows' = Append(rows, Row(0, 0))
  /\ tokens' = tokens + rows[1].q
  /\ num_decodes' = num_decodes + 1
  /\ num_decode_tokens' = num_decode_tokens + rows[1].q
  /\ UNCHANGED <<stage, option, causal, vq, md, out>>

Committed(b) == rows[b].s - rows[b].q
Tokens  == UNION {{<<b, j>> : j \in 0 .. rows[b].q - 1} : b \in DOMAIN rows}
Flat(t) == rows[t[1]].start + t[2]
TokenAt(i) == CHOOSE t \in Tokens : Flat(t) = i

----------------------------------------------------------------------------
(* build(): the verify plan and the flags that route the step.             *)

\* A token's keys end with itself, or with its request when not causal.
Limit(t) == IF causal THEN Committed(t[1]) + t[2] + 1 ELSE rows[t[1]].s

\* Places of the buffer that no token fills are zeroed.
Unfilled(i) == NoPlan

Planned(i) ==
  IF \E t \in Tokens : Flat(t) = i
  THEN LET t == TokenAt(i) IN [row |-> t[1], len |-> Limit(t)]
  ELSE Unfilled(i)

\* Some row of more than one token continues a sequence. Mutant: every one.
EveryRowCached == \A b \in DOMAIN rows : rows[b].q > 1 => rows[b].s > rows[b].q
HasCached == \E b \in DOMAIN rows : rows[b].q > 1 /\ rows[b].s > rows[b].q

\* The common length of the decodes, if the shared kernel may serve them.
\* Mutant: without causality too.
UniformAnyway ==
  IF rows[1].q >= 2 /\ \A b \in 1 .. num_decodes : rows[b].q = rows[1].q
  THEN rows[1].q ELSE 0
UniformLen ==
  IF causal /\ rows[1].q >= 2 /\ \A b \in 1 .. num_decodes : rows[b].q = rows[1].q
  THEN rows[1].q ELSE 0

BuildMetadata ==
  /\ stage = "batch" /\ rows # <<>>
  /\ LET plan == num_decodes > 0 /\ num_decode_tokens > num_decodes IN
       /\ md' = [plan |-> plan, qlen |-> IF plan THEN UniformLen ELSE 0, cached |-> HasCached]
       /\ vq' = IF plan
                THEN [i \in DOMAIN vq |-> IF i < num_decode_tokens THEN Planned(i) ELSE vq[i]]
                ELSE vq
  /\ stage' = "forward"
  /\ UNCHANGED <<option, batch, out>>

----------------------------------------------------------------------------
(* The kernels. n splits share the blocks of a row of len keys.            *)

NumBlocks(len) == (len + Group - 1) \div Group

\* Mutant: rounded down.
PerSplitDown(len, n) == NumBlocks(len) \div n
PerSplit(len, n) == (NumBlocks(len) + n - 1) \div n

SplitBlocksOf(len, n, split) ==
  {k \in 0 .. NumBlocks(len) - 1 :
     split * PerSplit(len, n) <= k /\ k < split * PerSplit(len, n) + PerSplit(len, n)}

KeysOfBlock(len, k) == {p \in k * Group .. k * Group + Group - 1 : p < len}

Part(len, n, split) == UNION {KeysOfBlock(len, k) : k \in SplitBlocksOf(len, n, split)}

\* _kvarn_fused_decode_kernel is one split; stage1 and stage2 are n of them.
Fused(row, len, n) == [row |-> row, parts |-> [split \in 0 .. n - 1 |-> Part(len, n, split)]]

Whole(row, keys) == [row |-> row, parts |-> [split \in {0} |-> keys]]

MaySplit(n) ==
  \/ option.split = "on"
  \/ option.split = "auto" /\ MaxBlocks >= SplitBlocks /\ n * KVHeads <= SMs
NumSplits(n) == IF MaySplit(n) THEN Splits ELSE 1

\* kvarn_decode_attention: one query per request, row i of everything. The
\* partial buffers hold (SMs // KVHeads) rows, one at least.
DecodeAt(i) ==
  LET n == num_decode_tokens
      fits == n <= SMs \div KVHeads \/ n <= 1
  IN  Fused(i + 1, rows[i + 1].s,
            IF option.fused_decode /\ fits THEN NumSplits(n) ELSE 1)

\* The kernel that shares each block among the tokens of a request: its row is
\* the request's place, its limits are a staircase below the last token's.
\* It is off unless KVARN_SHARED_VERIFY is set. (Query heads are grouped, so a
\* tile of rows is a power of two only if the common length is.)
UseShared == option.shared /\ md.qlen >= 2 /\ num_decode_tokens % md.qlen = 0
             /\ \E e \in 0 .. md.qlen : 2 ^ e = md.qlen
SharedAt(i) ==
  LET b == i \div md.qlen
      len == vq[b * md.qlen + md.qlen - 1].len
      n == IF MaxBlocks >= SplitBlocks /\ (num_decode_tokens \div md.qlen) * KVHeads <= SMs
           THEN Splits ELSE 1
  IN  [row |-> b + 1,
       parts |-> [split \in 0 .. n - 1 |->
                    {p \in Part(len, n, split) : p < len - md.qlen + (i % md.qlen) + 1}]]

\* kvarn_verify_attention over the plan.
VerifyAt(i) ==
  IF UseShared THEN SharedAt(i)
               ELSE Fused(vq[i].row, vq[i].len, NumSplits(num_decode_tokens))

\* flash_attn_varlen: causality is aligned with the last query and key.
FirstChunkAt(i) ==
  LET t == TokenAt(i)
      q == rows[t[1]].q
  IN  Whole(t[1], {Committed(t[1]) + k : k \in 0 .. (IF causal THEN t[2] ELSE q - 1)})

----------------------------------------------------------------------------
(* _cached_multiquery_path, on the rows behind the decodes.                *)

TotalKeys == rows[Len(rows)].cu - IF num_decodes = 0 THEN 0 ELSE rows[num_decodes].cu

LongContext == \E b \in DOMAIN rows : NumBlocks(rows[b].s) >= MinBlocks
ShortQuery  == \A b \in DOMAIN rows : rows[b].q <= MaxFused

\* The fused verify path and the slow fallback are causal whatever the batch is.
Staircase(t) == Committed(t[1]) + t[2] + 1

CachedAt(i) ==
  LET t == TokenAt(i)
      keys == {p \in 0 .. rows[t[1]].s - 1 : p < Limit(t)}
  IN  IF option.fused_verify /\ ShortQuery /\ LongContext
      THEN Fused(t[1], Staircase(t), NumSplits(tokens - num_decode_tokens))
      ELSE IF ~option.flash \/ TotalKeys > ScratchRows
      THEN Whole(t[1], 0 .. Staircase(t) - 1)
      ELSE Whole(t[1], keys \cap UNION {KeysOfBlock(rows[t[1]].s, k) : k \in 0 .. MaxBlocks - 1})

----------------------------------------------------------------------------
(* forward().                                                              *)

IsPrefill == \E b \in DOMAIN rows : rows[b].q > 1
PrefillAt(i) == IF md.cached THEN CachedAt(i) ELSE FirstChunkAt(i)

Places == 0 .. tokens - 1

Attend(result) ==
  /\ stage = "forward"
  /\ out' = result
  /\ stage' = "done"
  /\ UNCHANGED <<option, batch, vq, md>>

DecodePath == ~IsPrefill /\ Attend([i \in Places |-> DecodeAt(i)])

AllPlanned == md.plan /\ num_decode_tokens = tokens
VerifyPath == IsPrefill /\ AllPlanned /\ Attend([i \in Places |-> VerifyAt(i)])

PrefillPath ==
  IsPrefill /\ ~AllPlanned /\ num_decodes = 0 /\ Attend([i \in Places |-> PrefillAt(i)])

MixedAt(i) ==
  IF i >= num_decode_tokens THEN PrefillAt(i)
  ELSE IF md.plan THEN VerifyAt(i) ELSE DecodeAt(i)
MixedPath ==
  IsPrefill /\ ~AllPlanned /\ num_decodes > 0 /\ Attend([i \in Places |-> MixedAt(i)])

NextBatch ==
  /\ stage = "done"
  /\ stage' = "batch" /\ causal' \in BOOLEAN
  /\ rows' = <<>> /\ tokens' = 0 /\ num_decodes' = 0 /\ num_decode_tokens' = 0
  /\ md' = [plan |-> FALSE, qlen |-> 0, cached |-> FALSE] /\ out' = <<>>
  /\ UNCHANGED <<option, vq>>

AttendNext ==
  \/ \E s \in 1 .. MaxLen : \E q \in 1 .. s : AddRow(q, s)
  \/ Pad \/ BuildMetadata
  \/ DecodePath \/ VerifyPath \/ PrefillPath \/ MixedPath
  \/ NextBatch

AttendSpec == AttendInit /\ [][AttendNext]_attend_vars

----------------------------------------------------------------------------
(* Properties.                                                             *)

\* Every variable has its type; decodes are a part of the batch.
TypeOK ==
  /\ stage \in {"batch", "forward", "done"} /\ option \in Options /\ causal \in BOOLEAN
  /\ rows \in Seq([start : Nat, q : Nat, s : 0 .. MaxLen, cu : Nat])
  /\ Len(rows) <= MaxRows /\ tokens \in 0 .. MaxTokens
  /\ num_decodes \in 0 .. Len(rows) /\ num_decode_tokens \in 0 .. tokens
  /\ vq \in [0 .. MaxTokens - 1 -> [row : 1 .. MaxRows, len : 0 .. MaxLen]]
  /\ md \in [plan : BOOLEAN, qlen : Nat, cached : BOOLEAN]

Exactly(o, t) ==
  /\ o.row = t[1]
  /\ UNION {o.parts[n] : n \in DOMAIN o.parts} = 0 .. Limit(t) - 1
  /\ \A m, n \in DOMAIN o.parts : m # n => o.parts[m] \cap o.parts[n] = {}

\* However a causal batch is split, planned and routed, every token attends to
\* its own request, to each position up to its own exactly once, and to none
\* after it.
AttendsExactly ==
  stage = "done" /\ causal => \A t \in Tokens : Exactly(out[Flat(t)], t)

\* kvarn_attn.py:390-393: without causality a row attends to its whole context,
\* for the rows that the verify plan or the decode kernel serves.
DecodesSeeContext ==
  stage = "done" /\ ~causal =>
    \A t \in Tokens : t[1] <= num_decodes => Exactly(out[Flat(t)], t)
=============================================================================
