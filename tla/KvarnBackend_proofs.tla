------------------------ MODULE KvarnBackend_proofs ------------------------
(***************************************************************************)
(* Theorems about the two halves of the attention backend.                 *)
(*                                                                         *)
(* KvarnAttend: its types, and that every kernel, fallback and split of a  *)
(* batch reads exactly the positions a token may attend to.  The argument  *)
(* has three parts.  Layout says how the rows of a batch lie among its     *)
(* tokens, which is what lets a place in the token buffer be traced to its *)
(* request.  Planning says that the metadata of a step agree with its      *)
(* batch.  The lemmas on kernels then take one path each.                  *)
(*                                                                         *)
(* KvarnOwnership: for any groups of layers, sizes of the caches and       *)
(* steps, each layer has one driver (the claim rule over two generations   *)
(* of builders), its graph launches on the mirror that driver writes, and  *)
(* it reads what its forward passes wrote.                                 *)
(***************************************************************************)
EXTENDS KvarnAttend, KvarnOwnership, FiniteSetTheorems, TLAPS

----------------------------------------------------------------------------
(* The layout of a batch.                                                  *)

\* Rows follow one another within the tokens of the batch.
InBatch == \A b \in DOMAIN rows : rows[b].start + rows[b].q <= tokens
Apart == \A a, b \in DOMAIN rows : a < b => rows[a].start + rows[a].q <= rows[b].start

\* Decodes come first; a row behind them is longer than one, or a fresh prompt.
Sides ==
  \A b \in DOMAIN rows :
    IF b <= num_decodes THEN rows[b].start + rows[b].q <= num_decode_tokens
    ELSE /\ num_decode_tokens <= rows[b].start
         /\ rows[b].q > Threshold \/ rows[b].q = rows[b].s
DecodesOnly == AllDecodes => tokens = num_decode_tokens

\* Requests without tokens come last, and never alone.
Short == \A b \in DOMAIN rows : rows[b].q <= rows[b].s
PadsLast == \A a, b \in DOMAIN rows : a < b /\ rows[b].q > 0 => rows[a].q > 0
FirstReal == rows # <<>> => rows[1].q > 0

\* Rows of one length lie at its multiples.
Uniform ==
  /\ \A u \in Nat, b \in DOMAIN rows :
       (\A a \in DOMAIN rows : a < b => rows[a].q = u) => rows[b].start = (b - 1) * u
  /\ \A u \in Nat : ~Padded /\ (\A a \in DOMAIN rows : rows[a].q = u) => tokens = Len(rows) * u

\* Every decode takes at least one place.
Counted ==
  /\ num_decodes <= num_decode_tokens
  /\ \A b \in DOMAIN rows :
       b <= num_decodes =>
         /\ rows[b].start + rows[b].q + (num_decodes - b) <= num_decode_tokens
         /\ rows[b].q > 0 => b - 1 <= rows[b].start

Layout ==
  /\ InBatch /\ Apart /\ Sides /\ DecodesOnly
  /\ Short /\ PadsLast /\ FirstReal /\ Uniform /\ Counted

\* The record of a request, and what TypeOK says of the batch.
Request == [start : Nat, q : Nat, s : 0 .. MaxLen, cu : Nat]
BatchTypeOK ==
  /\ option \in Options /\ causal \in BOOLEAN
  /\ rows \in Seq(Request) /\ Len(rows) <= MaxRows /\ tokens \in 0 .. MaxTokens
  /\ num_decodes \in 0 .. Len(rows) /\ num_decode_tokens \in 0 .. tokens
Plans == [0 .. MaxTokens - 1 -> [row : 1 .. MaxRows, len : 0 .. MaxLen]]
BufferTypeOK ==
  /\ stage \in {"batch", "forward", "done"}
  /\ vq \in Plans /\ md \in [plan : BOOLEAN, qlen : Nat, cached : BOOLEAN]

LEMMA TypeParts == TypeOK <=> BatchTypeOK /\ BufferTypeOK
  BY DEF TypeOK, BatchTypeOK, BufferTypeOK, Request, Plans

LEMMA ConstantsOK ==
  /\ MaxRows \in Nat /\ MaxRows > 0 /\ MaxTokens \in Nat /\ MaxLen \in Nat
  /\ Group \in Nat /\ Group > 0 /\ MaxQuery \in Nat /\ MaxQuery > 0
  /\ Splits \in Nat /\ Splits > 0
  BY AttendAssumption DEF AttendAssumption

LEMMA ThresholdPositive == Threshold \in Nat /\ Threshold > 0
  BY ConstantsOK DEF Threshold

\* The fields of the rows of a well-typed batch.
LEMMA Fields ==
  ASSUME BatchTypeOK
  PROVE  /\ DOMAIN rows = 1 .. Len(rows) /\ Len(rows) \in Nat
         /\ rows = <<>> <=> Len(rows) = 0
         /\ \A b \in 1 .. Len(rows) :
              /\ rows[b] \in Request
              /\ rows[b].start \in Nat /\ rows[b].q \in Nat
              /\ rows[b].s \in Nat /\ rows[b].s <= MaxLen /\ rows[b].cu \in Nat
<1>1. /\ DOMAIN rows = 1 .. Len(rows) /\ Len(rows) \in Nat /\ rows = <<>> <=> Len(rows) = 0
      /\ \A b \in 1 .. Len(rows) : rows[b] \in Request
  BY DEF BatchTypeOK
<1>2. \A r \in Request : /\ r.start \in Nat /\ r.q \in Nat
                         /\ r.s \in Nat /\ r.s <= MaxLen /\ r.cu \in Nat
  BY ConstantsOK DEF Request
<1> QED BY <1>1, <1>2

LEMMA RowTyped ==
  ASSUME BatchTypeOK, NEW q \in Nat, NEW s \in 0 .. MaxLen
  PROVE  Row(q, s) \in Request
<1>1. tokens \in Nat /\ s \in Nat
  BY ConstantsOK DEF BatchTypeOK
<1>2. rows # <<>> => rows[Len(rows)].cu \in Nat
  BY Fields
<1>3. s + (IF rows = <<>> THEN 0 ELSE rows[Len(rows)].cu) \in Nat
  BY <1>1, <1>2
<1> QED BY <1>1, <1>3 DEF Row, Request

\* Appending a row of q and s at the end of the tokens, as AddRow and Pad do.
LEMMA Appended ==
  ASSUME BatchTypeOK, NEW q \in Nat, NEW s \in 0 .. MaxLen, rows' = Append(rows, Row(q, s))
  PROVE  /\ DOMAIN rows' = 1 .. Len(rows) + 1 /\ Len(rows') = Len(rows) + 1
         /\ rows' \in Seq(Request) /\ rows' # <<>>
         /\ \A b \in 1 .. Len(rows) : rows'[b] = rows[b]
         /\ rows'[Len(rows) + 1].start = tokens
         /\ rows'[Len(rows) + 1].q = q
         /\ rows'[Len(rows) + 1].s = s
<1>1. Row(q, s) \in Request /\ rows \in Seq(Request) /\ Len(rows) \in Nat
  BY RowTyped, Fields DEF BatchTypeOK
<1>2. /\ DOMAIN rows' = 1 .. Len(rows) + 1 /\ Len(rows') = Len(rows) + 1
      /\ rows' \in Seq(Request) /\ rows' # <<>>
      /\ \A b \in 1 .. Len(rows) : rows'[b] = rows[b]
      /\ rows'[Len(rows) + 1] = Row(q, s)
  <2> DEFINE r == Row(q, s)
  <2> HIDE DEF r
  <2>1. rows' = Append(rows, r) /\ r \in Request
    BY <1>1 DEF r
  <2>2. /\ DOMAIN rows' = 1 .. Len(rows) + 1 /\ Len(rows') = Len(rows) + 1
        /\ rows' \in Seq(Request) /\ rows' # <<>>
        /\ \A b \in 1 .. Len(rows) : rows'[b] = rows[b]
        /\ rows'[Len(rows) + 1] = r
    BY <1>1, <2>1
  <2> QED BY <2>2 DEF r
<1> QED BY <1>2 DEF Row

LEMMA InitLayout == AttendInit => BatchTypeOK /\ BufferTypeOK /\ Layout
  BY ConstantsOK
     DEF AttendInit, BatchTypeOK, BufferTypeOK, Layout, NoPlan, Plans, InBatch, Apart, Sides,
         DecodesOnly, Short, PadsLast, FirstReal, Uniform, Counted, AllDecodes

LEMMA AddRowLayout ==
  ASSUME BatchTypeOK, Layout, NEW s \in 1 .. MaxLen, NEW q \in 1 .. s, AddRow(q, s)
  PROVE  BatchTypeOK' /\ Layout'
<1> DEFINE n == Len(rows)
<1>1. /\ q \in Nat /\ q > 0 /\ s \in Nat /\ s \in 0 .. MaxLen /\ q <= s
      /\ n \in Nat /\ tokens \in Nat /\ Threshold \in Nat /\ MaxTokens \in Nat /\ MaxRows \in Nat
      /\ num_decodes \in Nat /\ num_decodes <= n
      /\ num_decode_tokens \in Nat /\ num_decode_tokens <= tokens
  BY ConstantsOK, ThresholdPositive, Fields DEF BatchTypeOK
<1>2. /\ rows' = Append(rows, Row(q, s)) /\ tokens' = tokens + q /\ ~Padded
      /\ UNCHANGED <<option, causal>> /\ tokens + q <= MaxTokens /\ n < MaxRows
      /\ Threshold' = Threshold
      /\ (~AllDecodes /\ q <= Threshold => q = s)
  BY DEF AddRow, Threshold
<1>3. /\ DOMAIN rows = 1 .. n
      /\ \A b \in 1 .. n : rows[b].start \in Nat /\ rows[b].q \in Nat /\ rows[b].s \in Nat
  BY Fields
<1>4. /\ DOMAIN rows' = 1 .. n + 1 /\ Len(rows') = n + 1 /\ rows' \in Seq(Request) /\ rows' # <<>>
      /\ \A b \in 1 .. n : rows'[b] = rows[b]
      /\ rows'[n + 1].start = tokens /\ rows'[n + 1].q = q /\ rows'[n + 1].s = s
  BY <1>1, <1>2, Appended
<1>5. \/ /\ num_decodes = n /\ q <= Threshold /\ tokens = num_decode_tokens
         /\ num_decodes' = n + 1 /\ num_decode_tokens' = num_decode_tokens + q
      \/ /\ num_decodes < n \/ q > Threshold
         /\ q > Threshold \/ q = s
         /\ num_decodes' = num_decodes /\ num_decode_tokens' = num_decode_tokens
  BY <1>1, <1>2 DEF AddRow, AllDecodes, Layout, DecodesOnly
<1> HIDE DEF n
<1>6. BatchTypeOK'
  BY <1>1, <1>2, <1>4, <1>5 DEF BatchTypeOK
<1>7. InBatch' /\ Apart'
  BY <1>1, <1>2, <1>3, <1>4 DEF Layout, InBatch, Apart
<1>8. Sides'
  BY <1>1, <1>2, <1>3, <1>4, <1>5 DEF Layout, Sides
<1>9. DecodesOnly'
  BY <1>1, <1>2, <1>4, <1>5 DEF DecodesOnly, AllDecodes
<1>10. Short' /\ PadsLast' /\ FirstReal'
  BY <1>1, <1>2, <1>3, <1>4 DEF Layout, Short, PadsLast, FirstReal, Padded
<1>11. Uniform'
  <2>1. \A u \in Nat, b \in DOMAIN rows' :
          (\A a \in DOMAIN rows' : a < b => rows'[a].q = u) => rows'[b].start = (b - 1) * u
    <3> SUFFICES ASSUME NEW u \in Nat, NEW b \in 1 .. n + 1,
                        \A a \in 1 .. n + 1 : a < b => rows'[a].q = u
                 PROVE  rows'[b].start = (b - 1) * u
      BY <1>4
    <3>1. \A a \in 1 .. n : a < b => rows[a].q = u
      BY <1>1, <1>4
    <3>2. CASE b \in 1 .. n
      BY <1>3, <1>4, <3>1, <3>2 DEF Layout, Uniform
    <3>3. CASE b = n + 1
      <4>1. \A a \in DOMAIN rows : rows[a].q = u
        BY <1>1, <1>3, <3>1, <3>3
      <4>2. tokens = n * u
        BY <1>2, <4>1 DEF Layout, Uniform, n
      <4>3. b - 1 = n
        BY <1>1, <3>3
      <4> QED BY <1>4, <3>3, <4>2, <4>3
    <3> QED BY <1>1, <3>2, <3>3
  <2>2. \A u \in Nat : (\A a \in DOMAIN rows' : rows'[a].q = u) => tokens' = Len(rows') * u
    <3> SUFFICES ASSUME NEW u \in Nat, \A a \in 1 .. n + 1 : rows'[a].q = u
                 PROVE  tokens' = (n + 1) * u
      BY <1>4
    <3>1. q = u /\ \A a \in DOMAIN rows : rows[a].q = u
      BY <1>1, <1>3, <1>4
    <3>2. tokens = n * u
      BY <1>2, <3>1 DEF Layout, Uniform, n
    <3>3. (n + 1) * u = n * u + u
      BY <1>1
    <3> QED BY <1>2, <3>1, <3>2, <3>3
  <2> QED BY <2>1, <2>2 DEF Uniform
<1>12. Counted'
  BY <1>1, <1>2, <1>3, <1>4, <1>5 DEF Layout, Counted
<1> QED BY <1>6, <1>7, <1>8, <1>9, <1>10, <1>11, <1>12 DEF Layout

LEMMA PadLayout ==
  ASSUME BatchTypeOK, Layout, Pad
  PROVE  BatchTypeOK' /\ Layout'
<1> DEFINE n == Len(rows)
           q == rows[1].q
<1>1. /\ DOMAIN rows = 1 .. n /\ n \in Nat /\ n > 0
      /\ \A b \in 1 .. n : rows[b].start \in Nat /\ rows[b].q \in Nat /\ rows[b].s \in Nat
  BY Fields DEF Pad
<1>2. /\ q \in Nat /\ q > 0 /\ 0 \in 0 .. MaxLen
      /\ tokens \in Nat /\ Threshold \in Nat /\ MaxTokens \in Nat /\ MaxRows \in Nat
      /\ num_decode_tokens \in Nat /\ num_decode_tokens = tokens /\ num_decodes = n
  BY <1>1, ConstantsOK, ThresholdPositive
     DEF BatchTypeOK, Layout, FirstReal, DecodesOnly, AllDecodes, Pad
<1>3. /\ rows' = Append(rows, Row(0, 0)) /\ tokens' = tokens + q
      /\ UNCHANGED <<option, causal>> /\ tokens + q <= MaxTokens /\ n < MaxRows
      /\ \A b \in 1 .. n : rows[b].q \in {0, q}
      /\ num_decodes' = n + 1 /\ num_decode_tokens' = num_decode_tokens + q
  BY <1>1, <1>2 DEF Pad
<1>4. /\ DOMAIN rows' = 1 .. n + 1 /\ Len(rows') = n + 1 /\ rows' \in Seq(Request) /\ rows' # <<>>
      /\ \A b \in 1 .. n : rows'[b] = rows[b]
      /\ rows'[n + 1].start = tokens /\ rows'[n + 1].q = 0 /\ rows'[n + 1].s = 0
  BY <1>2, <1>3, Appended
<1>5. rows'[1].q = q
  BY <1>1, <1>4
<1> HIDE DEF n, q
<1>6. BatchTypeOK'
  BY <1>1, <1>2, <1>3, <1>4 DEF BatchTypeOK
<1>7. InBatch' /\ Apart'
  BY <1>1, <1>2, <1>3, <1>4 DEF Layout, InBatch, Apart
<1>8. Sides'
  BY <1>1, <1>2, <1>3, <1>4 DEF Layout, Sides
<1>9. DecodesOnly'
  BY <1>2, <1>3, <1>4 DEF DecodesOnly, AllDecodes
<1>10. Short' /\ PadsLast' /\ FirstReal'
  BY <1>1, <1>2, <1>3, <1>4, <1>5 DEF Layout, Short, PadsLast, FirstReal
<1>11. Uniform'
  <2>1. Padded'
    BY <1>1, <1>4 DEF Padded
  <2> SUFFICES ASSUME NEW u \in Nat, NEW b \in 1 .. n + 1,
                      \A a \in 1 .. n + 1 : a < b => rows'[a].q = u
               PROVE  rows'[b].start = (b - 1) * u
    BY <1>4, <2>1 DEF Uniform
  <2>2. \A a \in 1 .. n : a < b => rows[a].q = u
    BY <1>1, <1>4
  <2>3. CASE b \in 1 .. n
    BY <1>1, <1>4, <2>2, <2>3 DEF Layout, Uniform
  <2>4. CASE b = n + 1
    <3>1. \A a \in DOMAIN rows : rows[a].q = u
      BY <1>1, <2>2, <2>4
    <3>2. ~Padded
      BY <1>1, <1>2, <3>1 DEF Padded, q
    <3>3. tokens = n * u
      BY <3>1, <3>2 DEF Layout, Uniform, n
    <3>4. b - 1 = n
      BY <1>1, <2>4
    <3> QED BY <1>4, <2>4, <3>3, <3>4
  <2> QED BY <1>1, <2>3, <2>4
<1>12. Counted'
  BY <1>1, <1>2, <1>3, <1>4 DEF Layout, Counted
<1> QED BY <1>6, <1>7, <1>8, <1>9, <1>10, <1>11, <1>12 DEF Layout

----------------------------------------------------------------------------
(* The kernels: the splits of a row share its keys out.                    *)

LEMMA MulMonotone ==
  ASSUME NEW a \in Nat, NEW b \in Nat, NEW c \in Nat, a <= b
  PROVE  a * c <= b * c
<1>1. b - a \in Nat /\ b = a + (b - a)
  OBVIOUS
<1>2. (b - a) * c \in Nat
  BY <1>1
<1>3. (a + (b - a)) * c = a * c + (b - a) * c
  BY <1>1
<1> QED BY <1>1, <1>2, <1>3

LEMMA DivisionFacts ==
  ASSUME NEW a \in Nat, NEW d \in Nat, d > 0
  PROVE  /\ a \div d \in Nat
         /\ (a \div d) * d <= a /\ a < (a \div d) * d + d
  OBVIOUS

\* d steps of the rounded-up quotient reach a.
LEMMA RoundedUp ==
  ASSUME NEW a \in Nat, NEW d \in Nat, d > 0
  PROVE  (a + d - 1) \div d \in Nat /\ a <= ((a + d - 1) \div d) * d
<1> DEFINE e == a + d - 1
           f == e \div d
<1>1. e \in Nat
  OBVIOUS
<1> HIDE DEF e
<1>2. f \in Nat /\ f * d <= e /\ e < f * d + d
  BY <1>1, DivisionFacts
<1>3. f * d \in Nat
  BY <1>2
<1> HIDE DEF f
<1>4. a <= f * d
  BY <1>2, <1>3 DEF e
<1> QED BY <1>2, <1>4 DEF e, f

\* q is the only multiplier of d that p lies at.
LEMMA Quotient ==
  ASSUME NEW p \in Nat, NEW d \in Nat, d > 0, NEW k \in Nat, k * d <= p, p < k * d + d
  PROVE  p \div d = k
<1> DEFINE f == p \div d
<1>1. f \in Nat /\ f * d <= p /\ p < f * d + d
  BY DivisionFacts
<1> HIDE DEF f
<1>2. ASSUME f < k PROVE FALSE
  <2>1. f + 1 <= k /\ f + 1 \in Nat
    BY <1>1, <1>2
  <2>2. (f + 1) * d <= k * d
    BY <2>1, MulMonotone
  <2>3. (f + 1) * d = f * d + d
    BY <1>1
  <2> QED BY <1>1, <2>2, <2>3
<1>3. ASSUME k < f PROVE FALSE
  <2>1. k + 1 <= f /\ k + 1 \in Nat
    BY <1>1, <1>3
  <2>2. (k + 1) * d <= f * d
    BY <1>1, <2>1, MulMonotone
  <2>3. (k + 1) * d = k * d + d
    OBVIOUS
  <2> QED BY <1>1, <2>2, <2>3
<1> QED BY <1>1, <1>2, <1>3 DEF f

LEMMA BlockOfKey ==
  ASSUME NEW len \in Nat, NEW p \in 0 .. len - 1
  PROVE  /\ p \div Group \in 0 .. NumBlocks(len) - 1
         /\ p \in KeysOfBlock(len, p \div Group)
<1> DEFINE k == p \div Group
           nb == NumBlocks(len)
<1>1. p \in Nat /\ Group \in Nat /\ Group > 0
  BY ConstantsOK
<1>2. k \in Nat /\ k * Group <= p /\ p < k * Group + Group
  BY <1>1, DivisionFacts
<1>3. nb \in Nat /\ len <= nb * Group
  BY <1>1, RoundedUp DEF NumBlocks
<1>4. p \in KeysOfBlock(len, k)
  BY <1>1, <1>2 DEF KeysOfBlock
<1> HIDE DEF k, nb
<1>5. k < nb
  <2> SUFFICES ASSUME nb <= k PROVE FALSE
    BY <1>2, <1>3
  <2>1. nb * Group <= k * Group
    BY <1>1, <1>2, <1>3, MulMonotone
  <2> QED BY <1>1, <1>2, <1>3, <2>1
<1>6. k \in 0 .. nb - 1
  BY <1>2, <1>3, <1>5
<1> QED BY <1>4, <1>6 DEF k, nb

\* A key is in the block it is in.
LEMMA KeyOfBlock ==
  ASSUME NEW len \in Nat, NEW k \in Nat, NEW p \in KeysOfBlock(len, k)
  PROVE  p \in 0 .. len - 1 /\ p \div Group = k
<1>1. Group \in Nat /\ Group > 0 /\ k * Group \in Nat
  BY ConstantsOK
<1>2. p \in Nat /\ k * Group <= p /\ p < k * Group + Group /\ p < len
  BY <1>1 DEF KeysOfBlock
<1>3. p \div Group = k
  BY <1>1, <1>2, Quotient
<1> QED BY <1>2, <1>3

\* The splits of a row cover its keys, and no key is in two of them.
LEMMA SplitsShareOut ==
  ASSUME NEW len \in Nat, NEW n \in Nat, n > 0
  PROVE  /\ \A p \in 0 .. len - 1 : \E split \in 0 .. n - 1 : p \in Part(len, n, split)
         /\ \A split \in 0 .. n - 1 : Part(len, n, split) \subseteq 0 .. len - 1
         /\ \A l, m \in 0 .. n - 1 : l # m => Part(len, n, l) \cap Part(len, n, m) = {}
<1> DEFINE nb == NumBlocks(len)
           per == PerSplit(len, n)
<1>1. nb \in Nat
  BY ConstantsOK, RoundedUp DEF NumBlocks
<1>2. per \in Nat /\ nb <= per * n
  BY <1>1, RoundedUp DEF PerSplit
<1>3. \A split \in 0 .. n - 1 : \A k :
        k \in SplitBlocksOf(len, n, split) <=>
          k \in 0 .. nb - 1 /\ split * per <= k /\ k < split * per + per
  BY DEF SplitBlocksOf
<1>4. \A split \in 0 .. n - 1 : \A p :
        p \in Part(len, n, split) <=>
          \E k \in SplitBlocksOf(len, n, split) : p \in KeysOfBlock(len, k)
  BY DEF Part
<1> HIDE DEF nb, per
<1>5. ASSUME NEW split \in 0 .. n - 1, NEW k \in SplitBlocksOf(len, n, split)
      PROVE  k \in Nat /\ per > 0 /\ k \div per = split
  <2>1. k \in 0 .. nb - 1 /\ split * per <= k /\ k < split * per + per /\ split \in Nat
    BY <1>3, <1>5
  <2>2. split * per \in Nat /\ k \in Nat
    BY <1>1, <1>2, <2>1
  <2>3. per > 0
    BY <1>2, <2>1, <2>2
  <2> QED BY <1>2, <2>1, <2>2, <2>3, Quotient
<1>6. ASSUME NEW p \in 0 .. len - 1
      PROVE  \E split \in 0 .. n - 1 : p \in Part(len, n, split)
  <2> DEFINE k == p \div Group
             split == k \div per
  <2>1. k \in 0 .. nb - 1 /\ p \in KeysOfBlock(len, k)
    BY BlockOfKey DEF nb
  <2> HIDE DEF k
  <2>2. k \in Nat /\ nb > 0 /\ k < nb
    BY <1>1, <2>1
  <2>3. per > 0
    <3>1. per = 0 => per * n = 0
      OBVIOUS
    <3> QED BY <1>1, <1>2, <2>2, <3>1
  <2>4. split \in Nat /\ split * per <= k /\ k < split * per + per
    BY <1>2, <2>2, <2>3, DivisionFacts
  <2> HIDE DEF split
  <2>5. split < n
    <3> SUFFICES ASSUME n <= split PROVE FALSE
      BY <2>4
    <3>1. n * per <= split * per
      BY <1>2, <2>4, MulMonotone
    <3>2. n * per = per * n /\ n * per \in Nat /\ split * per \in Nat
      BY <1>2, <2>4
    <3> QED BY <1>1, <1>2, <2>2, <2>4, <3>1, <3>2
  <2>6. split \in 0 .. n - 1
    BY <2>4, <2>5
  <2>7. k \in SplitBlocksOf(len, n, split)
    BY <1>3, <2>1, <2>4, <2>6
  <2> QED BY <1>4, <2>1, <2>6, <2>7
<1>7. ASSUME NEW split \in 0 .. n - 1, NEW p \in Part(len, n, split)
      PROVE  p \in 0 .. len - 1 /\ (p \div Group) \div per = split
  <2>1. PICK k \in SplitBlocksOf(len, n, split) : p \in KeysOfBlock(len, k)
    BY <1>4
  <2>2. k \in Nat /\ k \div per = split
    BY <1>5
  <2>3. p \in 0 .. len - 1 /\ p \div Group = k
    BY <2>1, <2>2, KeyOfBlock
  <2> QED BY <2>2, <2>3
<1> QED BY <1>6, <1>7

\* A row whose splits cover the keys of a token and no others is exact.
LEMMA FusedExact ==
  ASSUME NEW t, NEW n \in Nat, n > 0, NEW len \in Nat, len = Limit(t)
  PROVE  Exactly(Fused(t[1], len, n), t)
<1> DEFINE o == Fused(t[1], len, n)
<1>1. /\ o.row = t[1] /\ DOMAIN o.parts = 0 .. n - 1
      /\ \A split \in 0 .. n - 1 : o.parts[split] = Part(len, n, split)
  BY DEF Fused
<1>2. /\ \A p \in 0 .. len - 1 : \E split \in 0 .. n - 1 : p \in Part(len, n, split)
      /\ \A split \in 0 .. n - 1 : Part(len, n, split) \subseteq 0 .. len - 1
      /\ \A l, m \in 0 .. n - 1 : l # m => Part(len, n, l) \cap Part(len, n, m) = {}
  BY SplitsShareOut
<1> HIDE DEF o
<1>3. UNION {o.parts[split] : split \in DOMAIN o.parts} = 0 .. len - 1
  <2>1. ASSUME NEW p \in 0 .. len - 1
        PROVE  \E split \in DOMAIN o.parts : p \in o.parts[split]
    <3>1. PICK split \in 0 .. n - 1 : p \in Part(len, n, split)
      BY <1>2
    <3>2. split \in DOMAIN o.parts /\ o.parts[split] = Part(len, n, split)
      BY <1>1
    <3> QED BY <3>1, <3>2
  <2>2. ASSUME NEW split \in DOMAIN o.parts
        PROVE  o.parts[split] \subseteq 0 .. len - 1
    <3>1. split \in 0 .. n - 1 /\ o.parts[split] = Part(len, n, split)
      BY <1>1
    <3> QED BY <1>2, <3>1
  <2> QED BY <2>1, <2>2
<1>4. \A l, m \in DOMAIN o.parts : l # m => o.parts[l] \cap o.parts[m] = {}
  BY <1>1, <1>2
<1> QED BY <1>1, <1>3, <1>4 DEF Exactly, o

LEMMA WholeExact ==
  ASSUME NEW t, NEW keys, keys = 0 .. Limit(t) - 1
  PROVE  Exactly(Whole(t[1], keys), t)
<1> DEFINE o == Whole(t[1], keys)
<1>1. o.row = t[1] /\ DOMAIN o.parts = {0} /\ o.parts[0] = keys
  BY DEF Whole
<1> HIDE DEF o
<1>2. UNION {o.parts[split] : split \in DOMAIN o.parts} = keys
  BY <1>1
<1> QED BY <1>1, <1>2 DEF Exactly, o

----------------------------------------------------------------------------
(* Tokens and their places.                                                *)

LEMMA TokenFacts ==
  ASSUME BatchTypeOK, Layout, NEW t \in Tokens
  PROVE  /\ t = <<t[1], t[2]>> /\ t[1] \in 1 .. Len(rows) /\ t[2] \in 0 .. rows[t[1]].q - 1
         /\ Committed(t[1]) \in Nat /\ Committed(t[1]) + rows[t[1]].q = rows[t[1]].s
         /\ Flat(t) \in 0 .. tokens - 1
         /\ t[1] <= num_decodes <=> Flat(t) < num_decode_tokens
         /\ Limit(t) \in 1 .. rows[t[1]].s
         /\ causal => Limit(t) = Committed(t[1]) + t[2] + 1
         /\ ~causal => Limit(t) = rows[t[1]].s
<1>1. PICK b \in DOMAIN rows : t \in {<<b, j>> : j \in 0 .. rows[b].q - 1}
  BY DEF Tokens
<1>2. PICK j \in 0 .. rows[b].q - 1 : t = <<b, j>>
  BY <1>1
<1>3. t[1] = b /\ t[2] = j /\ t = <<t[1], t[2]>>
  BY <1>2
<1>4. /\ b \in 1 .. Len(rows) /\ rows[b].start \in Nat /\ rows[b].q \in Nat /\ rows[b].s \in Nat
      /\ Len(rows) \in Nat /\ DOMAIN rows = 1 .. Len(rows)
  BY <1>1, Fields
<1>5. /\ num_decodes \in Nat /\ num_decode_tokens \in Nat /\ tokens \in Nat
      /\ num_decode_tokens <= tokens
  BY ConstantsOK, <1>4 DEF BatchTypeOK
<1>6. rows[b].q <= rows[b].s /\ rows[b].start + rows[b].q <= tokens
  BY <1>4 DEF Layout, Short, InBatch
<1>7. Committed(b) = rows[b].s - rows[b].q /\ Flat(t) = rows[b].start + j
  BY <1>3 DEF Committed, Flat
<1>8. b <= num_decodes <=> Flat(t) < num_decode_tokens
  <2>1. CASE b <= num_decodes
    <3>1. rows[b].start + rows[b].q <= num_decode_tokens
      BY <1>4, <2>1 DEF Layout, Sides
    <3> QED BY <1>4, <1>5, <1>7, <2>1, <3>1
  <2>2. CASE ~(b <= num_decodes)
    <3>1. num_decode_tokens <= rows[b].start
      BY <1>4, <2>2 DEF Layout, Sides
    <3> QED BY <1>4, <1>5, <1>7, <2>2, <3>1
  <2> QED BY <2>1, <2>2
<1>9. Limit(t) = IF causal THEN Committed(b) + j + 1 ELSE rows[b].s
  BY <1>3 DEF Limit
<1>10. Committed(b) \in Nat /\ Committed(b) + rows[b].q = rows[b].s
  BY <1>4, <1>6, <1>7
<1>11. Flat(t) \in 0 .. tokens - 1
  BY <1>4, <1>5, <1>6, <1>7
<1>12. /\ Limit(t) \in 1 .. rows[b].s
       /\ causal => Limit(t) = Committed(b) + j + 1
       /\ ~causal => Limit(t) = rows[b].s
  <2>1. rows[b].q > 0
    BY <1>4
  <2>2. Committed(b) + j + 1 \in 1 .. rows[b].s /\ rows[b].s \in 1 .. rows[b].s
    BY <1>4, <1>6, <1>10, <2>1
  <2> QED BY <1>9, <2>2
<1> QED BY <1>3, <1>4, <1>8, <1>10, <1>11, <1>12

\* No two tokens share a place.
LEMMA TokenUnique ==
  ASSUME BatchTypeOK, Layout, NEW t \in Tokens, NEW u \in Tokens, Flat(t) = Flat(u)
  PROVE  t = u
<1>1. /\ t = <<t[1], t[2]>> /\ t[1] \in 1 .. Len(rows) /\ t[2] \in 0 .. rows[t[1]].q - 1
      /\ u = <<u[1], u[2]>> /\ u[1] \in 1 .. Len(rows) /\ u[2] \in 0 .. rows[u[1]].q - 1
  BY TokenFacts
<1>2. DOMAIN rows = 1 .. Len(rows) /\ Len(rows) \in Nat
      /\ \A b \in 1 .. Len(rows) : rows[b].start \in Nat /\ rows[b].q \in Nat
  BY Fields
<1>3. rows[t[1]].start + t[2] = rows[u[1]].start + u[2]
  BY DEF Flat
<1>4. \A a, b \in 1 .. Len(rows) : a < b => rows[a].start + rows[a].q <= rows[b].start
  BY <1>2 DEF Layout, Apart
<1>5. ~(t[1] < u[1])
  BY <1>1, <1>2, <1>3, <1>4
<1>6. ~(u[1] < t[1])
  BY <1>1, <1>2, <1>3, <1>4
<1>7. t[1] = u[1]
  BY <1>1, <1>2, <1>5, <1>6
<1>8. t[2] = u[2]
  BY <1>1, <1>2, <1>3, <1>7
<1> QED BY <1>1, <1>7, <1>8

LEMMA TokenAtFlat ==
  ASSUME BatchTypeOK, Layout, NEW t \in Tokens
  PROVE  TokenAt(Flat(t)) = t
<1>1. \E u \in Tokens : Flat(u) = Flat(t)
  OBVIOUS
<1>2. TokenAt(Flat(t)) \in Tokens /\ Flat(TokenAt(Flat(t))) = Flat(t)
  BY <1>1 DEF TokenAt
<1> QED BY <1>2, TokenUnique

----------------------------------------------------------------------------
(* The metadata of a step agree with its batch.                            *)

Planning ==
  stage = "forward" =>
    /\ md.cached = HasCached
    /\ md.plan <=> num_decodes > 0 /\ num_decode_tokens > num_decodes
    /\ md.plan => \A t \in Tokens : Flat(t) < num_decode_tokens =>
                    vq[Flat(t)] = [row |-> t[1], len |-> Limit(t)]
    /\ md.qlen >= 2 => md.plan /\ causal /\ \A b \in 1 .. num_decodes : rows[b].q = md.qlen

\* What a batch that stands still keeps.
LEMMA SameBatch ==
  ASSUME UNCHANGED <<option, batch>>
  PROVE  /\ Tokens' = Tokens /\ HasCached' = HasCached
         /\ \A t : Flat(t)' = Flat(t) /\ Limit(t)' = Limit(t)
         /\ Layout' <=> Layout
         /\ BatchTypeOK' <=> BatchTypeOK
  BY DEF batch, Tokens, HasCached, Flat, Limit, Committed, Layout, BatchTypeOK, InBatch, Apart,
         Sides, DecodesOnly, Short, PadsLast, FirstReal, Uniform, Counted, AllDecodes, Padded,
         Threshold

LEMMA BuildPlans ==
  ASSUME BatchTypeOK, BufferTypeOK, Layout, BuildMetadata
  PROVE  BufferTypeOK' /\ Planning'
<1> DEFINE plan == num_decodes > 0 /\ num_decode_tokens > num_decodes
<1>1. /\ md' = [plan |-> plan, qlen |-> IF plan THEN UniformLen ELSE 0, cached |-> HasCached]
      /\ vq' = IF plan
               THEN [i \in DOMAIN vq |-> IF i < num_decode_tokens THEN Planned(i) ELSE vq[i]]
               ELSE vq
      /\ stage' = "forward" /\ rows # <<>>
      /\ UNCHANGED <<option, batch>>
  BY DEF BuildMetadata
<1>2. /\ Tokens' = Tokens /\ HasCached' = HasCached
      /\ \A t : Flat(t)' = Flat(t) /\ Limit(t)' = Limit(t)
      /\ UNCHANGED <<rows, causal, num_decodes, num_decode_tokens>>
  BY <1>1, SameBatch DEF batch
<1>3. 1 \in 1 .. Len(rows) /\ rows[1].q \in Nat
  BY <1>1, Fields
<1>4. /\ UniformLen \in Nat
      /\ UniformLen >= 2 => causal /\ \A b \in 1 .. num_decodes : rows[b].q = UniformLen
  BY <1>3 DEF UniformLen
<1>5. /\ md'.plan = plan /\ md'.cached = HasCached
      /\ md'.qlen = IF plan THEN UniformLen ELSE 0
      /\ plan \in BOOLEAN /\ HasCached \in BOOLEAN
  BY <1>1 DEF HasCached
<1>6. ASSUME NEW i \in 0 .. MaxTokens - 1
      PROVE  Planned(i) \in [row : 1 .. MaxRows, len : 0 .. MaxLen]
  <2>1. CASE \E t \in Tokens : Flat(t) = i
    <3>1. TokenAt(i) \in Tokens
      BY <2>1 DEF TokenAt
    <3> DEFINE t == TokenAt(i)
    <3>2. Planned(i) = [row |-> t[1], len |-> Limit(t)]
      BY <2>1 DEF Planned
    <3> HIDE DEF t
    <3>3. t \in Tokens
      BY <3>1 DEF t
    <3>4. t[1] \in 1 .. Len(rows) /\ Limit(t) \in 1 .. rows[t[1]].s
      BY <3>3, TokenFacts
    <3>5. rows[t[1]].s \in Nat /\ rows[t[1]].s <= MaxLen /\ Len(rows) \in Nat
      BY <3>4, Fields
    <3>6. t[1] \in 1 .. MaxRows /\ Limit(t) \in 0 .. MaxLen
      BY <3>4, <3>5, ConstantsOK DEF BatchTypeOK
    <3> QED BY <3>2, <3>6
  <2>2. CASE ~\E t \in Tokens : Flat(t) = i
    BY <2>2, ConstantsOK DEF Planned, Unfilled, NoPlan
  <2> QED BY <2>1, <2>2
<1>7. DOMAIN vq = 0 .. MaxTokens - 1 /\ vq \in Plans
  BY DEF BufferTypeOK, Plans
<1>8. vq' \in Plans
  BY <1>1, <1>6, <1>7 DEF Plans
<1>9. BufferTypeOK'
  <2>1. md' \in [plan : BOOLEAN, qlen : Nat, cached : BOOLEAN]
    BY <1>1, <1>4, <1>5
  <2> QED BY <1>1, <1>8, <2>1 DEF BufferTypeOK
<1>10. ASSUME plan, NEW t \in Tokens, Flat(t) < num_decode_tokens
       PROVE  vq'[Flat(t)] = [row |-> t[1], len |-> Limit(t)]
  <2>1. Flat(t) \in 0 .. tokens - 1 /\ tokens \in Nat /\ tokens <= MaxTokens /\ MaxTokens \in Nat
    BY TokenFacts, ConstantsOK DEF BatchTypeOK
  <2>2. Flat(t) \in 0 .. MaxTokens - 1
    BY <2>1
  <2>3. vq'[Flat(t)] = Planned(Flat(t))
    BY <1>1, <1>7, <1>10, <2>2
  <2>4. TokenAt(Flat(t)) = t
    BY TokenAtFlat
  <2> QED BY <2>3, <2>4 DEF Planned
<1>11. Planning'
  <2>1. md'.cached = HasCached'
    BY <1>2, <1>5
  <2>2. md'.plan <=> num_decodes' > 0 /\ num_decode_tokens' > num_decodes'
    BY <1>2, <1>5
  <2>3. ASSUME md'.plan, NEW t \in Tokens', Flat(t)' < num_decode_tokens'
        PROVE  vq'[Flat(t)'] = [row |-> t[1], len |-> Limit(t)']
    <3>1. t \in Tokens /\ Flat(t) < num_decode_tokens /\ plan
      BY <1>2, <1>5, <2>3
    <3>2. vq'[Flat(t)] = [row |-> t[1], len |-> Limit(t)]
      BY <1>10, <3>1
    <3>3. Flat(t)' = Flat(t) /\ Limit(t)' = Limit(t)
      BY <1>2
    <3> QED BY <3>2, <3>3
  <2>4. md'.qlen >= 2 =>
          md'.plan /\ causal' /\ \A b \in 1 .. num_decodes' : rows'[b].q = md'.qlen
    <3> SUFFICES ASSUME md'.qlen >= 2
                 PROVE  md'.plan /\ causal' /\ \A b \in 1 .. num_decodes' : rows'[b].q = md'.qlen
      OBVIOUS
    <3>1. ASSUME ~plan PROVE FALSE
      <4>1. md'.qlen = 0
        BY <1>5, <3>1
      <4> QED BY <4>1
    <3>2. md'.plan /\ md'.qlen = UniformLen
      BY <1>5, <3>1
    <3>3. causal /\ \A b \in 1 .. num_decodes : rows[b].q = md'.qlen
      BY <1>4, <3>2
    <3> QED BY <1>2, <3>2, <3>3
  <2> QED BY <2>1, <2>2, <2>3, <2>4 DEF Planning
<1> QED BY <1>9, <1>11

----------------------------------------------------------------------------
(* One lemma for each way to serve a token.                                *)

LEMMA NumSplitsPositive ==
  ASSUME NEW n
  PROVE  NumSplits(n) \in Nat /\ NumSplits(n) > 0
  BY ConstantsOK DEF NumSplits

LEMMA DecodeExact ==
  ASSUME BatchTypeOK, Layout, NEW t \in Tokens, rows[t[1]].q = 1, rows[t[1]].start = t[1] - 1
  PROVE  Exactly(DecodeAt(Flat(t)), t)
<1>1. /\ t[1] \in 1 .. Len(rows) /\ t[2] = 0 /\ Len(rows) \in Nat
      /\ rows[t[1]].s \in Nat /\ Committed(t[1]) \in Nat
      /\ Committed(t[1]) + rows[t[1]].q = rows[t[1]].s
      /\ causal => Limit(t) = Committed(t[1]) + t[2] + 1
      /\ ~causal => Limit(t) = rows[t[1]].s
  BY TokenFacts, Fields
<1>2. Limit(t) = rows[t[1]].s
  BY <1>1
<1>3. Flat(t) + 1 = t[1]
  BY <1>1 DEF Flat
<1> DEFINE n == num_decode_tokens
           fits == n <= SMs \div KVHeads \/ n <= 1
           splits == IF option.fused_decode /\ fits THEN NumSplits(n) ELSE 1
<1>4. splits \in Nat /\ splits > 0
  BY NumSplitsPositive
<1>5. DecodeAt(Flat(t)) = Fused(Flat(t) + 1, rows[Flat(t) + 1].s, splits)
  BY DEF DecodeAt
<1> HIDE DEF splits
<1>6. DecodeAt(Flat(t)) = Fused(t[1], rows[t[1]].s, splits)
  BY <1>3, <1>5
<1> QED BY <1>1, <1>2, <1>4, <1>6, FusedExact

\* The kernel that shares a request's blocks among its tokens: the row starts at
\* a multiple of the common length, and the last token's limit is the whole row.
LEMMA SharedExact ==
  ASSUME BatchTypeOK, BufferTypeOK, Layout, Planning, stage = "forward", md.plan,
         NEW t \in Tokens, Flat(t) < num_decode_tokens, UseShared
  PROVE  Exactly(SharedAt(Flat(t)), t)
<1> DEFINE u == md.qlen
           b == t[1]
           j == t[2]
<1>1. /\ u \in Nat /\ u >= 2 /\ causal
      /\ \A a \in 1 .. num_decodes : rows[a].q = u
  BY DEF UseShared, BufferTypeOK, Planning
<1>2. /\ b \in 1 .. Len(rows) /\ j \in 0 .. rows[b].q - 1 /\ b <= num_decodes
      /\ Committed(b) \in Nat /\ Committed(b) + rows[b].q = rows[b].s
      /\ Limit(t) = Committed(b) + j + 1
      /\ t = <<b, j>>
  BY <1>1, TokenFacts
<1>3. /\ DOMAIN rows = 1 .. Len(rows) /\ Len(rows) \in Nat
      /\ rows[b].start \in Nat /\ rows[b].s \in Nat
      /\ num_decodes \in Nat /\ num_decodes <= Len(rows)
  BY <1>2, Fields DEF BatchTypeOK
<1>4. rows[b].q = u /\ j \in 0 .. u - 1
  BY <1>1, <1>2, <1>3
<1>5. rows[b].start = (b - 1) * u
  <2>1. \A a \in DOMAIN rows : a < b => rows[a].q = u
    BY <1>1, <1>2, <1>3
  <2> QED BY <1>1, <1>2, <1>3, <2>1 DEF Layout, Uniform
<1> DEFINE c == b - 1
<1>6. c \in Nat /\ c + 1 = b /\ c * u \in Nat
  BY <1>1, <1>2, <1>3
<1>7. Flat(t) = c * u + j
  BY <1>5 DEF Flat
<1> HIDE DEF u, c
<1>8. Flat(t) \div u = c /\ Flat(t) % u = j
  <2>1. Flat(t) \in Nat /\ c * u <= Flat(t) /\ Flat(t) < c * u + u
    BY <1>1, <1>4, <1>6, <1>7
  <2>2. Flat(t) \div u = c
    BY <1>1, <1>6, <2>1, Quotient
  <2>3. Flat(t) = u * (Flat(t) \div u) + (Flat(t) % u)
    BY <1>1, <2>1
  <2>4. Flat(t) % u \in Nat
    BY <1>1, <2>1
  <2>5. u * c = c * u
    BY <1>1, <1>6
  <2> QED BY <1>4, <1>6, <1>7, <2>2, <2>3, <2>4, <2>5
<1>9. vq[c * u + u - 1].len = rows[b].s
  <2> DEFINE l == <<b, u - 1>>
  <2>1. l \in Tokens /\ l[1] = b /\ l[2] = u - 1
    BY <1>1, <1>2, <1>3, <1>4 DEF Tokens
  <2> HIDE DEF l
  <2>2. Flat(l) < num_decode_tokens /\ Limit(l) = Committed(b) + (u - 1) + 1
    BY <1>1, <1>2, <2>1, TokenFacts
  <2>3. vq[Flat(l)] = [row |-> l[1], len |-> Limit(l)]
    BY <2>1, <2>2 DEF Planning
  <2>4. Flat(l) = c * u + u - 1
    BY <1>1, <1>5, <1>6, <2>1 DEF Flat, c
  <2>5. Limit(l) = rows[b].s
    BY <1>1, <1>2, <1>4, <2>2
  <2> QED BY <2>3, <2>4, <2>5
<1> DEFINE len == rows[b].s
           n == IF MaxBlocks >= SplitBlocks /\ (num_decode_tokens \div u) * KVHeads <= SMs
                THEN Splits ELSE 1
           part == [split \in 0 .. n - 1 |-> {p \in Part(len, n, split) : p < len - u + j + 1}]
           o == [row |-> b, parts |-> part]
<1>10. SharedAt(Flat(t)) = o
  BY <1>6, <1>8, <1>9 DEF SharedAt, u
<1>11. n \in Nat /\ n > 0
  BY ConstantsOK
<1>12. len \in Nat /\ len - u + j + 1 = Limit(t) /\ Limit(t) \in Nat /\ Limit(t) <= len
  BY <1>1, <1>2, <1>3, <1>4
<1> HIDE DEF len, n, b, j
<1>13. /\ \A p \in 0 .. len - 1 : \E split \in 0 .. n - 1 : p \in Part(len, n, split)
       /\ \A split \in 0 .. n - 1 : Part(len, n, split) \subseteq 0 .. len - 1
       /\ \A l, m \in 0 .. n - 1 : l # m => Part(len, n, l) \cap Part(len, n, m) = {}
  BY <1>11, <1>12, SplitsShareOut
<1>14. /\ DOMAIN part = 0 .. n - 1
       /\ \A split \in 0 .. n - 1 : part[split] = {p \in Part(len, n, split) : p < Limit(t)}
  BY <1>12
<1> HIDE DEF part
<1>15. UNION {part[split] : split \in DOMAIN part} = 0 .. Limit(t) - 1
  <2>1. ASSUME NEW p \in 0 .. Limit(t) - 1
        PROVE  \E split \in DOMAIN part : p \in part[split]
    <3>1. p \in 0 .. len - 1 /\ p < Limit(t)
      BY <1>12
    <3>2. PICK split \in 0 .. n - 1 : p \in Part(len, n, split)
      BY <1>13, <3>1
    <3> QED BY <1>14, <3>1, <3>2
  <2>2. ASSUME NEW split \in DOMAIN part, NEW p \in part[split]
        PROVE  p \in 0 .. Limit(t) - 1
    <3>1. p \in Part(len, n, split) /\ p < Limit(t) /\ split \in 0 .. n - 1
      BY <1>14
    <3>2. p \in 0 .. len - 1
      BY <1>13, <3>1
    <3> QED BY <1>12, <3>1, <3>2
  <2> QED BY <2>1, <2>2
<1>16. \A l, m \in DOMAIN part : l # m => part[l] \cap part[m] = {}
  BY <1>13, <1>14
<1>17. o.row = t[1] /\ o.parts = part
  BY <1>2 DEF b
<1> QED BY <1>10, <1>15, <1>16, <1>17 DEF Exactly

LEMMA VerifyExact ==
  ASSUME BatchTypeOK, BufferTypeOK, Layout, Planning, stage = "forward", md.plan,
         NEW t \in Tokens, Flat(t) < num_decode_tokens
  PROVE  Exactly(VerifyAt(Flat(t)), t)
<1>1. CASE UseShared
  BY <1>1, SharedExact DEF VerifyAt
<1>2. CASE ~UseShared
  <2> DEFINE e == vq[Flat(t)]
  <2>0. e = [row |-> t[1], len |-> Limit(t)]
    BY DEF Planning
  <2> HIDE DEF e
  <2>1. e.row = t[1] /\ e.len = Limit(t)
    BY <2>0
  <2>2. Limit(t) \in Nat
    BY TokenFacts, Fields
  <2>3. VerifyAt(Flat(t)) = Fused(t[1], Limit(t), NumSplits(num_decode_tokens))
    BY <1>2, <2>1 DEF VerifyAt, e
  <2> QED BY <2>2, <2>3, NumSplitsPositive, FusedExact
<1> QED BY <1>1, <1>2

\* Rows behind the decodes are fresh prompts when none continues a sequence.
LEMMA FirstChunkExact ==
  ASSUME BatchTypeOK, Layout, causal, ~HasCached, NEW t \in Tokens, t[1] > num_decodes
  PROVE  Exactly(FirstChunkAt(Flat(t)), t)
<1>1. /\ t[1] \in 1 .. Len(rows) /\ t[2] \in 0 .. rows[t[1]].q - 1 /\ DOMAIN rows = 1 .. Len(rows)
      /\ rows[t[1]].q \in Nat /\ rows[t[1]].s \in Nat
      /\ Committed(t[1]) \in Nat /\ Committed(t[1]) + rows[t[1]].q = rows[t[1]].s
      /\ Limit(t) = Committed(t[1]) + t[2] + 1
  BY TokenFacts, Fields
<1>2. rows[t[1]].q = rows[t[1]].s
  <2>1. rows[t[1]].q > Threshold \/ rows[t[1]].q = rows[t[1]].s
    <3>1. ~(t[1] <= num_decodes)
      BY <1>1, Fields DEF BatchTypeOK
    <3> QED BY <1>1, <3>1 DEF Layout, Sides
  <2>2. rows[t[1]].q > 1 => ~(rows[t[1]].s > rows[t[1]].q)
    BY <1>1 DEF HasCached
  <2>3. rows[t[1]].q <= rows[t[1]].s
    BY <1>1
  <2> QED BY <1>1, <2>1, <2>2, <2>3, ThresholdPositive
<1>3. Committed(t[1]) = 0
  BY <1>1, <1>2
<1> DEFINE keys == {Committed(t[1]) + k : k \in 0 .. t[2]}
<1>4. FirstChunkAt(Flat(t)) = Whole(t[1], keys)
  BY TokenAtFlat DEF FirstChunkAt
<1>5. keys = 0 .. Limit(t) - 1
  <2>1. Limit(t) - 1 = t[2] /\ t[2] \in Nat
    BY <1>1, <1>3
  <2> QED BY <1>3, <2>1
<1> HIDE DEF keys
<1> QED BY <1>4, <1>5, WholeExact

LEMMA CachedExact ==
  ASSUME BatchTypeOK, Layout, causal, NEW t \in Tokens
  PROVE  Exactly(CachedAt(Flat(t)), t)
<1>1. /\ t[1] \in 1 .. Len(rows) /\ rows[t[1]].s \in Nat /\ rows[t[1]].s <= MaxLen
      /\ Limit(t) = Staircase(t) /\ Limit(t) \in 1 .. rows[t[1]].s /\ MaxLen \in Nat
  BY TokenFacts, Fields, ConstantsOK DEF Staircase
<1> DEFINE s == rows[t[1]].s
           keys == {p \in 0 .. s - 1 : p < Limit(t)}
           packed == keys \cap UNION {KeysOfBlock(s, k) : k \in 0 .. MaxBlocks - 1}
<1>2. CachedAt(Flat(t)) =
        IF option.fused_verify /\ ShortQuery /\ LongContext
        THEN Fused(t[1], Staircase(t), NumSplits(tokens - num_decode_tokens))
        ELSE IF ~option.flash \/ TotalKeys > ScratchRows
        THEN Whole(t[1], 0 .. Staircase(t) - 1)
        ELSE Whole(t[1], packed)
  BY TokenAtFlat DEF CachedAt
<1>3. Exactly(Fused(t[1], Staircase(t), NumSplits(tokens - num_decode_tokens)), t)
  BY <1>1, NumSplitsPositive, FusedExact
<1>4. Exactly(Whole(t[1], 0 .. Staircase(t) - 1), t)
  BY <1>1, WholeExact
<1>5. packed = 0 .. Limit(t) - 1
  <2> SUFFICES ASSUME NEW p \in 0 .. Limit(t) - 1
               PROVE  \E k \in 0 .. MaxBlocks - 1 : p \in KeysOfBlock(s, k)
    <3>1. keys = 0 .. Limit(t) - 1
      BY <1>1
    <3> HIDE DEF keys
    <3> QED BY <3>1
  <2> DEFINE k == p \div Group
  <2>1. p \in 0 .. s - 1 /\ p \in 0 .. MaxLen - 1
    BY <1>1
  <2>2. k \in 0 .. NumBlocks(MaxLen) - 1
    BY <1>1, <2>1, BlockOfKey
  <2>3. p \in KeysOfBlock(s, k)
    BY <1>1, <2>1, BlockOfKey
  <2>4. NumBlocks(MaxLen) = MaxBlocks
    BY DEF NumBlocks, MaxBlocks
  <2> QED BY <2>2, <2>3, <2>4
<1> HIDE DEF packed
<1>6. Exactly(Whole(t[1], packed), t)
  BY <1>5, WholeExact
<1> QED BY <1>2, <1>3, <1>4, <1>6

LEMMA PrefillExact ==
  ASSUME BatchTypeOK, Layout, Planning, stage = "forward", causal,
         NEW t \in Tokens, t[1] > num_decodes
  PROVE  Exactly(PrefillAt(Flat(t)), t)
<1>1. md.cached = HasCached
  BY DEF Planning
<1>2. CASE md.cached
  BY <1>2, CachedExact DEF PrefillAt
<1>3. CASE ~md.cached
  BY <1>1, <1>3, FirstChunkExact DEF PrefillAt
<1> QED BY <1>2, <1>3

\* A step without a longer row has its i-th decode at place i - 1; so has a mixed
\* one whose decodes take one place each.
LEMMA SingleTokens ==
  ASSUME BatchTypeOK, Layout, NEW t \in Tokens,
         \/ ~IsPrefill
         \/ num_decode_tokens <= num_decodes /\ t[1] <= num_decodes
  PROVE  rows[t[1]].q = 1 /\ rows[t[1]].start = t[1] - 1
<1> DEFINE b == t[1]
<1>1. /\ b \in 1 .. Len(rows) /\ DOMAIN rows = 1 .. Len(rows) /\ Len(rows) \in Nat
      /\ t[2] \in 0 .. rows[b].q - 1
      /\ \A a \in 1 .. Len(rows) : rows[a].q \in Nat /\ rows[a].start \in Nat
      /\ num_decodes \in Nat /\ num_decode_tokens \in Nat
  BY TokenFacts, Fields, ConstantsOK DEF BatchTypeOK
<1> HIDE DEF b
<1>2. rows[b].q > 0
  BY <1>1
<1>3. CASE ~IsPrefill
  <2>1. \A a \in 1 .. Len(rows) : rows[a].q <= 1
    BY <1>1, <1>3 DEF IsPrefill
  <2>2. \A a \in DOMAIN rows : a < b => rows[a].q = 1
    BY <1>1, <1>2, <2>1 DEF Layout, PadsLast
  <2>3. rows[b].start = (b - 1) * 1
    BY <1>1, <2>2 DEF Layout, Uniform
  <2>4. rows[b].q = 1
    BY <1>1, <1>2, <2>1
  <2> QED BY <1>1, <2>3, <2>4 DEF b
<1>4. CASE num_decode_tokens <= num_decodes /\ t[1] <= num_decodes
  <2>1. /\ rows[b].start + rows[b].q + (num_decodes - b) <= num_decode_tokens
        /\ b - 1 <= rows[b].start
    BY <1>1, <1>2, <1>4 DEF Layout, Counted, b
  <2>2. /\ rows[b].q \in Nat /\ rows[b].start \in Nat /\ b \in Nat
        /\ num_decodes \in Nat /\ num_decode_tokens \in Nat
    BY <1>1
  <2>3. rows[b].start + rows[b].q <= b
    BY <1>4, <2>1, <2>2
  <2>4. rows[b].q = 1 /\ rows[b].start = b - 1
    BY <1>2, <2>1, <2>2, <2>3
  <2> QED BY <2>4 DEF b
<1> QED BY <1>3, <1>4

Paths == DecodePath \/ VerifyPath \/ PrefillPath \/ MixedPath

LEMMA ForwardExact ==
  ASSUME BatchTypeOK, BufferTypeOK, Layout, Planning, Paths
  PROVE  \A t \in Tokens : causal \/ t[1] <= num_decodes => Exactly(out'[Flat(t)], t)
<1> SUFFICES ASSUME NEW t \in Tokens, causal \/ t[1] <= num_decodes
             PROVE  Exactly(out'[Flat(t)], t)
  OBVIOUS
<1>1. /\ Flat(t) \in 0 .. tokens - 1 /\ tokens \in Nat
      /\ t[1] <= num_decodes <=> Flat(t) < num_decode_tokens
      /\ t[1] \in Nat /\ num_decodes \in Nat /\ num_decode_tokens \in Nat
  BY TokenFacts, Fields, ConstantsOK DEF BatchTypeOK
<1>2. stage = "forward"
  BY DEF Paths, DecodePath, VerifyPath, PrefillPath, MixedPath, Attend, Places
<1>3. CASE DecodePath
  <2>1. out'[Flat(t)] = DecodeAt(Flat(t)) /\ ~IsPrefill
    BY <1>1, <1>3 DEF DecodePath, Attend, Places
  <2> QED BY <2>1, SingleTokens, DecodeExact
<1>4. CASE VerifyPath
  <2>1. out'[Flat(t)] = VerifyAt(Flat(t)) /\ md.plan /\ num_decode_tokens = tokens
    BY <1>1, <1>4 DEF VerifyPath, Attend, Places, AllPlanned
  <2>2. Flat(t) < num_decode_tokens
    BY <1>1, <2>1
  <2> QED BY <1>2, <2>1, <2>2, VerifyExact
<1>5. CASE PrefillPath
  <2>1. out'[Flat(t)] = PrefillAt(Flat(t)) /\ num_decodes = 0
    BY <1>1, <1>5 DEF PrefillPath, Attend, Places
  <2>2. t[1] > num_decodes
    BY <2>1, TokenFacts, Fields
  <2>3. causal
    BY <1>1, <2>2
  <2> QED BY <1>2, <2>1, <2>2, <2>3, PrefillExact
<1>6. CASE MixedPath
  <2>1. out'[Flat(t)] = MixedAt(Flat(t))
    BY <1>1, <1>6 DEF MixedPath, Attend, Places
  <2>2. CASE Flat(t) >= num_decode_tokens
    <3>1. out'[Flat(t)] = PrefillAt(Flat(t))
      BY <2>1, <2>2 DEF MixedAt
    <3>2. t[1] > num_decodes
      BY <1>1, <2>2
    <3>3. causal
      BY <1>1, <3>2
    <3> QED BY <1>2, <3>1, <3>2, <3>3, PrefillExact
  <2>3. CASE Flat(t) < num_decode_tokens /\ md.plan
    <3>1. out'[Flat(t)] = VerifyAt(Flat(t))
      BY <1>1, <2>1, <2>3 DEF MixedAt
    <3> QED BY <1>2, <2>3, <3>1, VerifyExact
  <2>4. CASE Flat(t) < num_decode_tokens /\ ~md.plan
    <3>1. out'[Flat(t)] = DecodeAt(Flat(t))
      BY <1>1, <2>1, <2>4 DEF MixedAt
    <3>2. ~(num_decodes > 0 /\ num_decode_tokens > num_decodes)
      BY <1>2, <2>4 DEF Planning
    <3>3. num_decodes > 0
      BY <1>6 DEF MixedPath
    <3>4. num_decode_tokens <= num_decodes /\ t[1] <= num_decodes
      BY <1>1, <2>4, <3>2, <3>3
    <3> QED BY <3>1, <3>4, SingleTokens, DecodeExact
  <2> QED BY <1>1, <2>2, <2>3, <2>4
<1> QED BY <1>3, <1>4, <1>5, <1>6 DEF Paths

----------------------------------------------------------------------------
(* The inductive invariant and the theorems.                               *)

AttendInv ==
  /\ BatchTypeOK /\ BufferTypeOK /\ Layout /\ Planning
  /\ AttendsExactly /\ DecodesSeeContext

LEMMA InitAttendInv == AttendInit => AttendInv
  BY InitLayout DEF AttendInit, AttendInv, Planning, AttendsExactly, DecodesSeeContext

LEMMA NextAttendInv ==
  ASSUME AttendInv, [AttendNext]_attend_vars
  PROVE  AttendInv'
<1> USE DEF AttendInv
<1>1. ASSUME NEW s \in 1 .. MaxLen, NEW q \in 1 .. s, AddRow(q, s)
      PROVE  AttendInv'
  <2>1. stage = "batch" /\ UNCHANGED <<stage, vq, md>>
    BY <1>1 DEF AddRow
  <2>2. BatchTypeOK' /\ Layout'
    BY <1>1, AddRowLayout
  <2> QED BY <2>1, <2>2 DEF BufferTypeOK, Planning, AttendsExactly, DecodesSeeContext
<1>2. CASE Pad
  <2>1. stage = "batch" /\ UNCHANGED <<stage, vq, md>>
    BY <1>2 DEF Pad
  <2>2. BatchTypeOK' /\ Layout'
    BY <1>2, PadLayout
  <2> QED BY <2>1, <2>2 DEF BufferTypeOK, Planning, AttendsExactly, DecodesSeeContext
<1>3. CASE BuildMetadata
  <2>1. stage' = "forward" /\ UNCHANGED <<option, batch>>
    BY <1>3 DEF BuildMetadata
  <2>2. BatchTypeOK' /\ Layout' /\ BufferTypeOK' /\ Planning'
    BY <1>3, <2>1, SameBatch, BuildPlans
  <2> QED BY <2>1, <2>2 DEF AttendsExactly, DecodesSeeContext
<1>4. CASE Paths
  <2>1. stage' = "done" /\ UNCHANGED <<option, batch, vq, md>>
    BY <1>4 DEF Paths, DecodePath, VerifyPath, PrefillPath, MixedPath, Attend, Places
  <2>2. UNCHANGED <<option, batch>> /\ UNCHANGED <<causal, num_decodes>>
    BY <2>1 DEF batch
  <2>3. /\ Tokens' = Tokens /\ \A t : Flat(t)' = Flat(t) /\ Limit(t)' = Limit(t)
        /\ BatchTypeOK' /\ Layout'
    BY <2>2, SameBatch
  <2>4. BufferTypeOK' /\ Planning'
    BY <2>1 DEF BufferTypeOK, Planning
  <2>5. \A t \in Tokens : causal \/ t[1] <= num_decodes => Exactly(out'[Flat(t)], t)
    BY <1>4, ForwardExact
  <2>6. \A t \in Tokens' :
          causal' \/ t[1] <= num_decodes' => Exactly(out[Flat(t)], t)'
    BY <2>2, <2>3, <2>5 DEF Exactly
  <2> QED BY <2>3, <2>4, <2>6 DEF AttendsExactly, DecodesSeeContext
<1>5. CASE NextBatch
  <2>1. stage' = "batch"
    BY <1>5 DEF NextBatch
  <2>2. BatchTypeOK' /\ Layout'
    BY <1>5, ConstantsOK
       DEF NextBatch, BatchTypeOK, Layout, InBatch, Apart, Sides, DecodesOnly, Short, PadsLast,
           FirstReal, Uniform, Counted, AllDecodes
  <2>3. BufferTypeOK'
    BY <1>5 DEF NextBatch, BufferTypeOK
  <2> QED BY <2>1, <2>2, <2>3 DEF Planning, AttendsExactly, DecodesSeeContext
<1>6. CASE UNCHANGED attend_vars
  <2>1. /\ UNCHANGED <<option, batch>>
        /\ UNCHANGED <<stage, vq, md, out, causal, num_decodes, num_decode_tokens, rows>>
    BY <1>6 DEF attend_vars, batch
  <2>2. /\ Tokens' = Tokens /\ HasCached' = HasCached
        /\ \A t : Flat(t)' = Flat(t) /\ Limit(t)' = Limit(t)
        /\ BatchTypeOK' /\ Layout'
    BY <2>1, SameBatch
  <2>3. BufferTypeOK' /\ Planning'
    BY <2>1, <2>2 DEF BufferTypeOK, Planning
  <2>4. AttendsExactly' /\ DecodesSeeContext'
    BY <2>1, <2>2 DEF AttendsExactly, DecodesSeeContext, Exactly
  <2> QED BY <2>2, <2>3, <2>4
<1> QED BY <1>1, <1>2, <1>3, <1>4, <1>5, <1>6 DEF AttendNext, Paths

LEMMA AttendInvariant == AttendSpec => []AttendInv
  BY InitAttendInv, NextAttendInv, PTL DEF AttendSpec

\* The batch, the plan and the metadata keep their types, whatever the runner
\* composes and in whatever order steps follow one another.
THEOREM AttendTypeCorrect == AttendSpec => []TypeOK
<1>1. AttendInv => TypeOK
  BY TypeParts DEF AttendInv
<1> QED BY <1>1, AttendInvariant, PTL

\* Whatever the batch, the options and the route, a token of a causal batch attends
\* to each position of its own request up to its own exactly once.
THEOREM AttendExactly == AttendSpec => []AttendsExactly
<1>1. AttendInv => AttendsExactly
  BY DEF AttendInv
<1> QED BY <1>1, AttendInvariant, PTL

\* Without causality the tokens of a decode attend to their whole request.
THEOREM AttendContext == AttendSpec => []DecodesSeeContext
<1>1. AttendInv => DecodesSeeContext
  BY DEF AttendInv
<1> QED BY <1>1, AttendInvariant, PTL

----------------------------------------------------------------------------
(* The invariant.                                                          *)

RegistryTypes ==
  /\ epoch \in 0 .. 2 /\ live \subseteq Builders
  /\ owner \in [Layers -> Builders \cup {None}]
  /\ impl_by_name \in [Builders -> SUBSET Layers]

\* vLLM holds builders of the present cache only; an owner may be older.
LiveIsNow ==
  /\ phase = "profile" => epoch = 0
  /\ \A b \in live : b.epoch = epoch
  /\ phase \in {"warm", "serve"} => live = [epoch : {epoch}, layers : LayerSets]
  /\ \A b \in live : b.layers \in Drafts =>
       \A t \in Targets : [epoch |-> epoch, layers |-> t] \in live

OwnerIsKnown(l) ==
  /\ l \in owner[l].layers /\ l \in impl_by_name[owner[l]]
  /\ owner[l].epoch <= epoch
  /\ owner[l].epoch = epoch => owner[l] \in live

\* The last claimant of a layer is its owner: the drafter's builder of a draft
\* layer, the target's of every other.
ClaimedLast ==
  \A b \in live : \A l \in b.layers :
    b.layers \in Drafts \/ l \notin UNION Drafts => owner[l] = b

RegistryInv ==
  /\ RegistryTypes /\ LiveIsNow
  /\ \A l \in Layers : owner[l] = None \/ OwnerIsKnown(l)
  /\ ClaimedLast

----------------------------------------------------------------------------
(* The claim rule.                                                         *)

LEMMA DraftsAreLayers ==
  ASSUME GroupsPartition
  PROVE  \A b \in Builders : b.layers \in LayerSets /\ b.layers \subseteq Layers
BY DEF GroupsPartition, Builders, LayerSets, Layers

\* A draft builder takes each layer it names, whoever has it, and a target
\* builder each that no drafter names.
LEMMA LastClaimWins ==
  ASSUME GroupsPartition, RegistryInv, NEW b \in Builders, NEW l \in b.layers,
         b.layers \in Drafts \/ l \notin UNION Drafts
  PROVE  MayClaim(b, l)
<1>1. l \in Layers
  BY DraftsAreLayers
<1>2. SUFFICES ASSUME owner[l] # None
               PROVE  Cardinality(b.layers) <= Cardinality(owner[l].layers)
  BY DEF MayClaim
<1>3. owner[l] \in Builders /\ l \in owner[l].layers
  BY <1>1, <1>2 DEF RegistryInv, RegistryTypes, OwnerIsKnown
<1>4. b.layers \in LayerSets /\ owner[l].layers \in LayerSets
  BY <1>3, DraftsAreLayers
<1>5. CASE b.layers = owner[l].layers
  <2>1. \E t \in Targets : b.layers \subseteq t /\ IsFiniteSet(t)
    BY <1>4 DEF LayerSets, GroupsPartition
  <2>2. IsFiniteSet(b.layers)
    BY <2>1, FS_Subset
  <2>3. Cardinality(b.layers) \in Nat
    BY <2>2, FS_CardinalityType
  <2>. QED BY <1>5, <2>3
<1>6. CASE b.layers # owner[l].layers
  <2>1. b.layers \in Drafts /\ owner[l].layers \in Targets
    BY <1>3, <1>4, <1>6 DEF LayerSets, GroupsPartition
  <2>2. b.layers \subseteq owner[l].layers /\ IsFiniteSet(owner[l].layers)
    BY <1>3, <2>1 DEF GroupsPartition
  <2>. QED BY <2>2, FS_Subset
<1>. QED BY <1>5, <1>6

----------------------------------------------------------------------------
(* The invariant is inductive.                                             *)

LEMMA RegistryInit == GroupsPartition /\ Init => RegistryInv
<1>. SUFFICES ASSUME GroupsPartition, Init PROVE RegistryInv
  OBVIOUS
<1>1. RegistryTypes
  BY DEF Init, RegistryTypes
<1>2. LiveIsNow /\ ClaimedLast
  BY DEF Init, LiveIsNow, ClaimedLast
<1>. QED BY <1>1, <1>2 DEF Init, RegistryInv

\* A builder is constructed.
LEMMA RegistryClaim ==
  ASSUME GroupsPartition, RegistryInv, NEW b \in Builders, NewBuilder(b)
  PROVE  RegistryInv'
<1> DEFINE claims == {l \in b.layers : MayClaim(b, l)}
<1>1. /\ phase = "attn" /\ b.epoch = epoch /\ b \notin live
      /\ b.layers \in Drafts => \A t \in Targets : [epoch |-> epoch, layers |-> t] \in live
      /\ live' = live \cup {b} /\ phase' = phase /\ epoch' = epoch
      /\ owner' = [l \in Layers |-> IF l \in claims THEN b ELSE owner[l]]
      /\ impl_by_name' = [impl_by_name EXCEPT ![b] = claims]
  BY DEF NewBuilder
<1>2. claims \subseteq Layers
  BY DraftsAreLayers
<1>. HIDE DEF claims
<1>3. RegistryTypes'
  BY <1>1, <1>2 DEF RegistryInv, RegistryTypes
<1>4. LiveIsNow'
  BY <1>1 DEF RegistryInv, LiveIsNow
<1>5. ASSUME NEW l \in Layers
      PROVE  owner'[l] = None \/ OwnerIsKnown(l)'
  <2>1. CASE l \in claims
    <3>1. owner'[l] = b /\ l \in impl_by_name'[b] /\ b \in live'
      BY <1>1, <2>1 DEF RegistryInv, RegistryTypes
    <3>2. l \in b.layers
      BY <2>1 DEF claims
    <3>3. b.epoch <= epoch'
      BY <1>1 DEF RegistryInv, RegistryTypes
    <3>. QED BY <3>1, <3>2, <3>3 DEF OwnerIsKnown
  <2>2. CASE l \notin claims /\ owner[l] # None
    <3>1. owner'[l] = owner[l] /\ OwnerIsKnown(l) /\ owner[l] \in Builders
      BY <1>1, <2>2 DEF RegistryInv, RegistryTypes
    <3>2. owner[l] # b
      BY <1>1, <3>1 DEF OwnerIsKnown
    <3>3. impl_by_name'[owner[l]] = impl_by_name[owner[l]]
      BY <1>1, <3>1, <3>2 DEF RegistryInv, RegistryTypes
    <3>. QED BY <1>1, <3>1, <3>3 DEF OwnerIsKnown
  <2>3. CASE l \notin claims /\ owner[l] = None
    BY <1>1, <2>3
  <2>. QED BY <2>1, <2>2, <2>3
<1>6. ClaimedLast'
  <2>. SUFFICES ASSUME NEW c \in live', NEW l \in c.layers,
                       c.layers \in Drafts \/ l \notin UNION Drafts
                PROVE  owner'[l] = c
    BY DEF ClaimedLast
  <2>1. c \in Builders /\ l \in Layers
    BY <1>3, DraftsAreLayers DEF RegistryTypes
  <2>2. CASE c = b
    <3>1. l \in claims
      BY <2>2, LastClaimWins DEF claims
    <3>. QED BY <1>1, <2>1, <2>2, <3>1
  <2>3. CASE c # b
    <3>1. c \in live /\ owner[l] = c
      BY <1>1, <2>3 DEF RegistryInv, ClaimedLast
    <3>2. c.epoch = b.epoch
      BY <1>1, <3>1 DEF RegistryInv, LiveIsNow
    <3>3. c.layers # b.layers
      BY <2>1, <2>3, <3>2 DEF Builders
    <3>4. l \notin b.layers
      <4>1. SUFFICES ASSUME l \in b.layers PROVE FALSE
        OBVIOUS
      <4>2. b.layers \in Targets /\ c.layers \in Drafts
        BY <2>1, <3>3, <4>1, DraftsAreLayers DEF GroupsPartition, LayerSets
      <4>3. b = [epoch |-> epoch, layers |-> b.layers]
        BY <1>1 DEF Builders
      <4>. QED BY <1>1, <3>1, <4>2, <4>3 DEF RegistryInv, LiveIsNow
    <3>. QED BY <1>1, <2>1, <3>1, <3>4 DEF claims
  <2>. QED BY <2>2, <2>3
<1>. QED BY <1>3, <1>4, <1>5, <1>6 DEF RegistryInv

\* A KV cache is made: the builders of the last one are dropped.
LEMMA RegistryRenew ==
  ASSUME RegistryInv, NEW e \in 1 .. 2, InitKVCache(e)
  PROVE  RegistryInv'
<1>1. /\ phase = "profile" \/ (phase = "warm" /\ epoch = 1 /\ e = 2)
      /\ phase' = "attn" /\ epoch' = e /\ live' = {}
      /\ owner' = owner /\ impl_by_name' = impl_by_name
  BY DEF InitKVCache
<1>2. epoch < e /\ epoch \in 0 .. 2
  BY <1>1 DEF RegistryInv, RegistryTypes, LiveIsNow
<1>3. RegistryTypes' /\ LiveIsNow' /\ ClaimedLast'
  BY <1>1, <1>2 DEF RegistryInv, RegistryTypes, LiveIsNow, ClaimedLast
<1>4. ASSUME NEW l \in Layers, owner[l] # None
      PROVE  OwnerIsKnown(l)'
  <2>1. owner[l] \in Builders /\ OwnerIsKnown(l)
    BY <1>4 DEF RegistryInv, RegistryTypes
  <2>2. owner[l].epoch \in 1 .. 2 /\ owner[l].epoch < e
    BY <1>2, <2>1 DEF OwnerIsKnown, Builders
  <2>. QED BY <1>1, <2>1, <2>2 DEF OwnerIsKnown
<1>. QED BY <1>1, <1>3, <1>4 DEF RegistryInv

\* Every other step leaves the registry alone.
LEMMA RegistryNext == GroupsPartition /\ RegistryInv /\ [Next]_vars => RegistryInv'
<1>. SUFFICES ASSUME GroupsPartition, RegistryInv, [Next]_vars PROVE RegistryInv'
  OBVIOUS
<1>1. ASSUME UNCHANGED <<phase, epoch, registry>> PROVE RegistryInv'
  BY <1>1 DEF RegistryInv, RegistryTypes, LiveIsNow, OwnerIsKnown, ClaimedLast, registry
<1>2. CASE UNCHANGED vars
  BY <1>1, <1>2 DEF vars
<1>3. ASSUME NEW l \in Layers, RunProfile(l) \/ RunEager(l) \/ RunCapture(l) \/ RunReplay(l)
      PROVE  RegistryInv'
  BY <1>1, <1>3 DEF RunProfile, RunEager, RunCapture, RunReplay
<1>4. ASSUME NEW b \in Builders, NewBuilder(b) PROVE RegistryInv'
  BY <1>4, RegistryClaim
<1>5. ASSUME NEW b \in Builders, Build(b) PROVE RegistryInv'
  BY <1>1, <1>5 DEF Build
<1>6. ASSUME NEW g \in {Targets, Drafts}, NEW mode \in {"warm", "capture", "eager", "replay"},
             StartPass(g, mode)
      PROVE  RegistryInv'
  BY <1>1, <1>6 DEF StartPass
<1>7. ASSUME NEW e \in 1 .. 2, InitKVCache(e) PROVE RegistryInv'
  BY <1>7, RegistryRenew
<1>8. CASE BuildersReady
  <2>1. /\ live = [epoch : {epoch}, layers : LayerSets] /\ phase' = "warm" /\ epoch' = epoch
        /\ live' = live /\ owner' = owner /\ impl_by_name' = impl_by_name
    BY <1>8 DEF BuildersReady, Advance, registry
  <2>. QED BY <2>1 DEF RegistryInv, RegistryTypes, LiveIsNow, OwnerIsKnown, ClaimedLast
<1>9. CASE Serve
  <2>1. /\ phase = "warm" /\ phase' = "serve" /\ epoch' = epoch
        /\ live' = live /\ owner' = owner /\ impl_by_name' = impl_by_name
    BY <1>9 DEF Serve, Advance, registry
  <2>. QED BY <2>1 DEF RegistryInv, RegistryTypes, LiveIsNow, OwnerIsKnown, ClaimedLast
<1>. QED BY <1>2, <1>3, <1>4, <1>5, <1>6, <1>7, <1>8, <1>9 DEF Next

----------------------------------------------------------------------------
LEMMA RegistryHasOneOwner == GroupsPartition /\ RegistryInv => OneOwner
<1>. SUFFICES ASSUME GroupsPartition, RegistryInv, phase \in {"warm", "serve"},
                     NEW l \in Layers
              PROVE  /\ Cardinality({b \in live : l \in Owned(b)}) = 1
                     /\ l \in UNION Drafts => owner[l].layers \in Drafts
  BY DEF OneOwner
<1>1. PICK g \in LayerSets : l \in g /\ (g \in Drafts \/ l \notin UNION Drafts)
  BY DEF LayerSets, Layers
<1>2. [epoch |-> epoch, layers |-> g] \in live
  BY <1>1 DEF RegistryInv, LiveIsNow
<1>3. owner[l] = [epoch |-> epoch, layers |-> g]
  BY <1>1, <1>2 DEF RegistryInv, ClaimedLast
<1>4. l \in impl_by_name[owner[l]]
  <2>1. owner[l] \in Builders
    BY <1>2, <1>3 DEF RegistryInv, RegistryTypes
  <2>. QED BY <1>3, <2>1 DEF RegistryInv, OwnerIsKnown, GroupsPartition
<1>5. {b \in live : l \in Owned(b)} = {owner[l]}
  BY <1>2, <1>3, <1>4 DEF Owned
<1>. QED BY <1>1, <1>3, <1>5, FS_Singleton

\* (kvarn_attn.py:544-560) For any groups of layers: once the builders of a
\* cache exist each layer is driven by exactly one of them, a draft layer by
\* the drafter's, although each layer of the drafter was claimed up to four times.
THEOREM RegistryOneOwner == Spec => []OneOwner
<1>0. GroupsPartition
  BY OwnershipAssumption DEF CacheAssumption
<1>1. Init => RegistryInv
  BY <1>0, RegistryInit
<1>2. RegistryInv /\ [Next]_vars => RegistryInv'
  BY <1>0, RegistryNext
<1>3. RegistryInv => OneOwner
  BY <1>0, RegistryHasOneOwner
<1>. QED BY <1>1, <1>2, <1>3, PTL DEF Spec

----------------------------------------------------------------------------
(* The tensors.                                                            *)

PoolPlaces == Slots \X Parts

CacheTypes ==
  /\ phase \in {"profile", "attn", "warm", "serve"} /\ lookup_upper_bound \in Nat
  /\ group_key \in [Layers -> Keys] /\ kv_cache_ref \in [Layers -> (1 .. epoch) \cup {None}]
  /\ b2s_ptr \in [Layers -> Mirrors \cup {None}] /\ graph \in [Layers -> Graphs \cup {None}]
  /\ dict_map \in [Keys -> Dicts \cup {None}] /\ current \in [Keys -> Mirrors \cup {None}]
  /\ pool \in [Layers -> [PoolPlaces -> Tags \cup {None}]]
  /\ tile \in [Layers -> SUBSET Cells] /\ ran \in [Layers -> SUBSET Cells]
  /\ pass.runs \subseteq Layers /\ pass.builds \subseteq live

\* What pass is in progress when.
Modes == {"idle", "profile", "warm", "capture", "eager", "replay"}
ModeInv ==
  /\ pass = [mode |-> pass.mode, builds |-> pass.builds, runs |-> pass.runs, cell |-> pass.cell]
  /\ pass.mode \in Modes
  /\ phase = "profile" => pass.mode \in {"profile", "idle"} /\ epoch = 0
  /\ phase = "attn" => pass = Idle /\ epoch > 0
  /\ phase = "warm" => pass.mode \in {"idle", "warm", "capture"} /\ epoch > 0
  /\ phase = "serve" => pass.mode \in {"idle", "eager", "replay"} /\ epoch = 2
  /\ pass.mode \in {"idle", "profile"} => pass.builds = {}
  /\ pass.mode = "idle" => pass = Idle

\* A layer to be run has its cache or its graph; its builder has still to build
\* the step's cell, or has built it and holds a slot for its block.
Ready(l) ==
  LET k == owner[l].layers IN
    k \in DOMAIN pass.cell /\ pass.cell[k] \in Cells /\ pass.cell[k][1] \in DOMAIN Held(k)
RunsInv ==
  \A l \in pass.runs :
    /\ pass.mode = "capture" => kv_cache_ref[l] = epoch
    /\ pass.mode = "replay" => graph[l] # None
    /\ pass.mode \in {"eager", "replay"} => owner[l] \in pass.builds \/ Ready(l)

\* An owned layer goes by its owner's key; no layer knows a cache before its
\* builders are made.
KeyInv == \A l \in Layers : owner[l] # None => group_key[l] = owner[l].layers
RefInv == phase \in {"profile", "attn"} => \A l \in Layers : kv_cache_ref[l] # epoch /\ graph[l] = None

\* The mirror of a key is the dictionary of that key, no slot is given twice.
OneSlotEach(held) == \A x, y \in DOMAIN held : held[x] = held[y] => x = y
MirrorOk(k) ==
  /\ current[k] # None =>
       /\ current[k].key = k /\ current[k].size >= LookupSize(0) /\ current[k] \in DOMAIN mirror
       /\ mirror[current[k]] = Resynced(Held(k), current[k].size)
  /\ OneSlotEach(Held(k))
MirrorInv == \A k \in Keys : MirrorOk(k)

\* A layer that knows the cache points at its key's mirror, and the mirror
\* covers the cache; a graph was captured on that pointer.
Pointed(l) ==
  kv_cache_ref[l] = epoch =>
    /\ current[group_key[l]] # None /\ b2s_ptr[l] = current[group_key[l]]
    /\ b2s_ptr[l].size >= LookupSize(CacheBlocks)
Captured(l) ==
  graph[l] # None => kv_cache_ref[l] = epoch /\ graph[l].mirror = b2s_ptr[l] /\ graph[l].cache = epoch
PointerInv == \A l \in Layers : Pointed(l) /\ Captured(l)

\* A cell written is in the slot its block holds, else in the tile; a tile is
\* complete, and whatever bears this cache's tag was written.
Kept(l, c) ==
  LET h == Held(group_key[l]) IN
  IF c[1] \in DOMAIN h THEN pool[l][<<h[c[1]], c[2]>>] = <<epoch, c[1]>> ELSE c \in tile[l]
CellOk(l) ==
  /\ phase # "serve" => ran[l] = {}
  /\ tile[l] \subseteq ran[l]
  /\ ran[l] # {} => kv_cache_ref[l] = epoch
  /\ \A x \in PoolPlaces : pool[l][x] # None =>
       /\ pool[l][x][1] <= epoch
       /\ pool[l][x][1] = epoch => <<pool[l][x][2], x[2]>> \in ran[l]
  /\ \A c \in ran[l] : Kept(l, c)
  /\ \A c \in tile[l] : Complete(owner[l], c[1])
CellInv == \A l \in Layers : CellOk(l)

\* With a bound that covers the cache there is one size, compiled for every
\* layer by the profile run.
SizeInv ==
  LookupSize(0) >= NumGpuBlocks =>
    /\ \A k \in Keys : current[k] # None => current[k].size = LookupSize(0)
    /\ \A l \in Layers : b2s_ptr[l] # None => b2s_ptr[l].size = LookupSize(0)
    /\ \A l \in Layers : phase # "profile" \/ l \notin pass.runs =>
          WarmDecodeKernels(l, LookupSize(0)) \subseteq warmed

CacheInv ==
  /\ RegistryInv /\ CacheTypes /\ ModeInv /\ RunsInv /\ KeyInv /\ RefInv
  /\ MirrorInv /\ PointerInv /\ CellInv /\ SizeInv

----------------------------------------------------------------------------
(* Sizes, dictionaries and mirrors.                                        *)

LEMMA LargestOfThree ==
  ASSUME NEW a \in Nat, NEW b \in Nat, NEW c \in Nat
  PROVE  /\ Largest({a, b, c}) \in {a, b, c}
         /\ Largest({a, b, c}) >= a /\ Largest({a, b, c}) >= b /\ Largest({a, b, c}) >= c
<1>1. \E n \in {a, b, c} : \A i \in {a, b, c} : i <= n
  OBVIOUS
<1> QED BY <1>1 DEF Largest

LEMMA LookupSizes ==
  ASSUME CacheAssumption, CacheTypes
  PROVE  /\ \A h \in Nat : LookupSize(h) \in Nat /\ LookupSize(h) >= h /\ LookupSize(h) >= LookupSize(0)
         /\ \A g, h \in Nat : g <= h => LookupSize(g) <= LookupSize(h)
         /\ \A h \in Nat : h <= LookupSize(0) => LookupSize(h) = LookupSize(0)
<1>1. LookupFloor \in Nat /\ lookup_upper_bound \in Nat
  BY DEF CacheAssumption, CacheTypes
<1>2. \A h \in Nat : /\ LookupSize(h) \in {h, LookupFloor, lookup_upper_bound}
                     /\ LookupSize(h) >= h /\ LookupSize(h) >= LookupFloor
                     /\ LookupSize(h) >= lookup_upper_bound
  BY <1>1, LargestOfThree DEF LookupSize
<1> QED BY <1>1, <1>2

LEMMA HeldTyped ==
  ASSUME CacheAssumption, CacheTypes, NEW k \in Keys
  PROVE  /\ Held(k) \in Dicts /\ DOMAIN Held(k) \subseteq Blocks
         /\ \A x \in DOMAIN Held(k) : Held(k)[x] \in Slots
<1>1. <<>> \in [{} -> Slots]
  OBVIOUS
<1>2. Held(k) \in Dicts
  BY <1>1 DEF Held, Dicts, CacheTypes
<1>3. PICK S \in SUBSET Blocks : Held(k) \in [S -> Slots]
  BY <1>2 DEF Dicts
<1> QED BY <1>2, <1>3

LEMMA ContentsResynced ==
  ASSUME CacheAssumption, CacheTypes, MirrorInv, NEW k \in Keys, NEW hint \in Nat
  PROVE  Contents(k, hint) = Resynced(Held(k), MirrorOf(k, hint).size)
BY DEF Contents, MirrorOf, TooSmall, MirrorInv, MirrorOk

\* What _ensure_pool leaves behind for a key, when the mirror it is given is
\* the dictionary it leaves.
Injective(held) == held \in Dicts /\ OneSlotEach(held)
LEMMA Ensured ==
  ASSUME CacheAssumption, CacheTypes, MirrorInv, NEW k \in Keys, NEW l \in Layers, NEW hint \in Nat,
         epoch \in 0 .. 2, NEW held, Injective(held), NEW slots,
         slots = Resynced(held, MirrorOf(k, hint).size),
         EnsurePool(l, k, hint, held, slots), UNCHANGED lookup_upper_bound
  PROVE  /\ dict_map' \in [Keys -> Dicts \cup {None}] /\ current' \in [Keys -> Mirrors \cup {None}]
         /\ b2s_ptr' \in [Layers -> Mirrors \cup {None}]
         /\ MirrorInv'
         /\ \A j \in Keys : Held(j)' = IF j = k THEN held ELSE Held(j)
         /\ \A j \in Keys : j # k \/ ~TooSmall(k, hint) => current'[j] = current[j]
         /\ current'[k] \in Mirrors /\ b2s_ptr'[l] = current'[k] /\ current'[k].size >= LookupSize(hint)
         /\ \A i \in Layers : i # l => b2s_ptr'[i] = b2s_ptr[i]
         /\ current'[k].size = LookupSize(hint) \/ (current[k] # None /\ current'[k] = current[k])
         /\ warmed' = warmed \cup WarmDecodeKernels(l, current'[k].size)
<1> DEFINE m == MirrorOf(k, hint)
<1>1. m \in Mirrors /\ m.key = k /\ m.size >= LookupSize(hint) /\ m.size >= LookupSize(0)
  BY LookupSizes DEF MirrorOf, TooSmall, Mirrors, CacheTypes, MirrorInv, MirrorOk
<1>2. /\ dict_map' = [dict_map EXCEPT ![k] = held] /\ current' = [current EXCEPT ![k] = m]
      /\ mirror' = Set(mirror, m, slots) /\ b2s_ptr' = [b2s_ptr EXCEPT ![l] = m]
      /\ warmed' = warmed \cup WarmDecodeKernels(l, m.size)
  BY DEF EnsurePool
<1>3. m.size = LookupSize(hint) \/ (current[k] # None /\ m = current[k])
  BY DEF MirrorOf, TooSmall
<1>4. ~TooSmall(k, hint) => m = current[k]
  BY DEF MirrorOf
<1> HIDE DEF m
<1>5. /\ dict_map' \in [Keys -> Dicts \cup {None}] /\ current' \in [Keys -> Mirrors \cup {None}]
      /\ b2s_ptr' \in [Layers -> Mirrors \cup {None}]
  BY <1>1, <1>2 DEF CacheTypes, Injective
<1>6. /\ current'[k] = m /\ b2s_ptr'[l] = m /\ dict_map'[k] = held
      /\ \A j \in Keys : j # k => current'[j] = current[j] /\ dict_map'[j] = dict_map[j]
      /\ \A i \in Layers : i # l => b2s_ptr'[i] = b2s_ptr[i]
  BY <1>2 DEF CacheTypes
<1>7. \A j \in Keys : Held(j)' = IF j = k THEN held ELSE Held(j)
  BY <1>6 DEF Held, Injective, CacheAssumption
<1>8. \A n : /\ n = m => n \in DOMAIN mirror' /\ mirror'[n] = slots
             /\ n # m /\ n \in DOMAIN mirror => n \in DOMAIN mirror' /\ mirror'[n] = mirror[n]
  BY <1>2 DEF Set
<1>9. ASSUME NEW j \in Keys PROVE MirrorOk(j)'
  <2>1. \A h, n : Resynced(h, n)' = Resynced(h, n)
    BY DEF Resynced
  <2>2. LookupSize(0)' = LookupSize(0)
    BY DEF LookupSize
  <2>3. CASE j = k
    BY <1>1, <1>6, <1>7, <1>8, <2>1, <2>2, <2>3 DEF MirrorOk, Injective, m
  <2>4. CASE j # k
    <3>1. MirrorOk(j) /\ current'[j] = current[j] /\ Held(j)' = Held(j) /\ current[j] \in Mirrors \cup {None}
      BY <1>6, <1>7, <2>4 DEF MirrorInv, CacheTypes
    <3>2. current[j] # None => current[j] # m
      BY <1>1, <2>4, <3>1 DEF MirrorOk
    <3> QED BY <1>8, <2>1, <2>2, <3>1, <3>2 DEF MirrorOk
  <2> QED BY <2>3, <2>4
<1> QED BY <1>1, <1>2, <1>3, <1>4, <1>5, <1>6, <1>7, <1>9 DEF MirrorInv

\* What _ensure_pool leaves of the sizes and the compiled variants, for a step
\* of no more blocks than the cache has.
LEMMA EnsuredSizes ==
  ASSUME CacheAssumption, CacheTypes, MirrorInv, SizeInv, NEW k \in Keys, NEW l \in Layers,
         NEW hint \in 0 .. NumGpuBlocks, epoch \in 0 .. 2, NEW held, Injective(held), NEW slots,
         slots = Resynced(held, MirrorOf(k, hint).size),
         EnsurePool(l, k, hint, held, slots), UNCHANGED lookup_upper_bound,
         LookupSize(0) >= NumGpuBlocks
  PROVE  /\ LookupSize(0)' = LookupSize(0)
         /\ \A j \in Keys : current'[j] # None => current'[j].size = LookupSize(0)
         /\ \A i \in Layers : b2s_ptr'[i] # None => b2s_ptr'[i].size = LookupSize(0)
         /\ warmed' = warmed \cup WarmDecodeKernels(l, LookupSize(0))
<1>1. /\ \A j \in Keys : j # k => current'[j] = current[j]
      /\ b2s_ptr'[l] = current'[k] /\ \A i \in Layers : i # l => b2s_ptr'[i] = b2s_ptr[i]
      /\ current'[k].size = LookupSize(hint) \/ (current[k] # None /\ current'[k] = current[k])
      /\ warmed' = warmed \cup WarmDecodeKernels(l, current'[k].size)
  <2>1. hint \in Nat
    BY DEF CacheAssumption
  <2>2. \A j \in Keys : j # k \/ ~TooSmall(k, hint) => current'[j] = current[j]
    BY <2>1, Ensured
  <2> QED BY <2>1, <2>2, Ensured
<1>2. LookupSize(0)' = LookupSize(0)
  BY DEF LookupSize
<1>3. hint \in Nat /\ hint <= LookupSize(0)
  BY LookupSizes DEF CacheAssumption
<1>4. LookupSize(hint) = LookupSize(0)
  BY <1>3, LookupSizes
<1>5. /\ \A j \in Keys : current[j] # None => current[j].size = LookupSize(0)
      /\ \A i \in Layers : b2s_ptr[i] # None => b2s_ptr[i].size = LookupSize(0)
  BY DEF SizeInv
<1>6. current'[k].size = LookupSize(0)
  BY <1>1, <1>4, <1>5
<1> QED BY <1>1, <1>2, <1>5, <1>6

----------------------------------------------------------------------------
(* Owners, keys and passes.                                                *)

\* Once the builders are made, the live builders and the layers' owners are the
\* same, each with a key of its own.
LEMMA OwnersAreLive ==
  ASSUME GroupsPartition, RegistryInv, phase \in {"warm", "serve"}, NEW l \in Layers
  PROVE  /\ owner[l] \in live /\ owner[l] \in Builders /\ owner[l] # None
         /\ l \in Owned(owner[l]) /\ owner[l].layers \in Keys
<1>1. PICK g \in LayerSets : l \in g /\ (g \in Drafts \/ l \notin UNION Drafts)
  BY DEF LayerSets, Layers
<1>2. [epoch |-> epoch, layers |-> g] \in live
  BY <1>1 DEF RegistryInv, LiveIsNow
<1>3. owner[l] = [epoch |-> epoch, layers |-> g]
  BY <1>1, <1>2 DEF RegistryInv, ClaimedLast
<1>4. owner[l] \in Builders
  BY <1>2, <1>3 DEF RegistryInv, RegistryTypes
<1>5. owner[l] # None
  BY <1>4 DEF GroupsPartition
<1>6. l \in impl_by_name[owner[l]]
  BY <1>5 DEF RegistryInv, OwnerIsKnown
<1> QED BY <1>2, <1>3, <1>4, <1>5, <1>6 DEF Owned, Keys

LEMMA OwnedLayers ==
  ASSUME GroupsPartition, RegistryInv, NEW b \in live
  PROVE  /\ b \in Builders /\ b # None /\ b.layers \in Keys /\ b.epoch = epoch
         /\ Owned(b) \subseteq Layers /\ \A l \in Owned(b) : owner[l] = b
         /\ \A c \in live : c.layers = b.layers => c = b
<1>1. \A c \in live : c \in Builders /\ c.epoch = epoch
  BY DEF RegistryInv, RegistryTypes, LiveIsNow
<1>2. Owned(b) \subseteq Layers /\ \A l \in Owned(b) : owner[l] = b
  BY <1>1 DEF Owned, RegistryInv, RegistryTypes
<1> QED BY <1>1, <1>2 DEF GroupsPartition, Builders, Keys

\* The layers of a live builder are those that go by its key.
LEMMA OwnedByKey ==
  ASSUME GroupsPartition, RegistryInv, KeyInv, phase \in {"warm", "serve"},
         NEW b \in live, NEW l \in Layers
  PROVE  /\ l \in Owned(b) <=> group_key[l] = b.layers
         /\ l \in Owned(b) <=> owner[l] = b
<1>1. group_key[l] = owner[l].layers /\ owner[l] \in live /\ l \in Owned(owner[l])
  BY OwnersAreLive DEF KeyInv
<1> QED BY <1>1, OwnedLayers

\* A layer has run: the pass goes on without it, or ends.
LEMMA Finishing ==
  ASSUME GroupsPartition, RegistryInv, ModeInv, RunsInv, CacheTypes, NEW l \in pass.runs,
         pass' = Finish(l), pass.builds = {},
         UNCHANGED <<phase, epoch, registry>>,
         \A i \in Layers : /\ kv_cache_ref[i] = epoch => kv_cache_ref'[i] = epoch
                           /\ graph[i] # None => graph'[i] # None,
         \A j \in Keys : Held(j)' = Held(j) \/ pass.mode \in {"warm", "capture", "profile"}
  PROVE  /\ ModeInv' /\ RunsInv' /\ pass'.runs \subseteq Layers /\ pass'.builds = {}
         /\ pass'.runs \subseteq pass.runs \ {l}
<1>1. CASE pass.runs = {l}
  <2>1. pass' = Idle
    BY <1>1 DEF Finish
  <2>2. ModeInv'
    BY <2>1 DEF ModeInv, Modes, Idle
  <2> QED BY <2>1, <2>2 DEF RunsInv, Idle
<1>2. CASE pass.runs # {l}
  <2>1. pass' = [pass EXCEPT !.runs = @ \ {l}]
    BY <1>2 DEF Finish
  <2>2. /\ pass'.mode = pass.mode /\ pass'.builds = pass.builds /\ pass'.cell = pass.cell
        /\ pass'.runs = pass.runs \ {l}
        /\ pass' = [mode |-> pass'.mode, builds |-> pass'.builds, runs |-> pass'.runs, cell |-> pass'.cell]
    BY <2>1 DEF ModeInv
  <2>3. pass.mode # "idle"
    BY DEF ModeInv, Idle
  <2>4. ModeInv'
    BY <2>2, <2>3 DEF ModeInv, Idle
  <2>5. ASSUME NEW i \in pass'.runs
        PROVE  /\ pass'.mode = "capture" => kv_cache_ref'[i] = epoch'
               /\ pass'.mode = "replay" => graph'[i] # None
               /\ pass'.mode \in {"eager", "replay"} => owner'[i] \in pass'.builds \/ Ready(i)'
    <3>1. i \in pass.runs /\ i \in Layers
      BY <2>2, <2>5 DEF CacheTypes
    <3>2. pass'.mode \in {"eager", "replay"} => Ready(i)
      BY <2>2, <3>1 DEF RunsInv
    <3>3. owner' = owner
      BY DEF registry
    <3>4. pass'.mode \in {"eager", "replay"} => Held(owner[i].layers)' = Held(owner[i].layers)
      <4>1. pass'.mode \in {"eager", "replay"} => owner[i].layers \in Keys
        BY <2>2, <3>1, OwnersAreLive DEF ModeInv, CacheTypes, Idle
      <4> QED BY <2>2, <3>3, <4>1 DEF Held
    <3>5. pass'.mode \in {"eager", "replay"} => Ready(i)'
      BY <2>2, <3>2, <3>3, <3>4 DEF Ready
    <3> QED BY <2>2, <3>1, <3>5 DEF RunsInv
  <2> QED BY <2>2, <2>4, <2>5 DEF RunsInv, CacheTypes
<1> QED BY <1>1, <1>2

\* While no cell is written, nothing has to be kept.
LEMMA NothingWritten ==
  ASSUME CellInv, phase # "serve", phase' # "serve", UNCHANGED <<epoch, data>>
  PROVE  CellInv'
<1> SUFFICES ASSUME NEW l \in Layers PROVE CellOk(l)'
  BY DEF CellInv
<1>1. CellOk(l) /\ pool' = pool /\ tile' = tile /\ ran' = ran
  BY DEF CellInv, data
<1>2. ran[l] = {} /\ tile[l] = {}
  BY <1>1 DEF CellOk
<1> QED BY <1>1, <1>2 DEF CellOk

----------------------------------------------------------------------------
(* The life of the engine.                                                 *)

LEMMA CacheInit == CacheAssumption /\ Init => CacheInv
<1> SUFFICES ASSUME CacheAssumption, Init PROVE CacheInv
  OBVIOUS
<1>1. RegistryInv
  BY RegistryInit DEF CacheAssumption
<1>2. /\ phase = "profile" /\ epoch = 0 /\ lookup_upper_bound \in LookupBounds /\ live = {}
      /\ owner = [l \in Layers |-> None] /\ group_key = Shape
      /\ kv_cache_ref = [l \in Layers |-> None] /\ b2s_ptr = [l \in Layers |-> None]
      /\ dict_map = [k \in Keys |-> None] /\ current = [k \in Keys |-> None]
      /\ graph = [l \in Layers |-> None]
      /\ pass = [mode |-> "profile", builds |-> {}, runs |-> Layers, cell |-> <<>>]
      /\ pool = [l \in Layers |-> [x \in Slots \X Parts |-> None]]
      /\ tile = [l \in Layers |-> {}] /\ ran = [l \in Layers |-> {}]
  BY DEF Init, Idle
<1>3. CacheTypes
  <2>1. group_key \in [Layers -> Keys] /\ lookup_upper_bound \in Nat
    BY <1>2 DEF CacheAssumption, Keys
  <2>2. pool \in [Layers -> [PoolPlaces -> Tags \cup {None}]]
    BY <1>2 DEF PoolPlaces
  <2> QED BY <1>2, <2>1, <2>2 DEF CacheTypes
<1>4. ModeInv /\ RunsInv /\ KeyInv
  BY <1>2 DEF ModeInv, Modes, RunsInv, KeyInv
<1>5. RefInv /\ PointerInv
  BY <1>2 DEF RefInv, PointerInv, Pointed, Captured, CacheAssumption
<1>6. MirrorInv
  BY <1>2 DEF MirrorInv, MirrorOk, OneSlotEach, Held
<1>7. CellInv
  BY <1>2 DEF CellInv, CellOk, PoolPlaces
<1>8. SizeInv
  BY <1>2 DEF SizeInv
<1> QED BY <1>1, <1>3, <1>4, <1>5, <1>6, <1>7, <1>8 DEF CacheInv

\* The profile run of one layer.
LEMMA CacheRunProfile ==
  ASSUME CacheAssumption, CacheInv, RegistryInv', NEW l \in Layers, RunProfile(l)
  PROVE  CacheInv' /\ UNCHANGED ran /\ phase = "profile"
<1>1. /\ pass.mode = "profile" /\ l \in pass.runs /\ pass' = Finish(l)
      /\ EnsurePool(l, group_key[l], 0, Held(group_key[l]), Contents(group_key[l], 0))
      /\ UNCHANGED <<phase, epoch, lookup_upper_bound, graph, registry, group_key, kv_cache_ref, data>>
      /\ owner' = owner /\ live' = live /\ pool' = pool /\ tile' = tile /\ ran' = ran
  BY DEF RunProfile, registry, data
<1>2. /\ GroupsPartition /\ RegistryInv /\ CacheTypes /\ ModeInv /\ RunsInv /\ KeyInv /\ RefInv
      /\ MirrorInv /\ PointerInv /\ CellInv /\ SizeInv
  BY DEF CacheInv, CacheAssumption
<1>3. phase = "profile" /\ epoch = 0 /\ pass.builds = {}
  BY <1>1, <1>2 DEF ModeInv, CacheTypes, Idle
<1> DEFINE k == group_key[l]
           held == Held(k)
           slots == Contents(k, 0)
<1>4. k \in Keys /\ 0 \in Nat /\ 0 \in 0 .. NumGpuBlocks
  BY <1>2 DEF CacheTypes, CacheAssumption
<1>5. Injective(held)
  BY <1>2, <1>4, HeldTyped DEF Injective, MirrorInv, MirrorOk
<1>6. slots = Resynced(held, MirrorOf(k, 0).size)
  BY <1>2, <1>4, ContentsResynced
<1>7. EnsurePool(l, k, 0, held, slots)
  BY <1>1
<1> HIDE DEF k, held, slots
<1>8. /\ dict_map' \in [Keys -> Dicts \cup {None}] /\ current' \in [Keys -> Mirrors \cup {None}]
      /\ b2s_ptr' \in [Layers -> Mirrors \cup {None}]
      /\ MirrorInv'
  BY <1>1, <1>2, <1>3, <1>4, <1>5, <1>6, <1>7, Ensured
<1>9. /\ ModeInv' /\ RunsInv' /\ pass'.runs \subseteq Layers /\ pass'.builds = {}
      /\ pass'.runs \subseteq pass.runs \ {l}
  BY <1>1, <1>2, <1>3, Finishing
<1>10. CacheTypes'
  BY <1>1, <1>2, <1>8, <1>9 DEF CacheTypes
<1>11. KeyInv' /\ RefInv' /\ PointerInv'
  BY <1>1, <1>2, <1>3 DEF KeyInv, RefInv, PointerInv, Pointed, Captured
<1>12. CellInv'
  BY <1>1, <1>2, <1>3, NothingWritten
<1>13. SizeInv'
  <2> SUFFICES ASSUME LookupSize(0)' >= NumGpuBlocks
               PROVE  /\ \A j \in Keys : current'[j] # None => current'[j].size = LookupSize(0)'
                      /\ \A i \in Layers : b2s_ptr'[i] # None => b2s_ptr'[i].size = LookupSize(0)'
                      /\ \A i \in Layers : phase' # "profile" \/ i \notin pass'.runs =>
                           WarmDecodeKernels(i, LookupSize(0)') \subseteq warmed'
    BY DEF SizeInv
  <2>1. LookupSize(0)' = LookupSize(0)
    BY <1>1 DEF LookupSize
  <2>2. /\ \A j \in Keys : current'[j] # None => current'[j].size = LookupSize(0)
        /\ \A i \in Layers : b2s_ptr'[i] # None => b2s_ptr'[i].size = LookupSize(0)
        /\ warmed' = warmed \cup WarmDecodeKernels(l, LookupSize(0))
    BY <1>1, <1>2, <1>3, <1>4, <1>5, <1>6, <1>7, <2>1, EnsuredSizes
  <2>3. ASSUME NEW i \in Layers, phase' # "profile" \/ i \notin pass'.runs
        PROVE  WarmDecodeKernels(i, LookupSize(0)) \subseteq warmed'
    <3>1. CASE i = l
      BY <2>2, <3>1
    <3>2. CASE i # l
      <4>1. i \notin pass.runs
        <5>1. CASE pass.runs = {l}
          BY <3>2, <5>1
        <5>2. CASE pass.runs # {l}
          <6>1. pass'.runs = pass.runs \ {l}
            BY <1>1, <1>2, <5>2 DEF Finish, ModeInv
          <6> QED BY <1>1, <1>3, <2>3, <3>2, <6>1
        <5> QED BY <5>1, <5>2
      <4>2. WarmDecodeKernels(i, LookupSize(0)) \subseteq warmed
        BY <1>2, <2>1, <4>1 DEF SizeInv
      <4> QED BY <2>2, <4>2
    <3> QED BY <3>1, <3>2
  <2> QED BY <2>1, <2>2, <2>3
<1> QED BY <1>1, <1>3, <1>8, <1>9, <1>10, <1>11, <1>12, <1>13 DEF CacheInv

\* A KV cache is made: the impls keep their pools and their pointers.
LEMMA CacheRenew ==
  ASSUME CacheAssumption, CacheInv, RegistryInv', NEW e \in 1 .. 2, InitKVCache(e)
  PROVE  CacheInv' /\ ran' = [l \in Layers |-> {}] /\ UNCHANGED classvars
<1>1. /\ pass = Idle
      /\ phase = "profile" \/ (phase = "warm" /\ epoch = 1 /\ e = 2)
      /\ phase' = "attn" /\ epoch' = e /\ live' = {}
      /\ graph' = [l \in Layers |-> None]
      /\ tile' = [l \in Layers |-> {}] /\ ran' = [l \in Layers |-> {}]
      /\ UNCHANGED <<lookup_upper_bound, pass, owner, impl_by_name, group_key, kv_cache_ref,
                     b2s_ptr, dict_map, current, mirror, warmed, pool>>
  BY DEF InitKVCache, impls, classvars
<1>2. /\ CacheTypes /\ ModeInv /\ RunsInv /\ KeyInv /\ RefInv
      /\ MirrorInv /\ PointerInv /\ CellInv /\ SizeInv /\ None \notin 0 .. 2
  BY DEF CacheInv, CacheAssumption
<1>3. pass = Idle /\ epoch < e /\ epoch \in 0 .. 2
  BY <1>1, <1>2 DEF ModeInv, CacheInv, RegistryInv, RegistryTypes
<1>4. CacheTypes'
  <2>1. kv_cache_ref \in [Layers -> (1 .. e) \cup {None}]
    BY <1>2, <1>3 DEF CacheTypes
  <2>2. tile' \in [Layers -> SUBSET Cells] /\ ran' \in [Layers -> SUBSET Cells]
        /\ graph' \in [Layers -> Graphs \cup {None}]
    BY <1>1
  <2>3. pass'.runs = {} /\ pass'.builds = {}
    BY <1>1, <1>3 DEF Idle
  <2> QED BY <1>1, <1>2, <2>1, <2>2, <2>3 DEF CacheTypes
<1>5. ModeInv' /\ RunsInv'
  BY <1>1, <1>3 DEF ModeInv, Modes, RunsInv, Idle
<1>6. KeyInv' /\ RefInv'
  BY <1>1, <1>2, <1>3 DEF KeyInv, RefInv, CacheTypes
<1>7. PointerInv'
  BY <1>1, <1>6 DEF RefInv, PointerInv, Pointed, Captured
<1>8. MirrorInv'
  <2>1. \A h : LookupSize(h)' = LookupSize(h)
    BY <1>1 DEF LookupSize
  <2>2. \A k : Held(k)' = Held(k)
    BY <1>1 DEF Held
  <2>3. \A h, n : Resynced(h, n)' = Resynced(h, n)
    BY DEF Resynced
  <2> QED BY <1>1, <1>2, <2>1, <2>2, <2>3 DEF MirrorInv, MirrorOk
<1>9. CellInv'
  <2> SUFFICES ASSUME NEW l \in Layers PROVE CellOk(l)'
    BY DEF CellInv
  <2>1. ASSUME NEW x \in PoolPlaces, pool[l][x] # None
        PROVE  pool[l][x][1] < e
    <3>1. pool[l][x][1] <= epoch
      BY <1>2, <2>1 DEF CellInv, CellOk
    <3>2. pool[l][x] \in Tags
      BY <1>2, <2>1 DEF CacheTypes
    <3> QED BY <1>3, <3>1, <3>2 DEF Tags
  <2>2. \A x \in PoolPlaces : pool[l][x] # None => pool[l][x] \in Tags
    BY <1>2 DEF CacheTypes
  <2>3. \A x \in PoolPlaces : pool[l][x] # None => pool[l][x][1] <= e /\ pool[l][x][1] # e
    BY <1>3, <2>1, <2>2 DEF Tags
  <2> QED BY <1>1, <2>3 DEF CellOk
<1>10. SizeInv'
  <2>1. LookupSize(0)' = LookupSize(0) /\ \A l, n : WarmDecodeKernels(l, n)' = WarmDecodeKernels(l, n)
    BY <1>1 DEF LookupSize, WarmDecodeKernels
  <2>2. pass.runs = {}
    BY <1>3 DEF Idle
  <2> QED BY <1>1, <1>2, <2>1, <2>2 DEF SizeInv
<1> QED BY <1>1, <1>4, <1>5, <1>6, <1>7, <1>8, <1>9, <1>10 DEF CacheInv, classvars

\* A builder is made: the layers it claims forget their cache, its key its
\* dictionary and its mirror.
LEMMA CacheClaim ==
  ASSUME CacheAssumption, CacheInv, RegistryInv', NEW b \in Builders, NewBuilder(b)
  PROVE  CacheInv' /\ UNCHANGED ran /\ warmed' = warmed
<1> DEFINE claims == {l \in b.layers : MayClaim(b, l)}
           k == b.layers
<1>1. /\ phase = "attn"
      /\ owner' = [l \in Layers |-> IF l \in claims THEN b ELSE owner[l]]
      /\ dict_map' = [dict_map EXCEPT ![k] = None]
      /\ current' = [current EXCEPT ![k] = None]
      /\ group_key' = [l \in Layers |-> IF l \in claims THEN k ELSE group_key[l]]
      /\ kv_cache_ref' = [l \in Layers |-> IF l \in claims THEN None ELSE kv_cache_ref[l]]
      /\ b2s_ptr' = [l \in Layers |-> IF l \in claims THEN None ELSE b2s_ptr[l]]
      /\ UNCHANGED <<phase, epoch, lookup_upper_bound, pass, graph, mirror, warmed, pool, tile, ran>>
  BY DEF NewBuilder, ResetGroupState, data
<1>2. /\ CacheTypes /\ ModeInv /\ RunsInv /\ KeyInv /\ RefInv
      /\ MirrorInv /\ PointerInv /\ CellInv /\ SizeInv /\ None \notin 0 .. 2
  BY DEF CacheInv, CacheAssumption
<1>3. k \in Keys /\ pass = Idle /\ epoch \in 0 .. 2
  BY <1>1, <1>2 DEF ModeInv, Builders, Keys, CacheInv, RegistryInv, RegistryTypes
<1> HIDE DEF claims, k
<1>4. CacheTypes'
  <2>1. pass'.runs = {} /\ pass'.builds = {}
    BY <1>1, <1>3 DEF Idle
  <2>2. /\ group_key' \in [Layers -> Keys] /\ kv_cache_ref' \in [Layers -> (1 .. epoch) \cup {None}]
        /\ b2s_ptr' \in [Layers -> Mirrors \cup {None}]
    BY <1>1, <1>2, <1>3 DEF CacheTypes
  <2>3. dict_map' \in [Keys -> Dicts \cup {None}] /\ current' \in [Keys -> Mirrors \cup {None}]
    BY <1>1, <1>2, <1>3 DEF CacheTypes
  <2> QED BY <1>1, <1>2, <2>1, <2>2, <2>3 DEF CacheTypes
<1>5. ModeInv' /\ RunsInv'
  BY <1>1, <1>2, <1>3 DEF ModeInv, Modes, RunsInv, Idle
<1>6. KeyInv' /\ RefInv'
  <2>1. KeyInv'
    BY <1>1, <1>2 DEF KeyInv, CacheTypes, k
  <2>2. RefInv'
    BY <1>1, <1>2, <1>3 DEF RefInv
  <2> QED BY <2>1, <2>2
<1>7. PointerInv'
  BY <1>1, <1>6 DEF RefInv, PointerInv, Pointed, Captured
<1>8. MirrorInv'
  <2>1. \A h : LookupSize(h)' = LookupSize(h)
    BY <1>1 DEF LookupSize
  <2>2. \A j \in Keys : j # k => dict_map'[j] = dict_map[j] /\ current'[j] = current[j]
    BY <1>1, <1>2 DEF CacheTypes
  <2>3. dict_map'[k] = None /\ current'[k] = None
    BY <1>1, <1>2, <1>3 DEF CacheTypes
  <2>4. \A h, n : Resynced(h, n)' = Resynced(h, n)
    BY DEF Resynced
  <2>5. MirrorOk(k)'
    BY <2>3 DEF MirrorOk, Held, OneSlotEach
  <2>6. ASSUME NEW j \in Keys, j # k PROVE MirrorOk(j)'
    <3>1. Held(j)' = Held(j)
      BY <2>2, <2>6 DEF Held
    <3> QED BY <1>1, <1>2, <2>1, <2>2, <2>4, <2>6, <3>1 DEF MirrorInv, MirrorOk
  <2> QED BY <1>3, <2>5, <2>6 DEF MirrorInv
<1>9. CellInv'
  BY <1>1, <1>2, NothingWritten DEF data
<1>10. SizeInv'
  <2>1. LookupSize(0)' = LookupSize(0) /\ \A l, n : WarmDecodeKernels(l, n)' = WarmDecodeKernels(l, n)
    BY <1>1 DEF LookupSize, WarmDecodeKernels
  <2>2. /\ \A j \in Keys : current'[j] = current[j] \/ current'[j] = None
        /\ \A l \in Layers : b2s_ptr'[l] = b2s_ptr[l] \/ b2s_ptr'[l] = None
    BY <1>1, <1>2, <1>3 DEF CacheTypes
  <2> QED BY <1>1, <1>2, <2>1, <2>2 DEF SizeInv
<1> QED BY <1>1, <1>4, <1>5, <1>6, <1>7, <1>8, <1>9, <1>10 DEF CacheInv

\* A step that leaves the classes, the impls and the data of a cache alone.
LEMMA CacheUntouched ==
  ASSUME CacheAssumption, CacheInv, RegistryInv', ModeInv', RunsInv', phase' # "attn", phase # "profile",
         pass'.runs \subseteq Layers, pass'.builds \subseteq live,
         phase' \in {"warm", "serve"}, phase = "serve" => phase' = "serve",
         UNCHANGED <<epoch, lookup_upper_bound, graph, registry, impls, classvars, data>>
  PROVE  CacheInv'
<1>1. UNCHANGED <<epoch, lookup_upper_bound, graph, owner, impl_by_name, live, group_key, kv_cache_ref,
                  b2s_ptr, dict_map, current, mirror, warmed, pool, tile, ran>>
  BY DEF registry, impls, classvars, data
<1>2. /\ CacheTypes /\ KeyInv /\ MirrorInv /\ PointerInv /\ CellInv /\ SizeInv
  BY DEF CacheInv
<1>3. /\ \A h : LookupSize(h)' = LookupSize(h)
      /\ \A k : Held(k)' = Held(k)
      /\ \A h, n : Resynced(h, n)' = Resynced(h, n)
      /\ \A l, n : WarmDecodeKernels(l, n)' = WarmDecodeKernels(l, n)
      /\ CacheBlocks' = CacheBlocks
      /\ \A b, k : Complete(b, k)' = Complete(b, k)
  BY <1>1 DEF LookupSize, Held, Resynced, WarmDecodeKernels, CacheBlocks, Complete, Owned
<1>4. CacheTypes' /\ KeyInv' /\ RefInv'
  BY <1>1, <1>2 DEF CacheTypes, KeyInv, RefInv
<1>5. MirrorInv' /\ PointerInv' /\ SizeInv'
  BY <1>1, <1>2, <1>3 DEF MirrorInv, MirrorOk, PointerInv, Pointed, Captured, SizeInv
<1>6. CellInv'
  <2> SUFFICES ASSUME NEW l \in Layers PROVE CellOk(l)'
    BY DEF CellInv
  <2>1. CellOk(l) /\ \A c : Kept(l, c)' = Kept(l, c)
    BY <1>1, <1>2, <1>3 DEF CellInv, Kept
  <2>2. owner'[l] = owner[l] /\ \A k : Complete(owner[l], k)' = Complete(owner[l], k)
    BY <1>1, <1>3
  <2> QED BY <1>1, <2>1, <2>2 DEF CellOk
<1> QED BY <1>4, <1>5, <1>6 DEF CacheInv

\* A pass starts.
LEMMA CacheStartPass ==
  ASSUME CacheAssumption, CacheInv, RegistryInv', NEW g \in {Targets, Drafts},
         NEW mode \in {"warm", "capture", "eager", "replay"}, StartPass(g, mode)
  PROVE  CacheInv' /\ UNCHANGED <<ran, classvars>>
<1> DEFINE bs == [epoch : {epoch}, layers : g]
<1>1. /\ pass = Idle /\ bs \subseteq live
      /\ \/ mode = "warm" /\ phase = "warm"
         \/ /\ mode = "capture" /\ phase = "warm"
            /\ \A l \in Layers : owner[l] \in bs => kv_cache_ref[l] = epoch
         \/ mode = "eager" /\ phase = "serve"
         \/ /\ mode = "replay" /\ phase = "serve"
            /\ \A l \in Layers : owner[l] \in bs => graph[l] # None
      /\ pass' = [mode |-> mode, builds |-> bs, runs |-> UNION {Owned(b) : b \in bs}, cell |-> <<>>]
      /\ UNCHANGED <<phase, epoch, lookup_upper_bound, graph, registry, impls, classvars, data>>
      /\ owner' = owner /\ live' = live /\ kv_cache_ref' = kv_cache_ref /\ ran' = ran
  BY DEF StartPass, registry, impls, data
<1>2. CacheTypes /\ ModeInv /\ GroupsPartition /\ RegistryInv
  BY DEF CacheInv, CacheAssumption
<1>3. /\ pass'.mode = mode /\ pass'.builds = bs /\ pass'.runs = UNION {Owned(b) : b \in bs}
      /\ pass' = [mode |-> pass'.mode, builds |-> pass'.builds, runs |-> pass'.runs, cell |-> pass'.cell]
  BY <1>1
<1> HIDE DEF bs
<1>4. \A l \in pass'.runs : l \in Layers /\ owner[l] \in bs
  BY <1>1, <1>2, <1>3, OwnedLayers
<1>5. ModeInv'
  <2>1. pass'.mode \in Modes /\ pass'.mode \notin {"idle", "profile"}
    BY <1>3 DEF Modes
  <2>2. /\ phase' = phase /\ phase \in {"warm", "serve"}
        /\ phase = "warm" => pass'.mode \in {"warm", "capture"}
        /\ phase = "serve" => pass'.mode \in {"eager", "replay"}
    BY <1>1, <1>3
  <2> QED BY <1>1, <1>2, <1>3, <2>1, <2>2 DEF ModeInv
<1>6. RunsInv'
  BY <1>1, <1>3, <1>4 DEF RunsInv
<1>7. pass'.runs \subseteq Layers /\ pass'.builds \subseteq live /\ phase' \in {"warm", "serve"}
      /\ phase' = phase
  BY <1>1, <1>3, <1>4
<1> QED BY <1>1, <1>5, <1>6, <1>7, CacheUntouched

\* vLLM has its builders; then it serves.
LEMMA CacheAdvance ==
  ASSUME CacheAssumption, CacheInv, RegistryInv', BuildersReady \/ Serve
  PROVE  CacheInv' /\ UNCHANGED <<ran, classvars>>
<1>1. /\ (phase = "attn" /\ phase' = "warm") \/ (epoch = 2 /\ phase = "warm" /\ phase' = "serve")
      /\ pass = Idle /\ pass' = pass
      /\ UNCHANGED <<epoch, lookup_upper_bound, graph, registry, impls, classvars, data>>
      /\ epoch' = epoch /\ ran' = ran
  BY DEF BuildersReady, Serve, Advance, data
<1>2. pass'.runs = {} /\ pass'.builds = {} /\ pass'.mode = "idle"
  BY <1>1 DEF Idle
<1>3. ModeInv'
  <2>1. ModeInv
    BY DEF CacheInv
  <2> QED BY <1>1, <2>1 DEF ModeInv, Idle, Modes
<1>4. RunsInv'
  BY <1>2 DEF RunsInv
<1> QED BY <1>1, <1>2, <1>3, <1>4, CacheUntouched

----------------------------------------------------------------------------
(* The forward pass of a layer.                                            *)

\* Under capture nothing changes but the graph.
LEMMA CacheRunCapture ==
  ASSUME CacheAssumption, CacheInv, RegistryInv', NEW l \in Layers, RunCapture(l)
  PROVE  CacheInv' /\ UNCHANGED <<ran, classvars>>
<1>1. /\ pass.builds = {} /\ l \in pass.runs /\ pass.mode = "capture" /\ pass' = Finish(l)
      /\ kv_cache_ref' = [kv_cache_ref EXCEPT ![l] = epoch]
      /\ graph' = [graph EXCEPT ![l] = [mirror |-> b2s_ptr[l], cache |-> epoch]]
      /\ UNCHANGED <<phase, epoch, lookup_upper_bound, registry, group_key, b2s_ptr, classvars, data,
                     owner, impl_by_name, live, dict_map, current, mirror, warmed, pool, tile, ran>>
  BY DEF RunCapture, registry, classvars, data
<1>2. /\ CacheTypes /\ ModeInv /\ RunsInv /\ KeyInv /\ GroupsPartition /\ RegistryInv
      /\ MirrorInv /\ PointerInv /\ CellInv /\ SizeInv
  BY DEF CacheInv, CacheAssumption
<1>3. phase = "warm" /\ epoch \in 1 .. 2
  <2>1. epoch \in 0 .. 2
    BY <1>2 DEF RegistryInv, RegistryTypes
  <2> QED BY <1>1, <1>2, <2>1 DEF ModeInv, CacheTypes, Idle
<1>4. kv_cache_ref[l] = epoch
  BY <1>1, <1>2 DEF RunsInv
<1>5. kv_cache_ref' = kv_cache_ref
  BY <1>1, <1>2, <1>4 DEF CacheTypes
<1>6. b2s_ptr[l] \in Mirrors
  <2>1. b2s_ptr[l] = current[group_key[l]] /\ current[group_key[l]] # None
    BY <1>2, <1>4 DEF PointerInv, Pointed
  <2> QED BY <1>2, <2>1 DEF CacheTypes
<1>7. /\ graph' \in [Layers -> Graphs \cup {None}]
      /\ graph'[l].mirror = b2s_ptr[l] /\ graph'[l].cache = epoch
      /\ graph'[l] \in Graphs
      /\ \A i \in Layers : i # l => graph'[i] = graph[i]
  <2>1. [mirror |-> b2s_ptr[l], cache |-> epoch] \in Graphs
    BY <1>3, <1>6 DEF Graphs
  <2> QED BY <1>1, <1>2, <2>1 DEF CacheTypes
<1>8. /\ ModeInv' /\ RunsInv' /\ pass'.runs \subseteq Layers /\ pass'.builds = {}
  <2>1. graph'[l] # None
    BY <1>7 DEF CacheAssumption
  <2> QED BY <1>1, <1>2, <1>5, <1>7, <2>1, Finishing
<1>9. CacheTypes' /\ KeyInv' /\ RefInv'
  BY <1>1, <1>2, <1>3, <1>5, <1>7, <1>8 DEF CacheTypes, KeyInv, RefInv
<1>10. MirrorInv' /\ SizeInv'
  <2>1. /\ \A h : LookupSize(h)' = LookupSize(h)
        /\ \A k : Held(k)' = Held(k)
        /\ \A h, n : Resynced(h, n)' = Resynced(h, n)
        /\ \A i, n : WarmDecodeKernels(i, n)' = WarmDecodeKernels(i, n)
    BY <1>1 DEF LookupSize, Held, Resynced, WarmDecodeKernels
  <2> QED BY <1>1, <1>2, <1>3, <2>1 DEF MirrorInv, MirrorOk, SizeInv
<1>11. PointerInv'
  <2>1. \A h : LookupSize(h)' = LookupSize(h) /\ CacheBlocks' = CacheBlocks
    BY <1>1 DEF LookupSize, CacheBlocks
  <2>2. ASSUME NEW i \in Layers PROVE Pointed(i)'
    BY <1>1, <1>2, <1>5, <2>1 DEF PointerInv, Pointed
  <2>3. ASSUME NEW i \in Layers PROVE Captured(i)'
    BY <1>1, <1>2, <1>4, <1>5, <1>7 DEF PointerInv, Captured
  <2> QED BY <2>2, <2>3 DEF PointerInv
<1>12. CellInv'
  BY <1>1, <1>2, <1>3, NothingWritten
<1> QED BY <1>1, <1>8, <1>9, <1>10, <1>11, <1>12 DEF CacheInv

\* The store of a cell whose block holds a slot: no other cell is in its place.
LEMMA Stored ==
  ASSUME CacheAssumption, CacheInv, NEW l \in Layers, NEW c \in Cells, phase = "serve",
         c[1] \in DOMAIN Held(group_key[l]),
         pool' = [pool EXCEPT ![l][<<Held(group_key[l])[c[1]], c[2]>>] = <<epoch, c[1]>>],
         ran' = [ran EXCEPT ![l] = @ \cup {c}],
         \A i \in Layers : kv_cache_ref[i] = epoch => kv_cache_ref'[i] = epoch,
         kv_cache_ref'[l] = epoch, \A k \in Keys : Held(k)' = Held(k),
         UNCHANGED <<phase, epoch, registry, group_key, tile>>
  PROVE  /\ CellInv'
         /\ pool' \in [Layers -> [PoolPlaces -> Tags \cup {None}]] /\ ran' \in [Layers -> SUBSET Cells]
<1> DEFINE h == Held(group_key[l])
           place == <<h[c[1]], c[2]>>
           tag == <<epoch, c[1]>>
<1>1. CacheTypes /\ CellInv /\ MirrorInv /\ ModeInv /\ RegistryInv /\ GroupsPartition
  BY DEF CacheInv, CacheAssumption
<1>2. /\ group_key[l] \in Keys /\ pool \in [Layers -> [PoolPlaces -> Tags \cup {None}]]
      /\ ran \in [Layers -> SUBSET Cells] /\ tile \in [Layers -> SUBSET Cells]
      /\ group_key \in [Layers -> Keys]
  BY <1>1 DEF CacheTypes
<1>3. c = <<c[1], c[2]>> /\ c[1] \in Blocks /\ c[2] \in Parts
  BY DEF Cells
<1>4. h[c[1]] \in Slots /\ OneSlotEach(h)
  BY <1>1, <1>2, HeldTyped DEF MirrorInv, MirrorOk
<1>5. place \in PoolPlaces /\ tag \in Tags /\ epoch = 2
  <2>1. epoch = 2
    BY <1>1 DEF ModeInv
  <2> QED BY <1>3, <1>4, <2>1 DEF PoolPlaces, Tags
<1>6. place[2] = c[2] /\ tag[1] = epoch /\ tag[2] = c[1]
  OBVIOUS
<1>7. pool' = [pool EXCEPT ![l][place] = tag]
  OBVIOUS
<1>8. \A x, y \in DOMAIN h : \A p, q : <<h[x], p>> = <<h[y], q>> => x = y /\ p = q
  BY <1>4 DEF OneSlotEach
<1>9. \A d \in ran[l] : d = <<d[1], d[2]>>
  BY <1>2 DEF Cells
<1>10. \A d \in ran[l] : d[1] \in DOMAIN h /\ <<h[d[1]], d[2]>> = place => d = c
  BY <1>3, <1>8, <1>9
<1> HIDE DEF place, tag
<1>11. /\ pool' \in [Layers -> [PoolPlaces -> Tags \cup {None}]] /\ ran' \in [Layers -> SUBSET Cells]
       /\ pool'[l][place] = tag
       /\ \A x \in PoolPlaces : x # place => pool'[l][x] = pool[l][x]
       /\ \A i \in Layers : i # l => pool'[i] = pool[i] /\ ran'[i] = ran[i]
       /\ ran'[l] = ran[l] \cup {c}
  <2>1. pool[l] \in [PoolPlaces -> Tags \cup {None}]
    BY <1>2
  <2>2. [pool[l] EXCEPT ![place] = tag] \in [PoolPlaces -> Tags \cup {None}]
    BY <1>5, <2>1
  <2>3. pool' = [pool EXCEPT ![l] = [pool[l] EXCEPT ![place] = tag]]
    BY <1>2, <1>7
  <2>4. pool'[l] = [pool[l] EXCEPT ![place] = tag] /\ \A i \in Layers : i # l => pool'[i] = pool[i]
    BY <1>2, <2>3
  <2>5. pool' \in [Layers -> [PoolPlaces -> Tags \cup {None}]]
    BY <1>2, <2>2, <2>3
  <2>6. pool'[l][place] = tag /\ \A x \in PoolPlaces : x # place => pool'[l][x] = pool[l][x]
    BY <1>5, <2>1, <2>4
  <2>7. /\ ran' \in [Layers -> SUBSET Cells] /\ ran'[l] = ran[l] \cup {c}
        /\ \A i \in Layers : i # l => ran'[i] = ran[i]
    BY <1>2
  <2> QED BY <2>4, <2>5, <2>6, <2>7
<1>12. /\ owner' = owner /\ \A i \in Layers : owner[i] \in live
       /\ \A b : Owned(b)' = Owned(b)
  BY <1>1, OwnersAreLive DEF registry, Owned
<1>13. \A b \in live : \A k : Complete(b, k) => Complete(b, k)'
  <2>1. \A b \in live : Owned(b) \subseteq Layers
    BY <1>1, OwnedLayers
  <2>2. \A i \in Layers : ran[i] \subseteq ran'[i]
    BY <1>11
  <2> QED BY <1>12, <2>1, <2>2 DEF Complete
<1>14. ASSUME NEW i \in Layers, i # l PROVE CellOk(i)'
  <2>1. CellOk(i)
    BY <1>1 DEF CellInv
  <2>2. \A d : Kept(i, d) => Kept(i, d)'
    BY <1>2, <1>11, <1>14 DEF Kept
  <2>3. tile' = tile /\ owner'[i] = owner[i] /\ pool'[i] = pool[i] /\ ran'[i] = ran[i]
    BY <1>11, <1>12, <1>14
  <2>4. \A d \in tile'[i] : Complete(owner[i], d[1])'
    BY <1>12, <1>13, <2>1, <2>3 DEF CellOk
  <2>5. \A d \in ran'[i] : Kept(i, d)'
    BY <2>1, <2>2, <2>3 DEF CellOk
  <2> QED BY <2>1, <2>3, <2>4, <2>5 DEF CellOk
<1>15. CellOk(l)'
  <2>1. CellOk(l)
    BY <1>1 DEF CellInv
  <2>2. tile'[l] \subseteq ran'[l]
    BY <1>11, <2>1 DEF CellOk
  <2>3. ASSUME NEW x \in PoolPlaces, pool'[l][x] # None
        PROVE  pool'[l][x][1] <= epoch /\ (pool'[l][x][1] = epoch => <<pool'[l][x][2], x[2]>> \in ran'[l])
    <3>1. CASE x = place
      <4>1. <<tag[2], place[2]>> = c
        BY <1>3, <1>6
      <4> QED BY <1>5, <1>6, <1>11, <3>1, <4>1
    <3>2. CASE x # place
      BY <1>11, <2>1, <2>3, <3>2 DEF CellOk
    <3> QED BY <3>1, <3>2
  <2>4. ASSUME NEW d \in ran'[l] PROVE Kept(l, d)'
    <3>1. Held(group_key[l])' = h /\ group_key' = group_key
      BY <1>2 DEF Held
    <3>2. d \in Cells
      BY <1>11
    <3>3. CASE d = c
      BY <1>11, <3>1, <3>3 DEF Kept, place, tag
    <3>4. CASE d # c
      <4>1. d \in ran[l] /\ Kept(l, d)
        BY <1>11, <2>1, <3>4 DEF CellOk
      <4>2. CASE d[1] \in DOMAIN h
        <5>1. <<h[d[1]], d[2]>> # place /\ <<h[d[1]], d[2]>> \in PoolPlaces
          <6>1. h[d[1]] \in Slots /\ d[2] \in Parts
            BY <1>1, <1>2, <3>2, <4>2, HeldTyped DEF Cells
          <6> QED BY <1>10, <3>4, <4>1, <4>2, <6>1 DEF PoolPlaces
        <5>2. pool[l][<<h[d[1]], d[2]>>] = <<epoch, d[1]>>
          BY <4>1, <4>2 DEF Kept
        <5>3. pool'[l][<<h[d[1]], d[2]>>] = <<epoch, d[1]>>
          BY <1>11, <5>1, <5>2
        <5> QED BY <3>1, <4>2, <5>3 DEF Kept
      <4>3. CASE d[1] \notin DOMAIN h
        <5>1. d \in tile[l]
          BY <4>1, <4>3 DEF Kept
        <5> QED BY <3>1, <4>3, <5>1 DEF Kept
      <4> QED BY <4>2, <4>3
    <3> QED BY <3>3, <3>4
  <2>5. \A d \in tile'[l] : Complete(owner[l], d[1])'
    BY <1>12, <1>13, <2>1 DEF CellOk
  <2> QED BY <2>2, <2>3, <2>4, <2>5 DEF CellOk
<1> QED BY <1>11, <1>14, <1>15 DEF CellInv

\* Where the store of a step's cell goes, when the mirror it is launched on is
\* the layer's own and covers the cache.
LEMMA StoreFindsTheSlot ==
  ASSUME CacheAssumption, CacheInv, NEW l \in Layers, NEW m, phase = "serve",
         ~Dummy, Ready(l), Store(l, m),
         m \in Mirrors, m.size >= NumGpuBlocks,
         mirror'[m] = Resynced(Held(group_key[l]), m.size)
  PROVE  \E c \in Cells :
           /\ c[1] \in DOMAIN Held(group_key[l])
           /\ pool' = [pool EXCEPT ![l][<<Held(group_key[l])[c[1]], c[2]>>] = <<epoch, c[1]>>]
           /\ ran' = [ran EXCEPT ![l] = @ \cup {c}] /\ tile' = tile
<1>1. /\ GroupsPartition /\ RegistryInv /\ KeyInv /\ CacheTypes /\ None \notin Slots
      /\ NumGpuBlocks \in Nat
  BY DEF CacheInv, CacheAssumption
<1>2. group_key[l] = owner[l].layers /\ group_key[l] \in Keys
  BY <1>1, OwnersAreLive DEF KeyInv
<1> DEFINE c == pass.cell[owner[l].layers]
           h == Held(group_key[l])
<1>3. c \in Cells /\ c[1] \in DOMAIN h
  BY <1>2 DEF Ready
<1>4. /\ pool' = StoredBy(l, m, c) /\ ran' = [ran EXCEPT ![l] = @ \cup {c}] /\ tile' = tile
  BY DEF Store
<1>5. c[1] \in Blocks /\ c[1] < NumGpuBlocks /\ c[1] < m.size
  <2>1. c[1] \in 0 .. NumGpuBlocks - 1
    BY <1>3 DEF Cells, Blocks
  <2>2. m.size \in Nat
    BY DEF Mirrors
  <2> QED BY <1>1, <2>1, <2>2 DEF Blocks
<1>6. c[1] \in DOMAIN mirror'[m] /\ mirror'[m][c[1]] = h[c[1]]
  BY <1>3, <1>5 DEF Resynced
<1>7. h[c[1]] # None
  BY <1>1, <1>2, <1>3, HeldTyped
<1>8. pool' = [pool EXCEPT ![l][<<h[c[1]], c[2]>>] = <<epoch, c[1]>>]
  BY <1>4, <1>6, <1>7 DEF StoredBy
<1> QED BY <1>3, <1>4, <1>8

\* A pass of a layer run by Python: _ensure_pool, then the store.
LEMMA CacheRunEager ==
  ASSUME CacheAssumption, CacheInv, RegistryInv', NEW l \in Layers, RunEager(l)
  PROVE  /\ CacheInv'
         /\ ran' = ran \/ \E c \in Cells : ran' = [ran EXCEPT ![l] = @ \cup {c}]
         /\ LookupSize(0) >= NumGpuBlocks => warmed' = warmed
<1> DEFINE k == group_key[l]
           held == Held(k)
           slots == Contents(k, CacheBlocks)
<1>1. /\ pass.builds = {} /\ l \in pass.runs /\ pass.mode \in {"warm", "eager"} /\ pass' = Finish(l)
      /\ EnsurePool(l, k, CacheBlocks, held, slots)
      /\ kv_cache_ref' = [kv_cache_ref EXCEPT ![l] = epoch]
      /\ Store(l, b2s_ptr'[l])
      /\ UNCHANGED <<phase, epoch, lookup_upper_bound, graph, registry, group_key, owner, impl_by_name, live>>
  BY DEF RunEager, registry
<1>2. /\ CacheTypes /\ ModeInv /\ RunsInv /\ KeyInv /\ GroupsPartition /\ RegistryInv
      /\ MirrorInv /\ PointerInv /\ CellInv /\ SizeInv /\ NumGpuBlocks \in Nat
  BY DEF CacheInv, CacheAssumption
<1>3. /\ epoch \in 1 .. 2 /\ phase \in {"warm", "serve"}
      /\ pass.mode = "warm" => phase = "warm" /\ Dummy
      /\ pass.mode = "eager" => phase = "serve" /\ epoch = 2 /\ ~Dummy
  <2>1. epoch \in 0 .. 2
    BY <1>2 DEF RegistryInv, RegistryTypes
  <2> QED BY <1>1, <1>2, <2>1 DEF ModeInv, CacheTypes, Idle, Dummy
<1>4. CacheBlocks \in Nat /\ CacheBlocks \in 0 .. NumGpuBlocks /\ (epoch = 2 => CacheBlocks = NumGpuBlocks)
  BY DEF CacheBlocks, CacheAssumption
<1>5. k \in Keys
  BY <1>2 DEF CacheTypes
<1>6. Injective(held)
  BY <1>2, <1>5, HeldTyped DEF Injective, MirrorInv, MirrorOk
<1>7. slots = Resynced(held, MirrorOf(k, CacheBlocks).size)
  BY <1>2, <1>4, <1>5, ContentsResynced
<1> HIDE DEF k, held, slots
<1>8. /\ dict_map' \in [Keys -> Dicts \cup {None}] /\ current' \in [Keys -> Mirrors \cup {None}]
      /\ b2s_ptr' \in [Layers -> Mirrors \cup {None}] /\ MirrorInv'
      /\ \A j \in Keys : Held(j)' = IF j = k THEN held ELSE Held(j)
      /\ \A j \in Keys : j # k \/ ~TooSmall(k, CacheBlocks) => current'[j] = current[j]
      /\ current'[k] \in Mirrors /\ b2s_ptr'[l] = current'[k]
      /\ current'[k].size >= LookupSize(CacheBlocks)
      /\ \A i \in Layers : i # l => b2s_ptr'[i] = b2s_ptr[i]
  BY <1>1, <1>2, <1>3, <1>4, <1>5, <1>6, <1>7, Ensured
<1>9. \A j \in Keys : Held(j)' = Held(j)
  BY <1>8 DEF held
<1>10. /\ kv_cache_ref' \in [Layers -> (1 .. epoch) \cup {None}] /\ kv_cache_ref'[l] = epoch
       /\ \A i \in Layers : i # l => kv_cache_ref'[i] = kv_cache_ref[i]
  BY <1>1, <1>2, <1>3 DEF CacheTypes
<1>11. /\ ModeInv' /\ RunsInv' /\ pass'.runs \subseteq Layers /\ pass'.builds = {}
       /\ pass'.runs \subseteq pass.runs \ {l}
  <2>1. \A i \in Layers : /\ kv_cache_ref[i] = epoch => kv_cache_ref'[i] = epoch
                          /\ graph[i] # None => graph'[i] # None
    BY <1>1, <1>10
  <2> QED BY <1>1, <1>2, <1>9, <2>1, Finishing
<1>12. KeyInv' /\ RefInv'
  BY <1>1, <1>2, <1>3 DEF KeyInv, RefInv
<1>13. /\ \A h : LookupSize(h)' = LookupSize(h)
       /\ CacheBlocks' = CacheBlocks
       /\ LookupSize(CacheBlocks) \in Nat /\ LookupSize(CacheBlocks) >= CacheBlocks
  BY <1>1, <1>2, <1>4, LookupSizes DEF LookupSize, CacheBlocks
<1>14. \A i \in Layers : kv_cache_ref[i] = epoch /\ group_key[i] = k => ~TooSmall(k, CacheBlocks)
  <2>1. \A i \in Layers : kv_cache_ref[i] = epoch /\ group_key[i] = k =>
          current[k] # None /\ current[k].size >= LookupSize(CacheBlocks) /\ current[k] \in Mirrors
    BY <1>2, <1>5 DEF PointerInv, Pointed, CacheTypes
  <2> QED BY <1>13, <2>1 DEF TooSmall, Mirrors
<1>15. PointerInv'
  <2> SUFFICES ASSUME NEW i \in Layers PROVE Pointed(i)' /\ Captured(i)'
    BY DEF PointerInv
  <2>1. CASE i = l
    <3>1. current'[k] # None
      BY <1>8 DEF CacheAssumption
    <3>2. group_key'[l] = k
      BY <1>1 DEF k
    <3>3. LookupSize(CacheBlocks)' = LookupSize(CacheBlocks)
      BY <1>1 DEF LookupSize, CacheBlocks
    <3>4. Pointed(l)'
      BY <1>8, <3>1, <3>2, <3>3 DEF Pointed
    <3>5. ASSUME graph[l] # None
          PROVE  kv_cache_ref'[l] = epoch /\ graph[l].mirror = b2s_ptr'[l] /\ graph[l].cache = epoch
      <4>1. /\ kv_cache_ref[l] = epoch /\ graph[l].mirror = b2s_ptr[l] /\ graph[l].cache = epoch
            /\ b2s_ptr[l] = current[k]
        BY <1>2, <3>5 DEF PointerInv, Pointed, Captured, k
      <4>2. current'[k] = current[k]
        BY <1>5, <1>8, <1>14, <4>1 DEF k
      <4> QED BY <1>8, <1>10, <4>1, <4>2
    <3>6. Captured(l)'
      BY <1>1, <3>5 DEF Captured
    <3> QED BY <2>1, <3>4, <3>6
  <2>2. CASE i # l
    <3>1. Pointed(i) /\ Captured(i)
      BY <1>2 DEF PointerInv
    <3>2. kv_cache_ref[i] = epoch => current'[group_key[i]] = current[group_key[i]]
      <4>1. group_key[i] \in Keys
        BY <1>2 DEF CacheTypes
      <4> QED BY <1>8, <1>14, <4>1
    <3>3. LookupSize(CacheBlocks)' = LookupSize(CacheBlocks)
      BY <1>1 DEF LookupSize, CacheBlocks
    <3>4. /\ kv_cache_ref'[i] = kv_cache_ref[i] /\ b2s_ptr'[i] = b2s_ptr[i]
          /\ graph' = graph /\ group_key' = group_key /\ epoch' = epoch
      BY <1>1, <1>8, <1>10, <2>2
    <3>5. Pointed(i)'
      BY <3>1, <3>2, <3>3, <3>4 DEF Pointed
    <3>6. Captured(i)'
      BY <3>1, <3>4 DEF Captured
    <3> QED BY <3>5, <3>6
  <2> QED BY <2>1, <2>2
<1>16. /\ CellInv' /\ ran' \in [Layers -> SUBSET Cells] /\ tile' \in [Layers -> SUBSET Cells]
       /\ pool' \in [Layers -> [PoolPlaces -> Tags \cup {None}]]
       /\ ran' = ran \/ \E c \in Cells : ran' = [ran EXCEPT ![l] = @ \cup {c}]
  <2>1. CASE pass.mode = "warm"
    <3>1. UNCHANGED data
      BY <1>1, <1>3, <2>1 DEF Store
    <3>2. CellInv'
      BY <1>1, <1>2, <1>3, <2>1, <3>1, NothingWritten
    <3> QED BY <1>2, <3>1, <3>2 DEF CacheTypes, data
  <2>2. CASE pass.mode = "eager"
    <3>1. phase = "serve" /\ epoch = 2 /\ ~Dummy /\ Ready(l)
      BY <1>1, <1>2, <1>3, <2>2 DEF RunsInv
    <3> DEFINE m == b2s_ptr'[l]
    <3>2. m \in Mirrors /\ m.size >= NumGpuBlocks
      <4>1. m \in Mirrors /\ m.size >= LookupSize(CacheBlocks)
        BY <1>8
      <4> QED BY <1>2, <1>4, <1>13, <3>1, <4>1 DEF Mirrors
    <3>3. mirror'[m] = Resynced(Held(group_key[l]), m.size)
      <4>1. \A j \in Keys : MirrorOk(j)'
        BY <1>8 DEF MirrorInv
      <4>2. \A j \in Keys : current'[j] # None =>
              mirror'[current'[j]] = Resynced(Held(j)', current'[j].size)
        BY <4>1 DEF MirrorOk, Resynced
      <4>3. current'[k] # None
        BY <1>8 DEF CacheAssumption
      <4>4. mirror'[current'[k]] = Resynced(Held(k), current'[k].size)
        BY <1>5, <1>9, <4>2, <4>3
      <4> QED BY <1>8, <4>4 DEF k
    <3>4. PICK c \in Cells :
           /\ c[1] \in DOMAIN Held(group_key[l])
           /\ pool' = [pool EXCEPT ![l][<<Held(group_key[l])[c[1]], c[2]>>] = <<epoch, c[1]>>]
           /\ ran' = [ran EXCEPT ![l] = @ \cup {c}] /\ tile' = tile
      <4> HIDE DEF m
      <4>1. Store(l, m)
        BY <1>1 DEF m
      <4> QED BY <1>1, <3>1, <3>2, <3>3, <4>1, StoreFindsTheSlot
    <3>5. \A i \in Layers : kv_cache_ref[i] = epoch => kv_cache_ref'[i] = epoch
      BY <1>10
    <3>6. /\ CellInv'
          /\ pool' \in [Layers -> [PoolPlaces -> Tags \cup {None}]] /\ ran' \in [Layers -> SUBSET Cells]
      BY <1>1, <1>9, <1>10, <3>1, <3>4, <3>5, Stored
    <3> QED BY <1>2, <3>4, <3>6 DEF CacheTypes
  <2> QED BY <1>1, <2>1, <2>2
<1>17. CacheTypes'
  BY <1>1, <1>2, <1>8, <1>10, <1>11, <1>16 DEF CacheTypes
<1>18. SizeInv' /\ (LookupSize(0) >= NumGpuBlocks => warmed' = warmed)
  <2>1. LookupSize(0)' = LookupSize(0) /\ \A i, n : WarmDecodeKernels(i, n)' = WarmDecodeKernels(i, n)
    BY <1>1 DEF LookupSize, WarmDecodeKernels
  <2> SUFFICES ASSUME LookupSize(0) >= NumGpuBlocks
               PROVE  /\ \A j \in Keys : current'[j] # None => current'[j].size = LookupSize(0)
                      /\ \A i \in Layers : b2s_ptr'[i] # None => b2s_ptr'[i].size = LookupSize(0)
                      /\ \A i \in Layers : WarmDecodeKernels(i, LookupSize(0)) \subseteq warmed'
                      /\ warmed' = warmed
    BY <1>1, <1>3, <2>1 DEF SizeInv
  <2>2. /\ \A j \in Keys : current'[j] # None => current'[j].size = LookupSize(0)
        /\ \A i \in Layers : b2s_ptr'[i] # None => b2s_ptr'[i].size = LookupSize(0)
        /\ warmed' = warmed \cup WarmDecodeKernels(l, LookupSize(0))
    <3>1. epoch \in 0 .. 2 /\ UNCHANGED lookup_upper_bound
      BY <1>1, <1>3
    <3> QED BY <1>1, <1>2, <1>4, <1>5, <1>6, <1>7, <3>1, EnsuredSizes
  <2>3. \A i \in Layers : WarmDecodeKernels(i, LookupSize(0)) \subseteq warmed
    BY <1>2, <1>3 DEF SizeInv
  <2> QED BY <2>2, <2>3
<1> QED BY <1>8, <1>11, <1>12, <1>15, <1>16, <1>17, <1>18 DEF CacheInv

\* A replay stores on the mirror the graph was captured with.
LEMMA CacheRunReplay ==
  ASSUME CacheAssumption, CacheInv, RegistryInv', NEW l \in Layers, RunReplay(l)
  PROVE  /\ CacheInv' /\ UNCHANGED classvars
         /\ ran' = ran \/ \E c \in Cells : ran' = [ran EXCEPT ![l] = @ \cup {c}]
<1>1. /\ pass.builds = {} /\ l \in pass.runs /\ pass.mode = "replay" /\ pass' = Finish(l)
      /\ Store(l, graph[l].mirror)
      /\ UNCHANGED <<phase, epoch, lookup_upper_bound, graph, registry, impls, classvars,
                     owner, impl_by_name, live, group_key, kv_cache_ref, b2s_ptr,
                     dict_map, current, mirror, warmed>>
  BY DEF RunReplay, registry, impls, classvars
<1>2. /\ CacheTypes /\ ModeInv /\ RunsInv /\ KeyInv /\ GroupsPartition /\ RegistryInv
      /\ MirrorInv /\ PointerInv /\ CellInv /\ SizeInv /\ NumGpuBlocks \in Nat
  BY DEF CacheInv, CacheAssumption
<1>3. phase = "serve" /\ epoch = 2 /\ ~Dummy
  BY <1>1, <1>2 DEF ModeInv, CacheTypes, Idle, Dummy
<1>4. graph[l] # None /\ Ready(l)
  BY <1>1, <1>2 DEF RunsInv
<1> DEFINE m == graph[l].mirror
           k == group_key[l]
<1>5. /\ k \in Keys /\ m = current[k] /\ m \in Mirrors /\ kv_cache_ref[l] = epoch
      /\ m.size >= LookupSize(CacheBlocks)
  BY <1>2, <1>4 DEF PointerInv, Pointed, Captured, CacheTypes
<1>6. m.size >= NumGpuBlocks
  <2>1. CacheBlocks = NumGpuBlocks
    BY <1>3 DEF CacheBlocks
  <2>2. LookupSize(NumGpuBlocks) \in Nat /\ LookupSize(NumGpuBlocks) >= NumGpuBlocks
    BY <1>2, LookupSizes
  <2> QED BY <1>2, <1>5, <2>1, <2>2 DEF Mirrors
<1>7. mirror'[m] = Resynced(Held(k), m.size)
  <2>1. current[k] # None
    BY <1>5 DEF CacheAssumption
  <2> QED BY <1>1, <1>2, <1>5, <2>1 DEF MirrorInv, MirrorOk
<1>8. PICK c \in Cells :
        /\ c[1] \in DOMAIN Held(k)
        /\ pool' = [pool EXCEPT ![l][<<Held(k)[c[1]], c[2]>>] = <<epoch, c[1]>>]
        /\ ran' = [ran EXCEPT ![l] = @ \cup {c}] /\ tile' = tile
  <2>1. Store(l, m)
    BY <1>1
  <2> HIDE DEF m
  <2> QED BY <1>3, <1>4, <1>5, <1>6, <1>7, <2>1, StoreFindsTheSlot
<1>9. \A j \in Keys : Held(j)' = Held(j)
  BY <1>1 DEF Held
<1>10. /\ CellInv'
       /\ pool' \in [Layers -> [PoolPlaces -> Tags \cup {None}]] /\ ran' \in [Layers -> SUBSET Cells]
  BY <1>1, <1>3, <1>5, <1>8, <1>9, Stored
<1>11. /\ ModeInv' /\ RunsInv' /\ pass'.runs \subseteq Layers /\ pass'.builds = {}
       /\ pass'.runs \subseteq pass.runs \ {l}
  <2>1. \A i \in Layers : /\ kv_cache_ref[i] = epoch => kv_cache_ref'[i] = epoch
                          /\ graph[i] # None => graph'[i] # None
    BY <1>1
  <2> QED BY <1>1, <1>2, <1>9, <2>1, Finishing
<1>12. CacheTypes' /\ KeyInv' /\ RefInv'
  BY <1>1, <1>2, <1>3, <1>8, <1>10, <1>11 DEF CacheTypes, KeyInv, RefInv
<1>13. MirrorInv' /\ PointerInv' /\ SizeInv'
  <2>1. /\ \A h : LookupSize(h)' = LookupSize(h)
        /\ \A j : Held(j)' = Held(j)
        /\ \A h, n : Resynced(h, n)' = Resynced(h, n)
        /\ \A i, n : WarmDecodeKernels(i, n)' = WarmDecodeKernels(i, n)
        /\ CacheBlocks' = CacheBlocks
    BY <1>1 DEF LookupSize, Held, Resynced, WarmDecodeKernels, CacheBlocks
  <2> QED BY <1>1, <1>2, <1>3, <2>1 DEF MirrorInv, MirrorOk, PointerInv, Pointed, Captured, SizeInv
<1> QED BY <1>1, <1>8, <1>10, <1>11, <1>12, <1>13 DEF CacheInv

----------------------------------------------------------------------------
(* A build.                                                                *)

\* The dictionary a build leaves: what it keeps, and a slot for the step's block.
FreeSlots(kept) == Slots \ {kept[x] : x \in DOMAIN kept}
NextHeld(k, x, gone) ==
  LET kept == Without(Held(k), gone) IN
  IF x \in DOMAIN kept THEN kept ELSE Set(kept, x, CHOOSE s \in FreeSlots(kept) : TRUE)

\* held is h without gone, and with x.
Follows(held, h, x, gone) ==
  /\ DOMAIN held = {x} \cup (DOMAIN h \ gone)
  /\ \A y \in DOMAIN h \ gone : held[y] = h[y]

LEMMA NextHeldFacts ==
  ASSUME CacheAssumption, CacheTypes, MirrorInv, NEW k \in Keys, NEW x \in Blocks, NEW gone, x \notin gone,
         x \in DOMAIN Without(Held(k), gone) \/ FreeSlots(Without(Held(k), gone)) # {}
  PROVE  /\ Injective(NextHeld(k, x, gone))
         /\ Follows(NextHeld(k, x, gone), Held(k), x, gone)
<1> DEFINE kept == Without(Held(k), gone)
<1>1. /\ DOMAIN kept = DOMAIN Held(k) \ gone /\ \A y \in DOMAIN kept : kept[y] = Held(k)[y]
      /\ kept = [y \in DOMAIN kept |-> kept[y]]
  BY DEF Without
<1>2. /\ DOMAIN kept \subseteq Blocks /\ \A y \in DOMAIN kept : kept[y] \in Slots
      /\ OneSlotEach(kept)
  BY <1>1, HeldTyped DEF MirrorInv, MirrorOk, OneSlotEach
<1>3. kept \in [DOMAIN kept -> Slots]
  BY <1>1, <1>2
<1> HIDE DEF kept
<1>4. CASE x \in DOMAIN kept
  <2>1. NextHeld(k, x, gone) = kept
    BY <1>4 DEF NextHeld, kept
  <2>2. kept \in Dicts
    BY <1>2, <1>3 DEF Dicts
  <2> QED BY <1>1, <1>2, <1>4, <2>1, <2>2 DEF Injective, Follows
<1>5. CASE x \notin DOMAIN kept
  <2> DEFINE slot == CHOOSE s \in FreeSlots(kept) : TRUE
             held == Set(kept, x, slot)
  <2>1. FreeSlots(kept) # {}
    BY <1>5 DEF kept
  <2>2. slot \in FreeSlots(kept)
    BY <2>1
  <2> HIDE DEF slot
  <2>3. slot \in Slots /\ \A y \in DOMAIN kept : kept[y] # slot
    BY <2>2 DEF FreeSlots
  <2>4. NextHeld(k, x, gone) = held
    BY <1>5 DEF NextHeld, kept, slot
  <2>5. held = [y \in {x} \cup DOMAIN kept |-> IF y = x THEN slot ELSE kept[y]]
    BY DEF Set
  <2> HIDE DEF held
  <2>6. /\ DOMAIN held = {x} \cup DOMAIN kept /\ held[x] = slot
        /\ \A y \in DOMAIN kept : held[y] = kept[y]
    BY <1>5, <2>5
  <2>7. held \in [{x} \cup DOMAIN kept -> Slots]
    BY <1>2, <2>3, <2>5
  <2>8. held \in Dicts
    BY <1>2, <2>7 DEF Dicts
  <2>9. OneSlotEach(held)
    BY <1>2, <2>3, <2>6 DEF OneSlotEach
  <2> QED BY <1>1, <2>4, <2>6, <2>8, <2>9 DEF Injective, Follows
<1> QED BY <1>4, <1>5

\* What the build does with the mirror makes it the new dictionary.
LEMMA BuildResyncs ==
  ASSUME CacheAssumption, CacheTypes, MirrorInv, NEW k \in Keys, NEW x \in Blocks, NEW gone, x \notin gone,
         x \in DOMAIN Without(Held(k), gone) \/ FreeSlots(Without(Held(k), gone)) # {},
         NEW hint \in Nat, NEW slots, slots = Contents(k, hint)
  PROVE  [y \in DOMAIN slots |-> IF y \in DOMAIN NextHeld(k, x, gone) THEN NextHeld(k, x, gone)[y]
                                 ELSE IF y \in gone THEN None ELSE slots[y]]
           = Resynced(NextHeld(k, x, gone), MirrorOf(k, hint).size)
<1> DEFINE held == NextHeld(k, x, gone)
           n == MirrorOf(k, hint).size
           new == [y \in DOMAIN slots |-> IF y \in DOMAIN held THEN held[y]
                                          ELSE IF y \in gone THEN None ELSE slots[y]]
<1>1. slots = [y \in {z \in Blocks : z < n} |-> IF y \in DOMAIN Held(k) THEN Held(k)[y] ELSE None]
  BY ContentsResynced DEF Resynced
<1>2. DOMAIN held = {x} \cup (DOMAIN Held(k) \ gone)
  <2>1. Follows(held, Held(k), x, gone)
    BY NextHeldFacts
  <2> QED BY <2>1 DEF Follows
<1> HIDE DEF held, n
<1>3. ASSUME NEW y \in {z \in Blocks : z < n}
      PROVE  new[y] = IF y \in DOMAIN held THEN held[y] ELSE None
  BY <1>1, <1>2, <1>3
<1>4. DOMAIN new = {z \in Blocks : z < n}
  BY <1>1
<1>5. new = Resynced(held, n)
  BY <1>3, <1>4 DEF Resynced
<1> QED BY <1>5 DEF held, n

\* What a flush writes was written: it bears this cache's tag.
LEMMA FlushedWasWritten ==
  ASSUME CacheAssumption, CacheInv, NEW b \in live, NEW l \in Layers, l \in Owned(b), phase \in {"warm", "serve"},
         NEW gone, gone \subseteq Releasable(b)
  PROVE  /\ Flushed(l, Held(b.layers), gone) \subseteq ran[l]
         /\ \A d \in Flushed(l, Held(b.layers), gone) : Complete(b, d[1])
<1>1. /\ GroupsPartition /\ RegistryInv /\ CacheTypes /\ CellInv /\ KeyInv
  BY DEF CacheInv, CacheAssumption
<1> DEFINE h == Held(b.layers)
<1>2. b.layers \in Keys /\ CellOk(l)
  BY <1>1, OwnedLayers DEF CellInv
<1>3. ASSUME NEW d \in Flushed(l, h, gone) PROVE d \in ran[l] /\ Complete(b, d[1])
  <2>1. d \in Cells /\ d[1] \in gone /\ pool[l][<<h[d[1]], d[2]>>] = <<epoch, d[1]>>
    BY <1>3 DEF Flushed
  <2>2. d[1] \in DOMAIN h /\ (d[1] = 0 \/ Complete(b, d[1]))
    BY <2>1 DEF Releasable
  <2>3. d[1] # 0 /\ d[2] \in Parts /\ d = <<d[1], d[2]>>
    BY <2>1 DEF Cells
  <2>4. h[d[1]] \in Slots
    BY <1>1, <1>2, <2>2, HeldTyped
  <2> DEFINE x == <<h[d[1]], d[2]>>
  <2>5. x \in PoolPlaces /\ x[2] = d[2]
    BY <2>3, <2>4 DEF PoolPlaces
  <2>6. pool[l][x] \in Tags \cup {None} /\ pool[l][x] = <<epoch, d[1]>>
    BY <1>1, <2>1, <2>5 DEF CacheTypes
  <2>7. <<epoch, d[1]>> # None
    <3>1. <<epoch, d[1]>> \in (0 .. 2) \X Blocks
      BY <1>1, <2>1 DEF RegistryInv, RegistryTypes, Cells
    <3> QED BY <3>1 DEF CacheAssumption, Tags
  <2>8. d \in ran[l]
    <3>1. pool[l][x][1] = epoch /\ pool[l][x][2] = d[1] /\ pool[l][x] # None
      BY <2>6, <2>7
    <3>2. <<pool[l][x][2], x[2]>> \in ran[l]
      BY <1>2, <2>5, <3>1 DEF CellOk
    <3> QED BY <2>3, <2>5, <3>1, <3>2
  <2> QED BY <2>2, <2>3, <2>8
<1> QED BY <1>3

\* The cells of a layer through a build: a block that leaves the dictionary is
\* in the tile, and a block that enters it was never in one.
LEMMA BuildKeeps ==
  ASSUME CacheAssumption, CacheInv, NEW b \in live, phase \in {"warm", "serve"},
         NEW c \in NextCells(b), c[1] \in Blocks, NEW gone, gone \subseteq Releasable(b), c[1] \notin gone,
         NEW held, Follows(held, Held(b.layers), c[1], gone),
         \A j \in Keys : Held(j)' = IF j = b.layers THEN held ELSE Held(j),
         tile' = [l \in Layers |-> IF l \in Owned(b) THEN tile[l] \cup Flushed(l, Held(b.layers), gone)
                                   ELSE tile[l]],
         Dummy => phase = "warm",
         UNCHANGED <<phase, epoch, registry, group_key, kv_cache_ref, pool, ran>>
  PROVE  CellInv' /\ tile' \in [Layers -> SUBSET Cells]
<1> DEFINE k == b.layers
           h == Held(k)
<1>1. /\ GroupsPartition /\ RegistryInv /\ CacheTypes /\ CellInv /\ KeyInv
  BY DEF CacheInv, CacheAssumption
<1>2. k \in Keys /\ ran \in [Layers -> SUBSET Cells] /\ tile \in [Layers -> SUBSET Cells]
      /\ group_key \in [Layers -> Keys]
  BY <1>1, OwnedLayers DEF CacheTypes
<1> /\ DOMAIN held = {c[1]} \cup (DOMAIN h \ gone)
    /\ \A y \in DOMAIN h \ gone : held[y] = h[y]
  BY DEF Follows
<1>3. \A l \in Layers : l \in Owned(b) =>
        Flushed(l, h, gone) \subseteq ran[l] /\ \A d \in Flushed(l, h, gone) : Complete(b, d[1])
  BY FlushedWasWritten
<1>4. /\ owner' = owner /\ \A a : Owned(a)' = Owned(a)
      /\ \A a, x : Complete(a, x)' = Complete(a, x)
  BY DEF registry, Owned, Complete
<1>5. tile' \in [Layers -> SUBSET Cells]
  BY <1>2, <1>3
<1>6. ASSUME NEW l \in Layers PROVE CellOk(l)'
  <2>1. CellOk(l)
    BY <1>1 DEF CellInv
  <2>2. tile[l] \subseteq tile'[l] /\ (l \in Owned(b) => tile'[l] = tile[l] \cup Flushed(l, h, gone))
        /\ (l \notin Owned(b) => tile'[l] = tile[l])
    OBVIOUS
  <2>3. tile'[l] \subseteq ran'[l]
    BY <1>3, <2>1, <2>2 DEF CellOk
  <2>4. ASSUME NEW d \in ran[l] PROVE Kept(l, d)'
    <3>1. Kept(l, d) /\ d \in Cells /\ d = <<d[1], d[2]>> /\ kv_cache_ref[l] = epoch
      BY <1>2, <2>1 DEF CellOk, Cells
    <3>2. CASE l \notin Owned(b)
      <4>1. group_key[l] # k /\ group_key[l] \in Keys
        BY <1>1, <1>2, <3>2, OwnedByKey
      <4>2. Held(group_key[l])' = Held(group_key[l])
        BY <4>1 DEF Held
      <4> QED BY <2>2, <3>1, <4>2 DEF Kept
    <3>3. CASE l \in Owned(b)
      <4>1. group_key[l] = k /\ owner[l] = b
        BY <1>1, <3>3, OwnedByKey
      <4>2. Held(group_key[l])' = held /\ Held(group_key[l]) = h
        <5>1. Held(k)' = held
          BY <1>2
        <5> QED BY <4>1, <5>1 DEF Held
      <4>3. CASE d[1] \in DOMAIN h /\ d[1] \notin gone
        <5>1. held[d[1]] = h[d[1]] /\ d[1] \in DOMAIN held
          BY <4>3
        <5> QED BY <3>1, <4>2, <4>3, <5>1 DEF Kept
      <4>4. CASE d[1] \in DOMAIN h /\ d[1] \in gone
        <5>1. pool[l][<<h[d[1]], d[2]>>] = <<epoch, d[1]>>
          BY <3>1, <4>2, <4>4 DEF Kept
        <5>2. d \in Flushed(l, h, gone)
          BY <3>1, <4>4, <5>1 DEF Flushed
        <5>3. d[1] \notin DOMAIN held
          BY <4>4
        <5> QED BY <2>2, <3>3, <4>2, <5>2, <5>3 DEF Kept
      <4>5. CASE d[1] \notin DOMAIN h
        <5>1. d \in tile[l]
          BY <3>1, <4>2, <4>5 DEF Kept
        <5>2. Complete(b, d[1])
          BY <2>1, <4>1, <5>1 DEF CellOk
        <5>3. d[1] # c[1]
          <6>1. SUFFICES ASSUME d[1] = c[1] PROVE FALSE
            OBVIOUS
          <6>2. ~Dummy
            BY <2>1 DEF CellOk
          <6>3. c \in Cells /\ c \notin ran[l]
            BY <3>3, <6>2 DEF NextCells
          <6>4. c = <<c[1], c[2]>> /\ c[2] \in Parts
            BY <6>3 DEF Cells
          <6>5. <<d[1], c[2]>> \in ran[l]
            BY <3>3, <5>2, <6>4 DEF Complete
          <6> QED BY <6>1, <6>3, <6>4, <6>5
        <5>4. d[1] \notin DOMAIN held
          BY <4>5, <5>3
        <5> QED BY <2>2, <4>2, <5>1, <5>4 DEF Kept
      <4> QED BY <4>3, <4>4, <4>5
    <3> QED BY <3>2, <3>3
  <2>5. \A d \in tile'[l] : Complete(owner[l], d[1])
    <3>1. l \in Owned(b) => owner[l] = b
      BY <1>1, OwnedLayers
    <3> QED BY <1>3, <2>1, <2>2, <3>1 DEF CellOk
  <2>6. \A d \in tile'[l] : Complete(owner[l], d[1])'
    BY <1>4, <2>5
  <2> QED BY <2>1, <2>3, <2>4, <2>6 DEF CellOk
<1> QED BY <1>5, <1>6 DEF CellInv

LEMMA CacheBuild ==
  ASSUME CacheAssumption, CacheInv, RegistryInv', NEW b \in Builders, Build(b)
  PROVE  /\ CacheInv' /\ ran' = ran
         /\ LookupSize(0) >= NumGpuBlocks => warmed' = warmed
<1> DEFINE k == b.layers
           l0 == CHOOSE l \in Owned(b) : TRUE
<1>1. PICK c \in NextCells(b), gone \in SUBSET (Releasable(b)) :
        LET slots == Contents(k, c[1] + 1)
            kept  == Without(Held(k), gone)
            held  == NextHeld(k, c[1], gone) IN
        /\ c[1] \notin gone /\ (c[1] \in DOMAIN kept \/ FreeSlots(kept) # {})
        /\ EnsurePool(l0, k, c[1] + 1, held,
             [x \in DOMAIN slots |-> IF x \in DOMAIN held THEN held[x]
                                     ELSE IF x \in gone THEN None ELSE slots[x]])
        /\ group_key' = [l \in Layers |-> IF l \in Owned(b) THEN k ELSE group_key[l]]
        /\ tile' = [l \in Layers |-> IF l \in Owned(b)
                      THEN tile[l] \cup Flushed(l, Held(k), gone) ELSE tile[l]]
        /\ pass' = [pass EXCEPT !.builds = @ \ {b}, !.cell = Set(@, b.layers, c)]
  BY DEF Build, NextHeld, FreeSlots
<1>2. /\ b \in pass.builds /\ Owned(b) # {}
      /\ UNCHANGED <<phase, epoch, lookup_upper_bound, graph, registry, kv_cache_ref, pool, ran,
                     owner, impl_by_name, live>>
  BY DEF Build, registry
<1>3. /\ CacheTypes /\ ModeInv /\ RunsInv /\ KeyInv /\ GroupsPartition /\ RegistryInv
      /\ MirrorInv /\ PointerInv /\ CellInv /\ SizeInv /\ NumGpuBlocks \in Nat \ {0}
      /\ ProfBlocks \in 1 .. NumGpuBlocks
  BY DEF CacheInv, CacheAssumption
<1>4. /\ epoch \in 1 .. 2 /\ phase \in {"warm", "serve"} /\ pass.mode \in {"warm", "capture", "eager", "replay"}
      /\ phase = "serve" => epoch = 2
      /\ Dummy => phase = "warm"
      /\ ~Dummy => phase = "serve" /\ epoch = 2
  <2>1. epoch \in 0 .. 2
    BY <1>3 DEF RegistryInv, RegistryTypes
  <2>2. pass.mode \notin {"idle", "profile"}
    BY <1>2, <1>3 DEF ModeInv
  <2>3. pass.mode \in {"warm", "capture", "eager", "replay"}
    BY <1>3, <2>2 DEF ModeInv, Modes
  <2> QED BY <1>3, <2>1, <2>3 DEF ModeInv, CacheTypes, Idle, Dummy
<1>5. b \in live /\ k \in Keys /\ l0 \in Owned(b) /\ l0 \in Layers
  <2>1. b \in live /\ l0 \in Owned(b)
    BY <1>2, <1>3 DEF CacheTypes
  <2> QED BY <1>3, <2>1, OwnedLayers
<1>6. c[1] \in Blocks /\ c[1] + 1 \in Nat /\ c[1] + 1 <= CacheBlocks /\ (~Dummy => c \in Cells)
  <2>1. CASE Dummy
    BY <1>3, <2>1 DEF NextCells, Blocks, CacheBlocks
  <2>2. CASE ~Dummy
    <3>1. c \in Cells
      BY <2>2 DEF NextCells
    <3>2. c[1] \in 0 .. NumGpuBlocks - 1
      BY <3>1 DEF Cells, Blocks
    <3>3. CacheBlocks = NumGpuBlocks
      BY <1>4, <2>2 DEF CacheBlocks
    <3> QED BY <1>3, <3>1, <3>2, <3>3 DEF Blocks
  <2> QED BY <2>1, <2>2
<1>7. CacheBlocks \in Nat /\ CacheBlocks <= NumGpuBlocks
  BY <1>3 DEF CacheBlocks
<1> DEFINE hint == c[1] + 1
           held == NextHeld(k, c[1], gone)
           n == MirrorOf(k, hint).size
<1>8. Injective(held) /\ Follows(held, Held(k), c[1], gone)
  <2>1. c[1] \notin gone /\ (c[1] \in DOMAIN Without(Held(k), gone) \/ FreeSlots(Without(Held(k), gone)) # {})
    BY <1>1
  <2> QED BY <1>3, <1>5, <1>6, <2>1, NextHeldFacts
<1>9. EnsurePool(l0, k, hint, held, Resynced(held, n))
  <2> DEFINE slots == Contents(k, hint)
  <2>1. [x \in DOMAIN slots |-> IF x \in DOMAIN held THEN held[x]
                                ELSE IF x \in gone THEN None ELSE slots[x]] = Resynced(held, n)
    BY <1>1, <1>3, <1>5, <1>6, BuildResyncs
  <2> QED BY <1>1, <2>1
<1>10. hint \in Nat /\ hint <= CacheBlocks /\ hint \in 0 .. NumGpuBlocks
  BY <1>3, <1>6, <1>7
<1>11. /\ pass'.mode = pass.mode /\ pass'.runs = pass.runs /\ pass'.builds = pass.builds \ {b}
       /\ pass'.cell = Set(pass.cell, k, c)
       /\ pass' = [mode |-> pass'.mode, builds |-> pass'.builds, runs |-> pass'.runs, cell |-> pass'.cell]
  BY <1>1, <1>3 DEF ModeInv
<1>12. /\ \A l \in Layers : l \in Owned(b) => group_key[l] = k
       /\ group_key \in [Layers -> Keys]
  BY <1>3, <1>4, <1>5, OwnedByKey DEF CacheTypes
<1>13. group_key' = group_key
  BY <1>1, <1>12
<1>14. tile' = [l \in Layers |-> IF l \in Owned(b)
                  THEN tile[l] \cup Flushed(l, Held(k), gone) ELSE tile[l]]
  BY <1>1
<1>15. c \in NextCells(b) /\ gone \subseteq Releasable(b) /\ c[1] \notin gone
  BY <1>1
<1> HIDE DEF k, l0, hint, held, n
<1>16. /\ dict_map' \in [Keys -> Dicts \cup {None}] /\ current' \in [Keys -> Mirrors \cup {None}]
       /\ b2s_ptr' \in [Layers -> Mirrors \cup {None}] /\ MirrorInv'
       /\ \A j \in Keys : Held(j)' = IF j = k THEN held ELSE Held(j)
       /\ \A j \in Keys : j # k \/ ~TooSmall(k, hint) => current'[j] = current[j]
       /\ current'[k] \in Mirrors /\ b2s_ptr'[l0] = current'[k]
       /\ current'[k].size >= LookupSize(hint)
       /\ \A i \in Layers : i # l0 => b2s_ptr'[i] = b2s_ptr[i]
  <2>1. epoch \in 0 .. 2 /\ UNCHANGED lookup_upper_bound
    BY <1>2, <1>4
  <2> QED BY <1>3, <1>5, <1>8, <1>9, <1>10, <2>1, Ensured DEF n
<1>17. CellInv' /\ tile' \in [Layers -> SUBSET Cells]
  <2>1. /\ Follows(held, Held(b.layers), c[1], gone)
        /\ \A j \in Keys : Held(j)' = IF j = b.layers THEN held ELSE Held(j)
        /\ tile' = [l \in Layers |-> IF l \in Owned(b) THEN tile[l] \cup Flushed(l, Held(b.layers), gone)
                                     ELSE tile[l]]
    BY <1>8, <1>14, <1>16 DEF k
  <2>2. /\ UNCHANGED <<phase, epoch, registry, group_key, kv_cache_ref, pool, ran>>
        /\ b \in live /\ phase \in {"warm", "serve"} /\ c[1] \in Blocks
    BY <1>2, <1>4, <1>5, <1>6, <1>13
  <2> QED BY <1>4, <1>15, <2>1, <2>2, BuildKeeps
<1>18. CacheTypes'
  <2>1. pass'.runs \subseteq Layers /\ pass'.builds \subseteq live
    BY <1>3, <1>11 DEF CacheTypes
  <2> QED BY <1>2, <1>3, <1>13, <1>16, <1>17, <2>1 DEF CacheTypes
<1>19. ModeInv'
  <2>1. pass'.mode \notin {"idle", "profile"} /\ pass'.mode \in Modes
    BY <1>4, <1>11 DEF Modes
  <2>2. /\ phase = "warm" => pass.mode \in {"idle", "warm", "capture"}
        /\ phase = "serve" => pass.mode \in {"idle", "eager", "replay"}
        /\ epoch > 0
    BY <1>3, <1>4 DEF ModeInv
  <2> QED BY <1>2, <1>4, <1>11, <2>1, <2>2 DEF ModeInv
<1>20. RunsInv'
  <2> SUFFICES ASSUME NEW i \in pass.runs
               PROVE  /\ pass.mode = "capture" => kv_cache_ref[i] = epoch
                      /\ pass.mode = "replay" => graph[i] # None
                      /\ pass.mode \in {"eager", "replay"} => owner[i] \in pass'.builds \/ Ready(i)'
    BY <1>2, <1>11 DEF RunsInv
  <2>1. i \in Layers /\ owner[i] \in live /\ owner[i].layers \in Keys
    BY <1>3, <1>4, OwnersAreLive DEF CacheTypes
  <2>2. ASSUME pass.mode \in {"eager", "replay"}, owner[i] \notin pass'.builds PROVE Ready(i)'
    <3>1. c \in Cells
      BY <1>6, <2>2 DEF Dummy
    <3>2. CASE owner[i] = b
      <4>1. k \in DOMAIN pass'.cell /\ pass'.cell[k] = c
        BY <1>11 DEF Set
      <4>2. Held(k)' = held /\ owner'[i].layers = k
        BY <1>2, <1>5, <1>16, <3>2 DEF k
      <4>3. Held(owner[i].layers)' = held
        BY <4>2 DEF Held
      <4> QED BY <1>8, <3>1, <4>1, <4>2, <4>3 DEF Ready, Follows
    <3>3. CASE owner[i] # b
      <4>1. owner[i].layers # k
        BY <1>3, <1>5, <2>1, <3>3, OwnedLayers DEF k
      <4>2. Ready(i)
        BY <1>3, <1>11, <2>2, <3>3 DEF RunsInv
      <4> DEFINE j == owner[i].layers
      <4>3. j \in DOMAIN pass.cell /\ pass.cell[j] \in Cells /\ pass.cell[j][1] \in DOMAIN Held(j)
        BY <4>2 DEF Ready
      <4>4. j \in DOMAIN pass'.cell /\ pass'.cell[j] = pass.cell[j]
        BY <1>11, <4>1, <4>3 DEF Set
      <4>5. owner' = owner /\ Held(owner[i].layers)' = Held(owner[i].layers)
        BY <1>2, <1>16, <2>1, <4>1 DEF Held
      <4> QED BY <4>3, <4>4, <4>5 DEF Ready
    <3> QED BY <3>2, <3>3
  <2> QED BY <1>3, <2>2 DEF RunsInv
<1>21. KeyInv' /\ RefInv'
  BY <1>2, <1>3, <1>4, <1>13 DEF KeyInv, RefInv
<1>22. /\ LookupSize(hint) <= LookupSize(CacheBlocks) /\ LookupSize(hint) \in Nat
       /\ LookupSize(CacheBlocks) \in Nat
  BY <1>3, <1>7, <1>10, LookupSizes
<1>23. \A i \in Layers : kv_cache_ref[i] = epoch => current'[group_key[i]] = current[group_key[i]]
  <2> SUFFICES ASSUME NEW i \in Layers, kv_cache_ref[i] = epoch
               PROVE  current'[group_key[i]] = current[group_key[i]]
    OBVIOUS
  <2>1. /\ group_key[i] \in Keys /\ current[group_key[i]] # None
        /\ current[group_key[i]].size >= LookupSize(CacheBlocks) /\ current[group_key[i]] \in Mirrors
    BY <1>3 DEF PointerInv, Pointed, CacheTypes
  <2>2. group_key[i] = k => ~TooSmall(k, hint)
    BY <1>22, <2>1 DEF TooSmall, Mirrors
  <2> QED BY <1>16, <2>1, <2>2
<1>24. PointerInv'
  <2> SUFFICES ASSUME NEW i \in Layers PROVE Pointed(i)' /\ Captured(i)'
    BY DEF PointerInv
  <2>1. Pointed(i) /\ Captured(i)
    BY <1>3 DEF PointerInv
  <2>2. LookupSize(CacheBlocks)' = LookupSize(CacheBlocks)
    BY <1>2 DEF LookupSize, CacheBlocks
  <2>3. kv_cache_ref[i] = epoch => b2s_ptr'[i] = b2s_ptr[i]
    <3>1. CASE i = l0
      <4>1. group_key[l0] = k
        BY <1>5, <1>12
      <4> QED BY <1>16, <1>23, <2>1, <3>1, <4>1 DEF Pointed
    <3>2. CASE i # l0
      BY <1>16, <3>2
    <3> QED BY <3>1, <3>2
  <2>4. /\ kv_cache_ref' = kv_cache_ref /\ graph' = graph /\ epoch' = epoch
    BY <1>2
  <2>5. Pointed(i)'
    BY <1>13, <1>23, <2>1, <2>2, <2>3, <2>4 DEF Pointed
  <2>6. Captured(i)'
    BY <2>1, <2>3, <2>4 DEF Captured
  <2> QED BY <2>5, <2>6
<1>25. SizeInv' /\ (LookupSize(0) >= NumGpuBlocks => warmed' = warmed)
  <2>1. LookupSize(0)' = LookupSize(0) /\ \A i, s : WarmDecodeKernels(i, s)' = WarmDecodeKernels(i, s)
    BY <1>2 DEF LookupSize, WarmDecodeKernels
  <2> SUFFICES ASSUME LookupSize(0) >= NumGpuBlocks
               PROVE  /\ \A j \in Keys : current'[j] # None => current'[j].size = LookupSize(0)
                      /\ \A i \in Layers : b2s_ptr'[i] # None => b2s_ptr'[i].size = LookupSize(0)
                      /\ \A i \in Layers : WarmDecodeKernels(i, LookupSize(0)) \subseteq warmed'
                      /\ warmed' = warmed
    BY <1>2, <1>4, <2>1 DEF SizeInv
  <2>2. /\ \A j \in Keys : current'[j] # None => current'[j].size = LookupSize(0)
        /\ \A i \in Layers : b2s_ptr'[i] # None => b2s_ptr'[i].size = LookupSize(0)
        /\ warmed' = warmed \cup WarmDecodeKernels(l0, LookupSize(0))
    <3>1. epoch \in 0 .. 2 /\ UNCHANGED lookup_upper_bound
      BY <1>2, <1>4
    <3> QED BY <1>3, <1>5, <1>8, <1>9, <1>10, <3>1, EnsuredSizes DEF n
  <2>3. \A i \in Layers : WarmDecodeKernels(i, LookupSize(0)) \subseteq warmed
    BY <1>3, <1>4 DEF SizeInv
  <2> QED BY <1>5, <2>2, <2>3
<1> QED BY <1>2, <1>16, <1>17, <1>18, <1>19, <1>20, <1>21, <1>24, <1>25 DEF CacheInv

----------------------------------------------------------------------------
(* Every step.                                                             *)

LEMMA CacheStutters ==
  ASSUME CacheAssumption, CacheInv, UNCHANGED vars
  PROVE  CacheInv'
<1>1. UNCHANGED <<phase, epoch, lookup_upper_bound, pass, graph, owner, impl_by_name, live, group_key,
                  kv_cache_ref, b2s_ptr, dict_map, current, mirror, warmed, pool, tile, ran>>
  BY DEF vars, registry, impls, classvars, data
<1>2. /\ \A h : LookupSize(h)' = LookupSize(h)
      /\ \A k : Held(k)' = Held(k)
      /\ \A h, n : Resynced(h, n)' = Resynced(h, n)
      /\ \A l, n : WarmDecodeKernels(l, n)' = WarmDecodeKernels(l, n)
      /\ CacheBlocks' = CacheBlocks
      /\ \A b, k : Complete(b, k)' = Complete(b, k)
  BY <1>1 DEF LookupSize, Held, Resynced, WarmDecodeKernels, CacheBlocks, Complete, Owned
<1>3. RegistryInv'
  <2>1. GroupsPartition /\ RegistryInv
    BY DEF CacheInv, CacheAssumption
  <2> QED BY <2>1, RegistryNext
<1>4. CacheTypes' /\ ModeInv' /\ KeyInv' /\ RefInv'
  BY <1>1 DEF CacheInv, CacheTypes, ModeInv, KeyInv, RefInv
<1>5. MirrorInv' /\ PointerInv' /\ SizeInv'
  BY <1>1, <1>2 DEF CacheInv, MirrorInv, MirrorOk, PointerInv, Pointed, Captured, SizeInv
<1>6. RunsInv'
  <2>1. \A l : Ready(l)' = Ready(l)
    BY <1>1 DEF Ready, Held
  <2> QED BY <1>1, <2>1 DEF CacheInv, RunsInv
<1>7. CellInv'
  <2> SUFFICES ASSUME NEW l \in Layers PROVE CellOk(l)'
    BY DEF CellInv
  <2>1. CellOk(l) /\ \A c : Kept(l, c)' = Kept(l, c)
    BY <1>1 DEF CacheInv, CellInv, Kept, Held
  <2>2. owner'[l] = owner[l] /\ \A k : Complete(owner[l], k)' = Complete(owner[l], k)
    BY <1>1, <1>2
  <2> QED BY <1>1, <2>1, <2>2 DEF CellOk
<1> QED BY <1>3, <1>4, <1>5, <1>6, <1>7 DEF CacheInv

\* A step writes at most one cell of one layer, or begins a new cache; once the
\* profile run is over it compiles nothing, when the bound covers the cache.
RanStep ==
  \/ ran' = ran
  \/ ran' = [l \in Layers |-> {}]
  \/ \E l \in Layers, c \in Cells : ran' = [ran EXCEPT ![l] = @ \cup {c}]
CompilesNothing == phase # "profile" /\ LookupSize(0) >= NumGpuBlocks => warmed' = warmed

LEMMA CacheNext ==
  CacheAssumption /\ CacheInv /\ [Next]_vars => CacheInv' /\ RanStep /\ CompilesNothing
<1> SUFFICES ASSUME CacheAssumption, CacheInv, [Next]_vars
             PROVE  CacheInv' /\ RanStep /\ CompilesNothing
  OBVIOUS
<1>1. RegistryInv'
  <2>1. GroupsPartition /\ RegistryInv
    BY DEF CacheInv, CacheAssumption
  <2> QED BY <2>1, RegistryNext
<1>2. CASE UNCHANGED vars
  <2>1. ran' = ran /\ warmed' = warmed
    BY <1>2 DEF vars, classvars, data
  <2> QED BY <1>2, <2>1, CacheStutters DEF RanStep, CompilesNothing
<1>3. ASSUME NEW l \in Layers, RunProfile(l) PROVE CacheInv' /\ RanStep /\ CompilesNothing
  BY <1>1, <1>3, CacheRunProfile DEF RanStep, CompilesNothing
<1>4. ASSUME NEW l \in Layers, RunEager(l) PROVE CacheInv' /\ RanStep /\ CompilesNothing
  BY <1>1, <1>4, CacheRunEager DEF RanStep, CompilesNothing
<1>5. ASSUME NEW l \in Layers, RunCapture(l) PROVE CacheInv' /\ RanStep /\ CompilesNothing
  BY <1>1, <1>5, CacheRunCapture DEF RanStep, CompilesNothing, classvars
<1>6. ASSUME NEW l \in Layers, RunReplay(l) PROVE CacheInv' /\ RanStep /\ CompilesNothing
  BY <1>1, <1>6, CacheRunReplay DEF RanStep, CompilesNothing, classvars
<1>7. ASSUME NEW b \in Builders, NewBuilder(b) PROVE CacheInv' /\ RanStep /\ CompilesNothing
  BY <1>1, <1>7, CacheClaim DEF RanStep, CompilesNothing
<1>8. ASSUME NEW b \in Builders, Build(b) PROVE CacheInv' /\ RanStep /\ CompilesNothing
  BY <1>1, <1>8, CacheBuild DEF RanStep, CompilesNothing
<1>9. ASSUME NEW g \in {Targets, Drafts}, NEW mode \in {"warm", "capture", "eager", "replay"},
             StartPass(g, mode)
      PROVE  CacheInv' /\ RanStep /\ CompilesNothing
  BY <1>1, <1>9, CacheStartPass DEF RanStep, CompilesNothing, classvars
<1>10. ASSUME NEW e \in 1 .. 2, InitKVCache(e) PROVE CacheInv' /\ RanStep /\ CompilesNothing
  BY <1>1, <1>10, CacheRenew DEF RanStep, CompilesNothing, classvars
<1>11. CASE BuildersReady \/ Serve
  BY <1>1, <1>11, CacheAdvance DEF RanStep, CompilesNothing, classvars
<1> QED BY <1>2, <1>3, <1>4, <1>5, <1>6, <1>7, <1>8, <1>9, <1>10, <1>11 DEF Next

----------------------------------------------------------------------------
(* What follows.                                                           *)

LEMMA GraphsFollow == CacheAssumption /\ CacheInv => GraphsReadTheLiveMirror
<1> SUFFICES ASSUME CacheAssumption, CacheInv, phase = "serve", NEW l \in Layers, graph[l] # None
             PROVE  /\ graph[l].mirror = current[owner[l].layers]
                    /\ graph[l].cache = epoch
                    /\ graph[l].mirror.size >= NumGpuBlocks
  BY DEF GraphsReadTheLiveMirror
<1>1. /\ GroupsPartition /\ RegistryInv /\ CacheTypes /\ KeyInv /\ PointerInv /\ NumGpuBlocks \in Nat
      /\ epoch = 2
  BY DEF CacheAssumption, CacheInv, ModeInv
<1>2. /\ graph[l].mirror = current[group_key[l]] /\ graph[l].cache = epoch
      /\ graph[l].mirror.size >= LookupSize(CacheBlocks) /\ graph[l].mirror \in Mirrors
  BY <1>1 DEF PointerInv, Pointed, Captured, CacheTypes
<1>3. group_key[l] = owner[l].layers
  BY <1>1, OwnersAreLive DEF KeyInv
<1>4. CacheBlocks = NumGpuBlocks
  BY <1>1 DEF CacheBlocks
<1>5. LookupSize(NumGpuBlocks) \in Nat /\ LookupSize(NumGpuBlocks) >= NumGpuBlocks
  BY <1>1, LookupSizes
<1> QED BY <1>1, <1>2, <1>3, <1>4, <1>5 DEF Mirrors

\* A layer reads at a cell what it wrote, through the current mirror and through
\* its graph's.
LEMMA ReadsWhatItWrote == CacheAssumption /\ CacheInv => Readable = ran
<1> SUFFICES ASSUME CacheAssumption, CacheInv PROVE Readable = ran
  OBVIOUS
<1>1. /\ GroupsPartition /\ RegistryInv /\ CacheTypes /\ ModeInv /\ MirrorInv /\ PointerInv /\ CellInv
      /\ NumGpuBlocks \in Nat /\ None \notin Slots /\ None \notin Tags
  BY DEF CacheAssumption, CacheInv
<1>2. ran \in [Layers -> SUBSET Cells] /\ tile \in [Layers -> SUBSET Cells]
  BY <1>1 DEF CacheTypes
<1> SUFFICES ASSUME NEW l \in Layers
             PROVE  {c \in Cells : \A m \in Launches(l) : Holds(l, m, c)} = ran[l]
  BY <1>2 DEF Readable
<1> DEFINE k == group_key[l]
           h == Held(k)
           m0 == current[k]
<1>3. k \in Keys /\ CellOk(l) /\ Pointed(l) /\ Captured(l) /\ MirrorOk(k)
  BY <1>1 DEF CacheTypes, CellInv, PointerInv, MirrorInv
<1>4. /\ DOMAIN h \subseteq Blocks /\ \A x \in DOMAIN h : h[x] \in Slots
  BY <1>1, <1>3, HeldTyped
<1>5. m0 # None => mirror[m0] = Resynced(h, m0.size)
  BY <1>3 DEF MirrorOk
<1>6. m0 \in Launches(l) /\ \A m \in Launches(l) : m = m0
  BY <1>3 DEF Launches, Captured, Pointed
<1> HIDE DEF k, h, m0
<1>7. ASSUME NEW c \in Cells, Holds(l, m0, c) PROVE c \in ran[l]
  <2>1. CASE m0 # None /\ c[1] \in DOMAIN mirror[m0] /\ mirror[m0][c[1]] # None
    <3>1. c[1] \in DOMAIN h /\ mirror[m0][c[1]] = h[c[1]]
      BY <1>5, <2>1 DEF Resynced
    <3> DEFINE x == <<h[c[1]], c[2]>>
    <3>2. x \in PoolPlaces /\ x[2] = c[2] /\ c = <<c[1], c[2]>>
      BY <1>4, <3>1 DEF PoolPlaces, Cells
    <3>3. pool[l][x] = <<epoch, c[1]>>
      BY <1>7, <2>1, <3>1 DEF Holds
    <3>4. epoch \in 0 .. 2 /\ c[1] \in Blocks
      BY <1>1 DEF RegistryInv, RegistryTypes, Cells
    <3>5. pool[l][x] # None
      BY <1>1, <3>3, <3>4 DEF Tags
    <3>6. pool[l][x][1] = epoch /\ pool[l][x][2] = c[1]
      BY <3>3
    <3>7. <<pool[l][x][2], x[2]>> \in ran[l]
      BY <1>3, <3>2, <3>5, <3>6 DEF CellOk
    <3> QED BY <3>2, <3>6, <3>7
  <2>2. CASE ~(m0 # None /\ c[1] \in DOMAIN mirror[m0] /\ mirror[m0][c[1]] # None)
    <3>1. c \in tile[l]
      BY <1>7, <2>2 DEF Holds
    <3> QED BY <1>3, <3>1 DEF CellOk
  <2> QED BY <2>1, <2>2
<1>8. ASSUME NEW c \in ran[l] PROVE Holds(l, m0, c)
  <2>1. c \in Cells /\ Kept(l, c) /\ kv_cache_ref[l] = epoch /\ phase = "serve"
    BY <1>2, <1>3 DEF CellOk
  <2>2. m0 # None /\ m0.size >= LookupSize(CacheBlocks) /\ m0 \in Mirrors
    BY <1>1, <1>3, <2>1 DEF Pointed, CacheTypes, k, m0
  <2>3. CacheBlocks = NumGpuBlocks /\ LookupSize(NumGpuBlocks) \in Nat
        /\ LookupSize(NumGpuBlocks) >= NumGpuBlocks
    <3>1. epoch = 2
      BY <1>1, <2>1 DEF ModeInv
    <3> QED BY <1>1, <3>1, LookupSizes DEF CacheBlocks
  <2>4. c[1] \in Blocks /\ c[1] < m0.size
    <3>1. c[1] \in 0 .. NumGpuBlocks - 1
      BY <2>1 DEF Cells, Blocks
    <3> QED BY <1>1, <2>2, <2>3, <3>1 DEF Blocks, Mirrors
  <2>5. /\ c[1] \in DOMAIN mirror[m0]
        /\ mirror[m0][c[1]] = IF c[1] \in DOMAIN h THEN h[c[1]] ELSE None
    BY <1>5, <2>2, <2>4 DEF Resynced
  <2>6. CASE c[1] \in DOMAIN h
    <3>1. mirror[m0][c[1]] = h[c[1]] /\ h[c[1]] # None
      BY <1>1, <1>4, <2>5, <2>6
    <3>2. pool[l][<<h[c[1]], c[2]>>] = <<epoch, c[1]>>
      BY <2>1, <2>6 DEF Kept, k, h
    <3> QED BY <2>2, <2>5, <3>1, <3>2 DEF Holds
  <2>7. CASE c[1] \notin DOMAIN h
    <3>1. mirror[m0][c[1]] = None /\ c \in tile[l]
      BY <2>1, <2>5, <2>7 DEF Kept, k, h
    <3> QED BY <3>1 DEF Holds
  <2> QED BY <2>6, <2>7
<1> QED BY <1>2, <1>6, <1>7, <1>8

\* Inductive, for every partition of layers, size of the caches and step.
THEOREM CacheInvariant == Spec => []CacheInv
<1> USE OwnershipAssumption
<1>1. Init => CacheInv
  BY CacheInit
<1>2. CacheInv /\ [Next]_vars => CacheInv'
  BY CacheNext
<1> QED BY <1>1, <1>2, PTL DEF Spec

\* (kvarn_attn.py:1308-1451, 544-560) A graph replayed while serving launches on
\* the mirror the layer's builder writes, of the present cache, and that mirror
\* covers each of its blocks, whatever was profiled, captured or claimed before.
THEOREM RegistryGraphs == Spec => []GraphsReadTheLiveMirror
<1> USE OwnershipAssumption
<1>1. CacheInv => GraphsReadTheLiveMirror
  BY GraphsFollow
<1> QED BY <1>1, CacheInvariant, PTL

\* (kvarn_attn.py:1308-1451; #48) With a bound that covers the cache, nothing is
\* compiled after the profile run, and what a layer launches was compiled in it.
THEOREM RegistryCompiled == Spec => CompiledWhenProfiled
<1> USE OwnershipAssumption
<1> DEFINE Compiled ==
      Largest({LookupFloor, lookup_upper_bound}) >= NumGpuBlocks /\ phase # "profile"
        => /\ warmed' = warmed
           /\ \A l \in Layers : b2s_ptr[l] # None => Launched(l, b2s_ptr[l].size) \subseteq warmed
<1>1. CacheInv /\ [Next]_vars => [Compiled]_vars
  <2> SUFFICES ASSUME CacheInv, [Next]_vars,
                      Largest({LookupFloor, lookup_upper_bound}) >= NumGpuBlocks, phase # "profile"
               PROVE  /\ warmed' = warmed
                      /\ \A l \in Layers : b2s_ptr[l] # None
                           => Launched(l, b2s_ptr[l].size) \subseteq warmed
    OBVIOUS
  <2>1. LookupFloor \in Nat /\ lookup_upper_bound \in Nat /\ NumGpuBlocks \in Nat
    BY DEF CacheAssumption, CacheInv, CacheTypes
  <2>2. LookupSize(0) >= NumGpuBlocks
    <3>1. Largest({LookupFloor, lookup_upper_bound}) \in {LookupFloor, lookup_upper_bound}
      <4>1. {LookupFloor, lookup_upper_bound, lookup_upper_bound} = {LookupFloor, lookup_upper_bound}
        OBVIOUS
      <4>2. Largest({LookupFloor, lookup_upper_bound, lookup_upper_bound})
              \in {LookupFloor, lookup_upper_bound, lookup_upper_bound}
        BY <2>1, LargestOfThree
      <4> QED BY <4>1, <4>2
    <3>2. /\ LookupSize(0) \in {0, LookupFloor, lookup_upper_bound}
          /\ LookupSize(0) >= LookupFloor /\ LookupSize(0) >= lookup_upper_bound
      BY <2>1, LargestOfThree DEF LookupSize
    <3> QED BY <2>1, <3>1, <3>2
  <2>3. warmed' = warmed
    BY <2>2, CacheNext DEF CompilesNothing
  <2>4. /\ \A l \in Layers : b2s_ptr[l] # None => b2s_ptr[l].size = LookupSize(0)
        /\ \A l \in Layers : WarmDecodeKernels(l, LookupSize(0)) \subseteq warmed
    BY <2>2 DEF CacheInv, SizeInv
  <2>5. \A l, n : Launched(l, n) \subseteq WarmDecodeKernels(l, n)
    BY DEF Launched, WarmDecodeKernels
  <2> QED BY <2>3, <2>4, <2>5
<1>2. CompiledWhenProfiled <=> [][Compiled]_vars
  BY PTL DEF CompiledWhenProfiled
<1> HIDE DEF Compiled
<1>3. Spec => []CacheInv
  BY CacheInvariant
<1> QED BY <1>1, <1>2, <1>3, PTL DEF Spec

\* (kvarn_attn.py:1308-1451, 2136-2470) The registry implements a paged cache:
\* through every flush, resize, capture, replay and change of owner a layer
\* reads what its forward passes wrote, and nothing else.
THEOREM RegistryPaged == Spec => PagedSpec
<1> USE OwnershipAssumption
<1>1. CacheInv => Readable = ran
  BY ReadsWhatItWrote
<1>2. Init /\ Readable = ran => Paged!Init
  BY DEF Init, Paged!Init
<1>3. CacheInv /\ [Next]_vars /\ Readable = ran /\ (Readable = ran)' => [Paged!Next]_<<ran, Readable>>
  <2> SUFFICES ASSUME CacheInv, [Next]_vars, Readable = ran, Readable' = ran'
               PROVE  [Paged!Next]_<<ran, Readable>>
    OBVIOUS
  <2>1. RanStep
    BY CacheNext
  <2> QED BY <2>1 DEF RanStep, Paged!Next, Paged!Renew, Paged!Write
<1>4. Spec => []CacheInv
  BY CacheInvariant
<1> QED BY <1>1, <1>2, <1>3, <1>4, PTL DEF Spec, PagedSpec, Paged!Spec
=============================================================================
