-------------------------- MODULE KvarnPool_proofs --------------------------
(***************************************************************************)
(* Theorems about the tail pool, for any number of blocks, slots and       *)
(* requests, any tile size, and any prompts.                               *)
(***************************************************************************)
EXTENDS KvarnPool, SequenceTheorems, FiniteSetTheorems, TLAPS

----------------------------------------------------------------------------
(* Arithmetic of tiles.                                                    *)

LEMMA DivBound ==
  ASSUME NEW a \in Nat, NEW g \in Nat \ {0}, NEW n \in Nat, a <= n * g
  PROVE  a \div g \in 0 .. n
  OBVIOUS

LEMMA DivStrict ==
  ASSUME NEW a \in Nat, NEW g \in Nat \ {0}, NEW n \in Nat, a < n * g
  PROVE  a \div g \in Nat /\ a \div g < n
  OBVIOUS

LEMMA DivNat ==
  ASSUME NEW a \in Nat, NEW g \in Nat \ {0}
  PROVE  a \div g \in Nat
  OBVIOUS

LEMMA CeilBound ==
  ASSUME NEW a \in Nat, NEW g \in Nat \ {0}
  PROVE  /\ (a + g - 1) \div g \in Nat
         /\ ((a + g - 1) \div g) * g >= a
  OBVIOUS

LEMMA MulMono ==
  ASSUME NEW m \in Nat, NEW n \in Nat, NEW g \in Nat, m >= n
  PROVE  m * g >= n * g
  OBVIOUS

LEMMA ModRange ==
  ASSUME NEW a \in Int, NEW g \in Nat \ {0}
  PROVE  a % g \in 0 .. g - 1
  OBVIOUS

LEMMA DivInt ==
  ASSUME NEW a \in Int, NEW g \in Nat \ {0}
  PROVE  a \div g \in Int
  OBVIOUS

LEMMA DivAtLeast ==
  ASSUME NEW a \in Nat, NEW g \in Nat \ {0}, NEW n \in Nat, a >= n * g
  PROVE  a \div g >= n
  OBVIOUS

LEMMA DivMono ==
  ASSUME NEW a \in Nat, NEW b \in Nat, NEW g \in Nat \ {0}, a <= b
  PROVE  a \div g <= b \div g
  OBVIOUS

LEMMA DivMul ==
  ASSUME NEW a \in Nat, NEW g \in Nat \ {0}
  PROVE  (a \div g) * g <= a
  OBVIOUS

LEMMA DivExact ==
  ASSUME NEW n \in Nat, NEW g \in Nat \ {0}, NEW o \in 0 .. g - 1
  PROVE  (n * g + o) \div g = n /\ (n * g + o) % g = o
  OBVIOUS

----------------------------------------------------------------------------
(* Type correctness. A row of the batch lies within its block table: without *)
(* that, the blocks a step names need not be blocks.                         *)

RowsCovered ==
  \A r \in Reqs : queryLen[r] <= seqLen[r] /\ seqLen[r] <= Len(table[r]) * Group

TypeInv == TypeOK /\ RowsCovered

LEMMA ConstantTypes ==
  /\ Group \in Nat \ {0} /\ MaxLen \in Nat \ {0} /\ Chunk \in Nat \ {0}
  /\ MaxQuery \in Nat \ {0} /\ DraftPasses \in Nat
  /\ \A r \in Reqs : /\ Prompt[r] \in 1 .. MaxLen /\ Stream[r] \in Seq(Keys)
                      /\ Len(Stream[r]) \in Nat
                      /\ Len(Stream[r]) * Group >= MaxLen
BY PoolAssumption DEF PoolAssumption

LEMMA VariableTypes ==
  ASSUME TypeInv, NEW r \in Reqs
  PROVE  /\ computed[r] \in Nat /\ table[r] \in Seq(Blocks) /\ Len(table[r]) \in Nat
         /\ seqLen[r] \in Nat /\ queryLen[r] \in Nat
         /\ Committed(r) \in Nat /\ Committed(r) <= seqLen[r]
         /\ seqLen[r] <= Len(table[r]) * Group
BY DEF TypeInv, TypeOK, RowsCovered, Committed

\* The blocks a row writes or reads are blocks.
LEMMA RowIndex ==
  ASSUME TypeInv, NEW r \in Reqs, NEW p \in Nat, p < seqLen[r]
  PROVE  /\ p \div Group \in Nat /\ (p \div Group) + 1 \in 1 .. Len(table[r])
         /\ BlockAt(r, p) \in Blocks
<1>1. Group \in Nat \ {0} /\ Len(table[r]) \in Nat /\ table[r] \in Seq(Blocks)
  BY ConstantTypes, VariableTypes
<1>2. p < Len(table[r]) * Group
  BY VariableTypes, ConstantTypes
<1>3. p \div Group \in Nat /\ p \div Group < Len(table[r])
  BY <1>1, <1>2, DivStrict
<1>4. (p \div Group) + 1 \in 1 .. Len(table[r])
  BY <1>1, <1>3
<1> QED BY <1>1, <1>3, <1>4 DEF BlockAt

LEMMA WrittenIdxType ==
  ASSUME TypeInv, NEW r \in InBatch, NEW k \in WrittenIdx(r)
  PROVE  /\ k \in Nat /\ k + 1 \in 1 .. Len(table[r]) /\ table[r][k + 1] \in Blocks
         /\ FillAfter(r, k) \in Int
<1>1. r \in Reqs /\ seqLen[r] > 0
  BY DEF InBatch
<1>2. Group \in Nat \ {0} /\ seqLen[r] - 1 \in Nat /\ Committed(r) \in Nat
      /\ seqLen[r] \in Nat /\ table[r] \in Seq(Blocks) /\ Len(table[r]) \in Nat
  BY <1>1, VariableTypes, ConstantTypes
<1>3. ((seqLen[r] - 1) \div Group) + 1 \in 1 .. Len(table[r])
  <2>1. seqLen[r] - 1 < seqLen[r]
    BY <1>2
  <2> QED BY <1>1, <1>2, <2>1, RowIndex
<1>4. Committed(r) \div Group \in Nat
  BY <1>2, DivNat
<1>5. k \in Nat /\ k + 1 \in 1 .. Len(table[r])
  <2>1. (seqLen[r] - 1) \div Group \in Int
    BY <1>2, DivInt
  <2> QED BY <2>1, <1>3, <1>4, <1>2 DEF WrittenIdx
<1>6. FillAfter(r, k) \in Int
  BY <1>2, <1>5 DEF FillAfter, Smaller
<1> QED BY <1>2, <1>5, <1>6

LEMMA NamedBlocks ==
  ASSUME TypeInv
  PROVE  Written \subseteq Blocks /\ FirstBlocks \subseteq Blocks
<1>1. Written \subseteq Blocks
  BY WrittenIdxType DEF Written
<1>2. ASSUME NEW r \in InBatch PROVE table[r][1] \in Blocks
  <2>1. r \in Reqs /\ 0 < seqLen[r] /\ 0 \in Nat
    BY DEF InBatch
  <2>2. (0 \div Group) + 1 \in 1 .. Len(table[r])
    BY <2>1, RowIndex
  <2>3. Len(table[r]) \in Nat /\ table[r] \in Seq(Blocks)
    BY <2>1, VariableTypes
  <2>4. 1 \in 1 .. Len(table[r])
    <3>1. 0 \div Group \in Nat BY <2>1, RowIndex
    <3> QED BY <3>1, <2>2, <2>3
  <2> QED BY <2>3, <2>4
<1> QED BY <1>1, <1>2 DEF FirstBlocks

LEMMA TypeInit == Init => TypeInv
<1>1. Init => TypeOK
  BY PoolAssumption DEF Init, TypeOK, PoolAssumption, NoRow, Phases
<1>2. Init => RowsCovered
  BY ConstantTypes DEF Init, RowsCovered, NoRow
<1> QED BY <1>1, <1>2 DEF TypeInv

LEMMA TypeArrive ==
  ASSUME TypeInv, NEW r \in Reqs, Arrive(r)
  PROVE  TypeInv'
<1>1. PICK h \in 0 .. ((Prompt[r] - 1) \div Group) : \E t \in Hits(r, h) :
        /\ table' = [table EXCEPT ![r] = t]
        /\ computed' = [computed EXCEPT ![r] = h * Group]
  BY DEF Arrive
<1>2. h \in Nat /\ h * Group \in Nat
  <2>1. (Prompt[r] - 1) \in Int /\ Group \in Nat \ {0}
    BY ConstantTypes
  <2>2. (Prompt[r] - 1) \div Group \in Int
    BY <2>1, DivInt
  <2> QED BY <2>1, <2>2
<1>3. PICK t \in Hits(r, h) :
        /\ table' = [table EXCEPT ![r] = t]
        /\ computed' = [computed EXCEPT ![r] = h * Group]
  BY <1>1
<1>4. t \in Seq(Blocks)
  BY <1>2 DEF Hits
<1>5. table' \in [Reqs -> Seq(Blocks)] /\ computed' \in [Reqs -> Nat]
  BY <1>2, <1>3, <1>4 DEF TypeInv, TypeOK
<1>6. TypeOK'
  BY <1>5 DEF Arrive, TypeInv, TypeOK, batch, slots, labels, data
<1>7. RowsCovered'
  <2> SUFFICES ASSUME NEW q \in Reqs
               PROVE  (queryLen[q] <= seqLen[q] /\ seqLen[q] <= Len(table[q]) * Group)'
    BY DEF RowsCovered
  <2>1. seqLen'[q] = 0 /\ queryLen'[q] = 0
    BY VariableTypes DEF Arrive, InBatch, batch, TypeInv, RowsCovered
  <2>2. Len(table'[q]) * Group >= 0
    BY <1>5, ConstantTypes
  <2> QED BY <2>1, <2>2
<1> QED BY <1>6, <1>7 DEF TypeInv

LEMMA TypeLeave ==
  ASSUME TypeInv, NEW r \in Reqs, Leave(r)
  PROVE  TypeInv'
<1>1. TypeOK'
  BY DEF Leave, TypeInv, TypeOK, batch, slots, labels, data
<1>2. RowsCovered'
  <2>1. \A q \in Reqs : seqLen'[q] = seqLen[q] /\ queryLen'[q] = queryLen[q]
    BY DEF Leave, batch
  <2>2. \A q \in Reqs : q # r => table'[q] = table[q]
    BY DEF Leave, TypeInv, TypeOK
  <2>3. seqLen[r] = 0 /\ Len(table'[r]) * Group = 0
    BY ConstantTypes DEF Leave, TypeInv, TypeOK
  <2> QED BY <2>1, <2>2, <2>3 DEF TypeInv, RowsCovered
<1> QED BY <1>1, <1>2 DEF TypeInv

\* The row of a scheduled request is extended, never rewritten.
LEMMA RowExtension ==
  ASSUME TypeInv, NEW r \in Reqs, ScheduleRow(r)
  PROVE  \E n \in Nat : \E ext \in Extensions(n) :
           table' = [table EXCEPT ![r] = table[r] \o ext]
<1>1. PICK q \in Queries(r) :
        LET upTo == Smaller(computed[r] + q + DraftPasses, MaxLen)
            need == ((upTo + Group - 1) \div Group) - Len(table[r])
        IN \E ext \in Extensions(IF need > 0 THEN need ELSE 0) :
             table' = [table EXCEPT ![r] = table[r] \o ext]
  BY DEF ScheduleRow
<1> DEFINE upTo == Smaller(computed[r] + q + DraftPasses, MaxLen)
           need == ((upTo + Group - 1) \div Group) - Len(table[r])
<1>2. need \in Int
  <2>1. q \in Int /\ computed[r] \in Nat /\ Len(table[r]) \in Nat
    BY ConstantTypes, VariableTypes DEF Queries, Smaller
  <2>2. upTo + Group - 1 \in Int /\ Group \in Nat \ {0}
    BY <2>1, ConstantTypes DEF Smaller
  <2> HIDE DEF upTo
  <2>3. (upTo + Group - 1) \div Group \in Int
    BY <2>2, DivInt
  <2> QED BY <2>1, <2>3
<1>3. (IF need > 0 THEN need ELSE 0) \in Nat
  <2> HIDE DEF need
  <2> QED BY <1>2
<1> QED BY <1>1, <1>3

LEMMA TypeScheduleRow ==
  ASSUME TypeInv, NEW r \in Reqs, ScheduleRow(r)
  PROVE  TypeInv'
<1> DEFINE upTo(q) == Smaller(computed[r] + q + DraftPasses, MaxLen)
           need(q) == ((upTo(q) + Group - 1) \div Group) - Len(table[r])
           extra(q) == IF need(q) > 0 THEN need(q) ELSE 0
           sure(q) == IF computed[r] < Prompt[r] THEN computed[r] + q ELSE computed[r] + 1
           row(ext) == table[r] \o ext
           complete(q, ext, b) == \E k \in 1 .. (sure(q) \div Group) : row(ext)[k] = b
           index(q, ext, b) == CHOOSE k \in 1 .. (sure(q) \div Group) : row(ext)[k] = b
           new(ext, b) == \E i \in DOMAIN ext : ext[i] = b
<1>0. /\ Group \in Nat \ {0} /\ MaxLen \in Nat \ {0}
      /\ Chunk \in Nat \ {0} /\ MaxQuery \in Nat \ {0} /\ DraftPasses \in Nat
      /\ Prompt[r] \in 1 .. MaxLen /\ Stream[r] \in Seq(Keys)
      /\ Len(Stream[r]) * Group >= MaxLen
      /\ computed[r] \in Nat /\ table[r] \in Seq(Blocks)
  BY ConstantTypes, VariableTypes
<1>1. PICK q \in Queries(r) : \E ext \in Extensions(extra(q)) :
        /\ table' = [table EXCEPT ![r] = row(ext)]
        /\ hash' = [b \in Blocks |-> IF complete(q, ext, b) THEN Stream[r][index(q, ext, b)]
                                     ELSE IF new(ext, b) THEN NoKey ELSE hash[b]]
        /\ seqLen' = [seqLen EXCEPT ![r] = computed[r] + q]
        /\ queryLen' = [queryLen EXCEPT ![r] = q]
        /\ poolFresh' = [s \in Slots |->
             IF \E b \in Held : new(ext, b) /\ dict_map[b] = s THEN {} ELSE poolFresh[s]]
        /\ tileFresh' = [b \in Blocks |-> IF new(ext, b) THEN {} ELSE tileFresh[b]]
  BY DEF ScheduleRow
<1>2. q \in Nat /\ computed[r] + q \in Nat /\ sure(q) \in Nat /\ sure(q) <= MaxLen
      /\ computed[r] + q <= upTo(q)
  <2>1. CASE computed[r] < Prompt[r]
    <3>1. q \in 1 .. Smaller(Chunk, Prompt[r] - computed[r])
      BY <2>1 DEF Queries
    <3>2. q \in Nat /\ q <= Prompt[r] - computed[r]
      BY <3>1, <2>1, <1>0 DEF Smaller
    <3> QED BY <3>2, <2>1, <1>0 DEF Smaller
  <2>2. CASE ~(computed[r] < Prompt[r])
    <3>1. q \in 1 .. Smaller(MaxQuery, MaxLen - computed[r])
      BY <2>2 DEF Queries
    <3>2. q \in Nat /\ q >= 1 /\ q <= MaxLen - computed[r]
      BY <3>1, <2>2, <1>0 DEF Smaller
    <3> QED BY <3>2, <2>2, <1>0 DEF Smaller
  <2> QED BY <2>1, <2>2
<1>3. PICK ext \in Extensions(extra(q)) :
        /\ table' = [table EXCEPT ![r] = row(ext)]
        /\ hash' = [b \in Blocks |-> IF complete(q, ext, b) THEN Stream[r][index(q, ext, b)]
                                     ELSE IF new(ext, b) THEN NoKey ELSE hash[b]]
        /\ seqLen' = [seqLen EXCEPT ![r] = computed[r] + q]
        /\ queryLen' = [queryLen EXCEPT ![r] = q]
        /\ poolFresh' = [s \in Slots |->
             IF \E b \in Held : new(ext, b) /\ dict_map[b] = s THEN {} ELSE poolFresh[s]]
        /\ tileFresh' = [b \in Blocks |-> IF new(ext, b) THEN {} ELSE tileFresh[b]]
  BY <1>1
<1>4. extra(q) \in Nat
  <2>1. upTo(q) + Group - 1 \in Int
    BY <1>0, <1>2 DEF Smaller
  <2>2. (upTo(q) + Group - 1) \div Group \in Int
    BY <2>1, <1>0, DivInt
  <2> HIDE DEF upTo
  <2> QED BY <2>2, <1>0, LenProperties
<1>5. ext \in Seq(Blocks)
  <2> HIDE DEF extra
  <2> QED BY <1>4 DEF Extensions
<1>6. row(ext) \in Seq(Blocks)
  BY <1>5, <1>0, ConcatProperties
<1>7. \A b \in Blocks : complete(q, ext, b) => Stream[r][index(q, ext, b)] \in Keys
  <2> SUFFICES ASSUME NEW b \in Blocks, complete(q, ext, b)
               PROVE  Stream[r][index(q, ext, b)] \in Keys
    OBVIOUS
  <2>1. sure(q) \div Group \in 0 .. Len(Stream[r])
    <3>1. Len(Stream[r]) \in Nat BY <1>0
    <3>2. sure(q) <= Len(Stream[r]) * Group
      <4> HIDE DEF sure
      <4> QED BY <1>0, <1>2, <3>1
    <3> HIDE DEF sure
    <3> QED BY <3>1, <3>2, <1>0, <1>2, DivBound
  <2>2. index(q, ext, b) \in 1 .. (sure(q) \div Group)
    <3> HIDE DEF row, sure
    <3> QED OBVIOUS
  <2>3. index(q, ext, b) \in 1 .. Len(Stream[r])
    <3> HIDE DEF index, sure
    <3> QED BY <2>1, <2>2, <1>0
  <2> HIDE DEF index
  <2> QED BY <2>3, <1>0
<1>8. hash' \in [Blocks -> Keys \cup {NoKey}]
  <2> HIDE DEF complete, index, new
  <2> QED BY <1>3, <1>7 DEF TypeInv, TypeOK
<1>9. table' \in [Reqs -> Seq(Blocks)]
  <2> HIDE DEF row
  <2> QED BY <1>3, <1>6 DEF TypeInv, TypeOK
<1>10. seqLen' \in [Reqs -> Nat] /\ queryLen' \in [Reqs -> Nat]
  <2> HIDE DEF row, complete, index, new, sure
  <2>1. seqLen' = [seqLen EXCEPT ![r] = computed[r] + q]
    BY <1>3
  <2>2. queryLen' = [queryLen EXCEPT ![r] = q]
    BY <1>3
  <2> QED BY <1>2, <2>1, <2>2 DEF TypeInv, TypeOK
<1>11. /\ poolFresh' \in [Slots -> SUBSET Offsets]
       /\ tileFresh' \in [Blocks -> SUBSET Offsets]
  <2> HIDE DEF new
  <2> QED BY <1>3 DEF TypeInv, TypeOK
<1>12. UNCHANGED <<phase, pass, live, computed, slots, labels, needed>>
  BY DEF ScheduleRow
<1>13. TypeOK'
  BY <1>8, <1>9, <1>10, <1>11, <1>12 DEF TypeInv, TypeOK, slots, labels
<1>14. RowsCovered'
  <2>1. seqLen'[r] = computed[r] + q /\ queryLen'[r] = q /\ table'[r] = row(ext)
    <3> HIDE DEF row, complete, index, new, sure
    <3> QED BY <1>3 DEF TypeInv, TypeOK
  <2>2. \A o \in Reqs : o # r => /\ seqLen'[o] = seqLen[o] /\ queryLen'[o] = queryLen[o]
                                /\ table'[o] = table[o]
    <3> HIDE DEF row, complete, index, new, sure
    <3> QED BY <1>3 DEF TypeInv, TypeOK
  <2>3. upTo(q) \in Nat
    BY <1>0, <1>2 DEF Smaller
  <2>4. Len(row(ext)) = Len(table[r]) + extra(q) /\ Len(table[r]) \in Nat
    <3>1. Len(ext) = extra(q)
      <4> HIDE DEF extra
      <4> QED BY <1>4 DEF Extensions
    <3> HIDE DEF extra
    <3> QED BY <3>1, <1>0, <1>5, <1>4, ConcatProperties, LenProperties
  <2>5. ((upTo(q) + Group - 1) \div Group) * Group >= upTo(q)
        /\ (upTo(q) + Group - 1) \div Group \in Nat
    <3> HIDE DEF upTo
    <3> QED BY <2>3, <1>0, CeilBound
  <2>6. Len(row(ext)) >= (upTo(q) + Group - 1) \div Group /\ Len(row(ext)) \in Nat
    <3> HIDE DEF upTo, row
    <3> QED BY <2>4, <2>5
  <2>7. Len(row(ext)) * Group >= upTo(q)
    <3> DEFINE tiles == (upTo(q) + Group - 1) \div Group
    <3>1. tiles \in Nat /\ tiles * Group >= upTo(q) /\ Len(row(ext)) >= tiles
      BY <2>5, <2>6
    <3> HIDE DEF upTo, row, tiles
    <3>2. Len(row(ext)) * Group >= tiles * Group
      BY <3>1, <2>6, <1>0, MulMono
    <3>3. tiles * Group \in Nat /\ Len(row(ext)) * Group \in Nat
      BY <3>1, <2>6, <1>0
    <3> QED BY <3>1, <3>2, <3>3, <2>3
  <2>8. q <= computed[r] + q /\ computed[r] + q <= Len(row(ext)) * Group
    <3> HIDE DEF upTo, row
    <3> QED BY <2>3, <2>6, <2>7, <1>0, <1>2
  <2> HIDE DEF row, upTo, extra, need, sure, complete, index, new
  <2> QED BY <2>1, <2>2, <2>8 DEF TypeInv, RowsCovered
<1> QED BY <1>13, <1>14 DEF TypeInv

LEMMA TypeDispatch ==
  ASSUME TypeInv, Dispatch
  PROVE  TypeInv'
BY DEF Dispatch, TypeInv, TypeOK, RowsCovered, scheduler, batch, slots, labels, data, Phases

LEMMA TypeMarkSinks ==
  ASSUME TypeInv, MarkSinks
  PROVE  TypeInv'
<1>1. \A b \in Written : \E r \in InBatch : \E k \in WrittenIdx(r) : table[r][k + 1] = b
  BY DEF Written
<1>2. ASSUME NEW b \in Blocks
      PROVE  fill'[b] \in Int
  <2>1. CASE b \notin Written
    BY <2>1 DEF MarkSinks, TypeInv, TypeOK
  <2>2. CASE b \in Written
    <3> DEFINE r == CHOOSE r \in InBatch : \E k \in WrittenIdx(r) : table[r][k + 1] = b
               k == CHOOSE k \in WrittenIdx(r) : table[r][k + 1] = b
    <3>1. r \in InBatch /\ \E j \in WrittenIdx(r) : table[r][j + 1] = b
      BY <1>1, <2>2
    <3>2. k \in WrittenIdx(r)
      <4> HIDE DEF r
      <4> QED BY <3>1
    <3>3. fill'[b] = FillAfter(r, k)
      BY <2>2 DEF MarkSinks
    <3> HIDE DEF r, k
    <3> QED BY <3>1, <3>2, <3>3, WrittenIdxType
  <2> QED BY <2>1, <2>2
<1>3. fill' \in [Blocks -> Int]
  <2>1. fill' = [b \in Blocks |-> fill'[b]]
    BY DEF MarkSinks
  <2> QED BY <1>2, <2>1
<1>4. needed' \in SUBSET Blocks /\ sinks' \in SUBSET Blocks /\ retired' \in SUBSET Blocks
  BY NamedBlocks DEF MarkSinks, BlocksNeeded, Unretired, TypeInv, TypeOK
<1>5. phase' \in Phases /\ UNCHANGED <<pass, scheduler, batch, slots, data>>
  BY DEF MarkSinks, Phases
<1> QED
  BY <1>3, <1>4, <1>5 DEF TypeInv, TypeOK, RowsCovered, scheduler, batch, slots, data

LEMMA TypeFlush ==
  ASSUME TypeInv, FlushAndReclaim
  PROVE  TypeInv'
<1>1. Queued \cap Held \subseteq Blocks /\ Leftover \subseteq Blocks /\ Queued \subseteq Held
  BY DEF Queued, WalkBack, WalkFrom, Flushable, Leftover, Held
<1>2. ToFlush \subseteq Held /\ ToDiscard \subseteq Held /\ ToRetire \subseteq Held
  BY <1>1 DEF ToFlush, ToDiscard, ToRetire, Complete, Leftover
<1>3. \A b \in Held : dict_map[b] \in Slots /\ b \in Blocks
  BY DEF Held, TypeInv, TypeOK
<1>4. tileFresh' \in [Blocks -> SUBSET Offsets]
  BY <1>2, <1>3 DEF FlushAndReclaim, TypeInv, TypeOK
<1>5. free_slots' \in SUBSET Slots
  BY <1>2, <1>3 DEF FlushAndReclaim, Returned, TypeInv, TypeOK
<1>6. retired' \in SUBSET Blocks /\ sinks' \in SUBSET Blocks
  BY <1>2, <1>3 DEF FlushAndReclaim, TypeInv, TypeOK
<1>7. /\ dict_map' \in [Blocks -> Slots \cup {NoSlot}]
      /\ b2s_t' \in [Blocks -> Slots \cup {NoSlot}]
      /\ fill' \in [Blocks -> Int]
  BY DEF FlushAndReclaim, TypeInv, TypeOK
<1>8. phase' \in Phases /\ UNCHANGED <<pass, scheduler, batch, needed, poolFresh>>
  BY DEF FlushAndReclaim, Phases
<1> QED
  BY <1>4, <1>5, <1>6, <1>7, <1>8 DEF TypeInv, TypeOK, RowsCovered, scheduler, batch

LEMMA TypeSkipFlush ==
  ASSUME TypeInv, SkipFlush
  PROVE  TypeInv'
BY DEF SkipFlush, TypeInv, TypeOK, RowsCovered, scheduler, batch, slots, labels, data, Phases

LEMMA TypeAllocate ==
  ASSUME TypeInv, NEW b \in Blocks, Allocate(b)
  PROVE  TypeInv'
<1>1. (CHOOSE s \in free_slots : TRUE) \in Slots
  BY DEF Allocate, TypeInv, TypeOK
<1> QED
  BY <1>1 DEF Allocate, TypeInv, TypeOK, RowsCovered, scheduler, batch, labels

LEMMA TypeEvict ==
  ASSUME TypeInv, NEW b \in Blocks, EvictRetired(b)
  PROVE  TypeInv'
<1>1. tileFresh' \in [Blocks -> SUBSET Offsets] /\ free_slots' \in SUBSET Slots
  BY DEF EvictRetired, Held, TypeInv, TypeOK
<1>2. retired' \in SUBSET Blocks /\ sinks' \in SUBSET Blocks /\ fill' \in [Blocks -> Int]
  BY DEF EvictRetired, TypeInv, TypeOK
<1>3. /\ dict_map' \in [Blocks -> Slots \cup {NoSlot}]
      /\ b2s_t' \in [Blocks -> Slots \cup {NoSlot}]
  BY DEF EvictRetired, TypeInv, TypeOK
<1>4. UNCHANGED <<phase, pass, scheduler, batch, needed, poolFresh>>
  BY DEF EvictRetired
<1> QED
  BY <1>1, <1>2, <1>3, <1>4 DEF TypeInv, TypeOK, RowsCovered, scheduler, batch

LEMMA TypeExhausted ==
  ASSUME TypeInv, PoolExhausted
  PROVE  TypeInv'
BY DEF PoolExhausted, TypeInv, TypeOK, RowsCovered, scheduler, batch, slots, labels, data, Phases

LEMMA TypeStore ==
  ASSUME TypeInv, Store
  PROVE  TypeInv'
<1>1. \A b \in Blocks : StoredAt(b) \subseteq Offsets
  <2> SUFFICES ASSUME NEW r \in InBatch, NEW q \in Committed(r) .. (seqLen[r] - 1)
               PROVE  q % Group \in Offsets
    BY DEF StoredAt
  <2>1. q \in Int /\ Group \in Nat \ {0}
    BY ConstantTypes, VariableTypes DEF InBatch
  <2> QED BY <2>1, ModRange DEF Offsets
<1>2. /\ poolFresh' \in [Slots -> SUBSET Offsets]
      /\ tileFresh' \in [Blocks -> SUBSET Offsets]
  BY <1>1 DEF Store, TypeInv, TypeOK
<1> QED
  BY <1>2 DEF Store, TypeInv, TypeOK, RowsCovered, scheduler, batch, slots, labels, Phases

\* The rows of a drafter pass lie within their block tables.
LEMMA TypeNextPass ==
  ASSUME TypeInv, NEW accepted \in [Reqs -> Nat], NextPass(accepted), table' = table
  PROVE  /\ phase' \in Phases /\ pass' \in 0 .. DraftPasses
         /\ seqLen' \in [Reqs -> Nat] /\ queryLen' \in [Reqs -> Nat]
         /\ RowsCovered'
<1>0. pass \in 0 .. DraftPasses /\ DraftPasses \in Nat /\ Group \in Nat /\ MaxLen \in Nat
  BY ConstantTypes DEF TypeInv, TypeOK
<1>1. CASE pass < DraftPasses /\ DraftRows(pass + 1, accepted) # {}
  <2>1. /\ pass' = pass + 1 /\ phase' = "mark"
        /\ seqLen' = [r \in Reqs |-> IF r \in DraftRows(pass + 1, accepted)
                                      THEN accepted[r] + (pass + 1) ELSE 0]
        /\ queryLen' = [r \in Reqs |-> IF r \in DraftRows(pass + 1, accepted) THEN 1 ELSE 0]
    BY <1>1 DEF NextPass, DraftBatch
  <2>2. seqLen' \in [Reqs -> Nat] /\ queryLen' \in [Reqs -> Nat]
    BY <1>0, <2>1
  <2>3. ASSUME NEW r \in Reqs
        PROVE  queryLen'[r] <= seqLen'[r] /\ seqLen'[r] <= Len(table'[r]) * Group
    <3>1. Len(table[r]) \in Nat /\ Len(table[r]) * Group \in Nat
      BY VariableTypes, <1>0
    <3>2. CASE r \in DraftRows(pass + 1, accepted)
      <4>1. accepted[r] + (pass + 1) <= Smaller(MaxLen, Len(table[r]) * Group)
        BY <3>2 DEF DraftRows
      <4> QED BY <4>1, <3>1, <3>2, <2>1, <1>0 DEF Smaller
    <3>3. CASE r \notin DraftRows(pass + 1, accepted)
      BY <3>1, <3>3, <2>1
    <3> QED BY <3>2, <3>3
  <2> QED BY <1>0, <1>1, <2>1, <2>2, <2>3 DEF RowsCovered, Phases
<1>2. CASE ~(pass < DraftPasses /\ DraftRows(pass + 1, accepted) # {})
  <2>1. pass' = 0 /\ phase' = "idle" /\ seqLen' = NoRow /\ queryLen' = NoRow
    BY <1>2 DEF NextPass
  <2>2. \A r \in Reqs : Len(table[r]) * Group \in Nat
    BY VariableTypes, <1>0
  <2> QED BY <1>0, <2>1, <2>2 DEF NoRow, RowsCovered, Phases
<1> QED BY <1>1, <1>2

LEMMA TypeSample ==
  ASSUME TypeInv, Sample
  PROVE  TypeInv'
<1>1. PICK kept \in [live -> 1 .. (MaxQuery + Chunk)] :
        LET accepted == [r \in Reqs |-> IF r \in live THEN computed[r] + kept[r] ELSE 0]
        IN computed' = accepted /\ NextPass(accepted)
  BY DEF Sample
<1> DEFINE accepted == [r \in Reqs |-> IF r \in live THEN computed[r] + kept[r] ELSE 0]
<1>2. accepted \in [Reqs -> Nat]
  BY VariableTypes, ConstantTypes
<1>3. computed' = accepted /\ NextPass(accepted) /\ table' = table
  BY <1>1 DEF Sample
<1> HIDE DEF accepted
<1>4. /\ phase' \in Phases /\ pass' \in 0 .. DraftPasses
      /\ seqLen' \in [Reqs -> Nat] /\ queryLen' \in [Reqs -> Nat]
      /\ RowsCovered'
  BY <1>2, <1>3, TypeNextPass
<1> QED
  BY <1>2, <1>3, <1>4 DEF Sample, TypeInv, TypeOK, slots, labels, data

LEMMA TypeDraft ==
  ASSUME TypeInv, Draft
  PROVE  TypeInv'
<1>1. computed \in [Reqs -> Nat] /\ NextPass(computed) /\ table' = table
  BY DEF Draft, TypeInv, TypeOK, scheduler
<1>2. /\ phase' \in Phases /\ pass' \in 0 .. DraftPasses
      /\ seqLen' \in [Reqs -> Nat] /\ queryLen' \in [Reqs -> Nat]
      /\ RowsCovered'
  BY <1>1, TypeNextPass
<1> QED
  BY <1>2 DEF Draft, TypeInv, TypeOK, scheduler, slots, labels, data

LEMMA TypeRestart ==
  ASSUME Restart
  PROVE  TypeInv'
<1>1. TypeOK'
  BY PoolAssumption DEF Restart, TypeOK, PoolAssumption, NoRow, Phases
<1>2. RowsCovered'
  BY ConstantTypes DEF Restart, RowsCovered, NoRow
<1> QED BY <1>1, <1>2 DEF TypeInv

LEMMA TypeStep == TypeInv /\ [Next]_vars => TypeInv'
<1> SUFFICES ASSUME TypeInv, [Next]_vars PROVE TypeInv'
  OBVIOUS
<1>1. CASE UNCHANGED vars
  BY <1>1 DEF TypeInv, TypeOK, RowsCovered, vars, scheduler, batch, slots, labels, data
<1>2. ASSUME NEW r \in Reqs, Arrive(r) \/ Leave(r) \/ ScheduleRow(r)
      PROVE  TypeInv'
  BY <1>2, TypeArrive, TypeLeave, TypeScheduleRow
<1>3. ASSUME Builder
      PROVE  TypeInv'
  BY <1>3, TypeMarkSinks, TypeFlush, TypeSkipFlush, TypeAllocate, TypeEvict, TypeExhausted
  DEF Builder
<1>4. ASSUME Dispatch \/ Store \/ Sample \/ Draft \/ Restart
      PROVE  TypeInv'
  BY <1>4, TypeDispatch, TypeStore, TypeSample, TypeDraft, TypeRestart
<1> QED BY <1>1, <1>2, <1>3, <1>4 DEF Next

\* Every variable of the pool and of the batch keeps its type, and every row
\* of a batch lies within its block table (KVarNMetadataBuilder.build indexes
\* block_table_np by it).
THEOREM PoolTypes == Spec => []TypeInv
BY TypeInit, TypeStep, PTL DEF Spec

THEOREM PoolTypeCorrect == Spec => []TypeOK
<1>1. TypeInv => TypeOK
  BY DEF TypeInv
<1> QED BY <1>1, PoolTypes, PTL

----------------------------------------------------------------------------
(* Slots.                                                                  *)

LEMMA PartitionInit == Init => SlotPartition
BY PoolAssumption DEF Init, SlotPartition, Held

LEMMA PartitionFlush ==
  ASSUME TypeInv, SlotPartition, FlushAndReclaim
  PROVE  SlotPartition'
<1> DEFINE gone == ToFlush \cup ToDiscard
<1>1. gone \subseteq Held
  BY DEF ToFlush, ToDiscard, Queued, WalkBack, WalkFrom, Flushable, Complete, Leftover
<1>2. /\ dict_map' = [b \in Blocks |-> IF b \in gone THEN NoSlot ELSE dict_map[b]]
      /\ b2s_t' = [b \in Blocks |-> IF b \in gone THEN NoSlot ELSE b2s_t[b]]
      /\ free_slots' = free_slots \cup {dict_map[b] : b \in gone}
  BY DEF FlushAndReclaim, Returned
<1> HIDE DEF gone
<1>3. Held' = Held \ gone
  BY <1>1, <1>2 DEF Held
<1>4. \A b \in Held : dict_map[b] \in Slots
  BY DEF Held, TypeInv, TypeOK
<1>5. \A b \in Held' : dict_map'[b] = dict_map[b]
  BY <1>2, <1>3 DEF Held
<1>6. free_slots' = Slots \ {dict_map'[b] : b \in Held'}
  <2>1. free_slots' \subseteq Slots \ {dict_map[b] : b \in Held \ gone}
    BY <1>1, <1>2, <1>4 DEF SlotPartition
  <2>2. Slots \ {dict_map[b] : b \in Held \ gone} \subseteq free_slots'
    BY <1>1, <1>2 DEF SlotPartition
  <2>3. {dict_map'[b] : b \in Held'} = {dict_map[b] : b \in Held \ gone}
    BY <1>3, <1>5
  <2> QED BY <2>1, <2>2, <2>3
<1>7. \A b, c \in Held' : b # c => dict_map'[b] # dict_map'[c]
  BY <1>3, <1>5 DEF SlotPartition
<1>8. b2s_t' = dict_map'
  BY <1>2 DEF SlotPartition
<1> QED BY <1>6, <1>7, <1>8 DEF SlotPartition

LEMMA PartitionAllocate ==
  ASSUME TypeInv, SlotPartition, NEW b \in Blocks, Allocate(b)
  PROVE  SlotPartition'
<1>1. PICK s \in free_slots : /\ dict_map' = [dict_map EXCEPT ![b] = s]
                             /\ b2s_t' = [b2s_t EXCEPT ![b] = s]
                             /\ free_slots' = free_slots \ {s}
  BY DEF Allocate
<1>2. s \in Slots /\ s # NoSlot /\ b \notin Held
  BY PoolAssumption DEF PoolAssumption, TypeInv, TypeOK, Allocate, Unslotted
<1>3. Held' = Held \cup {b}
  BY <1>1, <1>2 DEF Held, TypeInv, TypeOK
<1>4. dict_map'[b] = s /\ \A c \in Held : dict_map'[c] = dict_map[c]
  BY <1>1, <1>2 DEF Held, TypeInv, TypeOK
<1>5. \A c \in Held : dict_map[c] # s
  BY DEF SlotPartition
<1>6. {dict_map'[c] : c \in Held'} = {dict_map[c] : c \in Held} \cup {s}
  BY <1>3, <1>4
<1>7. free_slots' = Slots \ {dict_map'[c] : c \in Held'}
  BY <1>1, <1>6 DEF SlotPartition
<1>8. \A c, d \in Held' : c # d => dict_map'[c] # dict_map'[d]
  BY <1>3, <1>4, <1>5 DEF SlotPartition
<1> QED BY <1>1, <1>7, <1>8 DEF SlotPartition

LEMMA PartitionEvict ==
  ASSUME TypeInv, SlotPartition, NEW b \in Blocks, EvictRetired(b)
  PROVE  SlotPartition'
<1>1. /\ dict_map' = [dict_map EXCEPT ![b] = NoSlot]
      /\ b2s_t' = [b2s_t EXCEPT ![b] = NoSlot]
      /\ free_slots = {}
  BY DEF EvictRetired
<1>2. Held' = Held \ {b} /\ \A c \in Held' : dict_map'[c] = dict_map[c]
  BY <1>1 DEF Held, TypeInv, TypeOK
<1>3. \A c, d \in Held' : c # d => dict_map'[c] # dict_map'[d]
  BY <1>2 DEF SlotPartition
<1>4. {dict_map'[c] : c \in Held'} = {dict_map[c] : c \in Held \ {b}}
  BY <1>2
<1>5. free_slots' = Slots \ {dict_map[c] : c \in Held \ {b}}
  <2>1. CASE b \in Held
    <3>1. free_slots' = {dict_map[b]} /\ dict_map[b] \in Slots
      BY <2>1 DEF EvictRetired, Held, TypeInv, TypeOK
    <3>2. \A s \in Slots : \E c \in Held : dict_map[c] = s
      BY <1>1 DEF SlotPartition
    <3>3. \A c \in Held \ {b} : dict_map[c] # dict_map[b]
      BY <2>1 DEF SlotPartition
    <3> QED BY <3>1, <3>2, <3>3
  <2>2. CASE b \notin Held
    BY <2>2 DEF EvictRetired, SlotPartition
  <2> QED BY <2>1, <2>2
<1> QED BY <1>1, <1>3, <1>4, <1>5 DEF SlotPartition

LEMMA PartitionStep == TypeInv /\ SlotPartition /\ [Next]_vars => SlotPartition'
<1> SUFFICES ASSUME TypeInv, SlotPartition, [Next]_vars PROVE SlotPartition'
  OBVIOUS
<1>1. CASE UNCHANGED slots
  BY <1>1 DEF slots, SlotPartition, Held
<1>2. CASE FlushAndReclaim
  BY <1>2, PartitionFlush
<1>3. ASSUME NEW b \in Blocks, Allocate(b) \/ EvictRetired(b)
      PROVE  SlotPartition'
  BY <1>3, PartitionAllocate, PartitionEvict
<1>4. CASE Restart
  BY <1>4, PoolAssumption DEF Restart, SlotPartition, Held
<1> QED
  BY <1>1, <1>2, <1>3, <1>4 DEF Next, vars, Builder, Arrive, Leave, ScheduleRow, Dispatch,
     MarkSinks, SkipFlush, PoolExhausted, Store, Sample, Draft

\* No slot of the fp16 pool is held by two blocks, leaked, or both free and in
\* use, and the GPU mirror agrees with the dictionary: for any number of
\* blocks, slots and requests (flush, reclaim, allocate, evict, reset).
THEOREM PoolSlotPartition == Spec => []SlotPartition
BY PartitionInit, PartitionStep, PoolTypes, PTL DEF Spec

----------------------------------------------------------------------------
(* Labels. A retired sink is complete: that is what keeps the reclaim from *)
(* discarding it on a later step.                                          *)

RetiredComplete == \A b \in retired : fill[b] >= Group

LabelInv == RetiredIsSpare /\ RetiredComplete

LEMMA LabelInit == Init => LabelInv
BY DEF Init, LabelInv, RetiredIsSpare, RetiredComplete

LEMMA LabelMarkSinks ==
  ASSUME TypeInv, LabelInv, MarkSinks
  PROVE  LabelInv'
<1>1. /\ needed' = BlocksNeeded /\ retired' = retired \ BlocksNeeded
      /\ retired' \subseteq sinks' /\ UNCHANGED slots
  BY DEF MarkSinks, Unretired, LabelInv, RetiredIsSpare
<1>2. Held' = Held
  BY <1>1 DEF Held, slots
<1>3. \A b \in retired' : b \notin Written /\ b \in Blocks
  BY <1>1 DEF BlocksNeeded, TypeInv, TypeOK
<1>4. \A b \in retired' : fill'[b] = fill[b]
  BY <1>3 DEF MarkSinks
<1> QED
  BY <1>1, <1>2, <1>4 DEF LabelInv, RetiredIsSpare, RetiredComplete

LEMMA LabelFlush ==
  ASSUME TypeInv, LabelInv, FlushAndReclaim
  PROVE  /\ LabelInv' /\ Held' \subseteq needed' \cup retired'
<1> DEFINE gone == ToFlush \cup ToDiscard
<1>1. /\ dict_map' = [b \in Blocks |-> IF b \in gone THEN NoSlot ELSE dict_map[b]]
      /\ fill' = [b \in Blocks |-> IF b \in gone THEN 0 ELSE fill[b]]
      /\ retired' = retired \cup ToRetire /\ sinks' = sinks \ ToDiscard
      /\ needed' = needed /\ phase' = "alloc" /\ phase = "flush"
  BY DEF FlushAndReclaim
<1>2. Queued \cap sinks = {} /\ Queued \subseteq Held
  BY DEF Queued, WalkBack, WalkFrom, Flushable
<1>3. retired \subseteq Complete
  BY <1>1, <1>2 DEF LabelInv, RetiredIsSpare, RetiredComplete, Complete, Leftover
<1>4. retired' \cap gone = {}
  BY <1>1, <1>2, <1>3 DEF ToRetire, ToFlush, ToDiscard, LabelInv, RetiredIsSpare
<1>5. Held' = Held \ gone
  <2>1. gone \subseteq Held
    BY <1>2 DEF ToFlush, ToDiscard, Complete, Leftover
  <2> HIDE DEF gone
  <2> QED BY <1>1, <2>1 DEF Held
<1>6. retired' \subseteq sinks' \cap Held'
  <2>1. retired' \subseteq sinks \cap Held
    BY <1>1 DEF ToRetire, Complete, Leftover, LabelInv, RetiredIsSpare
  <2> QED BY <1>1, <1>4, <1>5, <2>1
<1>7. retired' \cap needed' = {}
  BY <1>1 DEF ToRetire, Complete, Leftover, LabelInv, RetiredIsSpare
<1>8. \A b \in retired' : fill'[b] >= Group
  <2>1. \A b \in retired' : fill[b] >= Group /\ b \in Blocks
    BY <1>1 DEF ToRetire, Complete, Leftover, Held, LabelInv, RetiredComplete, TypeInv, TypeOK
  <2> HIDE DEF gone
  <2> QED BY <1>1, <1>4, <2>1
<1>9. Held' \subseteq needed' \cup retired'
  BY <1>1, <1>5 DEF ToFlush, ToDiscard, ToRetire, Leftover
<1> QED
  BY <1>6, <1>7, <1>8, <1>9 DEF LabelInv, RetiredIsSpare, RetiredComplete

LEMMA LabelAllocate ==
  ASSUME TypeInv, LabelInv, NEW b \in Blocks, Allocate(b)
  PROVE  /\ LabelInv' /\ Held' = Held \cup {b}
<1>1. PICK s \in free_slots : dict_map' = [dict_map EXCEPT ![b] = s]
  BY DEF Allocate
<1>2. s # NoSlot
  BY PoolAssumption DEF PoolAssumption, TypeInv, TypeOK
<1>3. Held' = Held \cup {b}
  BY <1>1, <1>2 DEF Held, TypeInv, TypeOK
<1>4. UNCHANGED <<sinks, retired, fill, needed, phase>>
  BY DEF Allocate, labels
<1> QED
  BY <1>3, <1>4 DEF LabelInv, RetiredIsSpare, RetiredComplete

LEMMA LabelEvict ==
  ASSUME TypeInv, LabelInv, NEW b \in Blocks, EvictRetired(b)
  PROVE  /\ LabelInv' /\ Held' = Held \ {b}
<1>1. /\ dict_map' = [dict_map EXCEPT ![b] = NoSlot]
      /\ retired' = retired \ {b} /\ sinks' = sinks \ {b}
      /\ fill' = [fill EXCEPT ![b] = 0]
      /\ needed' = needed /\ phase' = phase
  BY DEF EvictRetired
<1>2. Held' = Held \ {b}
  BY <1>1 DEF Held, TypeInv, TypeOK
<1>3. \A c \in retired' : fill'[c] = fill[c]
  BY <1>1 DEF TypeInv, TypeOK
<1> QED
  BY <1>1, <1>2, <1>3 DEF LabelInv, RetiredIsSpare, RetiredComplete

LEMMA LabelStep == TypeInv /\ LabelInv /\ [Next]_vars => LabelInv'
<1> SUFFICES ASSUME TypeInv, LabelInv, [Next]_vars PROVE LabelInv'
  OBVIOUS
<1>1. CASE UNCHANGED <<slots, labels, needed, phase>>
  BY <1>1 DEF slots, labels, LabelInv, RetiredIsSpare, RetiredComplete, Held
<1>2. CASE /\ UNCHANGED <<slots, labels>> /\ phase' \notin {"flush", "alloc"}
  BY <1>2 DEF slots, labels, LabelInv, RetiredIsSpare, RetiredComplete, Held
<1>3. CASE SkipFlush
  BY <1>3 DEF SkipFlush, slots, labels, LabelInv, RetiredIsSpare, RetiredComplete, Held
<1>4. CASE Restart
  BY <1>4 DEF Restart, LabelInv, RetiredIsSpare, RetiredComplete
<1>5. ASSUME NEW b \in Blocks, Allocate(b) \/ EvictRetired(b)
      PROVE  LabelInv'
  BY <1>5, LabelAllocate, LabelEvict
<1>6. CASE MarkSinks \/ FlushAndReclaim
  BY <1>6, LabelMarkSinks, LabelFlush
<1>7. CASE Sample \/ Draft
  BY <1>7, <1>2 DEF Sample, Draft, NextPass
<1> QED
  BY <1>1, <1>2, <1>3, <1>4, <1>5, <1>6, <1>7 DEF Next, vars, Builder, Arrive, Leave,
     ScheduleRow, Dispatch, PoolExhausted, Store

\* A retired sink keeps its label and its slot, and the builds that need it
\* have taken it off the list first: the eviction of build() never takes a
\* block the same step writes or reads as its sink.
THEOREM PoolRetiredIsSpare == Spec => []RetiredIsSpare
<1>1. Spec => []LabelInv
  BY LabelInit, LabelStep, PoolTypes, PTL DEF Spec
<1>2. LabelInv => RetiredIsSpare
  BY DEF LabelInv
<1> QED BY <1>1, <1>2, PTL

----------------------------------------------------------------------------
(* Exhaustion. After the flush every slot is held by a block the step needs*)
(* or by a retired sink, so that once no slot and no retired sink is left, *)
(* the step needs more blocks than there are slots.                        *)

Reclaimed == phase = "alloc" /\ pass = 0 => Held \subseteq needed \cup retired

DemandInv == Reclaimed /\ ExhaustedOnlyByDemand

LEMMA ExhaustedStep ==
  ASSUME TypeInv, SlotPartition, DemandInv, PoolExhausted
  PROVE  DemandInv'
<1> SUFFICES ASSUME pass = 0
             PROVE  Cardinality(needed) > Cardinality(Slots)
  BY DEF PoolExhausted, DemandInv, Reclaimed, ExhaustedOnlyByDemand
<1>1. Held \subseteq needed /\ Held # needed
  BY DEF PoolExhausted, DemandInv, Reclaimed, Unslotted
<1>2. IsFiniteSet(needed)
  BY PoolAssumption, FS_Subset DEF PoolAssumption, TypeInv, TypeOK
<1>3. IsFiniteSet(Held) /\ Cardinality(Held) < Cardinality(needed)
  BY <1>1, <1>2, FS_Subset, FS_CardinalityType
<1>4. Cardinality(Slots) <= Cardinality(Held)
  <2> DEFINE f == [b \in Held |-> dict_map[b]]
  <2>1. \A s \in Slots : \E b \in Held : dict_map[b] = s
    BY DEF PoolExhausted, SlotPartition
  <2>2. \A b \in Held : dict_map[b] \in Slots
    BY DEF Held, TypeInv, TypeOK
  <2>3. f \in Surjection(Held, Slots)
    BY <2>1, <2>2 DEF Surjection
  <2> QED BY <1>3, <2>3, FS_Surjection
<1> QED
  BY <1>2, <1>3, <1>4, PoolAssumption, FS_CardinalityType DEF PoolAssumption

LEMMA DemandStep ==
  TypeInv /\ SlotPartition /\ LabelInv /\ DemandInv /\ [Next]_vars => DemandInv'
<1> SUFFICES ASSUME TypeInv, SlotPartition, LabelInv, DemandInv, [Next]_vars
             PROVE  DemandInv'
  OBVIOUS
<1>1. CASE UNCHANGED vars
  BY <1>1 DEF vars, slots, labels, DemandInv, Reclaimed, ExhaustedOnlyByDemand, Held
<1>2. CASE phase' \notin {"alloc", "dead"}
  BY <1>2 DEF DemandInv, Reclaimed, ExhaustedOnlyByDemand
<1>3. CASE FlushAndReclaim
  BY <1>3, LabelFlush DEF FlushAndReclaim, DemandInv, Reclaimed, ExhaustedOnlyByDemand
<1>4. CASE SkipFlush
  <2>1. pass' # 0 /\ phase' = "alloc"
    BY <1>4 DEF SkipFlush, AllowFlush
  <2> QED BY <2>1 DEF DemandInv, Reclaimed, ExhaustedOnlyByDemand
<1>5. ASSUME NEW b \in Blocks, Allocate(b)
      PROVE  DemandInv'
  <2>1. /\ Held' = Held \cup {b} /\ b \in needed /\ phase = "alloc" /\ phase' = "alloc"
        /\ UNCHANGED <<pass, needed, retired>>
    BY <1>5, LabelAllocate DEF Allocate, Unslotted, labels
  <2> QED BY <2>1 DEF DemandInv, Reclaimed, ExhaustedOnlyByDemand
<1>6. ASSUME NEW b \in Blocks, EvictRetired(b)
      PROVE  DemandInv'
  <2>1. /\ Held' = Held \ {b} /\ retired' = retired \ {b}
        /\ phase = "alloc" /\ phase' = "alloc" /\ UNCHANGED <<pass, needed>>
    BY <1>6, LabelEvict DEF EvictRetired
  <2> QED BY <2>1 DEF DemandInv, Reclaimed, ExhaustedOnlyByDemand
<1>7. CASE PoolExhausted
  BY <1>7, ExhaustedStep
<1> QED
  BY <1>1, <1>2, <1>3, <1>4, <1>5, <1>6, <1>7 DEF Next, Builder, Arrive, Leave,
     ScheduleRow, Dispatch, MarkSinks, Store, Sample, Draft, NextPass, Restart

\* A target build raises "KVarN pool exhausted" only when the blocks this one
\* step needs outnumber the slots: what finished requests left behind never
\* costs a live request its slot.
THEOREM PoolExhaustion == Spec => []ExhaustedOnlyByDemand
<1>1. Init => DemandInv
  BY DEF Init, DemandInv, Reclaimed, ExhaustedOnlyByDemand
<1>2. Spec => [](TypeInv /\ SlotPartition /\ LabelInv)
  BY LabelInit, LabelStep, PoolTypes, PoolSlotPartition, PTL DEF Spec
<1>3. DemandInv => ExhaustedOnlyByDemand
  BY DEF DemandInv
<1> QED BY <1>1, <1>2, <1>3, DemandStep, PTL DEF Spec

----------------------------------------------------------------------------
(* Sinks of running requests. From the target's build on, the first block  *)
(* of a running request, if it is a sink, is first needed and then, in the *)
(* drafter passes, which name fewer blocks, at least not retired.          *)

FirstOf(r) == table[r][1]

SinkInv ==
  /\ phase = "idle" => pass = 0
  /\ pass = 0 /\ phase \in {"mark", "flush", "alloc", "attend"} => InBatch = live
  /\ pass = 0 /\ phase \in {"flush", "alloc"} =>
       \A r \in live : FirstOf(r) \in sinks => FirstOf(r) \in needed
  /\ phase = "attend" \/ pass > 0 =>
       \A r \in live : FirstOf(r) \in sinks => FirstOf(r) \notin retired

LEMMA SinkInit == Init => SinkInv
BY DEF Init, SinkInv

LEMMA SinkMark ==
  ASSUME TypeInv, LabelInv, SinkInv, MarkSinks
  PROVE  /\ SinkInv'
         /\ \A r \in live : FirstOf(r) \in sinks => FirstOf(r) \in sinks'
<1>1. /\ phase = "mark" /\ phase' = "flush" /\ pass' = pass /\ live' = live
      /\ table' = table /\ seqLen' = seqLen
      /\ needed' = BlocksNeeded /\ retired' = retired \ BlocksNeeded
      /\ sinks' = (sinks \cup (FirstBlocks \cap Written)) \
                    ((retired \cap BlocksNeeded) \ FirstBlocks)
  BY DEF MarkSinks, Unretired, scheduler, batch
<1>2. InBatch' = InBatch /\ \A r \in live : FirstOf(r)' = FirstOf(r)
  BY <1>1 DEF InBatch, FirstOf
<1>3. pass \in Nat
  BY ConstantTypes DEF TypeInv, TypeOK
<1>4. CASE pass = 0
  <2>1. \A r \in live : FirstOf(r) \in FirstBlocks
    BY <1>1, <1>4 DEF SinkInv, FirstBlocks, FirstOf
  <2> QED BY <1>1, <1>2, <1>4, <2>1 DEF SinkInv, BlocksNeeded
<1>5. CASE pass > 0
  <2>1. \A r \in live : FirstOf(r) \in sinks => FirstOf(r) \notin retired
    BY <1>5 DEF SinkInv
  <2> QED BY <1>1, <1>2, <1>5, <2>1 DEF SinkInv, BlocksNeeded
<1> QED BY <1>3, <1>4, <1>5

LEMMA SinkFlush ==
  ASSUME TypeInv, LabelInv, SinkInv, FlushAndReclaim
  PROVE  /\ SinkInv'
         /\ \A r \in live : FirstOf(r) \in sinks \cap Held =>
              FirstOf(r) \in sinks' /\ dict_map'[FirstOf(r)] # NoSlot
<1>1. /\ phase = "flush" /\ phase' = "alloc" /\ pass = 0 /\ pass' = 0
      /\ UNCHANGED <<live, table, seqLen, needed>>
      /\ sinks' = sinks \ ToDiscard
      /\ dict_map' = [b \in Blocks |-> IF b \in ToFlush \cup ToDiscard THEN NoSlot
                                       ELSE dict_map[b]]
  BY DEF FlushAndReclaim, AllowFlush, scheduler, batch
<1>2. \A b \in sinks \cap needed : b \notin ToFlush \cup ToDiscard
  BY DEF ToFlush, ToDiscard, Complete, Leftover, Queued, WalkBack, WalkFrom, Flushable
<1>3. SinkInv'
  BY <1>1 DEF SinkInv, InBatch, FirstOf
<1>4. \A r \in live : FirstOf(r) \in sinks => FirstOf(r) \in needed
  BY <1>1 DEF SinkInv
<1>5. \A b \in Held : b \in Blocks /\ dict_map[b] # NoSlot
  BY DEF Held
<1> QED BY <1>1, <1>2, <1>3, <1>4, <1>5

LEMMA SinkAllocate ==
  ASSUME TypeInv, LabelInv, SinkInv, NEW b \in Blocks, Allocate(b) \/ EvictRetired(b)
  PROVE  /\ SinkInv'
         /\ \A r \in live : FirstOf(r) \in sinks \cap Held =>
              FirstOf(r) \in sinks' /\ dict_map'[FirstOf(r)] # NoSlot
<1>1. /\ phase = "alloc" /\ UNCHANGED <<phase, pass, live, table, seqLen, needed>>
      /\ retired' \subseteq retired /\ sinks' \subseteq sinks
  BY DEF Allocate, EvictRetired, scheduler, batch, labels
<1>2. SinkInv'
  BY <1>1 DEF SinkInv, InBatch, FirstOf
<1>3. CASE Allocate(b)
  <2>1. PICK s \in Slots : dict_map' = [dict_map EXCEPT ![b] = s] /\ sinks' = sinks
    BY <1>3 DEF Allocate, labels, TypeInv, TypeOK
  <2>2. s # NoSlot
    BY PoolAssumption DEF PoolAssumption
  <2>3. \A c \in Held : dict_map'[c] # NoSlot
    BY <2>1, <2>2 DEF Held, TypeInv, TypeOK
  <2> QED BY <1>2, <2>1, <2>3
<1>4. CASE EvictRetired(b)
  <2>1. b \in retired /\ retired \cap needed = {}
    BY <1>1, <1>4 DEF EvictRetired, LabelInv, RetiredIsSpare
  <2>2. \A r \in live : FirstOf(r) \in sinks => FirstOf(r) # b
    <3>1. pass \in Nat
      BY ConstantTypes DEF TypeInv, TypeOK
    <3> QED BY <1>1, <2>1, <3>1 DEF SinkInv
  <2>3. \A c \in Held : c # b => dict_map'[c] # NoSlot /\ (c \in sinks => c \in sinks')
    BY <1>4 DEF EvictRetired, Held, TypeInv, TypeOK
  <2> QED BY <1>2, <2>2, <2>3
<1> QED BY <1>3, <1>4

LEMMA SinkStep ==
  ASSUME TypeInv, LabelInv, SinkInv, [Next]_vars
  PROVE  SinkInv'
<1>0. pass \in Nat
  BY ConstantTypes DEF TypeInv, TypeOK
<1>1. CASE UNCHANGED vars
  BY <1>1 DEF vars, scheduler, batch, labels, SinkInv, InBatch, FirstOf
<1>2. CASE phase' = "idle" /\ pass' = 0
  BY <1>2 DEF SinkInv
<1>3. CASE phase = "idle" /\ phase' = "idle" /\ pass' = pass
  BY <1>2, <1>3 DEF SinkInv
<1>4. CASE Dispatch
  BY <1>4 DEF Dispatch, SinkInv, InBatch, scheduler, batch
<1>5. CASE MarkSinks \/ FlushAndReclaim
  BY <1>5, SinkMark, SinkFlush
<1>6. CASE SkipFlush
  BY <1>6, <1>0 DEF SkipFlush, AllowFlush, SinkInv, InBatch, FirstOf, scheduler, batch, labels
<1>7. ASSUME NEW b \in Blocks, Allocate(b) \/ EvictRetired(b)
      PROVE  SinkInv'
  BY <1>7, SinkAllocate
<1>8. CASE PoolExhausted
  BY <1>8 DEF PoolExhausted, SinkInv, InBatch, FirstOf, scheduler, batch, labels
<1>9. CASE Store
  <2>1. /\ phase = "alloc" /\ phase' = "attend" /\ retired \cap needed = {}
        /\ UNCHANGED <<pass, live, table, seqLen, sinks, retired>>
    BY <1>9 DEF Store, scheduler, batch, labels, LabelInv, RetiredIsSpare
  <2>2. \A r \in live : FirstOf(r) \in sinks => FirstOf(r) \notin retired
    BY <1>0, <2>1 DEF SinkInv
  <2> QED BY <2>1, <2>2 DEF SinkInv, InBatch, FirstOf
<1>10. CASE Sample \/ Draft
  <2>1. /\ phase = "attend" /\ UNCHANGED <<live, table, sinks, retired>>
    BY <1>10 DEF Sample, Draft, scheduler, labels
  <2>2. \/ phase' = "idle" /\ pass' = 0
        \/ phase' = "mark" /\ pass' = pass + 1
    BY <1>10 DEF Sample, Draft, NextPass
  <2> QED BY <1>0, <1>2, <2>1, <2>2 DEF SinkInv, FirstOf
<1> QED
  BY <1>1, <1>2, <1>3, <1>4, <1>5, <1>6, <1>7, <1>8, <1>9, <1>10
  DEF Next, Builder, Arrive, Leave, ScheduleRow, Restart

LEMMA LiveSinkStep ==
  ASSUME TypeInv, LabelInv, SinkInv, [Next]_vars, NEW r \in live \cap live',
         table[r] # << >>, FirstOf(r) \in sinks \cap Held
  PROVE  table'[r][1] \in sinks' /\ dict_map'[FirstOf(r)] # NoSlot
<1>0. dict_map[FirstOf(r)] # NoSlot /\ r \in Reqs
  BY DEF Held, TypeInv, TypeOK
<1>1. CASE UNCHANGED <<table, sinks, dict_map>>
  BY <1>0, <1>1 DEF FirstOf
<1>2. CASE MarkSinks
  BY <1>0, <1>2, SinkMark DEF MarkSinks, FirstOf, scheduler, slots
<1>3. CASE FlushAndReclaim
  BY <1>3, SinkFlush DEF FlushAndReclaim, FirstOf, scheduler
<1>4. ASSUME NEW b \in Blocks, Allocate(b) \/ EvictRetired(b)
      PROVE  table'[r][1] \in sinks' /\ dict_map'[FirstOf(r)] # NoSlot
  <2>1. table' = table
    BY <1>4 DEF Allocate, EvictRetired, scheduler
  <2> QED BY <1>4, <2>1, SinkAllocate DEF FirstOf
<1>5. ASSUME NEW q \in Reqs, Arrive(q) \/ Leave(q)
      PROVE  table'[r][1] \in sinks' /\ dict_map'[FirstOf(r)] # NoSlot
  <2>1. r # q /\ UNCHANGED <<sinks, dict_map>> /\ table'[r] = table[r]
    BY <1>0, <1>5 DEF Arrive, Leave, slots, labels, TypeInv, TypeOK
  <2> QED BY <1>0, <2>1 DEF FirstOf
<1>6. ASSUME NEW q \in Reqs, ScheduleRow(q)
      PROVE  table'[r][1] \in sinks' /\ dict_map'[FirstOf(r)] # NoSlot
  <2>1. UNCHANGED <<sinks, dict_map>>
    BY <1>6 DEF ScheduleRow, slots, labels
  <2>2. table'[r][1] = table[r][1]
    <3>1. PICK ext \in Seq(Blocks) : table' = [table EXCEPT ![q] = table[q] \o ext]
      <4>1. PICK n \in Nat : \E ext \in Extensions(n) :
              table' = [table EXCEPT ![q] = table[q] \o ext]
        BY <1>6, RowExtension
      <4>2. PICK e \in Extensions(n) : table' = [table EXCEPT ![q] = table[q] \o e]
        BY <4>1
      <4>3. e \in Seq(Blocks)
        BY DEF Extensions
      <4> QED BY <4>2, <4>3
    <3>2. CASE q # r
      BY <1>0, <3>1, <3>2 DEF TypeInv, TypeOK
    <3>3. CASE q = r
      <4>1. table[r] \in Seq(Blocks) /\ table'[r] = table[r] \o ext
        BY <1>0, <3>1, <3>3 DEF TypeInv, TypeOK
      <4>2. Len(table[r]) >= 1
        BY <4>1, EmptySeq, LenProperties
      <4> QED BY <3>1, <4>1, <4>2, ConcatProperties
    <3> QED BY <3>2, <3>3
  <2> QED BY <1>0, <2>1, <2>2 DEF FirstOf
<1>7. CASE Restart
  BY <1>7 DEF Restart
<1> QED
  BY <1>1, <1>2, <1>3, <1>4, <1>5, <1>6, <1>7 DEF Next, Builder, vars, Dispatch, SkipFlush,
     PoolExhausted, Store, Sample, Draft, scheduler, slots, labels

\* The fp16 sink of a running request stays in the pool, labelled, for as long
\* as the request runs: no flush, reclaim, un-retiring or eviction of build(),
\* in a target or a drafter pass, takes it.
THEOREM PoolLiveSinkStays == Spec => LiveSinkStays
<1> DEFINE Stays == \A r \in live \cap live' :
                      table[r] # << >> /\ table[r][1] \in sinks \cap Held =>
                        table'[r][1] \in sinks' /\ dict_map'[table[r][1]] # NoSlot
<1>1. TypeInv /\ LabelInv /\ SinkInv /\ [Next]_vars => SinkInv'
  BY SinkStep
<1>2. TypeInv /\ LabelInv /\ SinkInv /\ [Next]_vars => [Stays]_vars
  BY LiveSinkStep DEF FirstOf
<1>3. Spec => [](TypeInv /\ LabelInv)
  BY LabelInit, LabelStep, PoolTypes, PTL DEF Spec
<1>4. Spec => [][Stays]_vars
  BY SinkInit, <1>1, <1>2, <1>3, PTL DEF Spec
<1> QED BY <1>4 DEF LiveSinkStays

----------------------------------------------------------------------------
(* Data. A block is whole once its request has computed and accepted every *)
(* one of its tokens; the rest of the row is open. Open blocks are one     *)
(* request's own and carry no hash yet, but for the batch that is about to *)
(* complete them; what is settled, i.e. whole for a running request or     *)
(* hashed and open to none, reads whole and is complete by _block_fill; and *)
(* the tokens of open blocks are in the pool.                              *)

Full(r) == computed[r] \div Group
Open(r) == (Full(r) + 1) .. Len(table[r])

\* The tokens whose hash the scheduler knows once the step is done.
Sure(r) == IF computed[r] < Prompt[r] THEN seqLen[r] ELSE computed[r] + 1

BatchInv ==
  /\ InBatch \subseteq live
  /\ \A r \in live : computed[r] <= Len(table[r]) * Group
  /\ \A r \in InBatch :
       /\ pass = 0 => queryLen[r] \in Queries(r) /\ seqLen[r] = computed[r] + queryLen[r]
       /\ pass > 0 => queryLen[r] = 1 /\ seqLen[r] = computed[r] + pass
  /\ pass > 0 => DraftRows(pass, computed) \subseteq InBatch

\* An open block has one owner, at one place of its row.
OpenOwned ==
  \A r \in live : \A i \in Open(r) : \A q \in live : \A j \in DOMAIN table[q] :
    table[q][j] = table[r][i] => q = r /\ j = i

OpenUnhashed ==
  \A r \in live : \A i \in Open(r) :
    hash[table[r][i]] # NoKey => r \in InBatch /\ pass = 0 /\ i <= Sure(r) \div Group

Settled(b) ==
  \/ \E r \in live : \E i \in 1 .. Full(r) : table[r][i] = b
  \/ hash[b] # NoKey /\ \A r \in InBatch : \A i \in Open(r) : table[r][i] # b

SettledInv ==
  \A b \in Blocks : Settled(b) => View(b) = Offsets /\ (b \in Held => fill[b] >= Group)

\* Tokens of a row that have been stored.
Stored(r) == IF r \notin InBatch THEN computed[r]
             ELSE IF phase = "attend" THEN seqLen[r] ELSE Committed(r)

InPool(r, p) == /\ BlockAt(r, p) \in Held \ retired
                /\ p % Group \in poolFresh[dict_map[BlockAt(r, p)]]

TailInv ==
  \A r \in live : \A p \in 0 .. Stored(r) - 1 :
    (p \div Group) + 1 \in Open(r) => InPool(r, p)

\* What a build needs and has not yet allocated is what it writes.
NeedInv ==
  /\ phase \in {"idle", "mark", "attend"} => sinks \subseteq Held
  /\ phase \in {"flush", "alloc"} =>
       /\ Written \subseteq needed /\ needed \ Written \subseteq Held
       /\ sinks \subseteq Held \cup needed
  /\ phase = "flush" => needed \ Written \subseteq sinks

FillInv ==
  phase \in {"flush", "alloc", "attend"} /\ pass = 0 =>
    \A r \in InBatch : \A k \in WrittenIdx(r) : fill[table[r][k + 1]] = FillAfter(r, k)

OwnInv  == BatchInv /\ OpenOwned /\ OpenUnhashed
DataInv == OwnInv /\ SettledInv /\ TailInv /\ NeedInv /\ FillInv
PoolInv == TypeInv /\ SlotPartition /\ LabelInv /\ SinkInv

LEMMA RowFacts ==
  ASSUME TypeInv, BatchInv, NEW r \in live
  PROVE  /\ r \in Reqs /\ computed[r] \in Nat /\ Full(r) \in Nat /\ Len(table[r]) \in Nat
         /\ Full(r) <= Len(table[r])
         /\ \A i \in 1 .. Len(table[r]) : table[r][i] \in Blocks
         /\ DOMAIN table[r] = 1 .. Len(table[r])
         /\ \A i \in Open(r) : i \in 1 .. Len(table[r])
<1>1. r \in Reqs
  BY DEF TypeInv, TypeOK
<1>2. computed[r] \in Nat /\ table[r] \in Seq(Blocks) /\ Len(table[r]) \in Nat
  BY <1>1, VariableTypes
<1>3. Full(r) \in 0 .. Len(table[r])
  BY <1>2, ConstantTypes, DivBound DEF Full, BatchInv
<1>4. \A i \in Open(r) : i \in 1 .. Len(table[r])
  BY <1>2, <1>3 DEF Open
<1> QED BY <1>1, <1>2, <1>3, <1>4

LEMMA BatchFacts ==
  ASSUME TypeInv, BatchInv, NEW r \in InBatch
  PROVE  /\ r \in live /\ r \in Reqs /\ Committed(r) \in Nat /\ seqLen[r] \in Nat
         /\ queryLen[r] >= 1 /\ Committed(r) < seqLen[r]
         /\ Committed(r) >= computed[r]
         /\ pass = 0 => Committed(r) = computed[r] /\ Sure(r) <= seqLen[r]
         /\ pass > 0 => Committed(r) = computed[r] + pass - 1
<1>1. r \in live /\ r \in Reqs
  BY DEF BatchInv, InBatch
<1>2. /\ computed[r] \in Nat /\ seqLen[r] \in Nat /\ queryLen[r] \in Nat
      /\ pass \in Nat
  BY <1>1, VariableTypes, ConstantTypes DEF TypeInv, TypeOK
<1>3. CASE pass = 0
  <2>1. queryLen[r] \in Queries(r) /\ seqLen[r] = computed[r] + queryLen[r]
    BY <1>3 DEF BatchInv
  <2>2. queryLen[r] >= 1
    <3>1. /\ Prompt[r] \in Nat /\ MaxLen \in Nat /\ Chunk \in Nat /\ MaxQuery \in Nat
      BY <1>1, ConstantTypes
    <3> QED BY <2>1, <1>2, <3>1 DEF Queries, Smaller
  <2> QED BY <1>1, <1>2, <1>3, <2>1, <2>2 DEF Committed, Sure
<1>4. CASE pass > 0
  <2>1. queryLen[r] = 1 /\ seqLen[r] = computed[r] + pass
    BY <1>4 DEF BatchInv
  <2> QED BY <1>1, <1>2, <1>4, <2>1 DEF Committed
<1> QED BY <1>2, <1>3, <1>4

\* A step writes open blocks only.
LEMMA WrittenOpen ==
  ASSUME TypeInv, BatchInv, NEW r \in InBatch, NEW k \in WrittenIdx(r)
  PROVE  k + 1 \in Open(r) /\ k \in Nat
<1>1. k \in Nat /\ k + 1 \in 1 .. Len(table[r])
  BY WrittenIdxType
<1>2. Committed(r) \in Nat /\ computed[r] \in Nat /\ computed[r] <= Committed(r)
  BY BatchFacts, RowFacts
<1>3. Full(r) <= Committed(r) \div Group /\ Full(r) \in Nat /\ Committed(r) \div Group \in Nat
  BY <1>2, ConstantTypes, DivMono, DivNat DEF Full
<1>4. k >= Committed(r) \div Group
  BY <1>1, <1>3 DEF WrittenIdx
<1> QED BY <1>1, <1>3, <1>4 DEF Open

LEMMA OpenUnsettled ==
  ASSUME TypeInv, BatchInv, OpenOwned, NEW r \in InBatch, NEW i \in Open(r)
  PROVE  ~ Settled(table[r][i])
<1>1. r \in live
  BY BatchFacts
<1>2. ASSUME NEW q \in live, NEW j \in 1 .. Full(q)
      PROVE  table[q][j] # table[r][i]
  <2>1. j \in DOMAIN table[q] /\ j \notin Open(q)
    BY RowFacts DEF Open
  <2> QED BY <1>1, <2>1 DEF OpenOwned
<1> QED BY <1>2 DEF Settled

LEMMA WrittenUnsettled ==
  ASSUME TypeInv, BatchInv, OpenOwned, NEW b \in Written
  PROVE  ~ Settled(b)
BY WrittenOpen, OpenUnsettled DEF Written

\* Every token of a step goes to a written block.
LEMMA StoreIsWritten ==
  ASSUME TypeInv, BatchInv, NEW r \in InBatch, NEW p \in Committed(r) .. seqLen[r] - 1
  PROVE  p \in Nat /\ p \div Group \in WrittenIdx(r) /\ BlockAt(r, p) \in Written
<1>1. Committed(r) \in Nat /\ seqLen[r] \in Nat /\ Group \in Nat \ {0}
  BY BatchFacts, ConstantTypes
<1>2. p \in Nat /\ Committed(r) <= p /\ p <= seqLen[r] - 1 /\ seqLen[r] - 1 \in Nat
  BY <1>1
<1>3. p \div Group \in Nat /\ (seqLen[r] - 1) \div Group \in Nat /\ Committed(r) \div Group \in Nat
  BY <1>1, <1>2, DivNat
<1>4. Committed(r) \div Group <= p \div Group /\ p \div Group <= (seqLen[r] - 1) \div Group
  BY <1>1, <1>2, DivMono
<1>5. p \div Group \in WrittenIdx(r)
  BY <1>3, <1>4 DEF WrittenIdx
<1> QED BY <1>2, <1>5 DEF BlockAt, Written

LEMMA StoredAtWritten ==
  ASSUME TypeInv, BatchInv, NEW b, b \notin Written
  PROVE  StoredAt(b) = {}
<1>1. \A r \in InBatch : \A q \in Committed(r) .. (seqLen[r] - 1) : BlockAt(r, q) # b
  BY StoreIsWritten
<1> QED BY <1>1 DEF StoredAt

\* The open block a target build finds begun is one it goes on writing.
LEMMA TailWritten ==
  ASSUME TypeInv, BatchInv, pass = 0, NEW r \in InBatch,
         NEW p \in 0 .. Committed(r) - 1, (p \div Group) + 1 \in Open(r)
  PROVE  p \div Group \in WrittenIdx(r)
<1>1. Committed(r) \in Nat /\ seqLen[r] \in Nat /\ Group \in Nat \ {0}
      /\ Committed(r) = computed[r] /\ Committed(r) < seqLen[r]
  BY BatchFacts, ConstantTypes
<1>2. p \in Nat /\ p \div Group \in Nat /\ Full(r) \in Nat
  BY <1>1, DivNat DEF Full
<1>3. p \div Group <= (seqLen[r] - 1) \div Group /\ (seqLen[r] - 1) \div Group \in Nat
  BY <1>1, <1>2, DivMono, DivNat
<1>4. p \div Group >= Full(r)
  BY <1>2 DEF Open
<1> QED BY <1>1, <1>2, <1>3, <1>4 DEF WrittenIdx, Full

\* The walk of a target build takes whole blocks only.
LEMMA QueuedWhole ==
  ASSUME TypeInv, BatchInv, pass = 0, NEW b \in Queued
  PROVE  \E r \in live : \E i \in 1 .. Full(r) : table[r][i] = b
<1>1. PICK r \in InBatch : b \in WalkBack(r)
  BY DEF Queued
<1>2. PICK k \in 1 .. (Committed(r) \div Group) - 1 : b = table[r][k + 1]
  BY <1>1 DEF WalkBack, WalkFrom
<1>3. r \in live /\ Committed(r) \div Group = Full(r) /\ Full(r) \in Nat
  BY BatchFacts, RowFacts DEF Full
<1>4. k + 1 \in 1 .. Full(r)
  BY <1>3
<1> QED BY <1>2, <1>3, <1>4

LEMMA OpenNotQueued ==
  ASSUME TypeInv, BatchInv, OpenOwned, pass = 0, NEW r \in live, NEW i \in Open(r)
  PROVE  table[r][i] \notin Queued
<1> SUFFICES ASSUME table[r][i] \in Queued PROVE FALSE
  OBVIOUS
<1>1. PICK q \in live : \E j \in 1 .. Full(q) : table[q][j] = table[r][i]
  BY QueuedWhole
<1>2. PICK j \in 1 .. Full(q) : table[q][j] = table[r][i]
  BY <1>1
<1>3. j \in DOMAIN table[q] /\ j \notin Open(q)
  BY RowFacts DEF Open
<1> QED BY <1>2, <1>3 DEF OpenOwned

----------------------------------------------------------------------------
(* Steps that leave the scheduler and the batch alone.                     *)

RowsKept ==
  /\ live' = live /\ table' = table /\ InBatch' = InBatch /\ Written' = Written
  /\ \A r \in Reqs : /\ seqLen'[r] = seqLen[r]
                     /\ Full(r)' = Full(r) /\ Open(r)' = Open(r)
                     /\ Committed(r)' = Committed(r)
                     /\ WrittenIdx(r)' = WrittenIdx(r)
                     /\ \A k \in Int : FillAfter(r, k)' = FillAfter(r, k)
                     /\ \A p \in Nat : BlockAt(r, p)' = BlockAt(r, p)
  /\ \A b \in Blocks : Settled(b)' <=> Settled(b)

LEMMA RowsFrame ==
  ASSUME UNCHANGED <<scheduler, batch, pass>>
  PROVE  RowsKept /\ (OwnInv => OwnInv')
BY DEF RowsKept, scheduler, batch, InBatch, Written, WrittenIdx, Committed, Full, Open, FillAfter,
       BlockAt, Settled, OwnInv, BatchInv, OpenOwned, OpenUnhashed, Sure, Queries, DraftRows

LEMMA DataMark ==
  ASSUME PoolInv, DataInv, MarkSinks
  PROVE  DataInv'
<1>0. /\ TypeInv /\ BatchInv /\ OpenOwned /\ OwnInv /\ pass \in Nat
  BY ConstantTypes DEF PoolInv, DataInv, OwnInv, TypeInv, TypeOK
<1>1. /\ phase = "mark" /\ phase' = "flush" /\ UNCHANGED <<pass, scheduler, batch, slots, data>>
      /\ needed' = BlocksNeeded
      /\ sinks' = (sinks \cup (FirstBlocks \cap Written)) \
                    ((retired \cap BlocksNeeded) \ FirstBlocks)
      /\ retired' \subseteq retired
  BY DEF MarkSinks, Unretired
<1>2. RowsKept /\ OwnInv'
  BY <1>0, <1>1, RowsFrame
<1>3. Held' = Held /\ \A b \in Blocks : View(b)' = View(b)
  BY <1>1 DEF Held, View, slots, data
<1>4. SettledInv'
  <2> SUFFICES ASSUME NEW b \in Blocks, Settled(b)
               PROVE  View(b)' = Offsets /\ (b \in Held' => fill'[b] >= Group)
    BY <1>2 DEF SettledInv, Offsets, RowsKept
  <2>1. b \notin Written
    BY <1>0, WrittenUnsettled
  <2>2. fill'[b] = fill[b]
    BY <2>1 DEF MarkSinks
  <2> QED BY <1>3, <2>2 DEF DataInv, SettledInv
<1>5. TailInv'
  <2> SUFFICES ASSUME NEW r \in live', NEW p \in 0 .. Stored(r)' - 1,
                      (p \div Group) + 1 \in Open(r)'
               PROVE  InPool(r, p)'
    BY DEF TailInv
  <2>1. r \in live /\ r \in Reqs /\ Stored(r)' = Stored(r) /\ Open(r)' = Open(r)
    BY <1>0, <1>1, <1>2, RowFacts DEF scheduler, Stored, RowsKept, Committed
  <2>2. InPool(r, p)
    BY <2>1 DEF DataInv, TailInv
  <2> QED BY <1>1, <1>2, <1>3, <2>1, <2>2 DEF InPool, slots, data, scheduler, BlockAt
<1>6. NeedInv'
  BY <1>1, <1>2, <1>3 DEF DataInv, NeedInv, BlocksNeeded, RowsKept
<1>7. FillInv'
  <2> SUFFICES ASSUME NEW r \in InBatch, NEW k \in WrittenIdx(r)
               PROVE  fill'[table[r][k + 1]] = FillAfter(r, k)
    <3>1. \A r \in InBatch : \A k \in WrittenIdx(r) : k \in Int
      BY <1>0, WrittenOpen
    <3> QED BY <1>1, <1>2, <3>1 DEF FillInv, RowsKept, InBatch
  <2> DEFINE b == table[r][k + 1]
             q == CHOOSE q \in InBatch : \E j \in WrittenIdx(q) : table[q][j + 1] = b
             j == CHOOSE j \in WrittenIdx(q) : table[q][j + 1] = b
  <2>1. b \in Written /\ b \in Blocks
    BY <1>0, NamedBlocks DEF Written
  <2>2. q \in InBatch /\ \E l \in WrittenIdx(q) : table[q][l + 1] = b
    <3> HIDE DEF b
    <3>1. \E q_ \in InBatch : \E l \in WrittenIdx(q_) : table[q_][l + 1] = b
      BY DEF b
    <3> QED BY <3>1
  <2>3. j \in WrittenIdx(q) /\ table[q][j + 1] = b
    <3> HIDE DEF q, b
    <3> QED BY <2>2
  <2>4. fill'[b] = FillAfter(q, j)
    <3> HIDE DEF b
    <3> QED BY <2>1 DEF MarkSinks
  <2> HIDE DEF q, j
  <2>5. k + 1 \in Open(r) /\ k \in Nat /\ r \in live
    BY <1>0, WrittenOpen, BatchFacts
  <2>6. j + 1 \in DOMAIN table[q] /\ j \in Nat /\ q \in live
    BY <1>0, <2>2, <2>3, WrittenOpen, BatchFacts, RowFacts
  <2>7. q = r /\ j + 1 = k + 1
    BY <1>0, <2>3, <2>5, <2>6 DEF OpenOwned
  <2> QED BY <2>4, <2>5, <2>6, <2>7
<1> QED BY <1>2, <1>4, <1>5, <1>6, <1>7 DEF DataInv

\* Tokens in the pool stay there, and nothing else about the tail changes.
LEMMA TailFrame ==
  ASSUME PoolInv, DataInv, UNCHANGED <<scheduler, batch, pass>>,
         phase = "attend" <=> phase' = "attend",
         \A r \in live : \A p \in 0 .. Stored(r) - 1 :
           (p \div Group) + 1 \in Open(r) /\ InPool(r, p) => InPool(r, p)'
  PROVE  TailInv'
<1> SUFFICES ASSUME NEW r \in live', NEW p \in 0 .. Stored(r)' - 1,
                    (p \div Group) + 1 \in Open(r)'
             PROVE  InPool(r, p)'
  BY DEF TailInv
<1>1. RowsKept
  BY RowsFrame
<1>2. r \in live /\ r \in Reqs
  BY <1>1, RowFacts DEF RowsKept, PoolInv, DataInv, OwnInv
<1>3. Stored(r)' = Stored(r) /\ Open(r)' = Open(r)
  BY <1>1, <1>2 DEF RowsKept, Stored, scheduler
<1> QED BY <1>2, <1>3 DEF DataInv, TailInv

LEMMA FlushFacts ==
  ASSUME PoolInv, DataInv, FlushAndReclaim
  PROVE  /\ phase = "flush" /\ phase' = "alloc" /\ pass = 0
         /\ UNCHANGED <<pass, scheduler, batch, needed, poolFresh>>
         /\ \A b \in Written : b \in Blocks /\ b \in needed /\ b \notin Queued
         /\ Queued \subseteq Held \ sinks
         /\ Held' = Held \ (ToFlush \cup ToDiscard)
         /\ \A b \in Blocks : b \notin ToFlush \cup ToDiscard =>
              /\ dict_map'[b] = dict_map[b] /\ b2s_t'[b] = b2s_t[b] /\ fill'[b] = fill[b]
<1>1. phase = "flush" /\ phase' = "alloc" /\ pass = 0
      /\ UNCHANGED <<pass, scheduler, batch, needed, poolFresh>>
  BY DEF FlushAndReclaim, AllowFlush
<1>2. \A b \in Written : b \in Blocks /\ b \in needed /\ b \notin Queued
  <2>1. Written \subseteq Blocks /\ Written \subseteq needed
    BY <1>1, NamedBlocks DEF PoolInv, DataInv, NeedInv
  <2>2. ASSUME NEW r \in InBatch, NEW k \in WrittenIdx(r)
        PROVE  table[r][k + 1] \notin Queued
    BY <1>1, WrittenOpen, OpenNotQueued, BatchFacts DEF PoolInv, DataInv, OwnInv
  <2> QED BY <2>1, <2>2 DEF Written
<1>3. Queued \subseteq Held \ sinks
  BY DEF Queued, WalkBack, WalkFrom, Flushable
<1> DEFINE gone == ToFlush \cup ToDiscard
<1>4. gone \subseteq Held
  BY <1>3 DEF ToFlush, ToDiscard, Complete, Leftover
<1>5. /\ dict_map' = [b \in Blocks |-> IF b \in gone THEN NoSlot ELSE dict_map[b]]
      /\ b2s_t' = [b \in Blocks |-> IF b \in gone THEN NoSlot ELSE b2s_t[b]]
      /\ fill' = [b \in Blocks |-> IF b \in gone THEN 0 ELSE fill[b]]
  BY DEF FlushAndReclaim
<1> HIDE DEF gone
<1>6. Held' = Held \ gone
  BY <1>4, <1>5 DEF Held
<1>7. \A b \in Blocks : b \notin gone =>
        /\ dict_map'[b] = dict_map[b] /\ b2s_t'[b] = b2s_t[b] /\ fill'[b] = fill[b]
  BY <1>5
<1> QED BY <1>1, <1>2, <1>3, <1>6, <1>7 DEF gone

LEMMA DataFlush ==
  ASSUME PoolInv, DataInv, FlushAndReclaim
  PROVE  DataInv'
<1>0. TypeInv /\ BatchInv /\ OpenOwned /\ OwnInv
  BY DEF PoolInv, DataInv, OwnInv
<1>1. /\ phase = "flush" /\ phase' = "alloc" /\ pass = 0
      /\ UNCHANGED <<pass, scheduler, batch, needed, poolFresh>>
      /\ \A b \in Written : b \in Blocks /\ b \in needed /\ b \notin Queued
      /\ Queued \subseteq Held \ sinks
      /\ Held' = Held \ (ToFlush \cup ToDiscard)
      /\ \A b \in Blocks : b \notin ToFlush \cup ToDiscard =>
           /\ dict_map'[b] = dict_map[b] /\ b2s_t'[b] = b2s_t[b] /\ fill'[b] = fill[b]
  BY FlushFacts
<1>2. RowsKept /\ OwnInv'
  BY <1>0, <1>1, RowsFrame
<1>3. \A b \in needed : b \notin Queued => b \notin ToFlush \cup ToDiscard
  BY DEF ToFlush, ToDiscard, Complete, Leftover
<1>4. SettledInv'
  <2> SUFFICES ASSUME NEW b \in Blocks, Settled(b)
               PROVE  View(b)' = Offsets /\ (b \in Held' => fill'[b] >= Group)
    BY <1>2 DEF SettledInv, Offsets, RowsKept
  <2>1. View(b) = Offsets /\ (b \in Held => fill[b] >= Group)
    BY DEF DataInv, SettledInv
  <2>2. b \notin ToDiscard
    BY <2>1 DEF ToDiscard, Complete, Leftover
  <2>3. CASE b \in ToFlush
    <3>1. b2s_t'[b] = NoSlot /\ tileFresh'[b] = poolFresh[dict_map[b]]
      BY <2>3 DEF FlushAndReclaim
    <3>2. b \in Held
      BY <1>1, <2>3 DEF ToFlush, Complete, Leftover
    <3>3. View(b) = poolFresh[dict_map[b]]
      BY <3>2 DEF View, Held, PoolInv, SlotPartition
    <3> QED BY <1>1, <2>1, <2>3, <3>1, <3>3 DEF View
  <2>4. CASE b \notin ToFlush
    <3>1. tileFresh'[b] = tileFresh[b]
      BY <2>4 DEF FlushAndReclaim
    <3>2. View(b)' = View(b)
      BY <1>1, <2>2, <2>4, <3>1 DEF View
    <3> QED BY <1>1, <2>1, <2>2, <2>4, <3>2
  <2> QED BY <2>3, <2>4
<1>5. TailInv'
  <2> SUFFICES ASSUME NEW r \in live, NEW p \in 0 .. Stored(r) - 1,
                      (p \div Group) + 1 \in Open(r), InPool(r, p)
               PROVE  InPool(r, p)'
    BY <1>1, TailFrame
  <2>1. r \in InBatch /\ Stored(r) = Committed(r)
    BY <1>1 DEF PoolInv, SinkInv, Stored
  <2>2. BlockAt(r, p) \in Written /\ BlockAt(r, p) = BlockAt(r, p)'
    <3>1. p \div Group \in WrittenIdx(r)
      BY <1>0, <1>1, <2>1, TailWritten
    <3> QED BY <1>1, <2>1, <3>1 DEF BlockAt, Written, scheduler
  <2>3. BlockAt(r, p) \notin retired'
    <3>1. BlockAt(r, p) \notin ToRetire
      BY <1>1, <2>2 DEF ToRetire, Complete, Leftover
    <3> QED BY <3>1 DEF InPool, FlushAndReclaim
  <2> QED BY <1>1, <1>3, <2>2, <2>3 DEF InPool
<1>6. NeedInv'
  <2>1. needed \ Written \subseteq Held'
    BY <1>1, <1>3 DEF DataInv, NeedInv
  <2>2. sinks' \subseteq Held' \cup needed
    <3> SUFFICES ASSUME NEW b \in sinks, b \notin ToDiscard, b \notin needed
                 PROVE  b \in Held'
      BY DEF FlushAndReclaim
    <3>1. b \in Held /\ b \notin Queued
      BY <1>1 DEF DataInv, NeedInv
    <3>2. b \notin ToFlush
      BY <3>1 DEF ToFlush
    <3> QED BY <1>1, <3>1, <3>2
  <2> QED BY <1>1, <1>2, <2>1, <2>2 DEF DataInv, NeedInv, RowsKept
<1>7. FillInv'
  <2> SUFFICES ASSUME NEW r \in InBatch, NEW k \in WrittenIdx(r)
               PROVE  fill'[table[r][k + 1]] = FillAfter(r, k)
    <3>1. \A r \in InBatch : \A k \in WrittenIdx(r) : k \in Int
      BY <1>0, WrittenOpen
    <3> QED BY <1>1, <1>2, <3>1 DEF FillInv, RowsKept, InBatch
  <2>1. table[r][k + 1] \in Written
    BY DEF Written
  <2>2. fill'[table[r][k + 1]] = fill[table[r][k + 1]]
    BY <1>1, <1>3, <2>1
  <2> QED BY <1>1, <2>2 DEF DataInv, FillInv
<1> QED BY <1>2, <1>4, <1>5, <1>6, <1>7 DEF DataInv

\* Steps that only move on to the next phase.
LEMMA DataPhase ==
  ASSUME PoolInv, DataInv, Dispatch \/ SkipFlush \/ PoolExhausted
  PROVE  DataInv'
<1>1. /\ UNCHANGED <<pass, scheduler, batch, slots, labels, needed, data>>
      /\ phase # "attend" /\ phase' # "attend"
      /\ \/ phase = "idle" /\ phase' = "mark"
         \/ phase = "flush" /\ phase' = "alloc" /\ pass # 0
         \/ phase' = "dead"
  BY DEF Dispatch, SkipFlush, AllowFlush, PoolExhausted
<1>2. RowsKept /\ OwnInv'
  BY <1>1, RowsFrame DEF DataInv
<1>3. Held' = Held /\ \A b \in Blocks : View(b)' = View(b) /\ fill'[b] = fill[b]
  BY <1>1 DEF Held, View, slots, data, labels
<1>4. SettledInv'
  BY <1>2, <1>3 DEF DataInv, SettledInv, RowsKept, Offsets
<1>5. TailInv'
  <2>1. \A r \in live : \A p \in 0 .. Stored(r) - 1 : InPool(r, p) => InPool(r, p)'
    BY <1>1, <1>3 DEF InPool, BlockAt, scheduler, slots, labels, data
  <2> QED BY <1>1, <2>1, TailFrame
<1>6. NeedInv'
  BY <1>1, <1>2, <1>3 DEF DataInv, NeedInv, RowsKept, labels
<1>7. FillInv'
  BY <1>1 DEF DataInv, FillInv
<1> QED BY <1>2, <1>4, <1>5, <1>6, <1>7 DEF DataInv

\* A slot that is handed out was nobody's, and the block that gets it is one
\* the step writes from its start.
LEMMA DataAllocate ==
  ASSUME PoolInv, DataInv, NEW b \in Blocks, Allocate(b)
  PROVE  DataInv'
<1>0. TypeInv /\ BatchInv /\ OpenOwned /\ OwnInv
  BY DEF PoolInv, DataInv, OwnInv
<1>1. PICK s \in free_slots : /\ dict_map' = [dict_map EXCEPT ![b] = s]
                             /\ b2s_t' = [b2s_t EXCEPT ![b] = s]
                             /\ poolFresh' = [poolFresh EXCEPT ![s] = {}]
  BY DEF Allocate
<1>2. /\ phase = "alloc" /\ phase' = "alloc" /\ b \in needed /\ b \notin Held
      /\ UNCHANGED <<pass, scheduler, batch, labels, needed, tileFresh>>
  BY DEF Allocate, Unslotted
<1>3. RowsKept /\ OwnInv'
  BY <1>0, <1>2, RowsFrame
<1>4. Held' = Held \cup {b}
  BY LabelAllocate DEF PoolInv
<1>5. b \in Written
  BY <1>2 DEF DataInv, NeedInv
<1>6. \A c \in Blocks : c # b => dict_map'[c] = dict_map[c] /\ b2s_t'[c] = b2s_t[c]
  BY <1>1 DEF PoolInv, TypeInv, TypeOK
<1>7. \A c \in Held : c # b /\ dict_map[c] \in Slots
                      /\ poolFresh'[dict_map[c]] = poolFresh[dict_map[c]]
  <2>1. \A c \in Held : dict_map[c] # s /\ dict_map[c] \in Slots
    BY DEF PoolInv, SlotPartition, Held, TypeInv, TypeOK
  <2> QED BY <1>1, <1>2, <2>1 DEF PoolInv, TypeInv, TypeOK
<1>8. SettledInv'
  <2> SUFFICES ASSUME NEW c \in Blocks, Settled(c)
               PROVE  View(c)' = Offsets /\ (c \in Held' => fill'[c] >= Group)
    BY <1>3 DEF SettledInv, Offsets, RowsKept
  <2>1. c # b
    BY <1>0, <1>5, WrittenUnsettled
  <2>2. View(c) = Offsets /\ (c \in Held => fill[c] >= Group)
    BY DEF DataInv, SettledInv
  <2>3. View(c)' = View(c)
    <3>1. b2s_t = dict_map
      BY DEF PoolInv, SlotPartition
    <3>2. CASE c \in Held
      BY <1>6, <1>7, <2>1, <3>1, <3>2 DEF View, Held
    <3>3. CASE c \notin Held
      BY <1>2, <1>6, <2>1, <3>1, <3>3 DEF View, Held
    <3> QED BY <3>2, <3>3
  <2> QED BY <1>2, <1>4, <2>1, <2>2, <2>3 DEF labels
<1>9. TailInv'
  <2>1. \A r \in live : \A p \in 0 .. Stored(r) - 1 : InPool(r, p) => InPool(r, p)'
    <3> SUFFICES ASSUME NEW r \in live, NEW p \in 0 .. Stored(r) - 1, InPool(r, p)
                 PROVE  InPool(r, p)'
      OBVIOUS
    <3>1. BlockAt(r, p)' = BlockAt(r, p)
      BY <1>2 DEF BlockAt, scheduler
    <3>2. BlockAt(r, p) \in Held /\ BlockAt(r, p) \in Blocks
      BY DEF InPool, Held
    <3> QED BY <1>2, <1>4, <1>6, <1>7, <3>1, <3>2 DEF InPool, labels
  <2> QED BY <1>2, <2>1, TailFrame
<1>10. NeedInv'
  BY <1>2, <1>3, <1>4 DEF DataInv, NeedInv, RowsKept, labels
<1>11. FillInv'
  <2> SUFFICES ASSUME pass = 0, NEW r \in InBatch, NEW k \in WrittenIdx(r)
               PROVE  fill'[table[r][k + 1]] = FillAfter(r, k)
    <3>1. \A r \in InBatch : \A k \in WrittenIdx(r) : k \in Int
      BY <1>0, WrittenOpen
    <3> QED BY <1>2, <1>3, <3>1 DEF FillInv, RowsKept, InBatch
  <2> QED BY <1>2 DEF DataInv, FillInv, labels
<1> QED BY <1>3, <1>8, <1>9, <1>10, <1>11 DEF DataInv

\* An evicted sink is whole in its tile, and nobody's open block.
LEMMA DataEvict ==
  ASSUME PoolInv, DataInv, NEW b \in Blocks, EvictRetired(b)
  PROVE  DataInv'
<1>0. TypeInv /\ BatchInv /\ OpenOwned /\ OwnInv
  BY DEF PoolInv, DataInv, OwnInv
<1>1. /\ phase = "alloc" /\ phase' = "alloc" /\ b \in retired
      /\ UNCHANGED <<pass, scheduler, batch, needed, poolFresh>>
      /\ retired' = retired \ {b} /\ sinks' = sinks \ {b}
  BY DEF EvictRetired
<1>2. RowsKept /\ OwnInv'
  BY <1>0, <1>1, RowsFrame
<1>3. Held' = Held \ {b}
  BY LabelEvict DEF PoolInv
<1>4. b \in Held /\ b \notin needed
  BY <1>1 DEF PoolInv, LabelInv, RetiredIsSpare
<1>5. /\ \A c \in Blocks : c # b => /\ dict_map'[c] = dict_map[c] /\ b2s_t'[c] = b2s_t[c]
                                    /\ fill'[c] = fill[c] /\ tileFresh'[c] = tileFresh[c]
      /\ b2s_t'[b] = NoSlot /\ tileFresh'[b] = poolFresh[dict_map[b]]
  BY <1>4 DEF EvictRetired, PoolInv, TypeInv, TypeOK
<1>6. SettledInv'
  <2> SUFFICES ASSUME NEW c \in Blocks, Settled(c)
               PROVE  View(c)' = Offsets /\ (c \in Held' => fill'[c] >= Group)
    BY <1>2 DEF SettledInv, Offsets, RowsKept
  <2>1. View(c) = Offsets /\ (c \in Held => fill[c] >= Group)
    BY DEF DataInv, SettledInv
  <2>2. View(c)' = View(c)
    <3>1. CASE c = b
      BY <1>4, <1>5, <3>1 DEF View, Held, PoolInv, SlotPartition
    <3>2. CASE c # b
      BY <1>1, <1>5, <3>2 DEF View
    <3> QED BY <3>1, <3>2
  <2> QED BY <1>3, <1>5, <2>1, <2>2
<1>7. TailInv'
  <2>1. \A r \in live : \A p \in 0 .. Stored(r) - 1 : InPool(r, p) => InPool(r, p)'
    BY <1>1, <1>3, <1>5 DEF InPool, BlockAt, scheduler, Held
  <2> QED BY <1>1, <2>1, TailFrame
<1>8. NeedInv'
  BY <1>1, <1>2, <1>3, <1>4 DEF DataInv, NeedInv, RowsKept
<1>9. FillInv'
  <2> SUFFICES ASSUME pass = 0, NEW r \in InBatch, NEW k \in WrittenIdx(r)
               PROVE  fill'[table[r][k + 1]] = FillAfter(r, k)
    <3>1. \A r \in InBatch : \A k \in WrittenIdx(r) : k \in Int
      BY <1>0, WrittenOpen
    <3> QED BY <1>1, <1>2, <3>1 DEF FillInv, RowsKept, InBatch
  <2>1. table[r][k + 1] \in Written /\ table[r][k + 1] \in Blocks
    BY <1>0, NamedBlocks DEF Written
  <2>2. table[r][k + 1] # b
    BY <1>1, <1>4, <2>1 DEF DataInv, NeedInv
  <2> QED BY <1>1, <1>5, <2>1, <2>2 DEF DataInv, FillInv
<1> QED BY <1>2, <1>6, <1>7, <1>8, <1>9 DEF DataInv

\* The store only adds tokens to the view of a block, but for the tiles of the
\* blocks it writes, which all have a slot.
LEMMA DataStore ==
  ASSUME PoolInv, DataInv, Store
  PROVE  DataInv'
<1>0. TypeInv /\ BatchInv /\ OpenOwned /\ OwnInv /\ TypeInv'
  BY TypeStore DEF PoolInv, DataInv, OwnInv
<1>1. /\ phase = "alloc" /\ phase' = "attend" /\ needed \subseteq Held
      /\ UNCHANGED <<pass, scheduler, batch, slots, labels, needed>>
  BY DEF Store, Unslotted
<1>2. RowsKept /\ OwnInv'
  BY <1>0, <1>1, RowsFrame
<1>3. Held' = Held /\ b2s_t = dict_map /\ b2s_t' = b2s_t /\ dict_map' = dict_map
  BY <1>1 DEF Held, slots, PoolInv, SlotPartition
<1>4. \A b \in Held : b \in Blocks /\ dict_map[b] \in Slots
  BY DEF Held, PoolInv, TypeInv, TypeOK
<1>5. \A b \in Held : /\ poolFresh[dict_map[b]] \subseteq poolFresh'[dict_map[b]]
                      /\ StoredAt(b) \subseteq poolFresh'[dict_map[b]]
  BY <1>3, <1>4 DEF Store
<1>6. SettledInv'
  <2> SUFFICES ASSUME NEW b \in Blocks, Settled(b)
               PROVE  View(b)' = Offsets /\ (b \in Held' => fill'[b] >= Group)
    BY <1>2 DEF SettledInv, Offsets, RowsKept
  <2>1. View(b) = Offsets /\ (b \in Held => fill[b] >= Group)
    BY DEF DataInv, SettledInv
  <2>2. CASE b \in Held
    <3>1. View(b) = poolFresh[dict_map[b]] /\ View(b)' = poolFresh'[dict_map[b]]
      BY <1>3, <2>2 DEF View, Held
    <3>2. poolFresh'[dict_map[b]] \subseteq Offsets
      BY <1>0, <1>4, <2>2 DEF TypeInv, TypeOK, Offsets
    <3> QED BY <1>1, <1>3, <1>5, <2>1, <2>2, <3>1, <3>2 DEF labels
  <2>3. CASE b \notin Held
    <3>1. StoredAt(b) = {}
      BY <1>0, WrittenUnsettled, StoredAtWritten
    <3>2. tileFresh'[b] = tileFresh[b]
      BY <3>1 DEF Store
    <3> QED BY <1>3, <2>1, <2>3, <3>2 DEF View, Held
  <2> QED BY <2>2, <2>3
<1>7. TailInv'
  <2> SUFFICES ASSUME NEW r \in live', NEW p \in 0 .. Stored(r)' - 1,
                      (p \div Group) + 1 \in Open(r)'
               PROVE  InPool(r, p)'
    BY DEF TailInv
  <2>1. r \in live /\ r \in Reqs /\ Open(r)' = Open(r)
    BY <1>0, <1>2, RowFacts DEF RowsKept
  <2>2. BlockAt(r, p)' = BlockAt(r, p)
    BY <1>2 DEF RowsKept, BlockAt
  <2>3. CASE p \in 0 .. Stored(r) - 1
    <3>1. InPool(r, p)
      BY <2>1, <2>3 DEF DataInv, TailInv
    <3> QED BY <1>1, <1>3, <1>5, <2>2, <3>1 DEF InPool, labels
  <2>4. CASE p \notin 0 .. Stored(r) - 1
    <3>1. r \in InBatch
      BY <1>1, <1>2, <2>1, <2>4 DEF Stored, RowsKept, scheduler
    <3>2. p \in Committed(r) .. seqLen[r] - 1
      <4>1. Stored(r) = Committed(r) /\ Stored(r)' = seqLen[r]
        BY <1>1, <1>2, <2>1, <3>1 DEF Stored, RowsKept
      <4>2. Committed(r) \in Nat /\ seqLen[r] \in Nat
        BY <1>0, <3>1, BatchFacts
      <4> QED BY <2>4, <4>1, <4>2
    <3>3. BlockAt(r, p) \in Written /\ p % Group \in StoredAt(BlockAt(r, p))
      BY <1>0, <3>1, <3>2, StoreIsWritten DEF StoredAt
    <3>4. BlockAt(r, p) \in needed /\ BlockAt(r, p) \in Held \ retired
      BY <1>1, <3>3 DEF DataInv, NeedInv, PoolInv, LabelInv, RetiredIsSpare
    <3> QED BY <1>1, <1>3, <1>5, <2>2, <3>3, <3>4 DEF InPool, labels
  <2> QED BY <2>3, <2>4
<1>8. NeedInv'
  BY <1>1, <1>3 DEF DataInv, NeedInv, labels
<1>9. FillInv'
  <2> SUFFICES ASSUME pass = 0, NEW r \in InBatch, NEW k \in WrittenIdx(r)
               PROVE  fill'[table[r][k + 1]] = FillAfter(r, k)
    <3>1. \A r \in InBatch : \A k \in WrittenIdx(r) : k \in Int
      BY <1>0, WrittenOpen
    <3> QED BY <1>1, <1>2, <3>1 DEF FillInv, RowsKept, InBatch
  <2> QED BY <1>1 DEF DataInv, FillInv, labels
<1> QED BY <1>2, <1>6, <1>7, <1>8, <1>9 DEF DataInv

----------------------------------------------------------------------------
(* Steps of the scheduler.                                                 *)

LEMMA DataArrive ==
  ASSUME PoolInv, DataInv, NEW r \in Reqs, Arrive(r)
  PROVE  DataInv'
<1>0. TypeInv /\ BatchInv /\ OpenOwned /\ OpenUnhashed
  BY DEF PoolInv, DataInv, OwnInv
<1>1. PICK h \in 0 .. ((Prompt[r] - 1) \div Group) : \E t \in Hits(r, h) :
        /\ table' = [table EXCEPT ![r] = t]
        /\ computed' = [computed EXCEPT ![r] = h * Group]
  BY DEF Arrive
<1>2. PICK t \in Hits(r, h) : /\ table' = [table EXCEPT ![r] = t]
                              /\ computed' = [computed EXCEPT ![r] = h * Group]
  BY <1>1
<1>3. /\ phase = "idle" /\ r \notin live /\ InBatch = {} /\ live' = live \cup {r}
      /\ UNCHANGED <<phase, pass, hash, batch, slots, labels, needed, data>>
  BY DEF Arrive
<1>4. /\ h \in Nat /\ h <= Len(Stream[r]) /\ h * Group \in Nat /\ (h * Group) \div Group = h
  <2>1. /\ Group \in Nat \ {0} /\ Prompt[r] \in 1 .. MaxLen /\ MaxLen \in Nat
        /\ Len(Stream[r]) \in Nat /\ Len(Stream[r]) * Group >= MaxLen
    BY ConstantTypes
  <2>2. Prompt[r] - 1 \in Nat /\ Prompt[r] - 1 <= Len(Stream[r]) * Group
    BY <2>1
  <2>3. (Prompt[r] - 1) \div Group \in 0 .. Len(Stream[r])
    BY <2>1, <2>2, DivBound
  <2>4. h \in Nat /\ h <= Len(Stream[r])
    BY <2>1, <2>3
  <2>5. (h * Group + 0) \div Group = h
    BY <2>1, <2>4, DivExact
  <2> QED BY <2>1, <2>4, <2>5
<1>5. /\ Len(t) = h /\ t \in Seq(Blocks) /\ DOMAIN t = 1 .. h
      /\ \A i \in 1 .. h : t[i] \in Blocks /\ hash[t[i]] # NoKey
  <2>1. t \in [1 .. h -> Blocks] /\ \A i \in 1 .. h : hash[t[i]] = Stream[r][i]
    BY DEF Hits
  <2>2. \A i \in 1 .. h : Stream[r][i] # NoKey
    BY <1>4, PoolAssumption, ConstantTypes DEF PoolAssumption
  <2> QED BY <1>4, <2>1, <2>2
<1>6. /\ table'[r] = t /\ computed'[r] = h * Group /\ Full(r)' = h /\ Open(r)' = {}
  <2>1. table'[r] = t /\ computed'[r] = h * Group
    BY <1>2 DEF PoolInv, TypeInv, TypeOK
  <2>2. Full(r)' = h
    BY <1>4, <2>1 DEF Full
  <2> QED BY <1>4, <1>5, <2>1, <2>2 DEF Open
<1>7. \A q \in live : /\ q \in Reqs /\ q # r /\ table'[q] = table[q] /\ computed'[q] = computed[q]
                      /\ Full(q)' = Full(q) /\ Open(q)' = Open(q)
  BY <1>0, <1>2, <1>3, RowFacts DEF Full, Open, PoolInv, TypeInv, TypeOK
<1>8. InBatch' = {}
  BY <1>3 DEF InBatch, batch
<1>9. OwnInv'
  <2>1. BatchInv'
    <3>1. pass = 0
      BY <1>3 DEF PoolInv, SinkInv
    <3>2. (computed[r] <= Len(table[r]) * Group)'
      BY <1>4, <1>5, <1>6
    <3>3. \A q \in live : (computed[q] <= Len(table[q]) * Group)'
      BY <1>0, <1>7 DEF BatchInv
    <3> QED BY <1>3, <1>8, <3>1, <3>2, <3>3 DEF BatchInv
  <2>2. \A q \in live : \A i \in Open(q) : hash[table[q][i]] = NoKey
    BY <1>0, <1>3 DEF OpenUnhashed
  <2>3. OpenUnhashed'
    BY <1>3, <1>6, <1>7, <2>2 DEF OpenUnhashed
  <2>4. OpenOwned'
    <3> SUFFICES ASSUME NEW q \in live, NEW i \in Open(q),
                        NEW o \in live', NEW j \in DOMAIN table'[o],
                        table'[o][j] = table[q][i]
                 PROVE  o = q /\ j = i
      BY <1>3, <1>6, <1>7 DEF OpenOwned
    <3>1. o # r
      BY <1>5, <1>6, <2>2
    <3> QED BY <1>0, <1>3, <1>7, <3>1 DEF OpenOwned
  <2> QED BY <2>1, <2>3, <2>4 DEF OwnInv
<1>10. SettledInv'
  <2> SUFFICES ASSUME NEW b \in Blocks, Settled(b)'
               PROVE  View(b)' = Offsets /\ (b \in Held' => fill'[b] >= Group)
    BY DEF SettledInv, Offsets
  <2>1. Settled(b)
    <3>1. CASE hash[b] # NoKey
      BY <1>3, <3>1 DEF Settled
    <3>2. CASE hash[b] = NoKey
      <4>1. PICK q \in live' : \E i \in 1 .. Full(q)' : table'[q][i] = b
        BY <1>3, <3>2 DEF Settled
      <4>2. q \in live
        BY <1>3, <1>5, <1>6, <3>2, <4>1
      <4> QED BY <1>7, <4>1, <4>2 DEF Settled
    <3> QED BY <3>1, <3>2
  <2> QED BY <1>3, <2>1 DEF DataInv, SettledInv, View, Held, slots, labels, data
<1>11. TailInv'
  <2> SUFFICES ASSUME NEW q \in live', NEW p \in 0 .. Stored(q)' - 1,
                      (p \div Group) + 1 \in Open(q)'
               PROVE  InPool(q, p)'
    BY DEF TailInv
  <2>1. q \in live
    BY <1>3, <1>6
  <2>2. Stored(q)' = Stored(q)
    BY <1>3, <1>7, <1>8, <2>1 DEF Stored
  <2>3. InPool(q, p)
    BY <1>7, <2>1, <2>2 DEF DataInv, TailInv
  <2> QED BY <1>3, <1>7, <2>1, <2>3 DEF InPool, BlockAt, Held, slots, labels, data
<1>12. NeedInv' /\ FillInv'
  BY <1>3 DEF DataInv, NeedInv, FillInv, Held, slots, labels
<1> QED BY <1>9, <1>10, <1>11, <1>12 DEF DataInv

LEMMA DataLeave ==
  ASSUME PoolInv, DataInv, NEW r \in Reqs, Leave(r)
  PROVE  DataInv'
<1>0. TypeInv /\ BatchInv /\ OpenOwned /\ OpenUnhashed
  BY DEF PoolInv, DataInv, OwnInv
<1>1. /\ phase = "idle" /\ r \in live /\ seqLen[r] = 0 /\ live' = live \ {r}
      /\ UNCHANGED <<phase, pass, hash, batch, slots, labels, needed, data>>
  BY DEF Leave
<1>2. \A q \in live' : /\ q \in live /\ q \in Reqs /\ q # r
                       /\ table'[q] = table[q] /\ computed'[q] = computed[q]
                       /\ Full(q)' = Full(q) /\ Open(q)' = Open(q)
                       /\ Sure(q)' = Sure(q)
  BY <1>0, <1>1, RowFacts DEF Leave, Full, Open, Sure, batch, PoolInv, TypeInv, TypeOK
<1>3. InBatch' = InBatch /\ r \notin InBatch /\ InBatch \subseteq live' /\ pass = 0
  BY <1>0, <1>1 DEF InBatch, batch, BatchInv, PoolInv, SinkInv
<1>4. OwnInv'
  <2>1. BatchInv'
    <3>1. \A q \in live' : (computed[q] <= Len(table[q]) * Group)'
      BY <1>0, <1>2 DEF BatchInv
    <3>2. \A q \in InBatch' : (queryLen[q] \in Queries(q) /\ seqLen[q] = computed[q] + queryLen[q])'
      BY <1>0, <1>1, <1>2, <1>3 DEF BatchInv, Queries, batch
    <3> QED BY <1>1, <1>3, <3>1, <3>2 DEF BatchInv
  <2>2. OpenOwned' /\ OpenUnhashed'
    BY <1>0, <1>1, <1>2, <1>3 DEF OpenOwned, OpenUnhashed
  <2> QED BY <2>1, <2>2 DEF OwnInv
<1>5. SettledInv'
  <2> SUFFICES ASSUME NEW b \in Blocks, Settled(b)'
               PROVE  View(b)' = Offsets /\ (b \in Held' => fill'[b] >= Group)
    BY DEF SettledInv, Offsets
  <2>1. Settled(b)
    BY <1>1, <1>2, <1>3 DEF Settled
  <2> QED BY <1>1, <2>1 DEF DataInv, SettledInv, View, Held, slots, labels, data
<1>6. TailInv'
  <2> SUFFICES ASSUME NEW q \in live', NEW p \in 0 .. Stored(q)' - 1,
                      (p \div Group) + 1 \in Open(q)'
               PROVE  InPool(q, p)'
    BY DEF TailInv
  <2>1. Stored(q)' = Stored(q)
    BY <1>1, <1>2, <1>3 DEF Stored, Committed, batch
  <2>2. InPool(q, p)
    BY <1>2, <2>1 DEF DataInv, TailInv
  <2> QED BY <1>1, <1>2, <2>2 DEF InPool, BlockAt, Held, slots, labels, data
<1>7. NeedInv' /\ FillInv'
  BY <1>1 DEF DataInv, NeedInv, FillInv, Held, slots, labels
<1> QED BY <1>4, <1>5, <1>6, <1>7 DEF DataInv

\* ScheduleRow, with its choices named: q tokens and the blocks ext.
New(ext, b) == \E i \in DOMAIN ext : ext[i] = b
SureOf(r, q) == IF computed[r] < Prompt[r] THEN computed[r] + q ELSE computed[r] + 1
Completes(r, q, ext, b) ==
  \E k \in 1 .. (SureOf(r, q) \div Group) : (table[r] \o ext)[k] = b

Scheduled(r, q, ext) ==
  /\ \A i \in DOMAIN ext : ext[i] \notin InUse
  /\ \A i, j \in DOMAIN ext : ext[i] = ext[j] => i = j
  /\ table' = [table EXCEPT ![r] = table[r] \o ext]
  /\ seqLen' = [seqLen EXCEPT ![r] = computed[r] + q]
  /\ queryLen' = [queryLen EXCEPT ![r] = q]
  /\ \A b \in Blocks : ~ Completes(r, q, ext, b) =>
       hash'[b] = IF New(ext, b) THEN NoKey ELSE hash[b]
  /\ \A b \in Blocks : ~ New(ext, b) => tileFresh'[b] = tileFresh[b]
  /\ \A s \in Slots : (\A b \in Held : dict_map[b] = s => ~ New(ext, b))
                        => poolFresh'[s] = poolFresh[s]

LEMMA ScheduleFacts ==
  ASSUME TypeInv, NEW r \in Reqs, ScheduleRow(r)
  PROVE  \E q \in Queries(r) : \E ext \in Seq(Blocks) : Scheduled(r, q, ext)
<1> DEFINE upTo(q) == Smaller(computed[r] + q + DraftPasses, MaxLen)
           need(q) == ((upTo(q) + Group - 1) \div Group) - Len(table[r])
           extra(q) == IF need(q) > 0 THEN need(q) ELSE 0
           index(q, ext, b) == CHOOSE k \in 1 .. (SureOf(r, q) \div Group) :
                                        (table[r] \o ext)[k] = b
           step(q, ext) ==
             /\ table' = [table EXCEPT ![r] = table[r] \o ext]
             /\ hash' = [b \in Blocks |->
                           IF Completes(r, q, ext, b) THEN Stream[r][index(q, ext, b)]
                           ELSE IF New(ext, b) THEN NoKey ELSE hash[b]]
             /\ seqLen' = [seqLen EXCEPT ![r] = computed[r] + q]
             /\ queryLen' = [queryLen EXCEPT ![r] = q]
             /\ poolFresh' = [s \in Slots |->
                  IF \E b \in Held : New(ext, b) /\ dict_map[b] = s THEN {} ELSE poolFresh[s]]
             /\ tileFresh' = [b \in Blocks |-> IF New(ext, b) THEN {} ELSE tileFresh[b]]
<1>1. PICK q \in Queries(r) : \E ext \in Extensions(extra(q)) : step(q, ext)
  BY DEF ScheduleRow, New, Completes, SureOf
<1>2. PICK ext \in Extensions(extra(q)) : step(q, ext)
  BY <1>1
<1>3. /\ q \in Nat /\ computed[r] \in Nat /\ Group \in Nat \ {0} /\ Len(table[r]) \in Nat
      /\ MaxLen \in Nat /\ DraftPasses \in Nat
  <2>1. /\ Prompt[r] \in Nat /\ MaxLen \in Nat /\ Chunk \in Nat /\ MaxQuery \in Nat
        /\ DraftPasses \in Nat
    BY ConstantTypes
  <2>2. computed[r] \in Nat /\ Group \in Nat \ {0} /\ Len(table[r]) \in Nat
    BY ConstantTypes, VariableTypes
  <2> QED BY <2>1, <2>2 DEF Queries, Smaller
<1>4. extra(q) \in Nat
  <2>1. upTo(q) + Group - 1 \in Int
    BY <1>3 DEF Smaller
  <2> HIDE DEF upTo
  <2>2. (upTo(q) + Group - 1) \div Group \in Int
    BY <2>1, <1>3, DivInt
  <2> QED BY <2>2, <1>3
<1>5. /\ ext \in Seq(Blocks) /\ \A i \in DOMAIN ext : ext[i] \notin InUse
      /\ \A i, j \in DOMAIN ext : ext[i] = ext[j] => i = j
  <2> HIDE DEF extra
  <2> QED BY <1>4 DEF Extensions
<1>6. Scheduled(r, q, ext)
  <2> HIDE DEF index
  <2> QED BY <1>2, <1>5 DEF Scheduled
<1> QED BY <1>5, <1>6

LEMMA DataSchedule ==
  ASSUME PoolInv, DataInv, NEW r \in Reqs, ScheduleRow(r)
  PROVE  DataInv'
<1>0. TypeInv /\ BatchInv /\ OpenOwned /\ OpenUnhashed /\ TypeInv'
  BY TypeScheduleRow DEF PoolInv, DataInv, OwnInv
<1>1. PICK q \in Queries(r) : \E ext \in Seq(Blocks) : Scheduled(r, q, ext)
  BY <1>0, ScheduleFacts
<1>2. PICK ext \in Seq(Blocks) : Scheduled(r, q, ext)
  BY <1>1
<1>3. /\ phase = "idle" /\ pass = 0 /\ r \in live /\ r \notin InBatch
      /\ UNCHANGED <<phase, pass, live, computed, slots, labels, needed>>
  BY DEF ScheduleRow, PoolInv, SinkInv, InBatch
<1> DEFINE row == table[r] \o ext
           old == Len(table[r])
<1>4. /\ old \in Nat /\ Len(ext) \in Nat /\ Len(row) = old + Len(ext) /\ Len(row) \in Nat
      /\ \A i \in 1 .. old : row[i] = table[r][i] /\ i \in DOMAIN table[r]
      /\ \A i \in 1 .. Len(row) : i \notin 1 .. old =>
           i - old \in DOMAIN ext /\ row[i] = ext[i - old]
      /\ \A i \in 1 .. Len(row) : row[i] \in Blocks
      /\ DOMAIN row = 1 .. Len(row)
  BY <1>0, VariableTypes, ConcatProperties
<1>5. /\ table'[r] = row /\ seqLen'[r] = computed[r] + q /\ queryLen'[r] = q
      /\ \A o \in Reqs : o # r => /\ table'[o] = table[o] /\ seqLen'[o] = seqLen[o]
                                  /\ queryLen'[o] = queryLen[o]
  BY <1>0, <1>2 DEF Scheduled, TypeInv, TypeOK
<1>6. /\ computed[r] \in Nat /\ q \in Nat /\ q >= 1 /\ Prompt[r] \in Nat /\ Group \in Nat \ {0}
      /\ SureOf(r, q) \in Nat /\ SureOf(r, q) <= computed[r] + q
  <2>1. /\ Prompt[r] \in Nat /\ MaxLen \in Nat /\ Chunk \in Nat /\ MaxQuery \in Nat
        /\ computed[r] \in Nat /\ Group \in Nat \ {0}
    BY <1>0, ConstantTypes, VariableTypes
  <2>2. q \in Nat /\ q >= 1
    BY <2>1 DEF Queries, Smaller
  <2> QED BY <2>1, <2>2 DEF SureOf
<1> DEFINE n == SureOf(r, q) \div Group
<1>7. n \in 0 .. Len(row)
  <2>1. computed[r] + q <= Len(row) * Group
    <3>1. (seqLen[r] <= Len(table[r]) * Group)'
      BY <1>0 DEF TypeInv, RowsCovered
    <3> QED BY <1>5, <3>1
  <2>2. SureOf(r, q) <= Len(row) * Group
    <3> HIDE DEF row
    <3>1. Len(row) * Group \in Int
      BY <1>4, <1>6
    <3> QED BY <1>6, <2>1, <3>1
  <2> HIDE DEF row
  <2> QED BY <1>4, <1>6, <2>2, DivBound
<1> HIDE DEF row, old, n
<1>8. \A b \in Blocks : New(ext, b) => b \notin InUse
  BY <1>2 DEF Scheduled, New
<1>9. \A o \in live : \A j \in DOMAIN table[o] : table[o][j] \in InUse /\ ~ New(ext, table[o][j])
  <2>1. \A o \in live : \A j \in DOMAIN table[o] : table[o][j] \in InUse /\ table[o][j] \in Blocks
    BY <1>0, RowFacts DEF InUse
  <2> QED BY <1>8, <2>1
<1>10. \A i \in 1 .. Len(row) : i \notin 1 .. old => New(ext, row[i])
  BY <1>4 DEF New
<1>11. InBatch' = InBatch \cup {r} /\ r \in InBatch'
  BY <1>5, <1>6 DEF InBatch
<1>12. \A o \in live : /\ o \in Reqs /\ Full(o)' = Full(o)
                       /\ o # r => /\ Open(o)' = Open(o) /\ Sure(o)' = Sure(o)
                                   /\ DOMAIN table'[o] = DOMAIN table[o]
                                   /\ Queries(o)' = Queries(o)
  BY <1>0, <1>3, <1>5, RowFacts DEF Full, Open, Sure, Queries
<1>13. /\ Open(r)' = (Full(r) + 1) .. Len(row) /\ Full(r) \in Nat /\ Full(r) <= old
       /\ Open(r) = (Full(r) + 1) .. old /\ DOMAIN table'[r] = 1 .. Len(row)
       /\ Sure(r)' = SureOf(r, q) /\ Queries(r)' = Queries(r)
  BY <1>0, <1>3, <1>4, <1>5, <1>12, RowFacts DEF Open, Sure, SureOf, Queries, old
<1>14. BatchInv'
  <2>1. InBatch' \subseteq live'
    BY <1>0, <1>3, <1>11 DEF BatchInv
  <2>2. ASSUME NEW o \in live'
        PROVE  (computed[o] <= Len(table[o]) * Group)'
    <3>1. CASE o = r
      <4>1. computed[r] <= old * Group
        BY <1>0, <1>3 DEF BatchInv, old
      <4>2. old * Group <= Len(row) * Group /\ old * Group \in Nat /\ Len(row) * Group \in Nat
        BY <1>4, <1>6, MulMono
      <4>3. computed[r] <= Len(row) * Group
        BY <1>6, <4>1, <4>2
      <4> QED BY <1>3, <1>5, <3>1, <4>3
    <3>2. CASE o # r
      BY <1>0, <1>3, <1>5, <1>12, <3>2 DEF BatchInv
    <3> QED BY <3>1, <3>2
  <2>3. ASSUME NEW o \in InBatch'
        PROVE  (queryLen[o] \in Queries(o) /\ seqLen[o] = computed[o] + queryLen[o])'
    <3>1. CASE o = r
      BY <1>3, <1>5, <1>13, <3>1
    <3>2. CASE o # r
      BY <1>0, <1>3, <1>5, <1>11, <1>12, <3>2 DEF BatchInv
    <3> QED BY <3>1, <3>2
  <2> QED BY <1>3, <2>1, <2>2, <2>3 DEF BatchInv
<1>15. OpenOwned'
  <2> SUFFICES ASSUME NEW o \in live, NEW i \in Open(o)',
                      NEW u \in live, NEW j \in DOMAIN table'[u],
                      table'[u][j] = table'[o][i]
               PROVE  u = o /\ j = i
    BY <1>3 DEF OpenOwned
  <2>1. CASE o # r
    <3>1. i \in Open(o) /\ i \in DOMAIN table[o] /\ table'[o][i] = table[o][i]
      BY <1>0, <1>5, <1>12, <2>1, RowFacts
    <3>2. CASE u # r
      BY <1>0, <1>5, <1>12, <3>1, <3>2 DEF OpenOwned
    <3>3. CASE u = r
      <4>1. j \in 1 .. Len(row) /\ table'[u][j] = row[j]
        BY <1>5, <1>13, <3>3
      <4>2. j \in 1 .. old
        BY <1>9, <1>10, <3>1, <4>1
      <4> QED BY <1>0, <1>3, <1>4, <3>1, <3>3, <4>1, <4>2 DEF OpenOwned
    <3> QED BY <3>2, <3>3
  <2>2. CASE o = r
    <3>1. i \in 1 .. Len(row) /\ i >= Full(r) + 1 /\ table'[o][i] = row[i]
      BY <1>5, <1>13, <2>2
    <3>2. CASE i \in 1 .. old
      <4>1. i \in Open(r) /\ row[i] = table[r][i] /\ i \in DOMAIN table[r]
        BY <1>4, <1>13, <3>1, <3>2
      <4>2. CASE u # r
        BY <1>0, <1>3, <1>5, <1>12, <2>2, <3>1, <4>1, <4>2 DEF OpenOwned
      <4>3. CASE u = r
        <5>1. j \in 1 .. Len(row) /\ table'[u][j] = row[j]
          BY <1>5, <1>13, <4>3
        <5>2. j \in 1 .. old
          BY <1>3, <1>9, <1>10, <3>1, <4>1, <5>1
        <5> QED BY <1>0, <1>3, <1>4, <2>2, <3>1, <4>1, <4>3, <5>1, <5>2 DEF OpenOwned
      <4> QED BY <4>2, <4>3
    <3>3. CASE i \notin 1 .. old
      <4>1. New(ext, row[i]) /\ i - old \in DOMAIN ext /\ row[i] = ext[i - old]
        BY <1>4, <1>10, <3>1, <3>3
      <4>2. u = r
        BY <1>5, <1>9, <1>12, <3>1, <4>1
      <4>3. j \in 1 .. Len(row) /\ table'[u][j] = row[j]
        BY <1>5, <1>13, <4>2
      <4>4. j \notin 1 .. old
        BY <1>3, <1>4, <1>9, <3>1, <4>1, <4>3
      <4>5. j - old \in DOMAIN ext /\ row[j] = ext[j - old]
        BY <1>4, <4>3, <4>4
      <4>6. ext[j - old] = ext[i - old]
        BY <3>1, <4>1, <4>3, <4>5
      <4>7. j - old = i - old
        BY <1>2, <4>1, <4>5, <4>6 DEF Scheduled
      <4> QED BY <1>4, <2>2, <3>1, <4>2, <4>3, <4>7
    <3> QED BY <3>2, <3>3
  <2> QED BY <2>1, <2>2
<1>16. OpenUnhashed'
  <2> SUFFICES ASSUME NEW o \in live, NEW i \in Open(o)', hash'[table'[o][i]] # NoKey
               PROVE  o \in InBatch' /\ i <= (Sure(o) \div Group)'
    BY <1>3 DEF OpenUnhashed
  <2>1. i \in DOMAIN table'[o] /\ table'[o][i] \in Blocks
    <3>1. CASE o = r
      <4>1. i \in 1 .. Len(row)
        BY <1>13, <3>1
      <4> QED BY <1>4, <1>5, <1>13, <3>1, <4>1
    <3>2. CASE o # r
      BY <1>0, <1>5, <1>12, <3>2, RowFacts
    <3> QED BY <3>1, <3>2
  <2>2. CASE Completes(r, q, ext, table'[o][i])
    <3>1. PICK k \in 1 .. n : row[k] = table'[o][i]
      BY <2>2 DEF Completes, row, n
    <3>2. k \in DOMAIN table'[r] /\ table'[r][k] = table'[o][i]
      BY <1>4, <1>5, <1>7, <1>13, <3>1
    <3>3. r = o /\ k = i
      BY <1>3, <1>15, <3>2 DEF OpenOwned
    <3> QED BY <1>7, <1>11, <1>13, <3>1, <3>3 DEF n
  <2>3. CASE ~ Completes(r, q, ext, table'[o][i])
    <3>1. ~ New(ext, table'[o][i]) /\ hash[table'[o][i]] # NoKey
      BY <1>2, <2>1, <2>3 DEF Scheduled
    <3>2. i \in Open(o) /\ table'[o][i] = table[o][i]
      BY <1>4, <1>5, <1>10, <1>12, <1>13, <2>1, <3>1
    <3>3. o \in InBatch /\ i <= Sure(o) \div Group
      BY <1>0, <3>1, <3>2 DEF OpenUnhashed
    <3> QED BY <1>3, <1>11, <1>12, <3>3
  <2> QED BY <2>2, <2>3
<1>17. \A b \in Blocks : ~ New(ext, b) => View(b)' = View(b)
  <2> SUFFICES ASSUME NEW b \in Blocks, ~ New(ext, b)
               PROVE  View(b)' = View(b)
    OBVIOUS
  <2>1. tileFresh'[b] = tileFresh[b] /\ b2s_t' = b2s_t
    BY <1>2, <1>3 DEF Scheduled, slots
  <2>2. CASE b \in Held
    <3>1. b2s_t[b] = dict_map[b] /\ dict_map[b] \in Slots
      BY <2>2 DEF PoolInv, SlotPartition, Held, TypeInv, TypeOK
    <3>2. \A c \in Held : dict_map[c] = dict_map[b] => ~ New(ext, c)
      BY <2>2 DEF PoolInv, SlotPartition
    <3>3. poolFresh'[dict_map[b]] = poolFresh[dict_map[b]]
      BY <1>2, <3>1, <3>2 DEF Scheduled
    <3> QED BY <2>1, <3>1, <3>3 DEF View
  <2>3. CASE b \notin Held
    BY <2>1, <2>3 DEF View, Held, PoolInv, SlotPartition
  <2> QED BY <2>2, <2>3
<1>18. ASSUME NEW b \in Blocks, Settled(b)'
       PROVE  Settled(b) /\ ~ New(ext, b)
  <2>1. CASE \E o \in live : \E i \in 1 .. Full(o) : table'[o][i] = b
    <3>1. PICK o \in live : \E i \in 1 .. Full(o) : table'[o][i] = b
      BY <2>1
    <3>2. PICK i \in 1 .. Full(o) : table'[o][i] = b
      BY <3>1
    <3>3. i \in DOMAIN table[o] /\ table[o][i] = b
      BY <1>0, <1>4, <1>5, <1>12, <1>13, <3>2, RowFacts
    <3> QED BY <1>9, <3>2, <3>3 DEF Settled
  <2>2. CASE ~ \E o \in live : \E i \in 1 .. Full(o) : table'[o][i] = b
    <3>1. hash'[b] # NoKey /\ \A o \in InBatch' : \A i \in Open(o)' : table'[o][i] # b
      BY <1>3, <1>12, <1>18, <2>2 DEF Settled
    <3>2. ~ Completes(r, q, ext, b)
      <4> SUFFICES ASSUME NEW k \in 1 .. n, row[k] = b PROVE FALSE
        BY DEF Completes, row, n
      <4>1. k \in 1 .. Len(row) /\ table'[r][k] = b
        BY <1>4, <1>5, <1>7
      <4>2. k \notin 1 .. Full(r)
        BY <1>3, <2>2, <4>1
      <4> QED BY <1>4, <1>11, <1>13, <3>1, <4>1, <4>2
    <3>3. ~ New(ext, b) /\ hash[b] # NoKey
      BY <1>2, <3>1, <3>2 DEF Scheduled
    <3>4. \A o \in InBatch : \A i \in Open(o) : table[o][i] # b
      <4>1. \A o \in InBatch : o \in live /\ o # r /\ o \in InBatch'
        BY <1>0, <1>3, <1>11 DEF BatchInv
      <4> QED BY <1>5, <1>12, <3>1, <4>1
    <3> QED BY <3>3, <3>4 DEF Settled
  <2> QED BY <2>1, <2>2
<1>19. SettledInv'
  <2>1. Held' = Held /\ fill' = fill
    BY <1>3 DEF Held, slots, labels
  <2> QED BY <1>17, <1>18, <2>1 DEF DataInv, SettledInv, Offsets
<1>20. TailInv'
  <2> SUFFICES ASSUME NEW o \in live', NEW p \in 0 .. Stored(o)' - 1,
                      (p \div Group) + 1 \in Open(o)'
               PROVE  InPool(o, p)'
    BY DEF TailInv
  <2>1. o \in live /\ o \in Reqs
    BY <1>3, <1>12
  <2>2. Stored(o)' = Stored(o)
    <3>1. CASE o = r
      <4>1. Stored(o) = computed[r]
        BY <1>3, <3>1 DEF Stored
      <4>2. Stored(o)' = Committed(r)'
        BY <1>3, <1>11, <3>1 DEF Stored
      <4>3. Committed(r)' = computed[r]
        BY <1>5, <1>6 DEF Committed
      <4> QED BY <4>1, <4>2, <4>3
    <3>2. CASE o # r
      BY <1>3, <1>5, <1>11, <2>1, <3>2 DEF Stored, Committed
    <3> QED BY <3>1, <3>2
  <2>3. (p \div Group) + 1 \in DOMAIN table[o] /\ (p \div Group) + 1 \in Open(o)
        /\ BlockAt(o, p)' = BlockAt(o, p)
    <3>1. CASE o = r
      <4>1. computed[r] <= old * Group /\ Stored(o) = computed[r]
        BY <1>0, <1>3, <3>1 DEF BatchInv, old, Stored
      <4>2. p \in Nat /\ p < computed[r]
        BY <1>6, <2>2, <4>1
      <4>3. p < old * Group
        <5>1. old * Group \in Nat
          BY <1>4, <1>6
        <5> QED BY <1>6, <4>1, <4>2, <5>1
      <4>4. p \div Group \in Nat /\ p \div Group < old
        BY <1>4, <1>6, <4>2, <4>3, DivStrict
      <4>5. (p \div Group) + 1 \in 1 .. old
        BY <1>4, <4>4
      <4> QED BY <1>4, <1>5, <1>13, <3>1, <4>5 DEF BlockAt, old
    <3>2. CASE o # r
      BY <1>0, <1>5, <1>12, <2>1, <3>2, RowFacts DEF BlockAt
    <3> QED BY <3>1, <3>2
  <2>4. InPool(o, p)
    BY <2>1, <2>2, <2>3 DEF DataInv, TailInv
  <2>5. poolFresh'[dict_map[BlockAt(o, p)]] = poolFresh[dict_map[BlockAt(o, p)]]
    <3>1. ~ New(ext, BlockAt(o, p))
      BY <1>9, <2>1, <2>3 DEF BlockAt
    <3>2. BlockAt(o, p) \in Held /\ dict_map[BlockAt(o, p)] \in Slots
      BY <2>4 DEF InPool, Held, PoolInv, TypeInv, TypeOK
    <3>3. \A c \in Held : dict_map[c] = dict_map[BlockAt(o, p)] => ~ New(ext, c)
      BY <3>1, <3>2 DEF PoolInv, SlotPartition
    <3> QED BY <1>2, <3>2, <3>3 DEF Scheduled
  <2> QED BY <1>3, <2>3, <2>4, <2>5 DEF InPool, Held, slots, labels
<1>21. NeedInv' /\ FillInv'
  BY <1>3 DEF DataInv, NeedInv, FillInv, Held, slots, labels
<1> QED BY <1>14, <1>15, <1>16, <1>19, <1>20, <1>21 DEF DataInv, OwnInv

\* What follows a pass: a drafter pass one token further, or no batch at all.
LEMMA PassFacts ==
  ASSUME TypeInv, NEW accepted \in [Reqs -> Nat], NextPass(accepted),
         computed' = accepted, UNCHANGED <<live, table>>
  PROVE  /\ phase' \in {"idle", "mark"}
         /\ \/ pass' = 0 /\ InBatch' = {}
            \/ /\ pass' = pass + 1
               /\ InBatch' = DraftRows(pass + 1, accepted)
               /\ InBatch' = DraftRows(pass, computed)'
               /\ \A r \in InBatch' : /\ seqLen'[r] = accepted[r] + (pass + 1)
                                      /\ queryLen'[r] = 1 /\ Committed(r)' = accepted[r] + pass
<1>0. pass \in Nat
  BY ConstantTypes DEF TypeInv, TypeOK
<1>1. CASE pass < DraftPasses /\ DraftRows(pass + 1, accepted) # {}
  <2>1. /\ pass' = pass + 1 /\ phase' = "mark"
        /\ seqLen' = [r \in Reqs |-> IF r \in DraftRows(pass + 1, accepted)
                                      THEN accepted[r] + (pass + 1) ELSE 0]
        /\ queryLen' = [r \in Reqs |-> IF r \in DraftRows(pass + 1, accepted) THEN 1 ELSE 0]
    BY <1>1 DEF NextPass, DraftBatch
  <2>2. DraftRows(pass + 1, accepted) \subseteq Reqs
    BY DEF DraftRows, TypeInv, TypeOK
  <2>3. DraftRows(pass, computed)' = DraftRows(pass + 1, accepted)
    BY <2>1 DEF DraftRows
  <2>4. InBatch' = DraftRows(pass + 1, accepted)
    <3> DEFINE rows == DraftRows(pass + 1, accepted)
    <3>1. \A r \in rows : seqLen'[r] > 0
      <4> HIDE DEF rows
      <4> QED BY <1>0, <2>1, <2>2 DEF rows
    <3>2. \A r \in Reqs : r \notin rows => seqLen'[r] = 0
      BY <2>1
    <3> HIDE DEF rows
    <3> QED BY <2>2, <3>1, <3>2 DEF InBatch, rows
  <2>5. \A r \in DraftRows(pass + 1, accepted) :
          /\ seqLen'[r] = accepted[r] + (pass + 1)
          /\ queryLen'[r] = 1 /\ Committed(r)' = accepted[r] + pass
    BY <1>0, <2>1, <2>2 DEF Committed
  <2> QED BY <2>1, <2>3, <2>4, <2>5
<1>2. CASE ~ (pass < DraftPasses /\ DraftRows(pass + 1, accepted) # {})
  <2>1. pass' = 0 /\ phase' = "idle" /\ seqLen' = NoRow
    BY <1>2 DEF NextPass
  <2> QED BY <2>1 DEF NoRow, InBatch
<1> QED BY <1>1, <1>2

\* The next pass keeps the rows in their tables.
LEMMA PassBatch ==
  ASSUME TypeInv, NEW accepted \in [Reqs -> Nat], NextPass(accepted),
         computed' = accepted, UNCHANGED <<live, table>>,
         \A r \in live : accepted[r] <= Len(table[r]) * Group
  PROVE  BatchInv'
<1>0. pass \in Nat
  BY ConstantTypes DEF TypeInv, TypeOK
<1>1. \/ pass' = 0 /\ InBatch' = {}
      \/ /\ pass' = pass + 1
         /\ InBatch' = DraftRows(pass + 1, accepted)
         /\ InBatch' = DraftRows(pass, computed)'
         /\ \A r \in InBatch' : seqLen'[r] = accepted[r] + (pass + 1) /\ queryLen'[r] = 1
  BY PassFacts
<1>2. \A r \in live' : (computed[r] <= Len(table[r]) * Group)'
  OBVIOUS
<1>3. CASE pass' = 0 /\ InBatch' = {}
  BY <1>2, <1>3 DEF BatchInv
<1>4. CASE /\ pass' = pass + 1
           /\ InBatch' = DraftRows(pass + 1, accepted)
           /\ InBatch' = DraftRows(pass, computed)'
           /\ \A r \in InBatch' : seqLen'[r] = accepted[r] + (pass + 1) /\ queryLen'[r] = 1
  <2>1. InBatch' \subseteq live'
    BY <1>4 DEF DraftRows
  <2> QED BY <1>0, <1>2, <1>4, <2>1 DEF BatchInv
<1> QED BY <1>1, <1>3, <1>4

LEMMA DataSample ==
  ASSUME PoolInv, DataInv, Sample
  PROVE  DataInv'
<1>0. TypeInv /\ BatchInv /\ OpenOwned /\ OpenUnhashed
  BY DEF PoolInv, DataInv, OwnInv
<1>1. /\ phase = "attend" /\ pass = 0 /\ InBatch = live
      /\ UNCHANGED <<live, table, hash, slots, labels, data>>
  BY DEF Sample, PoolInv, SinkInv
<1>2. PICK kept \in [live -> 1 .. (MaxQuery + Chunk)] :
        /\ \A r \in live : kept[r] \in Kept(r)
        /\ computed' = [r \in Reqs |-> IF r \in live THEN computed[r] + kept[r] ELSE 0]
        /\ NextPass(computed')
  BY DEF Sample
<1>3. \A r \in live : /\ r \in Reqs /\ computed[r] \in Nat /\ computed'[r] \in Nat
                      /\ computed[r] <= computed'[r]
                      /\ computed'[r] <= seqLen[r] /\ seqLen[r] \in Nat
                      /\ Sure(r) \in Nat /\ Sure(r) <= computed'[r]
  <2> SUFFICES ASSUME NEW r \in live
               PROVE  /\ r \in Reqs /\ computed[r] \in Nat /\ computed'[r] \in Nat
                      /\ computed[r] <= computed'[r]
                      /\ computed'[r] <= seqLen[r] /\ seqLen[r] \in Nat
                      /\ Sure(r) \in Nat /\ Sure(r) <= computed'[r]
    OBVIOUS
  <2>1. /\ r \in Reqs /\ computed[r] \in Nat /\ queryLen[r] \in Nat
        /\ queryLen[r] >= 1 /\ seqLen[r] = computed[r] + queryLen[r]
        /\ computed'[r] = computed[r] + kept[r] /\ kept[r] \in Kept(r)
    BY <1>0, <1>1, <1>2, RowFacts, BatchFacts, VariableTypes DEF BatchInv
  <2>2. CASE computed[r] < Prompt[r]
    BY <2>1, <2>2 DEF Kept, Sure
  <2>3. CASE ~ (computed[r] < Prompt[r])
    <3>1. kept[r] \in 1 .. queryLen[r]
      BY <2>1, <2>3 DEF Kept
    <3> QED BY <2>1, <2>3, <3>1 DEF Sure
  <2> QED BY <2>2, <2>3
<1>4. computed' \in [Reqs -> Nat]
  BY <1>2, <1>3
<1>5. \A r \in live : /\ Full(r) \in Nat /\ Full(r)' \in Nat /\ Full(r) <= Full(r)'
                      /\ Sure(r) \div Group <= Full(r)' /\ Sure(r) \div Group \in Nat
                      /\ Full(r)' * Group <= computed'[r]
  <2>1. Group \in Nat \ {0} /\ Group' = Group
    BY ConstantTypes
  <2> QED BY <1>3, <2>1, DivNat, DivMono, DivMul DEF Full
<1>6. \A r \in live : \A i \in Open(r)' : i \in Open(r) /\ i > Full(r)'
  BY <1>0, <1>1, <1>5, RowFacts DEF Open
<1>7. BatchInv'
  <2>1. \A r \in live : computed'[r] <= Len(table[r]) * Group
    <3> SUFFICES ASSUME NEW r \in live PROVE computed'[r] <= Len(table[r]) * Group
      OBVIOUS
    <3>1. seqLen[r] <= Len(table[r]) * Group /\ Len(table[r]) * Group \in Nat
      BY <1>0, <1>3, VariableTypes, ConstantTypes
    <3> QED BY <1>3, <3>1
  <2> QED BY <1>0, <1>1, <1>2, <1>4, <2>1, PassBatch
<1>8. OpenOwned'
  BY <1>0, <1>1, <1>6 DEF OpenOwned
<1>9. OpenUnhashed'
  <2> SUFFICES ASSUME NEW r \in live, NEW i \in Open(r)', hash[table[r][i]] # NoKey
               PROVE  FALSE
    BY <1>1 DEF OpenUnhashed
  <2>1. i \in Open(r) /\ i > Full(r)'
    BY <1>6
  <2>2. i <= Sure(r) \div Group
    BY <1>0, <2>1 DEF OpenUnhashed
  <2>3. i \in Nat
    BY <1>5, <2>1, <1>0, RowFacts DEF Open
  <2> QED BY <1>5, <2>1, <2>2, <2>3
<1>10. /\ Held' = Held /\ \A b \in Blocks : View(b)' = View(b) /\ fill'[b] = fill[b]
  BY <1>1 DEF Held, View, slots, labels, data
\* A block that this step has made whole.
<1>11. ASSUME NEW r \in live, NEW i \in Open(r), i <= Full(r)'
       PROVE  View(table[r][i]) = Offsets /\ fill[table[r][i]] >= Group
  <2>1. /\ r \in Reqs /\ r \in InBatch /\ i \in Nat /\ i >= Full(r) + 1 /\ i - 1 \in Nat
        /\ table[r][i] \in Blocks /\ Group \in Nat \ {0} /\ i \in DOMAIN table[r]
    BY <1>0, <1>1, <1>3, <1>5, RowFacts, ConstantTypes DEF Open
  <2>2. i * Group <= seqLen[r] /\ i * Group \in Nat
    <3>1. i * Group <= Full(r)' * Group /\ i * Group \in Nat /\ Full(r)' * Group \in Nat
      BY <1>5, <1>11, <2>1, MulMono
    <3> QED BY <1>3, <1>5, <3>1
  <2>3. (i - 1) * Group + Group = i * Group /\ (i - 1) * Group \in Nat
    BY <2>1
  <2>4. ASSUME NEW o \in Offsets
        PROVE  o \in View(table[r][i])
    <3> DEFINE p == (i - 1) * Group + o
    <3>1. o \in 0 .. Group - 1 /\ o \in Nat
      BY <2>1, <2>4 DEF Offsets
    <3>2. p \div Group = i - 1 /\ p % Group = o
      BY <2>1, <3>1, DivExact
    <3>3. p \in Nat /\ p < i * Group
      <4> DEFINE a == (i - 1) * Group
                 c == i * Group
      <4>1. a + Group = c /\ a \in Nat /\ c \in Nat
        BY <2>2, <2>3
      <4> HIDE DEF a, c
      <4>2. a + o \in Nat /\ a + o < c
        BY <2>1, <3>1, <4>1
      <4> QED BY <4>2 DEF a, c
    <3> HIDE DEF p
    <3>4. Stored(r) = seqLen[r]
      BY <1>1, <2>1 DEF Stored
    <3>5. p \in 0 .. Stored(r) - 1
      BY <1>3, <2>2, <3>3, <3>4
    <3>6. (p \div Group) + 1 = i /\ BlockAt(r, p) = table[r][i]
      BY <2>1, <3>2 DEF BlockAt
    <3>7. InPool(r, p)
      BY <1>11, <3>5, <3>6 DEF DataInv, TailInv
    <3> QED BY <3>2, <3>6, <3>7 DEF InPool, View, Held, PoolInv, SlotPartition
  <2>5. View(table[r][i]) \subseteq Offsets
    BY <2>1 DEF View, PoolInv, TypeInv, TypeOK, SlotPartition
  <2>6. i - 1 \in WrittenIdx(r)
    <3>1. Committed(r) \div Group = Full(r)
      BY <1>0, <1>1, <2>1, BatchFacts DEF Full
    <3>2. seqLen[r] - 1 \in Nat /\ (seqLen[r] - 1) \div Group \in Nat
      <4>1. seqLen[r] - 1 \in Nat
        BY <1>3, <2>1 DEF InBatch
      <4> QED BY <2>1, <4>1, DivNat
    <3>3. seqLen[r] - 1 >= (i - 1) * Group
      <4> DEFINE a == (i - 1) * Group
                 c == i * Group
      <4>1. a + Group = c /\ a \in Nat /\ c \in Nat /\ c <= seqLen[r]
        BY <2>2, <2>3
      <4> HIDE DEF a, c
      <4>2. seqLen[r] - 1 >= a
        BY <1>3, <2>1, <4>1
      <4> QED BY <4>2 DEF a
    <3>4. (seqLen[r] - 1) \div Group >= i - 1
      BY <2>1, <3>2, <3>3, DivAtLeast
    <3> QED BY <1>5, <2>1, <3>1, <3>2, <3>4 DEF WrittenIdx
  <2>7. fill[table[r][i]] = FillAfter(r, i - 1)
    <3>1. (i - 1) + 1 = i
      BY <2>1
    <3> QED BY <1>1, <2>1, <2>6, <3>1 DEF DataInv, FillInv
  <2>8. FillAfter(r, i - 1) = Group
    <3> DEFINE a == (i - 1) * Group
               c == ((i - 1) + 1) * Group
    <3>1. a + Group = c /\ a \in Nat /\ c \in Nat /\ c <= seqLen[r]
      BY <2>1, <2>2, <2>3
    <3>2. FillAfter(r, i - 1) = Smaller(seqLen[r], c) - a
      BY DEF FillAfter
    <3> HIDE DEF a, c
    <3> QED BY <1>3, <2>1, <3>1, <3>2 DEF Smaller
  <2>9. View(table[r][i]) = Offsets
    BY <2>4, <2>5
  <2> QED BY <2>1, <2>7, <2>8, <2>9
<1>12. SettledInv'
  <2> SUFFICES ASSUME NEW b \in Blocks, Settled(b)'
               PROVE  View(b) = Offsets /\ (b \in Held => fill[b] >= Group)
    BY <1>10 DEF SettledInv, Offsets
  <2>1. CASE Settled(b)
    BY <2>1 DEF DataInv, SettledInv
  <2>2. CASE ~ Settled(b)
    <3>1. \E r \in live : \E i \in 1 .. Full(r)' : table[r][i] = b
      <4>1. CASE hash[b] # NoKey
        <5>1. PICK r \in live : \E i \in Open(r) : table[r][i] = b
          BY <1>1, <2>2, <4>1 DEF Settled
        <5>2. PICK i \in Open(r) : table[r][i] = b
          BY <5>1
        <5>3. i <= Sure(r) \div Group
          BY <1>0, <4>1, <5>2 DEF OpenUnhashed
        <5>4. i \in 1 .. Full(r)'
          <6>1. i \in Nat /\ i >= 1
            BY <1>0, <5>2, RowFacts
          <6> QED BY <1>5, <5>3, <6>1
        <5> QED BY <5>2, <5>4
      <4>2. CASE hash[b] = NoKey
        BY <1>1, <4>2 DEF Settled
      <4> QED BY <4>1, <4>2
    <3>2. PICK r \in live : \E i \in 1 .. Full(r)' : table[r][i] = b
      BY <3>1
    <3>3. PICK i \in 1 .. Full(r)' : table[r][i] = b
      BY <3>2
    <3>4. i \in Open(r)
      <4>1. i \notin 1 .. Full(r)
        BY <2>2, <3>3 DEF Settled
      <4>2. Full(r)' <= Len(table[r])
        <5>1. Full(r)' \in 0 .. Len(table[r])
          <6>1. computed'[r] <= Len(table[r]) * Group
            BY <1>1, <1>7 DEF BatchInv
          <6> QED BY <1>0, <1>3, <6>1, RowFacts, ConstantTypes, DivBound DEF Full
        <5> QED BY <1>0, <5>1, RowFacts
      <4> QED BY <1>0, <1>5, <4>1, <4>2, RowFacts DEF Open
    <3> QED BY <1>5, <1>11, <3>3, <3>4
  <2> QED BY <2>1, <2>2
<1>13. TailInv'
  <2> SUFFICES ASSUME NEW r \in live, NEW p \in 0 .. Stored(r)' - 1,
                      (p \div Group) + 1 \in Open(r)'
               PROVE  InPool(r, p)'
    BY <1>1 DEF TailInv
  <2>1. /\ phase' \in {"idle", "mark"}
        /\ \/ InBatch' = {}
           \/ \A q \in InBatch' : Committed(q)' = computed'[q] + pass
    BY <1>0, <1>1, <1>2, <1>4, PassFacts
  <2>2. Stored(r)' = computed'[r]
    BY <1>1, <1>3, <2>1 DEF Stored
  <2>3. Stored(r) = seqLen[r]
    BY <1>1 DEF Stored
  <2>4. p \in 0 .. Stored(r) - 1
    BY <1>3, <2>2, <2>3
  <2>5. InPool(r, p)
    BY <1>6, <2>4 DEF DataInv, TailInv
  <2> QED BY <1>1, <1>10, <2>5 DEF InPool, BlockAt, slots, labels, data
<1>14. NeedInv' /\ FillInv'
  <2>1. phase' \in {"idle", "mark"}
    BY <1>0, <1>1, <1>2, <1>4, PassFacts
  <2> QED BY <1>1, <1>10, <2>1 DEF DataInv, NeedInv, FillInv, labels
<1> QED BY <1>7, <1>8, <1>9, <1>12, <1>13, <1>14 DEF DataInv, OwnInv

LEMMA DataDraft ==
  ASSUME PoolInv, DataInv, Draft
  PROVE  DataInv'
<1>0. /\ TypeInv /\ BatchInv /\ OpenOwned /\ OpenUnhashed /\ pass \in Nat
      /\ computed \in [Reqs -> Nat]
  BY ConstantTypes DEF PoolInv, DataInv, OwnInv, TypeInv, TypeOK
<1>1. /\ phase = "attend" /\ pass > 0 /\ NextPass(computed) /\ computed' = computed
      /\ UNCHANGED <<live, table, hash, slots, labels, data>>
  BY DEF Draft, scheduler
<1>2. /\ phase' \in {"idle", "mark"}
      /\ \/ pass' = 0 /\ InBatch' = {}
         \/ /\ InBatch' = DraftRows(pass + 1, computed)
            /\ \A r \in InBatch' : Committed(r)' = computed[r] + pass
  BY <1>0, <1>1, PassFacts
<1>3. \A r \in live : /\ Full(r)' = Full(r) /\ Open(r)' = Open(r) /\ r \in Reqs
  BY <1>0, <1>1, RowFacts DEF Full, Open
<1>4. BatchInv'
  BY <1>0, <1>1, PassBatch DEF BatchInv
<1>5. \A r \in live : \A i \in Open(r) : hash[table[r][i]] = NoKey
  BY <1>0, <1>1 DEF OpenUnhashed
<1>6. OwnInv'
  BY <1>0, <1>1, <1>3, <1>4, <1>5 DEF OwnInv, OpenOwned, OpenUnhashed
<1>7. Held' = Held /\ \A b \in Blocks : View(b)' = View(b) /\ fill'[b] = fill[b]
  BY <1>1 DEF Held, View, slots, labels, data
<1>8. \A b \in Blocks : Settled(b)' => Settled(b)
  <2>1. InBatch \subseteq live
    BY <1>0 DEF BatchInv
  <2> QED BY <1>1, <1>3, <1>5, <2>1 DEF Settled
<1>9. SettledInv'
  BY <1>7, <1>8 DEF DataInv, SettledInv, Offsets
<1>10. TailInv'
  <2> SUFFICES ASSUME NEW r \in live, NEW p \in 0 .. Stored(r)' - 1,
                      (p \div Group) + 1 \in Open(r)
               PROVE  InPool(r, p)'
    BY <1>1, <1>3 DEF TailInv
  <2>1. r \in Reqs /\ computed[r] \in Nat
    BY <1>0, RowFacts
  <2>2. p \in 0 .. Stored(r) - 1
    <3>1. CASE r \in InBatch'
      <4>1. Stored(r)' = computed[r] + pass /\ r \in DraftRows(pass + 1, computed)
        BY <1>2, <3>1 DEF Stored
      <4>2. r \in DraftRows(pass, computed)
        <5>1. Smaller(MaxLen, Len(table[r]) * Group) \in Nat
          BY <1>0, <2>1, VariableTypes, ConstantTypes DEF Smaller
        <5> QED BY <1>0, <2>1, <4>1, <5>1 DEF DraftRows
      <4>3. r \in InBatch /\ seqLen[r] = computed[r] + pass
        BY <1>0, <1>1, <4>2 DEF BatchInv
      <4>4. Stored(r) = seqLen[r]
        BY <1>1, <4>3 DEF Stored
      <4> QED BY <4>1, <4>3, <4>4
    <3>2. CASE r \notin InBatch'
      <4>1. Stored(r)' = computed[r]
        BY <1>1, <3>2 DEF Stored
      <4>2. Stored(r) \in Nat /\ Stored(r) >= computed[r]
        <5>1. CASE r \in InBatch
          BY <1>0, <1>1, <2>1, <5>1, BatchFacts DEF Stored
        <5>2. CASE r \notin InBatch
          BY <2>1, <5>2 DEF Stored
        <5> QED BY <5>1, <5>2
      <4> QED BY <2>1, <4>1, <4>2
    <3> QED BY <3>1, <3>2
  <2>3. InPool(r, p)
    BY <2>2 DEF DataInv, TailInv
  <2> QED BY <1>1, <1>7, <2>3 DEF InPool, BlockAt, slots, labels, data
<1>11. NeedInv' /\ FillInv'
  BY <1>1, <1>2, <1>7 DEF DataInv, NeedInv, FillInv, labels
<1> QED BY <1>6, <1>9, <1>10, <1>11 DEF DataInv

LEMMA DataInit == Init => DataInv
<1> SUFFICES ASSUME Init PROVE DataInv
  OBVIOUS
<1>1. InBatch = {} /\ live = {} /\ phase = "idle" /\ pass = 0 /\ sinks = {}
      /\ \A b \in Blocks : hash[b] = NoKey
  BY DEF Init, InBatch, NoRow
<1>2. OwnInv
  BY <1>1 DEF OwnInv, BatchInv, OpenOwned, OpenUnhashed
<1>3. SettledInv /\ TailInv
  BY <1>1 DEF SettledInv, Settled, TailInv
<1>4. NeedInv /\ FillInv
  BY <1>1 DEF NeedInv, FillInv
<1> QED BY <1>2, <1>3, <1>4 DEF DataInv

LEMMA DataRestart ==
  ASSUME Restart
  PROVE  DataInv'
<1>1. InBatch' = {} /\ live' = {} /\ phase' = "idle" /\ pass' = 0 /\ sinks' = {}
      /\ \A b \in Blocks : hash'[b] = NoKey
  BY DEF Restart, InBatch, NoRow
<1>2. OwnInv'
  BY <1>1 DEF OwnInv, BatchInv, OpenOwned, OpenUnhashed
<1>3. SettledInv' /\ TailInv'
  BY <1>1 DEF SettledInv, Settled, TailInv
<1>4. NeedInv' /\ FillInv'
  BY <1>1 DEF NeedInv, FillInv
<1> QED BY <1>2, <1>3, <1>4 DEF DataInv

LEMMA DataStep == PoolInv /\ DataInv /\ [Next]_vars => DataInv'
<1> SUFFICES ASSUME PoolInv, DataInv, [Next]_vars PROVE DataInv'
  OBVIOUS
<1>1. CASE UNCHANGED vars
  <2>1. RowsKept /\ OwnInv'
    BY <1>1, RowsFrame DEF vars, DataInv
  <2>2. UNCHANGED <<phase, pass, live, table, computed, seqLen, slots, labels, needed, data>>
    BY <1>1 DEF vars, scheduler, batch
  <2>3. Held' = Held /\ \A b \in Blocks : View(b)' = View(b) /\ fill'[b] = fill[b]
    BY <2>2 DEF Held, View, slots, labels, data
  <2>4. SettledInv'
    BY <2>1, <2>3 DEF DataInv, SettledInv, RowsKept, Offsets
  <2>5. TailInv'
    <3>1. \A r \in live : \A p \in 0 .. Stored(r) - 1 : InPool(r, p) => InPool(r, p)'
      BY <2>2, <2>3 DEF InPool, BlockAt, slots, labels, data
    <3>2. UNCHANGED <<scheduler, batch, pass>>
      BY <1>1 DEF vars
    <3> QED BY <2>2, <3>1, <3>2, TailFrame
  <2>6. NeedInv'
    BY <2>1, <2>2, <2>3 DEF DataInv, NeedInv, RowsKept, labels
  <2>7. FillInv'
    BY <1>1 DEF vars, scheduler, batch, labels, DataInv, FillInv, InBatch, WrittenIdx,
                Committed, FillAfter
  <2> QED BY <2>1, <2>4, <2>5, <2>6, <2>7 DEF DataInv
<1>2. ASSUME NEW r \in Reqs, Arrive(r) \/ Leave(r) \/ ScheduleRow(r)
      PROVE  DataInv'
  BY <1>2, DataArrive, DataLeave, DataSchedule
<1>3. CASE Dispatch \/ Store \/ Sample \/ Draft \/ Restart
  BY <1>3, DataPhase, DataStore, DataSample, DataDraft, DataRestart
<1>4. CASE Builder
  BY <1>4, DataMark, DataFlush, DataPhase, DataAllocate, DataEvict DEF Builder
<1> QED BY <1>1, <1>2, <1>3, <1>4 DEF Next

LEMMA PoolInvariant == Spec => [](PoolInv /\ DataInv)
<1>1. TypeInv /\ LabelInv /\ SinkInv /\ [Next]_vars => SinkInv'
  BY SinkStep
<1>2. Spec => []PoolInv
  BY SinkInit, <1>1, LabelInit, LabelStep, PoolTypes, PoolSlotPartition, PTL DEF Spec, PoolInv
<1> QED BY <1>2, DataInit, DataStep, PTL DEF Spec

\* The backend is a plain paged cache: in every attention of a target or a
\* drafter pass, each token of each row is the last one written there, in the
\* pool or in the tile, for any blocks, slots, tile size, prompts and sharing.
THEOREM PoolReadsAsWritten == Spec => []ReadsAsWritten
<1>1. PoolInv /\ DataInv => ReadsAsWritten
  <2> SUFFICES ASSUME PoolInv, DataInv, phase = "attend",
                      NEW r \in InBatch, NEW p \in 0 .. seqLen[r] - 1
               PROVE  p % Group \in View(BlockAt(r, p))
    BY DEF ReadsAsWritten
  <2>0. TypeInv /\ BatchInv
    BY DEF PoolInv, DataInv, OwnInv
  <2>1. r \in live /\ r \in Reqs /\ seqLen[r] \in Nat /\ Stored(r) = seqLen[r]
    BY <2>0, BatchFacts DEF Stored
  <2>2. /\ p \in Nat /\ p < seqLen[r] /\ Group \in Nat \ {0} /\ p \div Group \in Nat
        /\ (p \div Group) + 1 \in 1 .. Len(table[r]) /\ BlockAt(r, p) \in Blocks
    <3>1. p \in Nat /\ p < seqLen[r]
      BY <2>1
    <3> QED BY <2>0, <2>1, <3>1, RowIndex, ConstantTypes
  <2>3. CASE (p \div Group) + 1 \in Open(r)
    <3>1. InPool(r, p)
      BY <2>1, <2>3 DEF DataInv, TailInv
    <3> QED BY <3>1 DEF InPool, View, Held, PoolInv, SlotPartition
  <2>4. CASE (p \div Group) + 1 \notin Open(r)
    <3>1. (p \div Group) + 1 \in 1 .. Full(r)
      BY <2>0, <2>1, <2>2, <2>4, RowFacts DEF Open
    <3>2. Settled(BlockAt(r, p))
      BY <2>1, <3>1 DEF Settled, BlockAt
    <3>3. View(BlockAt(r, p)) = Offsets
      BY <2>2, <3>2 DEF DataInv, SettledInv
    <3> QED BY <2>2, <3>3, ModRange DEF Offsets
  <2> QED BY <2>3, <2>4
<1> QED BY <1>1, PoolInvariant, PTL

\* Between steps every hashed block, the only kind the prefix cache hands out,
\* reads whole, whether its request lives, ended, or lost its slot since.
THEOREM PoolCacheHits == Spec => []CacheHitsFindData
<1>1. PoolInv /\ DataInv => CacheHitsFindData
  BY DEF CacheHitsFindData, DataInv, SettledInv, Settled
<1> QED BY <1>1, PoolInvariant, PTL
=============================================================================
