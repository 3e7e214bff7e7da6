----------------------------- MODULE DraftVocab -----------------------------
(***************************************************************************)
(* A smaller vocabulary for the drafter: build_draft_vocab.py walks the    *)
(* corpora under caps and chooses the ids, truncate_drafter.py writes a    *)
(* GGUF file with those rows of the head only, validate_drafter.py checks  *)
(* a file against its source.  A file is its header and its bytes; a byte  *)
(* is a tag that says where it came from.                                  *)
(*                                                                         *)
(* Blended scores are abstracted: any order of the tokens observed is a    *)
(* possible ranking.  A run of the truncator may stop anywhere, and may be *)
(* repeated with the same or another id set.                               *)
(***************************************************************************)
EXTENDS Integers, Sequences, FiniteSets, SequencesExt, FiniteSetsExt

CONSTANTS
  Sources,      \* per source [cap, dir_cap, docs, files]; a file is
                \* [top, generated, units], a unit [size, tokens, held]
  Rows,         \* tokens, and rows of the source's head
  Bytes256,     \* the byte alphabet
  Added,        \* added tokens of tokenizer.json
  Whitespace,   \* tokens that decode to white space
  Special,      \* ids whose GGUF token type is special, and BOS, EOS, PAD
  Sizes,        \* --sizes
  Align,        \* general.alignment
  RowBytes, IdBytes, \* bytes of a row of the head, of an entry of d2t
  HeaderBytes, InfoBytes, \* header without, and per, tensor
  SrcTensors,   \* <<name, bytes>> of the source in the order of its table
  SampleRows,   \* rows of the head that the validator compares
  SampleTensors \* untouched tensors that it compares

\* A file has names and whole numbers of bytes, a source its head and no d2t.
ASSUME LayoutAssumption ==
  /\ {Align, RowBytes, IdBytes} \subseteq Nat \ {0} /\ {HeaderBytes, InfoBytes, Rows} \subseteq Nat
  /\ Len(SrcTensors) \in Nat /\ SrcTensors = [i \in 1 .. Len(SrcTensors) |-> SrcTensors[i]]
  /\ \A i \in DOMAIN SrcTensors :
       /\ SrcTensors[i] = <<SrcTensors[i][1], SrcTensors[i][2]>> /\ SrcTensors[i][2] \in Nat
       /\ SrcTensors[i][1] # "d2t"
       /\ \A j \in DOMAIN SrcTensors : SrcTensors[i][1] = SrcTensors[j][1] => i = j
  /\ \E i \in DOMAIN SrcTensors : SrcTensors[i] = <<"head", Rows * RowBytes>>
  /\ SampleTensors \subseteq {SrcTensors[i][1] : i \in DOMAIN SrcTensors} \ {"head"}

\* No set is so large that its ids are the first rows of the head: special
\* tokens are at the end of the vocabulary.
ASSUME VocabAssumption ==
  /\ Sizes \subseteq Nat \ {0}
  /\ \A n \in Sizes : \E x \in (Special \cup Bytes256) \cap Nat : x >= n

VARIABLES
  stage,        \* "count", "built", "refused" or "writing"
  src, file, unit, \* where the walk is
  total, per_dir, \* characters read of this source, and per top directory
  train,        \* tokens counted, the holdout left out
  built, ids,   \* the size asked for, and the id set written for it
  partial,      \* the file being written, at <out>.partial
  written,      \* tensors written to it
  out           \* the published file

walk == <<src, file, unit, total, per_dir, train>>
vocab_vars == <<stage, walk, built, ids, partial, written, out>>

NoFile == [infos |-> <<>>, bytes |-> <<>>]

-----------------------------------------------------------------------------
(* The corpora.                                                            *)

Source == Sources[src]
File   == Source.files[file]
Unit   == File.units[unit]

DirFull == Source.dir_cap > 0 /\ per_dir[File.top] >= Source.dir_cap
SourceFull == total >= Source.cap

ToSource(n) ==
  /\ src' = n /\ file' = 1 /\ unit' = 0 /\ total' = 0
  /\ per_dir' = [t \in DOMAIN per_dir |-> 0]
  /\ UNCHANGED train
ToUnit(f, u) == file' = f /\ unit' = u /\ UNCHANGED <<src, total, per_dir, train>>

Walking == stage = "count" /\ src <= Len(Sources) /\ UNCHANGED <<stage, built, ids, partial, written, out>>
AtFile  == file <= Len(Source.files) /\ unit = 0

\* A root that is missing, a source read to its end or its cap.
SkipSource == Walking /\ file = 1 /\ unit = 0 /\ ToSource(src + 1)

EndSource ==
  /\ Walking
  /\ \/ file > Len(Source.files)
     \/ AtFile /\ ~DirFull /\ SourceFull
     \/ file <= Len(Source.files) /\ unit \in 1 .. Len(File.units) /\ Source.docs /\ SourceFull
  /\ ToSource(src + 1)

\* The directory had enough, or the file is unreadable, blank or generated.
SkipFile == Walking /\ AtFile /\ (DirFull \/ ~SourceFull) /\ ToUnit(file + 1, 0)

OpenFile ==
  /\ Walking /\ AtFile /\ ~DirFull /\ ~SourceFull
  /\ Source.docs \/ ~File.generated
  /\ ToUnit(file, 1)

\* A document of a dump, or the text of a file, on its side of the holdout.
CountUnit ==
  /\ Walking /\ file <= Len(Source.files) /\ unit \in 1 .. Len(File.units)
  /\ Source.docs => ~SourceFull
  /\ total' = total + Unit.size
  /\ per_dir' = [per_dir EXCEPT ![File.top] = @ + Unit.size]
  /\ train' = IF Unit.held THEN train ELSE train \cup Unit.tokens
  /\ unit' = unit + 1
  /\ UNCHANGED <<src, file>>

CloseFile == Walking /\ file <= Len(Source.files) /\ unit > Len(File.units) /\ ToUnit(file + 1, 0)

-----------------------------------------------------------------------------
(* The id sets.                                                            *)

Forced == Bytes256 \cup Added \cup Whitespace

\* The length of a Python slice [: n] of len items: a negative n counts from
\* the end.
SliceLen(len, n) ==
  IF n < 0 THEN (IF len + n < 0 THEN 0 ELSE len + n) ELSE IF n < len THEN n ELSE len

Candidates == train \ Forced

\* sorted(S).  The provers cannot look into SortSeq, on which SetToSortSeq
\* rests.
InOrder(S) ==
  [i \in 1 .. Cardinality(S) |-> CHOOSE x \in S : Cardinality({y \in S : y <= x}) = i]

\* The set of a size, or a failed assertion.
Build(n) ==
  /\ src > Len(Sources) /\ stage \in {"count", "built", "refused"}
  /\ \E ranked \in kSubset(SliceLen(Cardinality(Candidates), n - Cardinality(Forced)), Candidates) :
       IF Cardinality(Forced \cup ranked) = n
       THEN stage' = "built" /\ built' = n /\ ids' = InOrder(Forced \cup ranked)
       ELSE stage' = "refused" /\ UNCHANGED <<built, ids>>
  /\ UNCHANGED <<walk, partial, written, out>>

-----------------------------------------------------------------------------
(* ggufio: the layout of a file.                                           *)

PadTo(x) == ((x + Align - 1) \div Align) * Align

Names(infos) == {infos[i].name : i \in DOMAIN infos}
Info(infos, name) == infos[CHOOSE i \in DOMAIN infos : infos[i].name = name]

HeaderEnd(infos) == HeaderBytes + Len(infos) * InfoBytes
DataStart(infos) == PadTo(HeaderEnd(infos))

\* Where each tensor starts, and behind the last where the data ends.
LayoutOf(sizes) ==
  LET at[i \in 1 .. Len(sizes) + 1] == IF i = 1 THEN 0 ELSE at[i - 1] + PadTo(sizes[i - 1]) IN at

Table(tensors) ==
  LET sizes == [i \in DOMAIN tensors |-> tensors[i][2]] IN
  [i \in DOMAIN tensors |->
     [name |-> tensors[i][1], size |-> sizes[i], offset |-> LayoutOf(sizes)[i]]]

\* check_offsets: the offsets are the running sum of padded sizes.
CheckOffsets(infos) ==
  \A i \in DOMAIN infos :
    infos[i].offset = IF i = 1 THEN 0 ELSE infos[i - 1].offset + PadTo(infos[i - 1].size)

DataSize(infos) == infos[Len(infos)].offset + PadTo(infos[Len(infos)].size)

Src == Table(SrcTensors)
Zeros(n) == [i \in 1 .. n |-> <<"zero">>]
TensorBytes(name, first, n) == [i \in 1 .. n |-> <<name, first + i - 1>>]

\* The bytes of a tensor as a reader finds them.
ReadAt(f, pos, n) == SubSeq(f.bytes, pos + 1, pos + n)
Data(f, name) ==
  LET t == Info(f.infos, name) IN ReadAt(f, DataStart(f.infos) + t.offset, t.size)

-----------------------------------------------------------------------------
(* truncate_drafter.py.                                                    *)

OutTensors(q) ==
  [i \in DOMAIN SrcTensors |->
     IF SrcTensors[i][1] = "head" THEN <<"head", Len(q) * RowBytes>> ELSE SrcTensors[i]]
    \o <<<<"d2t", Len(q) * IdBytes>>>>

\* What validate_keepset insists on.
Acceptable(q) ==
  /\ \A i, j \in DOMAIN q : i < j => q[i] < q[j]
  /\ \A i \in DOMAIN q : q[i] \in 0 .. Rows - 1
  /\ Special \cup Bytes256 \subseteq Range(q)

Begin ==
  /\ stage \in {"built", "refused"} /\ ids # <<>>
  /\ stage' = IF Acceptable(ids) /\ CheckOffsets(Src) THEN "writing" ELSE "refused"
  /\ partial' = IF ~(Acceptable(ids) /\ CheckOffsets(Src)) THEN partial
                ELSE LET infos == Table(OutTensors(ids)) IN
                     [infos |-> infos, bytes |-> [i \in 1 .. HeaderEnd(infos) |-> <<"header">>]
                                                   \o Zeros(DataStart(infos) - HeaderEnd(infos))]
  /\ written' = 0
  /\ UNCHANGED <<walk, built, ids, out>>

\* Whatever follows is taken for one run (a mutant).
ToTheEnd(i) == Len(ids)

\* The last of the run of consecutive ids that starts at i.
RunEnd(i) ==
  Max({j \in i .. Len(ids) : \A k \in i .. j : ids[k] = ids[i] + (k - i)})

\* The head's rows, consecutive ones in one read.
HeadRows ==
  LET rows[i \in 1 .. Len(ids) + 1] ==
        IF i > Len(ids) THEN <<>>
        ELSE TensorBytes("head", ids[i] * RowBytes, (RunEnd(i) - i + 1) * RowBytes)
               \o rows[RunEnd(i) + 1]
  IN rows[1]

IdEntries == [k \in 1 .. Len(ids) * IdBytes |-> <<"id", ids[(k - 1) \div IdBytes + 1], (k - 1) % IdBytes>>]

WriteTensor ==
  /\ stage = "writing" /\ written < Len(partial.infos)
  /\ LET t == partial.infos[written + 1]
         at == DataStart(partial.infos) + t.offset
         content == IF t.name = "d2t" THEN IdEntries
                    ELSE IF t.name = "head" THEN HeadRows ELSE TensorBytes(t.name, 0, t.size)
     IN IF Len(partial.bytes) # at
        THEN stage' = "built" /\ UNCHANGED <<partial, written>>
        ELSE /\ partial' = [partial EXCEPT !.bytes = @ \o content \o Zeros(PadTo(t.size) - t.size)]
             /\ written' = written + 1 /\ UNCHANGED stage
  /\ UNCHANGED <<walk, built, ids, out>>

\* A short read or a kill: the partial file stays.
Stop ==
  /\ stage = "writing" /\ stage' = "built" /\ written' = 0
  /\ UNCHANGED <<walk, built, ids, partial, out>>

\* Size checked, then os.replace.
Publish ==
  /\ stage = "writing" /\ written = Len(partial.infos)
  /\ out' = IF Len(partial.bytes) = DataStart(partial.infos) + DataSize(partial.infos)
            THEN partial ELSE out
  /\ partial' = NoFile /\ stage' = "built" /\ written' = 0
  /\ UNCHANGED <<walk, built, ids>>

-----------------------------------------------------------------------------
(* validate_drafter.py, on the published file and the set ids.             *)

IdsOf(f) == LET d == Data(f, "d2t") IN [i \in 1 .. Len(d) \div IdBytes |-> d[(i - 1) * IdBytes + 1][2]]
HeadRow(f, k) == SubSeq(Data(f, "head"), k * RowBytes + 1, (k + 1) * RowBytes)
SrcRow(k) == TensorBytes("head", k * RowBytes, RowBytes)

\* Without a set on the command line nothing is compared (a mutant).
Own(f) == IdsOf(f)

\* The set the file is checked against.
Given(f) == ids

Validates(f) ==
  LET d2t == IdsOf(f)
      n   == Len(d2t)
  IN
  /\ f.infos[Len(f.infos)].name = "d2t" /\ Info(f.infos, "head").size = n * RowBytes
  /\ CheckOffsets(f.infos) /\ \A i \in DOMAIN f.infos : f.infos[i].offset % Align = 0
  /\ Len(f.bytes) = DataStart(f.infos) + DataSize(f.infos)
  /\ \A i, j \in DOMAIN d2t : i < j => d2t[i] < d2t[j]
  /\ \A i \in DOMAIN d2t : d2t[i] \in 0 .. Rows - 1
  /\ d2t = Given(f)
  /\ \A name \in SampleTensors : Data(f, name) = TensorBytes(name, 0, Info(Src, name).size)
  /\ \A k \in SampleRows \cap (0 .. n - 1) : HeadRow(f, k) = SrcRow(d2t[k + 1])
  /\ d2t[n] # n - 1 /\ HeadRow(f, n - 1) # SrcRow(n - 1)

-----------------------------------------------------------------------------
VocabInit ==
  /\ stage = "count" /\ src = 1 /\ file = 1 /\ unit = 0 /\ total = 0
  /\ per_dir = [t \in UNION {{s.files[i].top : i \in DOMAIN s.files} : s \in Range(Sources)} |-> 0]
  /\ train = {} /\ built = 0 /\ ids = <<>>
  /\ partial = NoFile /\ written = 0 /\ out = NoFile

VocabNext ==
  \/ SkipSource \/ EndSource \/ SkipFile \/ OpenFile \/ CountUnit \/ CloseFile
  \/ \E n \in Sizes : Build(n)
  \/ Begin \/ WriteTensor \/ Stop \/ Publish

VocabSpec == VocabInit /\ [][VocabNext]_vocab_vars

-----------------------------------------------------------------------------

\* The published file is at every moment absent or whole, whatever run was
\* stopped and repeated: each row of its head is the source's row of the id
\* in d2t, every other tensor is the source's, read where the header says.
PublishedIsWhole ==
  out # NoFile =>
    LET d2t == IdsOf(out) IN
    /\ CheckOffsets(out.infos) /\ Acceptable(d2t)
    /\ \A k \in 0 .. Len(d2t) - 1 : HeadRow(out, k) = SrcRow(d2t[k + 1])
    /\ \A name \in Names(Src) \ {"head"} :
         Data(out, name) = TensorBytes(name, 0, Info(Src, name).size)

\* The validator passes exactly the file of the present set: not the one a
\* stopped run left from another set.
ValidatedIsCurrent == out # NoFile => (Validates(out) <=> IdsOf(out) = ids)
=============================================================================
