------------------------ MODULE Regeneration_proofs ------------------------
(***************************************************************************)
(* What the jobs that borrow the GPU guarantee for any prompts, any first  *)
(* output, any error share and any number of invocations and crashes; and, *)
(* at the end, what the miner guarantees of the prompts for any            *)
(* transcripts.                                                            *)
(***************************************************************************)
EXTENDS Regeneration, SessionMining, FiniteSetTheorems, SequenceTheorems, WellFoundedInduction, TLAPS

----------------------------------------------------------------------------
(* The jobs over any prompts: the input is empty until it is delivered, a  *)
(* sequence of ids, repeated or not, none of which is that of a torn line. *)

Prompts(ids) == IsSeq(ids) /\ (\A n \in DOMAIN ids : ids[n] # <<>>) /\ Deliver(ids)

Pipeline == Init /\ [][Next \/ \E ids : Prompts(ids)]_vars

----------------------------------------------------------------------------
(* The inductive invariant.                                                *)

Codes   == {0, 1, 137, 143}
JobSteps ==
  {"off", "seed", "check", "suspend", "scale", "wait", "gpu", "serve", "smoke", "regenerate", "build",
   "command", "unserve", "restore", "resume", "rollout"}

JobTypes ==
  /\ pc \in [Jobs -> JobSteps] /\ rc \in [Jobs -> Codes] /\ saved \in [Jobs -> {0, 1}]
  /\ stop \in [Jobs -> BOOLEAN] /\ gpu \in [Jobs -> BOOLEAN] /\ starts \in [Jobs -> Nat]
  /\ lock \in Jobs \cup {Nobody}

UnitTypes == replicas \in {0, 1} /\ suspended \in BOOLEAN /\ pod \in BOOLEAN /\ JobTypes

\* The lock belongs to the one job that lives; what has ended holds nothing.
UnitInv ==
  /\ UnitTypes
  /\ pc["regen"] # "command" /\ pc["capture"] \notin {"seed", "serve", "smoke", "regenerate", "build"}
  /\ \A j \in Jobs : (Live(j) <=> lock = j) /\ (~Live(j) => ~stop[j] /\ ~gpu[j])
  /\ \A j \in Jobs : starts[j] > 0 => input # <<>>

\* A job past check saved one replica. From scale on Flux is suspended, from
\* wait on nothing is asked for, from serve or command on the pod is gone; and
\* so they are while the job holds the GPU.
Suspended(j) == pc[j] \in {"scale", "wait", "gpu", "serve", "smoke", "regenerate", "build", "command"}
Scaled(j)    == Suspended(j) /\ pc[j] # "scale"
Emptied(j)   == Scaled(j) /\ pc[j] \notin {"wait", "gpu"}
ApiInv ==
  \A j \in Jobs :
    /\ pc[j] \notin Untrapped \cup {"off"} => saved[j] = 1
    /\ Suspended(j) => suspended
    /\ Scaled(j) => replicas = 0
    /\ Emptied(j) => ~pod
    /\ gpu[j] => pc[j] \in {"smoke", "regenerate", "build", "command", "unserve"} /\ suspended /\ replicas = 0 /\ ~pod

\* The output begins with what was kept, and a line behind that names the row
\* that it answers.
Seeded == output # Absent => Len(Kept) <= Len(output) /\ \A k \in 1 .. Len(Kept) : output[k] = Kept[k]
Numbered ==
  output # Absent => \A k \in Len(Kept) + 1 .. Len(output) :
    output[k] # Torn => output[k].row \in DOMAIN input /\ input[output[k].row] = output[k].id

\* What has the id of row n was written by a regeneration, for another row.
Open(n) == \A k \in 1 .. Len(output) : output[k].id = input[n] => k > Len(Kept) /\ output[k].row # n

\* Once seeded and while a regeneration is at work the output parses, and
\* holds ids of the input only; what is left to answer is open.
RowsInv ==
  /\ IsSeq(input) /\ \A n \in DOMAIN input : input[n] # <<>>
  /\ input = <<>> => output = Absent
  /\ IsSeq(output) /\ RowsOnce /\ Seeded /\ Numbered
  /\ pc["regen"] \notin {"off", "seed"} => output # Absent /\ Parses(output) /\ Ids(output) \subseteq ToSet(input)
  /\ \A n \in todo : n \in DOMAIN input /\ Open(n)
  /\ todo # {} => pc["regen"] = "regenerate"

\* At most a share of the rows is missing.
Within == Cardinality(Todo) * ErrorShare <= Len(input)

\* A row that is neither answered nor left is an error of this invocation; a
\* build starts within the rate; and a trap that still has status 0 has the
\* capture set made, and from step to step the API on its way back.
DoneInv ==
  /\ errors \in Nat /\ quota \in Nat
  /\ pc["regen"] = "regenerate" =>
       /\ Cardinality(Todo \ todo) <= errors
       /\ quota <= Len(input)
  /\ pc["regen"] # "regenerate" => errors = 0
  /\ pc["regen"] = "build" => Within
  /\ pc["regen"] \in Cleanup /\ rc["regen"] = 0 =>
       /\ Within /\ capture_set = CaptureRows(output)
       /\ pc["regen"] \in {"resume", "rollout"} => replicas = 1
       /\ pc["regen"] = "rollout" => ~suspended

\* The journal has a line per invocation, the last one open while it lives.
JournalInv ==
  /\ journal \in Seq(Codes \cup {NoExit}) /\ Len(journal) = starts["regen"]
  /\ Live("regen") => starts["regen"] > 0 /\ journal[starts["regen"]] = NoExit
  /\ rc["regen"] # 0 => starts["regen"] > 0

\* What is said of invocation i, and that it is so.
Over(i) == starts["regen"] > i \/ ~Live("regen")
True(i, said) ==
  /\ i \in 1 .. starts["regen"]
  /\ said[1] = "finished" => journal[i] = said[2] /\ said[2] # NoExit
  /\ said[1] # "finished" => journal[i] = NoExit /\ Over(i)

NotifierInv ==
  /\ watch \in {"off", "poll", "judge", "queue", "save", "done"}
  /\ saved_state \in [invocation : Nat, delivered : BOOLEAN] /\ saved_state.invocation <= starts["regen"]
  /\ saved_state.invocation = 0 => saved_state = Unnoted
  /\ watch \in {"poll", "judge", "queue", "save"} => saved_state.invocation > 0
  /\ watch = "judge" =>
       /\ seen.active \in {"active", "inactive", "failed"}
       /\ seen.invocation \in Nat /\ seen.invocation <= starts["regen"]
       /\ seen.invocation # 0 => seen.invocation >= saved_state.invocation
       /\ seen.active # "active" => Over(saved_state.invocation)
  /\ watch \in {"queue", "save"} => True(saved_state.invocation, verdict)
  /\ \A m \in queued : True(m[1], m[2])

RegenInv == UnitInv /\ ApiInv /\ RowsInv /\ DoneInv /\ JournalInv /\ NotifierInv

----------------------------------------------------------------------------
(* The steps of a job that its foreground command decides.                 *)

LEMMA AfterSteps ==
  /\ After("regen", "seed") = "check"
  /\ After("regen", "check") = "suspend"
  /\ After("regen", "suspend") = "scale"
  /\ After("regen", "scale") = "wait"
  /\ After("regen", "wait") = "gpu"
  /\ After("regen", "gpu") = "serve"
  /\ After("regen", "serve") = "smoke"
  /\ After("regen", "smoke") = "regenerate"
  /\ After("regen", "regenerate") = "build"
  /\ After("regen", "build") = "unserve"
  /\ After("capture", "check") = "suspend"
  /\ After("capture", "suspend") = "scale"
  /\ After("capture", "scale") = "wait"
  /\ After("capture", "wait") = "gpu"
  /\ After("capture", "gpu") = "command"
  /\ After("capture", "command") = "unserve"
BY DEF After, Steps

LEMMA AfterTyped ==
  ASSUME UnitInv, NEW j \in Jobs, pc[j] \notin Cleanup \cup {"off"}
  PROVE  After(j, pc[j]) \in JobSteps
BY AfterSteps DEF UnitInv, UnitTypes, JobTypes, JobSteps, Cleanup, Jobs

LEMMA GoneTypes ==
  ASSUME JobTypes, NEW j \in Jobs, NEW code \in Codes, Gone(j, code)
  PROVE  JobTypes'
<1> USE DEF JobTypes, Gone
<1>1. pc' \in [Jobs -> JobSteps] /\ rc' \in [Jobs -> Codes]
  BY DEF JobSteps
<1>2. saved' \in [Jobs -> {0, 1}] /\ stop' \in [Jobs -> BOOLEAN] /\ gpu' \in [Jobs -> BOOLEAN]
  OBVIOUS
<1> QED BY <1>1, <1>2

LEMMA EndsTypes ==
  ASSUME JobTypes, NEW j \in Jobs, NEW s, NEW code \in {0, 1}, NEW uses \in BOOLEAN,
         After(j, s) \in JobSteps, Ends(j, s, code, uses)
  PROVE  JobTypes'
<1> DEFINE end == IF stop[j] THEN 143 ELSE code
<1>1. end \in Codes
  BY DEF Codes
<1>2. CASE end # 0 /\ s \in Untrapped
  BY <1>1, <1>2, GoneTypes DEF Ends
<1>3. CASE end = 0 \/ s \notin Untrapped
  <2>1. pc' \in [Jobs -> JobSteps] /\ rc' \in [Jobs -> Codes]
    BY <1>1, <1>3 DEF Ends, JobTypes, JobSteps
  <2>2. gpu' \in [Jobs -> BOOLEAN] /\ UNCHANGED <<lock, saved, stop, starts>>
    BY <1>3 DEF Ends, JobTypes
  <2> QED BY <2>1, <2>2 DEF JobTypes
<1> QED BY <1>2, <1>3

----------------------------------------------------------------------------
(* Sequences.                                                              *)

LEMMA SeqIs ==
  ASSUME NEW s, IsSeq(s)
  PROVE  Len(s) \in Nat /\ DOMAIN s = 1 .. Len(s) /\ s \in [1 .. Len(s) -> {s[i] : i \in DOMAIN s}]
BY LenProperties DEF IsSeq

LEMMA AnySeq ==
  ASSUME NEW S, NEW s \in Seq(S)
  PROVE  IsSeq(s)
<1>1. Len(s) \in Nat /\ s \in [1 .. Len(s) -> S] /\ DOMAIN s = 1 .. Len(s)
  BY LenProperties
<1> DEFINE R == {s[i] : i \in DOMAIN s}
<1>2. s \in [1 .. Len(s) -> R]
  BY <1>1
<1> HIDE DEF R
<1>3. s \in Seq(R)
  BY <1>1, <1>2, SeqDef
<1> QED BY <1>3 DEF IsSeq, R

LEMMA Empty == IsSeq(<<>>) /\ Len(<<>>) = 0
<1>1. <<>> \in Seq({})
  BY EmptySeq
<1> QED BY <1>1, AnySeq

LEMMA Appended ==
  ASSUME NEW s, IsSeq(s), NEW e
  PROVE  /\ IsSeq(Append(s, e)) /\ Len(Append(s, e)) = Len(s) + 1
         /\ \A i \in 1 .. Len(s) : Append(s, e)[i] = s[i]
         /\ Append(s, e)[Len(s) + 1] = e
<1> DEFINE S == {s[i] : i \in DOMAIN s} \cup {e}
<1>1. s \in Seq(S) /\ e \in S
  <2>1. {s[i] : i \in DOMAIN s} \subseteq S
    OBVIOUS
  <2> QED BY <2>1, SeqMonotonic DEF IsSeq
<1> HIDE DEF S
<1>2. /\ Append(s, e) \in Seq(S) /\ Len(Append(s, e)) = Len(s) + 1
      /\ \A i \in 1 .. Len(s) : Append(s, e)[i] = s[i]
      /\ Append(s, e)[Len(s) + 1] = e
  BY <1>1, AppendProperties
<1>3. IsSeq(Append(s, e))
  BY <1>2, AnySeq
<1> QED BY <1>2, <1>3

LEMMA Concatenated ==
  ASSUME NEW s, IsSeq(s), NEW t, IsSeq(t)
  PROVE  /\ IsSeq(s \o t) /\ Len(s \o t) = Len(s) + Len(t)
         /\ \A i \in 1 .. Len(s) : (s \o t)[i] = s[i]
         /\ \A i \in 1 .. Len(t) : (s \o t)[Len(s) + i] = t[i]
<1> DEFINE S == {s[i] : i \in DOMAIN s} \cup {t[i] : i \in DOMAIN t}
<1>1. s \in Seq(S) /\ t \in Seq(S)
  <2>1. {s[i] : i \in DOMAIN s} \subseteq S /\ {t[i] : i \in DOMAIN t} \subseteq S
    OBVIOUS
  <2> HIDE DEF S
  <2> QED BY <2>1, SeqMonotonic DEF IsSeq
<1> HIDE DEF S
<1>2. s \o t \in Seq(S) /\ Len(s \o t) = Len(s) + Len(t) /\ Len(s) \in Nat /\ Len(t) \in Nat
  BY <1>1, ConcatProperties, LenProperties
<1>3. \A i \in 1 .. Len(s) + Len(t) : (s \o t)[i] = IF i <= Len(s) THEN s[i] ELSE t[i - Len(s)]
  BY <1>1, ConcatProperties
<1>4. \A i \in 1 .. Len(s) : (s \o t)[i] = s[i]
  BY <1>2, <1>3
<1>5. \A i \in 1 .. Len(t) : (s \o t)[Len(s) + i] = t[i]
  <2> TAKE i \in 1 .. Len(t)
  <2>1. Len(s) + i \in 1 .. Len(s) + Len(t) /\ ~(Len(s) + i <= Len(s)) /\ Len(s) + i - Len(s) = i
    BY <1>2
  <2> QED BY <1>3, <2>1
<1> QED BY <1>1, <1>2, <1>4, <1>5, AnySeq

LEMMA PartIs ==
  ASSUME NEW s, IsSeq(s), NEW m \in Nat \ {0}, NEW n \in 0 .. Len(s), m <= n + 1
  PROVE  /\ IsSeq(SubSeq(s, m, n)) /\ Len(SubSeq(s, m, n)) = n - m + 1
         /\ \A i \in 1 .. n - m + 1 : SubSeq(s, m, n)[i] = s[m + i - 1]
<1> DEFINE S == {s[i] : i \in DOMAIN s}
<1>1. Len(s) \in Nat /\ DOMAIN s = 1 .. Len(s) /\ n \in Nat
  BY SeqIs
<1>2. \A i \in m .. n : s[i] \in S
  BY <1>1
<1> HIDE DEF S
<1>3. /\ SubSeq(s, m, n) \in Seq(S)
      /\ Len(SubSeq(s, m, n)) = IF m <= n THEN n - m + 1 ELSE 0
      /\ \A i \in 1 .. n - m + 1 : SubSeq(s, m, n)[i] = s[m + i - 1]
  BY <1>1, <1>2, SubSeqProperties
<1>4. IsSeq(SubSeq(s, m, n))
  BY <1>3, AnySeq
<1>5. m <= n \/ n - m + 1 = 0
  BY <1>1
<1> QED BY <1>3, <1>4, <1>5

----------------------------------------------------------------------------
(* The rows of the output.                                                 *)

\* What is said of the rows depends on the input and the output alone.
LEMMA RowsSame ==
  ASSUME UNCHANGED <<input, output>>
  PROVE  /\ RowsOnce' = RowsOnce /\ Seeded' = Seeded /\ Numbered' = Numbered
         /\ Ids(output)' = Ids(output) /\ Parses(output)' = Parses(output)
         /\ Todo' = Todo /\ \A n : Open(n)' = Open(n)
<1>1. RowsOnce' = RowsOnce /\ Seeded' = Seeded /\ Numbered' = Numbered
  BY DEF RowsOnce, TwoRows, Seeded, Numbered
<1>2. Ids(output)' = Ids(output) /\ Parses(output)' = Parses(output) /\ Todo' = Todo
  BY DEF Ids, Parses, Todo
<1>3. \A n : Open(n)' = Open(n)
  BY DEF Open
<1> QED BY <1>1, <1>2, <1>3

LEMMA RowsFrame ==
  ASSUME RowsInv, UNCHANGED <<input, output, todo>>,
         pc'["regen"] \notin {"off", "seed"} => pc["regen"] \notin {"off", "seed"},
         todo # {} => pc'["regen"] = "regenerate"
  PROVE  RowsInv'
BY RowsSame DEF RowsInv

\* The rows without an answer are some of the input's.
LEMMA TodoFinite ==
  ASSUME IsSeq(input)
  PROVE  IsFiniteSet(Todo) /\ Cardinality(Todo) \in Nat /\ Cardinality(Todo) <= Len(input) /\ Len(input) \in Nat
<1>1. Len(input) \in Nat /\ DOMAIN input = 1 .. Len(input)
  BY SeqIs
<1>2. IsFiniteSet(1 .. Len(input)) /\ Cardinality(1 .. Len(input)) = Len(input)
  <2>1. Cardinality(1 .. Len(input)) = IF 1 > Len(input) THEN 0 ELSE Len(input) - 1 + 1
    BY <1>1, FS_Interval
  <2>2. IsFiniteSet(1 .. Len(input))
    BY <1>1, FS_Interval
  <2> QED BY <1>1, <2>1, <2>2
<1>3. Todo \subseteq 1 .. Len(input)
  BY <1>1 DEF Todo
<1>4. ASSUME NEW S, NEW T, IsFiniteSet(S), T \subseteq S
      PROVE  IsFiniteSet(T) /\ Cardinality(T) <= Cardinality(S) /\ Cardinality(T) \in Nat
  BY <1>4, FS_Subset, FS_CardinalityType
<1>5. IsFiniteSet(Todo) /\ Cardinality(Todo) <= Cardinality(1 .. Len(input)) /\ Cardinality(Todo) \in Nat
  BY <1>2, <1>3, <1>4
<1> QED BY <1>1, <1>2, <1>5

\* A line behind lines that all parse: those that have its id answer other rows
\* of the input.
LEMMA LineAppended ==
  ASSUME IsSeq(output), Parses(output), RowsOnce, Seeded, Numbered, output # Absent, UNCHANGED input,
         NEW row, output' = Append(output, row),
         \A i \in 1 .. Len(output) : output[i].id = row.id => i > Len(Kept) /\ TwoRows(output[i], row),
         row # Torn => row.row \in DOMAIN input /\ input[row.row] = row.id
  PROVE  /\ IsSeq(output') /\ RowsOnce' /\ Seeded' /\ Numbered'
         /\ Ids(output)' = Ids(output) \cup {row.id} /\ (row # Torn => Parses(output)')
<1>1. /\ Len(output') = Len(output) + 1 /\ Len(output) \in Nat
      /\ \A i \in 1 .. Len(output) : output'[i] = output[i]
      /\ output'[Len(output) + 1] = row
      /\ DOMAIN output = 1 .. Len(output) /\ DOMAIN output' = 1 .. Len(output) + 1 /\ IsSeq(output')
  <2> DEFINE app == Append(output, row)
  <2>1. /\ IsSeq(app) /\ Len(app) = Len(output) + 1
        /\ \A i \in 1 .. Len(output) : app[i] = output[i]
        /\ app[Len(output) + 1] = row
    BY Appended
  <2> HIDE DEF app
  <2>2. output' = app
    BY DEF app
  <2>3. Len(output) \in Nat /\ DOMAIN output = 1 .. Len(output) /\ DOMAIN app = 1 .. Len(app)
    BY <2>1, SeqIs
  <2> QED BY <2>1, <2>2, <2>3
<1>2. \A i \in 1 .. Len(output) : output[i] # Torn
  BY <1>1 DEF Parses
<1>3. Len(Kept) \in Nat /\ Len(Kept) <= Len(output) /\ \A k \in 1 .. Len(Kept) : output[k] = Kept[k]
  BY LegacyAssumption DEF LegacyAssumption, Seeded
<1>4. \A r, t : TwoRows(r, t)' = TwoRows(r, t)
  BY DEF TwoRows
<1>5. RowsOnce'
  <2>a. Len(output') - 1 = Len(output)
    BY <1>1
  <2> SUFFICES ASSUME NEW i \in 1 .. Len(output), NEW k \in i + 1 .. Len(output) + 1,
                      k > Len(Kept), output'[k].id = output'[i].id
               PROVE  i > Len(Kept) /\ TwoRows(output'[i], output'[k])
    BY <1>1, <1>2, <1>4, <2>a DEF RowsOnce
  <2>b. output'[i] = output[i]
    BY <1>1
  <2>1. CASE k = Len(output) + 1
    BY <1>1, <2>1, <2>b
  <2>2. CASE k # Len(output) + 1
    <3>1. k \in 1 .. Len(output) /\ i \in 1 .. Len(output) - 1 /\ k \in i + 1 .. Len(output) /\ output'[k] = output[k]
      BY <1>1, <2>2
    <3> QED BY <2>b, <3>1 DEF RowsOnce
  <2> QED BY <2>1, <2>2
<1>6. Seeded'
  BY <1>1, <1>3 DEF Seeded
<1>7. Numbered'
  <2> SUFFICES ASSUME NEW k \in Len(Kept) + 1 .. Len(output) + 1, output'[k] # Torn
               PROVE  output'[k].row \in DOMAIN input /\ input[output'[k].row] = output'[k].id
    BY <1>1 DEF Numbered
  <2>1. CASE k = Len(output) + 1
    BY <1>1, <2>1
  <2>2. CASE k # Len(output) + 1
    <3>1. k \in Len(Kept) + 1 .. Len(output) /\ k \in 1 .. Len(output)
      BY <1>1, <1>3, <2>2
    <3>2. output'[k] = output[k]
      BY <1>1, <3>1
    <3> QED BY <3>1, <3>2 DEF Numbered
  <2> QED BY <2>1, <2>2
<1>8. Ids(output)' = Ids(output) \cup {row.id}
  BY <1>1 DEF Ids
<1>9. row # Torn => Parses(output)'
  BY <1>1, <1>2 DEF Parses
<1> QED BY <1>1, <1>5, <1>6, <1>7, <1>8, <1>9

\* The torn line that the operator cuts off was behind what was kept.
LEMMA LineCut ==
  ASSUME IsSeq(output), output # <<>>, Last(output) = Torn, RowsOnce, Seeded, Numbered, output # Absent,
         UNCHANGED input, output' = Front(output)
  PROVE  IsSeq(output') /\ RowsOnce' /\ Seeded' /\ Numbered'
<1> DEFINE n == Len(output) - 1
           part == SubSeq(output, 1, n)
<1>1. Len(output) \in Nat \ {0}
  <2>1. \A S : \A t \in Seq(S) : t # <<>> => Len(t) \in Nat \ {0}
    BY EmptySeq
  <2> QED BY <2>1 DEF IsSeq
<1>2. output' = part
  BY DEF Front
<1>3. IsSeq(part) /\ Len(part) = n /\ \A i \in 1 .. n : part[i] = output[i]
  <2>1. 1 \in Nat \ {0} /\ n \in 0 .. Len(output) /\ 1 <= n + 1 /\ n - 1 + 1 = n
    BY <1>1
  <2>2. \A i \in 1 .. n : 1 + i - 1 = i
    OBVIOUS
  <2> HIDE DEF n
  <2> QED BY <2>1, <2>2, PartIs
<1> HIDE DEF part
<1>4. Len(Kept) \in Nat /\ \A i \in 1 .. Len(Kept) : Kept[i] # Torn
  BY LegacyAssumption DEF LegacyAssumption
<1>5. n \in Nat /\ Len(Kept) <= n /\ output[Len(output)] = Torn
  BY <1>1, <1>4 DEF Last, Seeded
<1>6. \A i \in 1 .. n : output'[i] = output[i] /\ Len(output') = n
  BY <1>2, <1>3
<1>7. Len(output') = n
  BY <1>2, <1>3
<1>8. \A r, t : TwoRows(r, t)' = TwoRows(r, t)
  BY DEF TwoRows
<1>9. RowsOnce'
  <2> SUFFICES ASSUME NEW i \in 1 .. n - 1
               PROVE  /\ output'[i] # Torn
                      /\ \A k \in i + 1 .. n :
                           k > Len(Kept) /\ output'[k].id = output'[i].id
                             => i > Len(Kept) /\ TwoRows(output'[i], output'[k])
    BY <1>7, <1>8 DEF RowsOnce
  <2>1. i \in 1 .. Len(output) - 1 /\ output'[i] = output[i]
    BY <1>1, <1>6
  <2>2. \A k \in i + 1 .. n : k \in i + 1 .. Len(output) /\ output'[k] = output[k]
    BY <1>1, <1>5, <1>6, <2>1
  <2> QED BY <2>1, <2>2 DEF RowsOnce
<1>10. Seeded'
  <2>1. \A k \in 1 .. Len(Kept) : k \in 1 .. n
    BY <1>4, <1>5
  <2> QED BY <1>5, <1>6, <1>7, <2>1 DEF Seeded
<1>11. Numbered'
  <2>1. \A k \in Len(Kept) + 1 .. n : k \in 1 .. n /\ k \in Len(Kept) + 1 .. Len(output)
    BY <1>1, <1>4, <1>5
  <2> QED BY <1>6, <1>7, <2>1 DEF Numbered
<1> QED BY <1>2, <1>3, <1>9, <1>10, <1>11

----------------------------------------------------------------------------
(* One action of the cluster, a job, the notifier or the miner.            *)

LEMMA RegenReconcile ==
  ASSUME RegenInv, Reconcile
  PROVE  RegenInv'
<1> USE DEF Reconcile, api, unit, files, notify, vars, Live,
      Untrapped, Cleanup, Jobs, Nobody, Codes, NoExit, NoResult, Unnoted
<1>0. UnitInv /\ ApiInv /\ RowsInv /\ DoneInv /\ JournalInv /\ NotifierInv
  BY DEF RegenInv
<1>1. UnitTypes'
  BY <1>0 DEF UnitInv, UnitTypes, JobTypes
<1>2. UnitInv'
  BY <1>0, <1>1 DEF UnitInv, UnitTypes, JobTypes
<1>3. ApiInv'
  BY <1>0 DEF UnitInv, UnitTypes, JobTypes, ApiInv, Suspended, Scaled, Emptied
<1>4. RowsInv'
  BY <1>0, RowsFrame DEF RowsInv
<1>5. DoneInv'
  BY <1>0 DEF UnitInv, UnitTypes, JobTypes, ApiInv, RowsInv, DoneInv, Within, Todo, Ids
<1>6. JournalInv'
  BY <1>0 DEF UnitInv, UnitTypes, JobTypes, JournalInv
<1>7. NotifierInv'
  BY <1>0 DEF UnitInv, UnitTypes, JobTypes, JournalInv, NotifierInv, Over, True
<1> QED BY <1>2, <1>3, <1>4, <1>5, <1>6, <1>7 DEF RegenInv

LEMMA RegenPodStarts ==
  ASSUME RegenInv, PodStarts
  PROVE  RegenInv'
<1> USE DEF PodStarts, api, unit, files, notify, vars, Live,
      Untrapped, Cleanup, Jobs, Nobody, Codes, NoExit, NoResult, Unnoted
<1>0. UnitInv /\ ApiInv /\ RowsInv /\ DoneInv /\ JournalInv /\ NotifierInv
  BY DEF RegenInv
<1>1. UnitTypes'
  BY <1>0 DEF UnitInv, UnitTypes, JobTypes
<1>2. UnitInv'
  BY <1>0, <1>1 DEF UnitInv, UnitTypes, JobTypes
<1>3. ApiInv'
  BY <1>0 DEF UnitInv, UnitTypes, JobTypes, ApiInv, Suspended, Scaled, Emptied
<1>4. RowsInv'
  BY <1>0, RowsFrame DEF RowsInv
<1>5. DoneInv'
  BY <1>0 DEF UnitInv, UnitTypes, JobTypes, ApiInv, RowsInv, DoneInv, Within, Todo, Ids
<1>6. JournalInv'
  BY <1>0 DEF UnitInv, UnitTypes, JobTypes, JournalInv
<1>7. NotifierInv'
  BY <1>0 DEF UnitInv, UnitTypes, JobTypes, JournalInv, NotifierInv, Over, True
<1> QED BY <1>2, <1>3, <1>4, <1>5, <1>6, <1>7 DEF RegenInv

LEMMA RegenPodEnds ==
  ASSUME RegenInv, PodEnds
  PROVE  RegenInv'
<1> USE DEF PodEnds, api, unit, files, notify, vars, Live,
      Untrapped, Cleanup, Jobs, Nobody, Codes, NoExit, NoResult, Unnoted
<1>0. UnitInv /\ ApiInv /\ RowsInv /\ DoneInv /\ JournalInv /\ NotifierInv
  BY DEF RegenInv
<1>1. UnitTypes'
  BY <1>0 DEF UnitInv, UnitTypes, JobTypes
<1>2. UnitInv'
  BY <1>0, <1>1 DEF UnitInv, UnitTypes, JobTypes
<1>3. ApiInv'
  BY <1>0 DEF UnitInv, UnitTypes, JobTypes, ApiInv, Suspended, Scaled, Emptied
<1>4. RowsInv'
  BY <1>0, RowsFrame DEF RowsInv
<1>5. DoneInv'
  BY <1>0 DEF UnitInv, UnitTypes, JobTypes, ApiInv, RowsInv, DoneInv, Within, Todo, Ids
<1>6. JournalInv'
  BY <1>0 DEF UnitInv, UnitTypes, JobTypes, JournalInv
<1>7. NotifierInv'
  BY <1>0 DEF UnitInv, UnitTypes, JobTypes, JournalInv, NotifierInv, Over, True
<1> QED BY <1>2, <1>3, <1>4, <1>5, <1>6, <1>7 DEF RegenInv

LEMMA RegenRepair ==
  ASSUME RegenInv, Repair
  PROVE  RegenInv'
<1> USE DEF Repair, api, unit, files, notify, vars, Live,
      Untrapped, Cleanup, Jobs, Nobody, Codes, NoExit, NoResult, Unnoted
<1>0. UnitInv /\ ApiInv /\ RowsInv /\ DoneInv /\ JournalInv /\ NotifierInv
  BY DEF RegenInv
<1>1. UnitTypes'
  BY <1>0 DEF UnitInv, UnitTypes, JobTypes
<1>2. UnitInv'
  BY <1>0, <1>1 DEF UnitInv, UnitTypes, JobTypes
<1>3. ApiInv'
  BY <1>0 DEF UnitInv, UnitTypes, JobTypes, ApiInv, Suspended, Scaled, Emptied
<1>4. RowsInv'
  <2>1. pc["regen"] = "off"
    OBVIOUS
  <2>2. CASE output # <<>> /\ Last(output) = Torn
    <3>1. output # Absent
      BY <2>2 DEF Absent, Torn, Last
    <3>2. IsSeq(output') /\ RowsOnce' /\ Seeded' /\ Numbered'
      BY <1>0, <2>2, <3>1, LineCut DEF RowsInv
    <3>3. todo = {} /\ input # <<>>
      BY <1>0, <2>1, <3>1 DEF RowsInv
    <3> QED BY <1>0, <2>1, <3>2, <3>3 DEF RowsInv
  <2>3. CASE ~(output # <<>> /\ Last(output) = Torn)
    BY <1>0, <2>3, RowsFrame DEF RowsInv
  <2> QED BY <2>2, <2>3
<1>5. DoneInv'
  BY <1>0 DEF UnitInv, UnitTypes, JobTypes, ApiInv, RowsInv, DoneInv, Within, Todo, Ids
<1>6. JournalInv'
  BY <1>0 DEF UnitInv, UnitTypes, JobTypes, JournalInv
<1>7. NotifierInv'
  BY <1>0 DEF UnitInv, UnitTypes, JobTypes, JournalInv, NotifierInv, Over, True
<1> QED BY <1>2, <1>3, <1>4, <1>5, <1>6, <1>7 DEF RegenInv

LEMMA RegenStart ==
  ASSUME RegenInv, NEW j \in Jobs, Start(j)
  PROVE  RegenInv'
<1> USE DEF Start, api, unit, files, notify, vars, Live,
      Untrapped, Cleanup, Jobs, Nobody, Codes, NoExit, NoResult, Unnoted
<1>0. UnitInv /\ ApiInv /\ RowsInv /\ DoneInv /\ JournalInv /\ NotifierInv
  BY DEF RegenInv
<1>8. Steps[j][1] = IF j = "regen" THEN "seed" ELSE "check"
  BY DEF Steps
<1>1. UnitTypes'
  BY <1>0, <1>8 DEF UnitInv, UnitTypes, JobTypes, JobSteps
<1>2. UnitInv'
  BY <1>0, <1>8, <1>1 DEF UnitInv, UnitTypes, JobTypes
<1>3. ApiInv'
  BY <1>0, <1>8 DEF UnitInv, UnitTypes, JobTypes, ApiInv, Suspended, Scaled, Emptied
<1>4. RowsInv'
  <2>1. pc'["regen"] \notin {"off", "seed"} => pc["regen"] \notin {"off", "seed"}
    BY <1>0, <1>8 DEF UnitInv, UnitTypes, JobTypes
  <2>2. todo # {} => pc'["regen"] = "regenerate"
    BY <1>0, <1>8 DEF UnitInv, UnitTypes, JobTypes, RowsInv
  <2> QED BY <1>0, <2>1, <2>2, RowsFrame
<1>5. DoneInv'
  BY <1>0, <1>8 DEF UnitInv, UnitTypes, JobTypes, RowsInv, DoneInv, Within, Todo, Ids
<1>6. JournalInv'
  BY <1>0 DEF UnitInv, UnitTypes, JobTypes, JournalInv
<1>7. NotifierInv'
  BY <1>0 DEF UnitInv, UnitTypes, JobTypes, JournalInv, NotifierInv, Over, True
<1> QED BY <1>2, <1>3, <1>4, <1>5, <1>6, <1>7 DEF RegenInv

LEMMA RegenStop ==
  ASSUME RegenInv, NEW j \in Jobs, Stop(j)
  PROVE  RegenInv'
<1> USE DEF Stop, Gone, api, unit, files, notify, vars, Live,
      Untrapped, Cleanup, Jobs, Nobody, Codes, NoExit, NoResult, Unnoted
<1>0. UnitInv /\ ApiInv /\ RowsInv /\ DoneInv /\ JournalInv /\ NotifierInv
  BY DEF RegenInv
<1>1. UnitTypes'
  <2>1. CASE pc[j] \in Untrapped \cup Cleanup
    BY <1>0, <2>1, GoneTypes DEF UnitInv, UnitTypes
  <2>2. CASE pc[j] \notin Untrapped \cup Cleanup
    <3>1. stop' = [stop EXCEPT ![j] = TRUE] /\ UNCHANGED <<replicas, suspended, pod, pc, rc, saved, gpu, starts, lock>>
      BY <2>2
    <3>2. stop \in [Jobs -> BOOLEAN]
      BY <1>0 DEF UnitInv, UnitTypes, JobTypes
    <3>3. stop' \in [Jobs -> BOOLEAN]
      BY <3>1, <3>2
    <3> QED BY <1>0, <3>1, <3>3 DEF UnitInv, UnitTypes, JobTypes
  <2> QED BY <2>1, <2>2
<1>2. UnitInv'
  BY <1>0, <1>1 DEF UnitInv, UnitTypes, JobTypes
<1>3. ApiInv'
  BY <1>0 DEF UnitInv, UnitTypes, JobTypes, ApiInv, Suspended, Scaled, Emptied
<1>4. RowsInv'
  <2>1. pc'["regen"] \notin {"off", "seed"} => pc["regen"] \notin {"off", "seed"}
    BY <1>0 DEF UnitInv, UnitTypes, JobTypes
  <2>2. todo # {} => pc'["regen"] = "regenerate"
    BY <1>0 DEF UnitInv, UnitTypes, JobTypes, RowsInv
  <2> QED BY <1>0, <2>1, <2>2, RowsFrame
<1>5. DoneInv'
  BY <1>0 DEF UnitInv, UnitTypes, JobTypes, ApiInv, RowsInv, DoneInv, Within, Todo, Ids
<1>6. JournalInv'
  BY <1>0 DEF UnitInv, UnitTypes, JobTypes, JournalInv
<1>7. NotifierInv'
  BY <1>0 DEF UnitInv, UnitTypes, JobTypes, JournalInv, NotifierInv, Over, True
<1> QED BY <1>2, <1>3, <1>4, <1>5, <1>6, <1>7 DEF RegenInv

LEMMA RegenKill ==
  ASSUME RegenInv, NEW j \in Jobs, Kill(j)
  PROVE  RegenInv'
<1> USE DEF Kill, Gone, api, unit, files, notify, vars, Live,
      Untrapped, Cleanup, Jobs, Nobody, Codes, NoExit, NoResult, Unnoted
<1>0. UnitInv /\ ApiInv /\ RowsInv /\ DoneInv /\ JournalInv /\ NotifierInv
  BY DEF RegenInv
<1>1. UnitTypes'
  BY <1>0, GoneTypes DEF UnitInv, UnitTypes
<1>2. UnitInv'
  BY <1>0, <1>1 DEF UnitInv, UnitTypes, JobTypes
<1>3. ApiInv'
  BY <1>0 DEF UnitInv, UnitTypes, JobTypes, ApiInv, Suspended, Scaled, Emptied
<1>4. RowsInv'
  <2>1. pc'["regen"] \in {"off", pc["regen"]} /\ (pc[j] = "regenerate" => j = "regen" /\ pc'["regen"] = "off")
    BY <1>0 DEF UnitInv, UnitTypes, JobTypes
  <2>2. todo' = {} /\ UNCHANGED input
    OBVIOUS
  <2>3. CASE output' = output
    BY <1>0, <2>1, <2>2, <2>3, RowsSame DEF RowsInv
  <2>4. CASE output' # output
    <3>1. pc["regen"] = "regenerate" /\ output' = Append(output, Torn) /\ pc'["regen"] = "off"
      BY <2>1, <2>4
    <3>2. output # Absent /\ Parses(output) /\ Torn.id = <<>> /\ Ids(output) \subseteq ToSet(input) /\ input # <<>>
      BY <1>0, <2>1, <3>1 DEF RowsInv, Torn
    <3>3. \A i \in 1 .. Len(output) : output[i].id # Torn.id
      <4>1. DOMAIN output = 1 .. Len(output)
        BY <1>0, SeqIs DEF RowsInv
      <4>2. \A id \in ToSet(input) : id # <<>>
        BY <1>0 DEF RowsInv, ToSet
      <4> QED BY <3>2, <4>1, <4>2 DEF Ids
    <3>4. IsSeq(output') /\ RowsOnce' /\ Seeded' /\ Numbered'
      BY <1>0, <2>2, <3>1, <3>2, <3>3, LineAppended DEF RowsInv
    <3> QED BY <1>0, <2>2, <3>1, <3>2, <3>4 DEF RowsInv
  <2> QED BY <2>3, <2>4
<1>5. DoneInv'
  BY <1>0 DEF UnitInv, UnitTypes, JobTypes, ApiInv, RowsInv, DoneInv, Within, Todo, Ids
<1>6. JournalInv'
  BY <1>0 DEF UnitInv, UnitTypes, JobTypes, JournalInv
<1>7. NotifierInv'
  BY <1>0 DEF UnitInv, UnitTypes, JobTypes, JournalInv, NotifierInv, Over, True
<1> QED BY <1>2, <1>3, <1>4, <1>5, <1>6, <1>7 DEF RegenInv

LEMMA RegenCheck ==
  ASSUME RegenInv, NEW j \in Jobs, Check(j)
  PROVE  RegenInv'
<1> USE DEF Check, Gone, Normal, api, unit, files, notify, vars, Live,
      Untrapped, Cleanup, Jobs, Nobody, Codes, NoExit, NoResult, Unnoted
<1>0. UnitInv /\ ApiInv /\ RowsInv /\ DoneInv /\ JournalInv /\ NotifierInv
  BY DEF RegenInv
<1>1. UnitTypes'
  <2>1. CASE Normal
    BY <1>0, <2>1 DEF UnitInv, UnitTypes, JobTypes, JobSteps
  <2>2. CASE ~Normal
    BY <1>0, <2>2, GoneTypes DEF UnitInv, UnitTypes
  <2> QED BY <2>1, <2>2
<1>2. UnitInv'
  BY <1>0, <1>1 DEF UnitInv, UnitTypes, JobTypes
<1>3. ApiInv'
  BY <1>0 DEF UnitInv, UnitTypes, JobTypes, ApiInv, Suspended, Scaled, Emptied
<1>4. RowsInv'
  <2>1. pc'["regen"] \notin {"off", "seed"} => pc["regen"] \notin {"off", "seed"}
    BY <1>0 DEF UnitInv, UnitTypes, JobTypes
  <2>2. todo # {} => pc'["regen"] = "regenerate"
    BY <1>0 DEF UnitInv, UnitTypes, JobTypes, RowsInv
  <2> QED BY <1>0, <2>1, <2>2, RowsFrame
<1>5. DoneInv'
  BY <1>0 DEF UnitInv, UnitTypes, JobTypes, ApiInv, RowsInv, DoneInv, Within, Todo, Ids
<1>6. JournalInv'
  BY <1>0 DEF UnitInv, UnitTypes, JobTypes, JournalInv
<1>7. NotifierInv'
  BY <1>0 DEF UnitInv, UnitTypes, JobTypes, JournalInv, NotifierInv, Over, True
<1> QED BY <1>2, <1>3, <1>4, <1>5, <1>6, <1>7 DEF RegenInv

LEMMA RegenSuspend ==
  ASSUME RegenInv, NEW j \in Jobs, Suspend(j)
  PROVE  RegenInv'
<1> USE DEF Suspend, Ends, Gone, api, unit, files, notify, vars, Live,
      Untrapped, Cleanup, Jobs, Nobody, Codes, NoExit, NoResult, Unnoted
<1>0. UnitInv /\ ApiInv /\ RowsInv /\ DoneInv /\ JournalInv /\ NotifierInv
  BY DEF RegenInv
<1>1. UnitTypes'
  <2>1. JobTypes'
    <3>1. PICK code \in {0, 1} : Ends(j, "suspend", code, FALSE)
      OBVIOUS
    <3>2. After(j, "suspend") \in JobSteps
      BY <1>0, <3>1, AfterTyped
    <3> QED BY <1>0, <3>1, <3>2, EndsTypes DEF UnitInv, UnitTypes
  <2> QED BY <1>0, <2>1 DEF UnitInv, UnitTypes
<1>2. UnitInv'
  BY <1>0, <1>1, AfterSteps DEF UnitInv, UnitTypes, JobTypes
<1>3. ApiInv'
  BY <1>0, AfterSteps DEF UnitInv, UnitTypes, JobTypes, ApiInv, Suspended, Scaled, Emptied
<1>4. RowsInv'
  <2>1. pc'["regen"] \notin {"off", "seed"} => pc["regen"] \notin {"off", "seed"}
    BY <1>0, AfterSteps DEF UnitInv, UnitTypes, JobTypes
  <2>2. todo # {} => pc'["regen"] = "regenerate"
    BY <1>0, AfterSteps DEF UnitInv, UnitTypes, JobTypes, RowsInv
  <2> QED BY <1>0, <2>1, <2>2, RowsFrame
<1>5. DoneInv'
  BY <1>0, AfterSteps DEF UnitInv, UnitTypes, JobTypes, ApiInv, RowsInv, DoneInv, Within, Todo, Ids
<1>6. JournalInv'
  BY <1>0, AfterSteps DEF UnitInv, UnitTypes, JobTypes, JournalInv
<1>7. NotifierInv'
  BY <1>0, AfterSteps DEF UnitInv, UnitTypes, JobTypes, JournalInv, NotifierInv, Over, True
<1> QED BY <1>2, <1>3, <1>4, <1>5, <1>6, <1>7 DEF RegenInv

LEMMA RegenScale ==
  ASSUME RegenInv, NEW j \in Jobs, Scale(j)
  PROVE  RegenInv'
<1> USE DEF Scale, Ends, Gone, api, unit, files, notify, vars, Live,
      Untrapped, Cleanup, Jobs, Nobody, Codes, NoExit, NoResult, Unnoted
<1>0. UnitInv /\ ApiInv /\ RowsInv /\ DoneInv /\ JournalInv /\ NotifierInv
  BY DEF RegenInv
<1>1. UnitTypes'
  <2>1. JobTypes'
    <3>1. PICK code \in {0, 1} : Ends(j, "scale", code, FALSE)
      OBVIOUS
    <3>2. After(j, "scale") \in JobSteps
      BY <1>0, <3>1, AfterTyped
    <3> QED BY <1>0, <3>1, <3>2, EndsTypes DEF UnitInv, UnitTypes
  <2> QED BY <1>0, <2>1 DEF UnitInv, UnitTypes
<1>2. UnitInv'
  BY <1>0, <1>1, AfterSteps DEF UnitInv, UnitTypes, JobTypes
<1>3. ApiInv'
  BY <1>0, AfterSteps DEF UnitInv, UnitTypes, JobTypes, ApiInv, Suspended, Scaled, Emptied
<1>4. RowsInv'
  <2>1. pc'["regen"] \notin {"off", "seed"} => pc["regen"] \notin {"off", "seed"}
    BY <1>0, AfterSteps DEF UnitInv, UnitTypes, JobTypes
  <2>2. todo # {} => pc'["regen"] = "regenerate"
    BY <1>0, AfterSteps DEF UnitInv, UnitTypes, JobTypes, RowsInv
  <2> QED BY <1>0, <2>1, <2>2, RowsFrame
<1>5. DoneInv'
  BY <1>0, AfterSteps DEF UnitInv, UnitTypes, JobTypes, ApiInv, RowsInv, DoneInv, Within, Todo, Ids
<1>6. JournalInv'
  BY <1>0, AfterSteps DEF UnitInv, UnitTypes, JobTypes, JournalInv
<1>7. NotifierInv'
  BY <1>0, AfterSteps DEF UnitInv, UnitTypes, JobTypes, JournalInv, NotifierInv, Over, True
<1> QED BY <1>2, <1>3, <1>4, <1>5, <1>6, <1>7 DEF RegenInv

LEMMA RegenWait ==
  ASSUME RegenInv, NEW j \in Jobs, Wait(j)
  PROVE  RegenInv'
<1> USE DEF Wait, Ends, Gone, api, unit, files, notify, vars, Live,
      Untrapped, Cleanup, Jobs, Nobody, Codes, NoExit, NoResult, Unnoted
<1>0. UnitInv /\ ApiInv /\ RowsInv /\ DoneInv /\ JournalInv /\ NotifierInv
  BY DEF RegenInv
<1>1. UnitTypes'
  <2>1. JobTypes'
    <3>1. PICK code \in {0, 1} : Ends(j, "wait", code, FALSE)
      OBVIOUS
    <3>2. After(j, "wait") \in JobSteps
      BY <1>0, <3>1, AfterTyped
    <3> QED BY <1>0, <3>1, <3>2, EndsTypes DEF UnitInv, UnitTypes
  <2> QED BY <1>0, <2>1 DEF UnitInv, UnitTypes
<1>2. UnitInv'
  BY <1>0, <1>1, AfterSteps DEF UnitInv, UnitTypes, JobTypes
<1>3. ApiInv'
  BY <1>0, AfterSteps DEF UnitInv, UnitTypes, JobTypes, ApiInv, Suspended, Scaled, Emptied
<1>4. RowsInv'
  <2>1. pc'["regen"] \notin {"off", "seed"} => pc["regen"] \notin {"off", "seed"}
    BY <1>0, AfterSteps DEF UnitInv, UnitTypes, JobTypes
  <2>2. todo # {} => pc'["regen"] = "regenerate"
    BY <1>0, AfterSteps DEF UnitInv, UnitTypes, JobTypes, RowsInv
  <2> QED BY <1>0, <2>1, <2>2, RowsFrame
<1>5. DoneInv'
  BY <1>0, AfterSteps DEF UnitInv, UnitTypes, JobTypes, ApiInv, RowsInv, DoneInv, Within, Todo, Ids
<1>6. JournalInv'
  BY <1>0, AfterSteps DEF UnitInv, UnitTypes, JobTypes, JournalInv
<1>7. NotifierInv'
  BY <1>0, AfterSteps DEF UnitInv, UnitTypes, JobTypes, JournalInv, NotifierInv, Over, True
<1> QED BY <1>2, <1>3, <1>4, <1>5, <1>6, <1>7 DEF RegenInv

LEMMA RegenCheckGpu ==
  ASSUME RegenInv, NEW j \in Jobs, CheckGpu(j)
  PROVE  RegenInv'
<1> USE DEF CheckGpu, Ends, Gone, Free, api, unit, files, notify, vars, Live,
      Untrapped, Cleanup, Jobs, Nobody, Codes, NoExit, NoResult, Unnoted
<1>0. UnitInv /\ ApiInv /\ RowsInv /\ DoneInv /\ JournalInv /\ NotifierInv
  BY DEF RegenInv
<1>1. UnitTypes'
  <2>1. JobTypes'
    <3>1. PICK code \in {0, 1} : Ends(j, "gpu", code, FALSE)
      OBVIOUS
    <3>2. After(j, "gpu") \in JobSteps
      BY <1>0, <3>1, AfterTyped
    <3> QED BY <1>0, <3>1, <3>2, EndsTypes DEF UnitInv, UnitTypes
  <2> QED BY <1>0, <2>1 DEF UnitInv, UnitTypes
<1>2. UnitInv'
  BY <1>0, <1>1, AfterSteps DEF UnitInv, UnitTypes, JobTypes
<1>3. ApiInv'
  BY <1>0, AfterSteps DEF UnitInv, UnitTypes, JobTypes, ApiInv, Suspended, Scaled, Emptied
<1>4. RowsInv'
  <2>1. pc'["regen"] \notin {"off", "seed"} => pc["regen"] \notin {"off", "seed"}
    BY <1>0, AfterSteps DEF UnitInv, UnitTypes, JobTypes
  <2>2. todo # {} => pc'["regen"] = "regenerate"
    BY <1>0, AfterSteps DEF UnitInv, UnitTypes, JobTypes, RowsInv
  <2> QED BY <1>0, <2>1, <2>2, RowsFrame
<1>5. DoneInv'
  BY <1>0, AfterSteps DEF UnitInv, UnitTypes, JobTypes, ApiInv, RowsInv, DoneInv, Within, Todo, Ids
<1>6. JournalInv'
  BY <1>0, AfterSteps DEF UnitInv, UnitTypes, JobTypes, JournalInv
<1>7. NotifierInv'
  BY <1>0, AfterSteps DEF UnitInv, UnitTypes, JobTypes, JournalInv, NotifierInv, Over, True
<1> QED BY <1>2, <1>3, <1>4, <1>5, <1>6, <1>7 DEF RegenInv

LEMMA RegenUnserve ==
  ASSUME RegenInv, NEW j \in Jobs, Unserve(j)
  PROVE  RegenInv'
<1> USE DEF Unserve, To, KillServer, api, unit, files, notify, vars, Live,
      Untrapped, Cleanup, Jobs, Nobody, Codes, NoExit, NoResult, Unnoted
<1>0. UnitInv /\ ApiInv /\ RowsInv /\ DoneInv /\ JournalInv /\ NotifierInv
  BY DEF RegenInv
<1>1. UnitTypes'
  BY <1>0 DEF UnitInv, UnitTypes, JobTypes, JobSteps
<1>2. UnitInv'
  BY <1>0, <1>1 DEF UnitInv, UnitTypes, JobTypes
<1>3. ApiInv'
  BY <1>0 DEF UnitInv, UnitTypes, JobTypes, ApiInv, Suspended, Scaled, Emptied
<1>4. RowsInv'
  <2>1. pc'["regen"] \notin {"off", "seed"} => pc["regen"] \notin {"off", "seed"}
    BY <1>0 DEF UnitInv, UnitTypes, JobTypes
  <2>2. todo # {} => pc'["regen"] = "regenerate"
    BY <1>0 DEF UnitInv, UnitTypes, JobTypes, RowsInv
  <2> QED BY <1>0, <2>1, <2>2, RowsFrame
<1>5. DoneInv'
  BY <1>0 DEF UnitInv, UnitTypes, JobTypes, ApiInv, RowsInv, DoneInv, Within, Todo, Ids
<1>6. JournalInv'
  BY <1>0 DEF UnitInv, UnitTypes, JobTypes, JournalInv
<1>7. NotifierInv'
  BY <1>0 DEF UnitInv, UnitTypes, JobTypes, JournalInv, NotifierInv, Over, True
<1> QED BY <1>2, <1>3, <1>4, <1>5, <1>6, <1>7 DEF RegenInv

LEMMA RegenRestore ==
  ASSUME RegenInv, NEW j \in Jobs, Restore(j)
  PROVE  RegenInv'
<1> USE DEF Restore, To, Marked, api, unit, files, notify, vars, Live,
      Untrapped, Cleanup, Jobs, Nobody, Codes, NoExit, NoResult, Unnoted
<1>0. UnitInv /\ ApiInv /\ RowsInv /\ DoneInv /\ JournalInv /\ NotifierInv
  BY DEF RegenInv
<1>1. UnitTypes'
  BY <1>0 DEF UnitInv, UnitTypes, JobTypes, JobSteps
<1>2. UnitInv'
  BY <1>0, <1>1 DEF UnitInv, UnitTypes, JobTypes
<1>3. ApiInv'
  BY <1>0 DEF UnitInv, UnitTypes, JobTypes, ApiInv, Suspended, Scaled, Emptied
<1>4. RowsInv'
  <2>1. pc'["regen"] \notin {"off", "seed"} => pc["regen"] \notin {"off", "seed"}
    BY <1>0 DEF UnitInv, UnitTypes, JobTypes
  <2>2. todo # {} => pc'["regen"] = "regenerate"
    BY <1>0 DEF UnitInv, UnitTypes, JobTypes, RowsInv
  <2> QED BY <1>0, <2>1, <2>2, RowsFrame
<1>5. DoneInv'
  BY <1>0 DEF UnitInv, UnitTypes, JobTypes, ApiInv, RowsInv, DoneInv, Within, Todo, Ids
<1>6. JournalInv'
  BY <1>0 DEF UnitInv, UnitTypes, JobTypes, JournalInv
<1>7. NotifierInv'
  BY <1>0 DEF UnitInv, UnitTypes, JobTypes, JournalInv, NotifierInv, Over, True
<1> QED BY <1>2, <1>3, <1>4, <1>5, <1>6, <1>7 DEF RegenInv

LEMMA RegenResume ==
  ASSUME RegenInv, NEW j \in Jobs, Resume(j)
  PROVE  RegenInv'
<1> USE DEF Resume, To, Marked, api, unit, files, notify, vars, Live,
      Untrapped, Cleanup, Jobs, Nobody, Codes, NoExit, NoResult, Unnoted
<1>0. UnitInv /\ ApiInv /\ RowsInv /\ DoneInv /\ JournalInv /\ NotifierInv
  BY DEF RegenInv
<1>1. UnitTypes'
  BY <1>0 DEF UnitInv, UnitTypes, JobTypes, JobSteps
<1>2. UnitInv'
  BY <1>0, <1>1 DEF UnitInv, UnitTypes, JobTypes
<1>3. ApiInv'
  BY <1>0 DEF UnitInv, UnitTypes, JobTypes, ApiInv, Suspended, Scaled, Emptied
<1>4. RowsInv'
  <2>1. pc'["regen"] \notin {"off", "seed"} => pc["regen"] \notin {"off", "seed"}
    BY <1>0 DEF UnitInv, UnitTypes, JobTypes
  <2>2. todo # {} => pc'["regen"] = "regenerate"
    BY <1>0 DEF UnitInv, UnitTypes, JobTypes, RowsInv
  <2> QED BY <1>0, <2>1, <2>2, RowsFrame
<1>5. DoneInv'
  BY <1>0 DEF UnitInv, UnitTypes, JobTypes, ApiInv, RowsInv, DoneInv, Within, Todo, Ids
<1>6. JournalInv'
  BY <1>0 DEF UnitInv, UnitTypes, JobTypes, JournalInv
<1>7. NotifierInv'
  BY <1>0 DEF UnitInv, UnitTypes, JobTypes, JournalInv, NotifierInv, Over, True
<1> QED BY <1>2, <1>3, <1>4, <1>5, <1>6, <1>7 DEF RegenInv

LEMMA RegenRollout ==
  ASSUME RegenInv, NEW j \in Jobs, Rollout(j)
  PROVE  RegenInv'
<1> USE DEF Rollout, Gone, api, unit, files, notify, vars, Live,
      Untrapped, Cleanup, Jobs, Nobody, Codes, NoExit, NoResult, Unnoted
<1>0. UnitInv /\ ApiInv /\ RowsInv /\ DoneInv /\ JournalInv /\ NotifierInv
  BY DEF RegenInv
<1>1. UnitTypes'
  BY <1>0 DEF UnitInv, UnitTypes, JobTypes
<1>2. UnitInv'
  BY <1>0, <1>1 DEF UnitInv, UnitTypes, JobTypes
<1>3. ApiInv'
  BY <1>0 DEF UnitInv, UnitTypes, JobTypes, ApiInv, Suspended, Scaled, Emptied
<1>4. RowsInv'
  <2>1. pc'["regen"] \notin {"off", "seed"} => pc["regen"] \notin {"off", "seed"}
    BY <1>0 DEF UnitInv, UnitTypes, JobTypes
  <2>2. todo # {} => pc'["regen"] = "regenerate"
    BY <1>0 DEF UnitInv, UnitTypes, JobTypes, RowsInv
  <2> QED BY <1>0, <2>1, <2>2, RowsFrame
<1>5. DoneInv'
  BY <1>0 DEF UnitInv, UnitTypes, JobTypes, ApiInv, RowsInv, DoneInv, Within, Todo, Ids
<1>6. JournalInv'
  <2>1. CASE j = "regen"
    <3> DEFINE n == starts["regen"]
    <3>1. n \in 1 .. Len(journal) /\ Len(journal) \in Nat /\ pc'["regen"] = "off" /\ UNCHANGED starts
      BY <1>0, <2>1 DEF UnitInv, UnitTypes, JobTypes, JournalInv
    <3>2. PICK code \in Codes : journal' = [journal EXCEPT ![n] = code]
      BY <1>0, <2>1 DEF UnitInv, UnitTypes, JobTypes
    <3> DEFINE lines == Codes \cup {NoExit}
    <3>3. code \in lines /\ journal \in Seq(lines)
      BY <1>0, <3>2 DEF JournalInv
    <3>4. journal' \in Seq(lines) /\ Len(journal') = Len(journal)
      <4> HIDE DEF lines, n
      <4>1. [journal EXCEPT ![n] = code] \in Seq(lines) /\ Len([journal EXCEPT ![n] = code]) = Len(journal)
        BY <3>1, <3>3, ExceptSeq
      <4> QED BY <3>2, <4>1
    <3> QED BY <1>0, <3>1, <3>4 DEF JournalInv
  <2>2. CASE j # "regen"
    BY <1>0, <2>2 DEF UnitInv, UnitTypes, JobTypes, JournalInv
  <2> QED BY <2>1, <2>2
<1>7. NotifierInv'
  BY <1>0 DEF UnitInv, UnitTypes, JobTypes, JournalInv, NotifierInv, Over, True
<1> QED BY <1>2, <1>3, <1>4, <1>5, <1>6, <1>7 DEF RegenInv

LEMMA RegenSeed ==
  ASSUME RegenInv, Seed
  PROVE  RegenInv'
<1> USE DEF Seed, Ends, Gone, api, unit, files, notify, vars, Live,
      Untrapped, Cleanup, Jobs, Nobody, Codes, NoExit, NoResult, Unnoted
<1>0. UnitInv /\ ApiInv /\ RowsInv /\ DoneInv /\ JournalInv /\ NotifierInv
  BY DEF RegenInv
<1>1. UnitTypes'
  <2>1. JobTypes'
    <3>1. PICK code \in {0, 1} : Ends("regen", "seed", code, FALSE)
      OBVIOUS
    <3>2. After("regen", "seed") \in JobSteps
      BY <1>0, <3>1, AfterTyped
    <3> QED BY <1>0, <3>1, <3>2, EndsTypes DEF UnitInv, UnitTypes
  <2> QED BY <1>0, <2>1 DEF UnitInv, UnitTypes
<1>2. UnitInv'
  BY <1>0, <1>1, AfterSteps DEF UnitInv, UnitTypes, JobTypes
<1>3. ApiInv'
  BY <1>0, AfterSteps DEF UnitInv, UnitTypes, JobTypes, ApiInv, Suspended, Scaled, Emptied
<1>4. RowsInv'
  <2>1. pc["regen"] = "seed" /\ todo = {} /\ UNCHANGED <<input, todo>> /\ input # <<>>
    BY <1>0 DEF RowsInv, UnitInv, JournalInv
  <2>2. IsSeq(output') /\ RowsOnce' /\ Seeded' /\ Numbered'
    <3>1. CASE output = Absent
      <4>1. output' = Kept
        BY <3>1
      <4>2. IsSeq(Kept) /\ DOMAIN Kept = 1 .. Len(Kept) /\ Len(Kept) \in Nat
        BY LegacyAssumption DEF LegacyAssumption, IsSeq
      <4>3. RowsOnce'
        BY <4>1, <4>2, LegacyAssumption DEF LegacyAssumption, RowsOnce
      <4>4. Seeded' /\ Numbered'
        BY <4>1, <4>2 DEF Seeded, Numbered
      <4> QED BY <4>1, <4>2, <4>3, <4>4
    <3>2. CASE output # Absent
      BY <1>0, <2>1, <3>2, RowsSame DEF RowsInv
    <3> QED BY <3>1, <3>2
  <2>3. pc'["regen"] \notin {"off", "seed"} => Parses(output)' /\ (Ids(output) \subseteq ToSet(input))'
    BY <1>0, AfterSteps DEF UnitInv, UnitTypes, JobTypes
  <2>4. pc'["regen"] \notin {"off", "seed"} => output' # Absent
    <3>1. 1 \in DOMAIN Absent /\ Absent[1].id = <<>>
      BY DEF Absent
    <3>2. Kept # Absent
      BY <3>1, LegacyAssumption DEF LegacyAssumption
    <3> QED BY <3>2
  <2> QED BY <1>0, <2>1, <2>2, <2>3, <2>4 DEF RowsInv
<1>5. DoneInv'
  BY <1>0, AfterSteps DEF UnitInv, UnitTypes, JobTypes, ApiInv, RowsInv, DoneInv, Within, Todo, Ids
<1>6. JournalInv'
  BY <1>0, AfterSteps DEF UnitInv, UnitTypes, JobTypes, JournalInv
<1>7. NotifierInv'
  BY <1>0, AfterSteps DEF UnitInv, UnitTypes, JobTypes, JournalInv, NotifierInv, Over, True
<1> QED BY <1>2, <1>3, <1>4, <1>5, <1>6, <1>7 DEF RegenInv

LEMMA RegenServe ==
  ASSUME RegenInv, Serve
  PROVE  RegenInv'
<1> USE DEF Serve, Ends, Gone, api, unit, files, notify, vars, Live,
      Untrapped, Cleanup, Jobs, Nobody, Codes, NoExit, NoResult, Unnoted
<1>0. UnitInv /\ ApiInv /\ RowsInv /\ DoneInv /\ JournalInv /\ NotifierInv
  BY DEF RegenInv
<1>1. UnitTypes'
  <2>1. JobTypes'
    <3>1. PICK code \in {0, 1} : Ends("regen", "serve", code, TRUE)
      OBVIOUS
    <3>2. After("regen", "serve") \in JobSteps
      BY <1>0, <3>1, AfterTyped
    <3> QED BY <1>0, <3>1, <3>2, EndsTypes DEF UnitInv, UnitTypes
  <2> QED BY <1>0, <2>1 DEF UnitInv, UnitTypes
<1>2. UnitInv'
  BY <1>0, <1>1, AfterSteps DEF UnitInv, UnitTypes, JobTypes
<1>3. ApiInv'
  BY <1>0, AfterSteps DEF UnitInv, UnitTypes, JobTypes, ApiInv, Suspended, Scaled, Emptied
<1>4. RowsInv'
  <2>1. pc'["regen"] \notin {"off", "seed"} => pc["regen"] \notin {"off", "seed"}
    BY <1>0, AfterSteps DEF UnitInv, UnitTypes, JobTypes
  <2>2. todo # {} => pc'["regen"] = "regenerate"
    BY <1>0, AfterSteps DEF UnitInv, UnitTypes, JobTypes, RowsInv
  <2> QED BY <1>0, <2>1, <2>2, RowsFrame
<1>5. DoneInv'
  BY <1>0, AfterSteps DEF UnitInv, UnitTypes, JobTypes, ApiInv, RowsInv, DoneInv, Within, Todo, Ids
<1>6. JournalInv'
  BY <1>0, AfterSteps DEF UnitInv, UnitTypes, JobTypes, JournalInv
<1>7. NotifierInv'
  BY <1>0, AfterSteps DEF UnitInv, UnitTypes, JobTypes, JournalInv, NotifierInv, Over, True
<1> QED BY <1>2, <1>3, <1>4, <1>5, <1>6, <1>7 DEF RegenInv

LEMMA RegenSmoke ==
  ASSUME RegenInv, Smoke
  PROVE  RegenInv'
<1> USE DEF Smoke, Ends, Gone, api, unit, files, notify, vars, Live,
      Untrapped, Cleanup, Jobs, Nobody, Codes, NoExit, NoResult, Unnoted
<1>0. UnitInv /\ ApiInv /\ RowsInv /\ DoneInv /\ JournalInv /\ NotifierInv
  BY DEF RegenInv
<1>1. UnitTypes'
  <2>1. JobTypes'
    <3>1. PICK code \in {0, 1} : Ends("regen", "smoke", code, TRUE)
      OBVIOUS
    <3>2. After("regen", "smoke") \in JobSteps
      BY <1>0, <3>1, AfterTyped
    <3> QED BY <1>0, <3>1, <3>2, EndsTypes DEF UnitInv, UnitTypes
  <2> QED BY <1>0, <2>1 DEF UnitInv, UnitTypes
<1>2. UnitInv'
  BY <1>0, <1>1, AfterSteps DEF UnitInv, UnitTypes, JobTypes
<1>3. ApiInv'
  BY <1>0, AfterSteps DEF UnitInv, UnitTypes, JobTypes, ApiInv, Suspended, Scaled, Emptied
<1>4. RowsInv'
  <2>1. pc["regen"] = "smoke" /\ UNCHANGED <<input, output>> /\ pc'["regen"] \notin {"off", "seed"}
    BY <1>0, AfterSteps DEF UnitInv, UnitTypes, JobTypes
  <2>2. todo' # {} => pc'["regen"] = "regenerate"
    OBVIOUS
  <2>3. \A n \in todo' : n \in DOMAIN input /\ Open(n)
    <3>1. DOMAIN output = 1 .. Len(output)
      BY <1>0, SeqIs DEF RowsInv
    <3> QED BY <3>1 DEF Todo, Ids, Open
  <2> QED BY <1>0, <2>1, <2>2, <2>3, RowsSame DEF RowsInv
<1>5. DoneInv'
  <2>1. pc["regen"] = "smoke" /\ UNCHANGED <<input, output, errors>> /\ errors = 0 /\ Todo' = Todo
    BY <1>0, RowsSame DEF DoneInv
  <2>2. pc'["regen"] \in {"regenerate", "unserve"} /\ (pc'["regen"] = "unserve" => rc'["regen"] # 0)
    BY <1>0, AfterSteps DEF UnitInv, UnitTypes, JobTypes
  <2>3. CASE pc'["regen"] = "regenerate"
    <3>1. todo' = Todo /\ quota' = Cardinality(todo')
      BY <2>3
    <3>2. quota' <= Len(input) /\ quota' \in Nat
      BY <1>0, <3>1, TodoFinite DEF RowsInv
    <3>3. Todo' \ todo' = {}
      BY <2>1, <3>1
    <3>4. Cardinality(Todo' \ todo') = 0
      BY <3>3, FS_EmptySet
    <3> QED BY <1>0, <2>1, <2>3, <3>2, <3>4 DEF DoneInv
  <2>4. CASE pc'["regen"] = "unserve"
    <3>1. quota' = 0
      BY <2>4, FS_EmptySet
    <3> QED BY <1>0, <2>1, <2>2, <2>4, <3>1 DEF DoneInv
  <2> QED BY <2>2, <2>3, <2>4
<1>6. JournalInv'
  BY <1>0, AfterSteps DEF UnitInv, UnitTypes, JobTypes, JournalInv
<1>7. NotifierInv'
  BY <1>0, AfterSteps DEF UnitInv, UnitTypes, JobTypes, JournalInv, NotifierInv, Over, True
<1> QED BY <1>2, <1>3, <1>4, <1>5, <1>6, <1>7 DEF RegenInv

LEMMA RegenAnswer ==
  ASSUME RegenInv, NEW n \in todo, Answer(n)
  PROVE  RegenInv'
<1> USE DEF Answer, api, unit, files, notify, vars, Live,
      Untrapped, Cleanup, Jobs, Nobody, Codes, NoExit, NoResult, Unnoted
<1>0. UnitInv /\ ApiInv /\ RowsInv /\ DoneInv /\ JournalInv /\ NotifierInv
  BY DEF RegenInv
<1>1. UnitTypes'
  BY <1>0 DEF UnitInv, UnitTypes, JobTypes
<1>2. UnitInv'
  BY <1>0, <1>1 DEF UnitInv, UnitTypes, JobTypes
<1>3. ApiInv'
  BY <1>0 DEF UnitInv, UnitTypes, JobTypes, ApiInv, Suspended, Scaled, Emptied
<1>a. /\ pc["regen"] = "regenerate" /\ UNCHANGED <<input, pc, rc, quota, capture_set>> /\ todo' = todo \ {n}
      /\ output # Absent /\ Parses(output) /\ Ids(output) \subseteq ToSet(input)
      /\ n \in DOMAIN input /\ Open(n) /\ input # <<>>
  BY <1>0 DEF RowsInv
<1>b. \/ output' = output /\ errors' = errors + 1
      \/ errors' = errors /\ \E row : /\ output' = Append(output, row) /\ row # Torn
                                      /\ row.row = n /\ row.id = input[n]
  <2>1. PICK finish \in {"stop", "length", "error"} :
          IF finish = "error"
          THEN errors' = errors + 1 /\ UNCHANGED output
          ELSE /\ output' = Append(output, [row |-> n, id |-> input[n], finish |-> finish, usable |-> finish = "stop"])
               /\ UNCHANGED errors
    OBVIOUS
  <2> DEFINE answer == [row |-> n, id |-> input[n], finish |-> finish, usable |-> finish = "stop"]
  <2>2. answer.row = n /\ answer.id = input[n] /\ answer.finish = finish
    OBVIOUS
  <2>3. finish # "error" => answer # Torn
    BY <2>2 DEF Torn
  <2> HIDE DEF answer
  <2> QED BY <2>1, <2>2, <2>3 DEF answer
<1>c. ASSUME NEW row, output' = Append(output, row), row # Torn, row.row = n, row.id = input[n]
      PROVE  /\ IsSeq(output') /\ RowsOnce' /\ Seeded' /\ Numbered'
             /\ Ids(output)' = Ids(output) \cup {input[n]} /\ Parses(output)'
             /\ \A k \in todo' : Open(k)'
             /\ output' # Absent
  <2>1. Len(output) \in Nat /\ DOMAIN output = 1 .. Len(output) /\ Len(Kept) \in Nat /\ Len(Kept) <= Len(output)
    BY <1>0, <1>a, SeqIs, LegacyAssumption DEF RowsInv, Seeded, LegacyAssumption
  <2>2. \A i \in 1 .. Len(output) : output[i].id = row.id => i > Len(Kept) /\ TwoRows(output[i], row)
    <3> SUFFICES ASSUME NEW i \in 1 .. Len(output), output[i].id = input[n]
                 PROVE  i > Len(Kept) /\ TwoRows(output[i], row)
      BY <1>c
    <3>1. i > Len(Kept) /\ output[i].row # n
      BY <1>a DEF Open
    <3>2. output[i] # Torn /\ i \in Len(Kept) + 1 .. Len(output)
      BY <1>a, <2>1, <3>1 DEF Parses
    <3>3. output[i].row \in DOMAIN input /\ input[output[i].row] = output[i].id
      BY <1>0, <1>a, <3>2 DEF RowsInv, Numbered
    <3> QED BY <1>a, <1>c, <3>1, <3>3 DEF TwoRows
  <2>3. /\ IsSeq(output') /\ RowsOnce' /\ Seeded' /\ Numbered'
        /\ Ids(output)' = Ids(output) \cup {row.id} /\ Parses(output)'
    BY <1>0, <1>a, <1>c, <2>2, LineAppended DEF RowsInv
  <2> DEFINE app == Append(output, row)
  <2>4. /\ Len(app) = Len(output) + 1 /\ app[Len(output) + 1] = row
        /\ \A i \in 1 .. Len(output) : app[i] = output[i]
    BY <1>0, Appended DEF RowsInv
  <2> HIDE DEF app
  <2>5. output' = app
    BY <1>c DEF app
  <2>6. \A k \in todo' : Open(k)'
    <3> SUFFICES ASSUME NEW k \in todo, k # n, NEW i \in 1 .. Len(output) + 1, output'[i].id = input[k]
                 PROVE  i > Len(Kept) /\ output'[i].row # k
      BY <1>a, <2>4, <2>5 DEF Open
    <3>1. CASE i = Len(output) + 1
      BY <1>c, <2>1, <2>4, <2>5, <3>1
    <3>2. CASE i # Len(output) + 1
      <4>1. i \in 1 .. Len(output) /\ output'[i] = output[i]
        BY <2>1, <2>4, <2>5, <3>2
      <4>2. Open(k)
        BY <1>0 DEF RowsInv
      <4> QED BY <4>1, <4>2 DEF Open
    <3> QED BY <3>1, <3>2
  <2>7. output' # Absent
    <3>1. Ids(Absent) = {<<>>}
      BY DEF Ids, Absent
    <3>2. input[n] \in Ids(output)' /\ input[n] # <<>>
      BY <1>0, <1>a, <1>c, <2>3 DEF RowsInv
    <3> QED BY <3>1, <3>2
  <2> QED BY <1>c, <2>3, <2>6, <2>7
<1>4. RowsInv'
  <2>1. CASE output' = output
    BY <1>0, <1>a, <2>1, RowsSame DEF RowsInv
  <2>2. CASE output' # output
    <3>1. /\ IsSeq(output') /\ RowsOnce' /\ Seeded' /\ Numbered' /\ output' # Absent
          /\ Ids(output)' = Ids(output) \cup {input[n]} /\ Parses(output)'
          /\ \A k \in todo' : Open(k)'
      BY <1>b, <1>c, <2>2
    <3>2. (Ids(output) \subseteq ToSet(input))'
      BY <1>a, <3>1 DEF ToSet
    <3> QED BY <1>0, <1>a, <3>1, <3>2 DEF RowsInv
  <2> QED BY <2>1, <2>2
<1>5. DoneInv'
  <2> DEFINE lost == Todo \ todo
  <2>1. IsFiniteSet(lost) /\ Cardinality(lost) <= errors /\ Cardinality(lost) \in Nat /\ errors \in Nat
    <3>1. IsFiniteSet(lost)
      BY <1>0, TodoFinite, FS_Subset DEF RowsInv
    <3> QED BY <1>0, <1>a, <3>1, FS_CardinalityType DEF DoneInv
  <2>2. CASE output' = output /\ errors' = errors + 1
    <3>1. lost' \subseteq lost \cup {n}
      BY <1>a, <2>2, RowsSame
    <3>2. IsFiniteSet(lost \cup {n}) /\ Cardinality(lost \cup {n}) <= Cardinality(lost) + 1
      <4> HIDE DEF lost
      <4>1. /\ IsFiniteSet(lost \cup {n})
            /\ Cardinality(lost \cup {n}) = IF n \in lost THEN Cardinality(lost) ELSE Cardinality(lost) + 1
        BY <2>1, FS_AddElement
      <4> QED BY <2>1, <4>1
    <3>3. Cardinality(lost') <= Cardinality(lost \cup {n}) /\ Cardinality(lost') \in Nat /\ Cardinality(lost \cup {n}) \in Nat
      <4> DEFINE more == lost \cup {n}
                 now == lost'
      <4>1. now \subseteq more /\ IsFiniteSet(more)
        BY <3>1, <3>2
      <4> HIDE DEF more, now
      <4>2. IsFiniteSet(now) /\ Cardinality(now) <= Cardinality(more)
        BY <4>1, FS_Subset
      <4>3. Cardinality(now) \in Nat /\ Cardinality(more) \in Nat
        BY <4>1, <4>2, FS_CardinalityType
      <4> QED BY <4>2, <4>3 DEF more, now
    <3>4. Cardinality(lost') <= errors' /\ errors' \in Nat
      BY <2>1, <2>2, <3>2, <3>3
    <3> QED BY <1>0, <1>a, <3>4 DEF DoneInv
  <2>3. CASE output' # output
    <3>1. errors' = errors /\ Ids(output)' = Ids(output) \cup {input[n]}
      BY <1>b, <1>c, <2>3
    <3>2. lost' \subseteq lost
      BY <1>a, <3>1 DEF Todo
    <3>3. Cardinality(lost') <= errors'
      <4> DEFINE now == lost'
      <4>1. now \subseteq lost
        BY <3>2
      <4> HIDE DEF now, lost
      <4>2. Cardinality(now) <= Cardinality(lost) /\ Cardinality(now) \in Nat
        BY <2>1, <4>1, FS_Subset, FS_CardinalityType
      <4>3. Cardinality(now) <= errors'
        BY <2>1, <3>1, <4>2
      <4> QED BY <4>3 DEF now, lost
    <3> QED BY <1>0, <1>a, <3>1, <3>3 DEF DoneInv
  <2>4. output' = output => errors' = errors + 1
    <3>1. ASSUME NEW row PROVE Append(output, row) # output
      <4>1. Len(output) \in Nat /\ Len(Append(output, row)) = Len(output) + 1
        BY <1>0, Appended, SeqIs DEF RowsInv
      <4> QED BY <4>1
    <3> QED BY <1>b, <3>1
  <2> QED BY <2>2, <2>3, <2>4
<1>6. JournalInv'
  BY <1>0 DEF UnitInv, UnitTypes, JobTypes, JournalInv
<1>7. NotifierInv'
  BY <1>0 DEF UnitInv, UnitTypes, JobTypes, JournalInv, NotifierInv, Over, True
<1> QED BY <1>2, <1>3, <1>4, <1>5, <1>6, <1>7 DEF RegenInv

LEMMA RegenRegenerated ==
  ASSUME RegenInv, Regenerated
  PROVE  RegenInv'
<1> USE DEF Regenerated, Ends, Gone, WithinRate, api, unit, files, notify, vars, Live,
      Untrapped, Cleanup, Jobs, Nobody, Codes, NoExit, NoResult, Unnoted
<1>0. UnitInv /\ ApiInv /\ RowsInv /\ DoneInv /\ JournalInv /\ NotifierInv
  BY DEF RegenInv
<1>1. UnitTypes'
  <2>1. JobTypes'
    <3>1. PICK code \in {0, 1} : Ends("regen", "regenerate", code, TRUE)
      OBVIOUS
    <3>2. After("regen", "regenerate") \in JobSteps
      BY <1>0, <3>1, AfterTyped
    <3> QED BY <1>0, <3>1, <3>2, EndsTypes DEF UnitInv, UnitTypes
  <2> QED BY <1>0, <2>1 DEF UnitInv, UnitTypes
<1>2. UnitInv'
  BY <1>0, <1>1, AfterSteps DEF UnitInv, UnitTypes, JobTypes
<1>3. ApiInv'
  BY <1>0, AfterSteps DEF UnitInv, UnitTypes, JobTypes, ApiInv, Suspended, Scaled, Emptied
<1>4. RowsInv'
  <2>1. UNCHANGED <<input, output>> /\ todo' = {} /\ pc["regen"] = "regenerate"
    OBVIOUS
  <2> QED BY <1>0, <2>1, RowsSame DEF RowsInv
<1>5. DoneInv'
  <2>1. pc["regen"] = "regenerate" /\ UNCHANGED <<input, output>> /\ errors' = 0 /\ quota' = 0
    OBVIOUS
  <2>2. \/ pc'["regen"] = "build" /\ todo = {} /\ WithinRate
        \/ pc'["regen"] = "unserve" /\ rc'["regen"] # 0
    BY <1>0, AfterSteps DEF UnitInv, UnitTypes, JobTypes
  <2>3. ASSUME todo = {}, WithinRate PROVE Within
    <3> DEFINE missing == Cardinality(Todo)
    <3>1. missing \in Nat /\ Len(input) \in Nat
      BY <1>0, TodoFinite DEF RowsInv
    <3>2. Todo \ todo = Todo
      BY <2>3
    <3>3. missing <= errors /\ quota <= Len(input) /\ errors \in Nat /\ quota \in Nat
      BY <1>0, <2>1, <3>2 DEF DoneInv
    <3>4. errors * ErrorShare <= quota /\ ErrorShare \in Nat
      BY <2>3, BoundAssumption DEF BoundAssumption
    <3> HIDE DEF missing
    <3>5. missing * ErrorShare <= errors * ErrorShare /\ missing * ErrorShare \in Nat /\ errors * ErrorShare \in Nat
      <4>1. \A m, e, f \in Nat : m <= e => m * f <= e * f
        OBVIOUS
      <4> QED BY <3>1, <3>3, <3>4, <4>1
    <3>6. missing * ErrorShare <= Len(input)
      BY <3>1, <3>3, <3>4, <3>5
    <3> QED BY <3>6 DEF Within, missing
  <2>4. Within' = Within
    BY <2>1, RowsSame DEF Within
  <2> QED BY <1>0, <2>1, <2>2, <2>3, <2>4 DEF DoneInv
<1>6. JournalInv'
  BY <1>0, AfterSteps DEF UnitInv, UnitTypes, JobTypes, JournalInv
<1>7. NotifierInv'
  BY <1>0, AfterSteps DEF UnitInv, UnitTypes, JobTypes, JournalInv, NotifierInv, Over, True
<1> QED BY <1>2, <1>3, <1>4, <1>5, <1>6, <1>7 DEF RegenInv

LEMMA RegenBuildCaptureSet ==
  ASSUME RegenInv, BuildCaptureSet
  PROVE  RegenInv'
<1> USE DEF BuildCaptureSet, Ends, Gone, api, unit, files, notify, vars, Live,
      Untrapped, Cleanup, Jobs, Nobody, Codes, NoExit, NoResult, Unnoted
<1>0. UnitInv /\ ApiInv /\ RowsInv /\ DoneInv /\ JournalInv /\ NotifierInv
  BY DEF RegenInv
<1>1. UnitTypes'
  <2>1. JobTypes'
    <3>1. PICK code \in {0, 1} : Ends("regen", "build", code, TRUE)
      OBVIOUS
    <3>2. After("regen", "build") \in JobSteps
      BY <1>0, <3>1, AfterTyped
    <3> QED BY <1>0, <3>1, <3>2, EndsTypes DEF UnitInv, UnitTypes
  <2> QED BY <1>0, <2>1 DEF UnitInv, UnitTypes
<1>2. UnitInv'
  BY <1>0, <1>1, AfterSteps DEF UnitInv, UnitTypes, JobTypes
<1>3. ApiInv'
  BY <1>0, AfterSteps DEF UnitInv, UnitTypes, JobTypes, ApiInv, Suspended, Scaled, Emptied
<1>4. RowsInv'
  <2>1. pc'["regen"] \notin {"off", "seed"} => pc["regen"] \notin {"off", "seed"}
    BY <1>0, AfterSteps DEF UnitInv, UnitTypes, JobTypes
  <2>2. todo # {} => pc'["regen"] = "regenerate"
    BY <1>0, AfterSteps DEF UnitInv, UnitTypes, JobTypes, RowsInv
  <2> QED BY <1>0, <2>1, <2>2, RowsFrame
<1>5. DoneInv'
  BY <1>0, AfterSteps DEF UnitInv, UnitTypes, JobTypes, ApiInv, RowsInv, DoneInv, Within, Todo, Ids
<1>6. JournalInv'
  BY <1>0, AfterSteps DEF UnitInv, UnitTypes, JobTypes, JournalInv
<1>7. NotifierInv'
  BY <1>0, AfterSteps DEF UnitInv, UnitTypes, JobTypes, JournalInv, NotifierInv, Over, True
<1> QED BY <1>2, <1>3, <1>4, <1>5, <1>6, <1>7 DEF RegenInv

LEMMA RegenCommand ==
  ASSUME RegenInv, Command
  PROVE  RegenInv'
<1> USE DEF Command, Ends, Gone, api, unit, files, notify, vars, Live,
      Untrapped, Cleanup, Jobs, Nobody, Codes, NoExit, NoResult, Unnoted
<1>0. UnitInv /\ ApiInv /\ RowsInv /\ DoneInv /\ JournalInv /\ NotifierInv
  BY DEF RegenInv
<1>1. UnitTypes'
  <2>1. CASE gpu["capture"]
    <3>1. PICK code \in {0, 1} : Ends("capture", "command", code, FALSE)
      BY <2>1
    <3>2. After("capture", "command") \in JobSteps
      BY <1>0, <3>1, AfterTyped
    <3>3. JobTypes'
      BY <1>0, <3>1, <3>2, EndsTypes DEF UnitInv, UnitTypes
    <3> QED BY <1>0, <3>3 DEF UnitInv, UnitTypes
  <2>2. CASE ~gpu["capture"]
    <3>1. gpu' \in [Jobs -> BOOLEAN]
      BY <1>0, <2>2 DEF UnitInv, UnitTypes, JobTypes
    <3> QED BY <1>0, <2>2, <3>1 DEF UnitInv, UnitTypes, JobTypes
  <2> QED BY <2>1, <2>2
<1>2. UnitInv'
  BY <1>0, <1>1, AfterSteps DEF UnitInv, UnitTypes, JobTypes
<1>3. ApiInv'
  BY <1>0, AfterSteps DEF UnitInv, UnitTypes, JobTypes, ApiInv, Suspended, Scaled, Emptied
<1>4. RowsInv'
  <2>1. pc'["regen"] \notin {"off", "seed"} => pc["regen"] \notin {"off", "seed"}
    BY <1>0, AfterSteps DEF UnitInv, UnitTypes, JobTypes
  <2>2. todo # {} => pc'["regen"] = "regenerate"
    BY <1>0, AfterSteps DEF UnitInv, UnitTypes, JobTypes, RowsInv
  <2> QED BY <1>0, <2>1, <2>2, RowsFrame
<1>5. DoneInv'
  BY <1>0, AfterSteps DEF UnitInv, UnitTypes, JobTypes, ApiInv, RowsInv, DoneInv, Within, Todo, Ids
<1>6. JournalInv'
  BY <1>0, AfterSteps DEF UnitInv, UnitTypes, JobTypes, JournalInv
<1>7. NotifierInv'
  BY <1>0, AfterSteps DEF UnitInv, UnitTypes, JobTypes, JournalInv, NotifierInv, Over, True
<1> QED BY <1>2, <1>3, <1>4, <1>5, <1>6, <1>7 DEF RegenInv

LEMMA RegenMonitor ==
  ASSUME RegenInv, Monitor
  PROVE  RegenInv'
<1> USE DEF Monitor, Status, api, unit, files, notify, vars, Live,
      Untrapped, Cleanup, Jobs, Nobody, Codes, NoExit, NoResult, Unnoted
<1>0. UnitInv /\ ApiInv /\ RowsInv /\ DoneInv /\ JournalInv /\ NotifierInv
  BY DEF RegenInv
<1>1. UnitTypes'
  BY <1>0 DEF UnitInv, UnitTypes, JobTypes
<1>2. UnitInv'
  BY <1>0, <1>1 DEF UnitInv, UnitTypes, JobTypes
<1>3. ApiInv'
  BY <1>0 DEF UnitInv, UnitTypes, JobTypes, ApiInv, Suspended, Scaled, Emptied
<1>4. RowsInv'
  BY <1>0, RowsFrame DEF RowsInv
<1>5. DoneInv'
  BY <1>0 DEF UnitInv, UnitTypes, JobTypes, ApiInv, RowsInv, DoneInv, Within, Todo, Ids
<1>6. JournalInv'
  BY <1>0 DEF UnitInv, UnitTypes, JobTypes, JournalInv
<1>7. NotifierInv'
  <2>1. UNCHANGED <<starts, journal, pc, queued, seen, verdict>> /\ watch' \in {"poll", "done"}
    OBVIOUS
  <2>2. \A i, said : True(i, said)' = True(i, said)
    BY <2>1 DEF True, Over
  <2>3. CASE saved_state = Unnoted
    <3>1. saved_state' = [invocation |-> starts["regen"], delivered |-> FALSE] /\ starts["regen"] \in Nat \ {0}
      BY <1>0, <2>3 DEF UnitInv, UnitTypes, JobTypes
    <3>2. saved_state' \in [invocation : Nat, delivered : BOOLEAN] /\ saved_state'.invocation = starts["regen"]
      BY <3>1
    <3> QED BY <1>0, <2>1, <2>2, <3>1, <3>2 DEF NotifierInv
  <2>4. CASE saved_state # Unnoted
    BY <1>0, <2>1, <2>2, <2>4 DEF NotifierInv
  <2> QED BY <2>3, <2>4
<1> QED BY <1>2, <1>3, <1>4, <1>5, <1>6, <1>7 DEF RegenInv

LEMMA RegenPoll ==
  ASSUME RegenInv, Poll
  PROVE  RegenInv'
<1> USE DEF Poll, Status, api, unit, files, notify, vars, Live,
      Untrapped, Cleanup, Jobs, Nobody, Codes, NoExit, NoResult, Unnoted
<1>0. UnitInv /\ ApiInv /\ RowsInv /\ DoneInv /\ JournalInv /\ NotifierInv
  BY DEF RegenInv
<1>1. UnitTypes'
  BY <1>0 DEF UnitInv, UnitTypes, JobTypes
<1>2. UnitInv'
  BY <1>0, <1>1 DEF UnitInv, UnitTypes, JobTypes
<1>3. ApiInv'
  BY <1>0 DEF UnitInv, UnitTypes, JobTypes, ApiInv, Suspended, Scaled, Emptied
<1>4. RowsInv'
  BY <1>0, RowsFrame DEF RowsInv
<1>5. DoneInv'
  BY <1>0 DEF UnitInv, UnitTypes, JobTypes, ApiInv, RowsInv, DoneInv, Within, Todo, Ids
<1>6. JournalInv'
  BY <1>0 DEF UnitInv, UnitTypes, JobTypes, JournalInv
<1>7. NotifierInv'
  BY <1>0 DEF UnitInv, UnitTypes, JobTypes, JournalInv, NotifierInv, Over, True
<1> QED BY <1>2, <1>3, <1>4, <1>5, <1>6, <1>7 DEF RegenInv

LEMMA RegenJudge ==
  ASSUME RegenInv, Judge
  PROVE  RegenInv'
<1> USE DEF Judge, Result, Ending, Concluded, api, unit, files, notify, vars, Live,
      Untrapped, Cleanup, Jobs, Nobody, Codes, NoExit, NoResult, Unnoted
<1>0. UnitInv /\ ApiInv /\ RowsInv /\ DoneInv /\ JournalInv /\ NotifierInv
  BY DEF RegenInv
<1>1. UnitTypes'
  BY <1>0 DEF UnitInv, UnitTypes, JobTypes
<1>2. UnitInv'
  BY <1>0, <1>1 DEF UnitInv, UnitTypes, JobTypes
<1>3. ApiInv'
  BY <1>0 DEF UnitInv, UnitTypes, JobTypes, ApiInv, Suspended, Scaled, Emptied
<1>4. RowsInv'
  BY <1>0, RowsFrame DEF RowsInv
<1>5. DoneInv'
  BY <1>0 DEF UnitInv, UnitTypes, JobTypes, ApiInv, RowsInv, DoneInv, Within, Todo, Ids
<1>6. JournalInv'
  BY <1>0 DEF UnitInv, UnitTypes, JobTypes, JournalInv
<1>7. NotifierInv'
  BY <1>0 DEF UnitInv, UnitTypes, JobTypes, JournalInv, NotifierInv, Over, True
<1> QED BY <1>2, <1>3, <1>4, <1>5, <1>6, <1>7 DEF RegenInv

LEMMA RegenQueue ==
  ASSUME RegenInv, Queue
  PROVE  RegenInv'
<1> USE DEF Queue, api, unit, files, notify, vars, Live,
      Untrapped, Cleanup, Jobs, Nobody, Codes, NoExit, NoResult, Unnoted
<1>0. UnitInv /\ ApiInv /\ RowsInv /\ DoneInv /\ JournalInv /\ NotifierInv
  BY DEF RegenInv
<1>1. UnitTypes'
  BY <1>0 DEF UnitInv, UnitTypes, JobTypes
<1>2. UnitInv'
  BY <1>0, <1>1 DEF UnitInv, UnitTypes, JobTypes
<1>3. ApiInv'
  BY <1>0 DEF UnitInv, UnitTypes, JobTypes, ApiInv, Suspended, Scaled, Emptied
<1>4. RowsInv'
  BY <1>0, RowsFrame DEF RowsInv
<1>5. DoneInv'
  BY <1>0 DEF UnitInv, UnitTypes, JobTypes, ApiInv, RowsInv, DoneInv, Within, Todo, Ids
<1>6. JournalInv'
  BY <1>0 DEF UnitInv, UnitTypes, JobTypes, JournalInv
<1>7. NotifierInv'
  BY <1>0 DEF UnitInv, UnitTypes, JobTypes, JournalInv, NotifierInv, Over, True
<1> QED BY <1>2, <1>3, <1>4, <1>5, <1>6, <1>7 DEF RegenInv

LEMMA RegenSaveState ==
  ASSUME RegenInv, SaveState
  PROVE  RegenInv'
<1> USE DEF SaveState, api, unit, files, notify, vars, Live,
      Untrapped, Cleanup, Jobs, Nobody, Codes, NoExit, NoResult, Unnoted
<1>0. UnitInv /\ ApiInv /\ RowsInv /\ DoneInv /\ JournalInv /\ NotifierInv
  BY DEF RegenInv
<1>1. UnitTypes'
  BY <1>0 DEF UnitInv, UnitTypes, JobTypes
<1>2. UnitInv'
  BY <1>0, <1>1 DEF UnitInv, UnitTypes, JobTypes
<1>3. ApiInv'
  BY <1>0 DEF UnitInv, UnitTypes, JobTypes, ApiInv, Suspended, Scaled, Emptied
<1>4. RowsInv'
  BY <1>0, RowsFrame DEF RowsInv
<1>5. DoneInv'
  BY <1>0 DEF UnitInv, UnitTypes, JobTypes, ApiInv, RowsInv, DoneInv, Within, Todo, Ids
<1>6. JournalInv'
  BY <1>0 DEF UnitInv, UnitTypes, JobTypes, JournalInv
<1>7. NotifierInv'
  <2>1. UNCHANGED <<starts, journal, pc, queued>> /\ watch' = "done" /\ watch = "save"
    OBVIOUS
  <2>2. \A i, said : True(i, said)' = True(i, said)
    BY <2>1 DEF True, Over
  <2>3. /\ saved_state' \in [invocation : Nat, delivered : BOOLEAN]
        /\ saved_state'.invocation = saved_state.invocation /\ saved_state.invocation # 0
    <3>1. saved_state' = [saved_state EXCEPT !.delivered = TRUE]
      OBVIOUS
    <3>2. saved_state \in [invocation : Nat, delivered : BOOLEAN] /\ saved_state.invocation # 0
      BY <1>0, <2>1 DEF NotifierInv
    <3>3. saved_state' \in [invocation : Nat, delivered : BOOLEAN] /\ saved_state'.invocation = saved_state.invocation
      BY <3>1, <3>2, Zenon
    <3> QED BY <3>2, <3>3
  <2> QED BY <1>0, <2>1, <2>2, <2>3 DEF NotifierInv
<1> QED BY <1>2, <1>3, <1>4, <1>5, <1>6, <1>7 DEF RegenInv

LEMMA RegenCrashNotifier ==
  ASSUME RegenInv, CrashNotifier
  PROVE  RegenInv'
<1> USE DEF CrashNotifier, api, unit, files, notify, vars, Live,
      Untrapped, Cleanup, Jobs, Nobody, Codes, NoExit, NoResult, Unnoted
<1>0. UnitInv /\ ApiInv /\ RowsInv /\ DoneInv /\ JournalInv /\ NotifierInv
  BY DEF RegenInv
<1>1. UnitTypes'
  BY <1>0 DEF UnitInv, UnitTypes, JobTypes
<1>2. UnitInv'
  BY <1>0, <1>1 DEF UnitInv, UnitTypes, JobTypes
<1>3. ApiInv'
  BY <1>0 DEF UnitInv, UnitTypes, JobTypes, ApiInv, Suspended, Scaled, Emptied
<1>4. RowsInv'
  BY <1>0, RowsFrame DEF RowsInv
<1>5. DoneInv'
  BY <1>0 DEF UnitInv, UnitTypes, JobTypes, ApiInv, RowsInv, DoneInv, Within, Todo, Ids
<1>6. JournalInv'
  BY <1>0 DEF UnitInv, UnitTypes, JobTypes, JournalInv
<1>7. NotifierInv'
  BY <1>0 DEF UnitInv, UnitTypes, JobTypes, JournalInv, NotifierInv, Over, True
<1> QED BY <1>2, <1>3, <1>4, <1>5, <1>6, <1>7 DEF RegenInv

LEMMA RegenPrompts ==
  ASSUME RegenInv, NEW ids, Prompts(ids)
  PROVE  RegenInv'
<1> USE DEF Prompts, Deliver, api, unit, files, notify, vars, Live,
      Untrapped, Cleanup, Jobs, Nobody, Codes, NoExit, NoResult, Unnoted
<1>0. UnitInv /\ ApiInv /\ RowsInv /\ DoneInv /\ JournalInv /\ NotifierInv
  BY DEF RegenInv
<1>1. UnitTypes'
  BY <1>0 DEF UnitInv, UnitTypes, JobTypes
<1>2. UnitInv'
  BY <1>0, <1>1 DEF UnitInv, UnitTypes, JobTypes
<1>3. ApiInv'
  BY <1>0 DEF UnitInv, UnitTypes, JobTypes, ApiInv, Suspended, Scaled, Emptied
<1>4. RowsInv'
  <2>1. /\ input = <<>> /\ UNCHANGED <<pc, output, todo, starts>> /\ input' = ids
        /\ IsSeq(ids) /\ \A n \in DOMAIN ids : ids[n] # <<>>
    OBVIOUS
  <2>2. pc["regen"] = "off"
    BY <1>0, <2>1 DEF UnitInv, JournalInv, UnitTypes, JobTypes
  <2>3. output' = Absent /\ IsSeq(output') /\ todo = {}
    BY <1>0, <2>1, <2>2 DEF RowsInv
  <2>4. RowsOnce' /\ Seeded' /\ Numbered'
    BY <2>3 DEF RowsOnce, Seeded, Numbered
  <2> QED BY <1>0, <2>1, <2>2, <2>3, <2>4 DEF RowsInv
<1>5. DoneInv'
  <2>1. input = <<>> /\ UNCHANGED <<pc, errors, quota>>
    OBVIOUS
  <2>2. pc["regen"] = "off"
    BY <1>0, <2>1 DEF UnitInv, JournalInv, UnitTypes, JobTypes
  <2> QED BY <1>0, <2>1, <2>2 DEF DoneInv
<1>6. JournalInv'
  BY <1>0 DEF UnitInv, UnitTypes, JobTypes, JournalInv
<1>7. NotifierInv'
  BY <1>0 DEF UnitInv, UnitTypes, JobTypes, JournalInv, NotifierInv, Over, True
<1> QED BY <1>2, <1>3, <1>4, <1>5, <1>6, <1>7 DEF RegenInv

LEMMA RegenStutter ==
  ASSUME RegenInv, UNCHANGED vars
  PROVE  RegenInv'
<1>1. UNCHANGED <<replicas, suspended, pod, pc, rc, saved, stop, gpu, starts, lock, input, output, todo, errors,
                  quota, capture_set, journal, watch, seen, verdict, saved_state, queued>>
  BY DEF vars, api, unit, files, notify
<1>2. UnitInv' /\ ApiInv'
  BY <1>1 DEF RegenInv, UnitInv, UnitTypes, JobTypes, Live, ApiInv, Suspended, Scaled, Emptied
<1>3. RowsInv' /\ DoneInv'
  BY <1>1, RowsSame DEF RegenInv, RowsInv, DoneInv, Within
<1>4. JournalInv' /\ NotifierInv'
  BY <1>1 DEF RegenInv, JournalInv, NotifierInv, True, Over, Live
<1> QED BY <1>2, <1>3, <1>4 DEF RegenInv

LEMMA RegenInit == Init => RegenInv
<1> SUFFICES ASSUME Init PROVE RegenInv
  OBVIOUS
<1> USE DEF Init, Jobs, Nobody, Codes, Live, Untrapped, Cleanup
<1>1. UnitInv
  <2>1. JobTypes
    <3>1. pc \in [Jobs -> JobSteps] /\ rc \in [Jobs -> Codes]
      BY DEF JobSteps
    <3>2. saved \in [Jobs -> {0, 1}] /\ starts \in [Jobs -> Nat] /\ lock \in Jobs \cup {Nobody}
      OBVIOUS
    <3>3. stop \in [Jobs -> BOOLEAN] /\ gpu \in [Jobs -> BOOLEAN]
      OBVIOUS
    <3> QED BY <3>1, <3>2, <3>3 DEF JobTypes
  <2>2. \A j \in Jobs : pc[j] = "off" /\ ~stop[j] /\ ~gpu[j] /\ starts[j] = 0 /\ lock # j
    OBVIOUS
  <2>3. pc["regen"] = "off" /\ pc["capture"] = "off"
    OBVIOUS
  <2>4. replicas \in {0, 1} /\ suspended \in BOOLEAN /\ pod \in BOOLEAN
    OBVIOUS
  <2> HIDE DEF Init
  <2> QED BY <2>1, <2>2, <2>3, <2>4 DEF UnitInv, UnitTypes
<1>2. ApiInv
  BY DEF ApiInv, Suspended, Scaled, Emptied
<1>3. RowsInv
  <2>1. output = Absent /\ input = <<>> /\ todo = {} /\ pc["regen"] = "off"
    OBVIOUS
  <2> HIDE DEF Init
  <2>2. IsSeq(input) /\ DOMAIN input = {}
    <3>1. Len(input) = 0 /\ DOMAIN input = 1 .. Len(input)
      BY <2>1, Empty, SeqIs
    <3> QED BY <2>1, <3>1, Empty
  <2>3. IsSeq(output)
    <3>1. \A e : <<e>> \in Seq({e})
      OBVIOUS
    <3> QED BY <2>1, <3>1, AnySeq DEF Absent
  <2> QED BY <2>1, <2>2, <2>3 DEF RowsInv, RowsOnce, Seeded, Numbered
<1>4. DoneInv
  BY DEF DoneInv
<1>5. JournalInv /\ NotifierInv
  BY DEF JournalInv, NotifierInv, Unnoted
<1> QED BY <1>1, <1>2, <1>3, <1>4, <1>5 DEF RegenInv

LEMMA RegenNext == RegenInv /\ [Next \/ \E ids : Prompts(ids)]_vars => RegenInv'
<1> SUFFICES ASSUME RegenInv, [Next \/ \E ids : Prompts(ids)]_vars PROVE RegenInv'
  OBVIOUS
<1>1. ASSUME NEW j \in Jobs, Start(j) \/ Stop(j) \/ Kill(j) \/ Job(j) PROVE RegenInv'
  BY <1>1, RegenStart, RegenStop, RegenKill, RegenCheck, RegenSuspend, RegenScale, RegenWait, RegenCheckGpu,
     RegenUnserve, RegenRestore, RegenResume, RegenRollout DEF Job
<1>2. CASE Regen \/ Command
  BY <1>2, RegenSeed, RegenServe, RegenSmoke, RegenAnswer, RegenRegenerated, RegenBuildCaptureSet, RegenCommand
     DEF Regen
<1>3. CASE Notifier \/ CrashNotifier
  BY <1>3, RegenMonitor, RegenPoll, RegenJudge, RegenQueue, RegenSaveState, RegenCrashNotifier DEF Notifier
<1>4. CASE Reconcile \/ PodStarts \/ PodEnds \/ Repair
  BY <1>4, RegenReconcile, RegenPodStarts, RegenPodEnds, RegenRepair
<1>5. ASSUME NEW ids, Prompts(ids) PROVE RegenInv'
  BY <1>5, RegenPrompts
<1>6. CASE UNCHANGED vars
  BY <1>6, RegenStutter
<1> QED BY <1>1, <1>2, <1>3, <1>4, <1>5, <1>6 DEF Next

LEMMA RegenInvariant == Pipeline => []RegenInv
BY RegenInit, RegenNext, PTL DEF Pipeline

----------------------------------------------------------------------------
(* The theorems.                                                           *)

\* The API's pod, the regeneration's server and the captured engine never share
\* the GPU: the lock leaves one job, and Flux is suspended for as long as it has
\* the card.
THEOREM RegenOneOnGpu == Pipeline => []OneOnGpu
<1>1. RegenInv => OneOnGpu
  <2> DEFINE holders == {j \in Jobs : gpu[j]}
  <2> SUFFICES ASSUME RegenInv PROVE Cardinality(holders) + (IF pod THEN 1 ELSE 0) <= 1
    BY DEF OneOnGpu
  <2>1. \A i, j \in holders : i = j /\ ~pod
    BY DEF RegenInv, UnitInv, UnitTypes, JobTypes, ApiInv, Live
  <2>2. CASE holders = {}
    <3>1. Cardinality(holders) = 0
      BY <2>2, FS_EmptySet
    <3> QED BY <3>1
  <2>3. CASE holders # {}
    <3>1. PICK j \in holders : holders = {j} /\ ~pod
      BY <2>1, <2>3
    <3>2. Cardinality(holders) = 1
      BY <3>1, FS_Singleton
    <3> QED BY <3>1, <3>2
  <2> QED BY <2>2, <2>3
<1> QED BY <1>1, RegenInvariant, PTL

\* For any prompts, ids repeated or not: over all invocations a row is answered
\* once, and not at all if its id was kept; an id is there twice only for two
\* rows that share it. A line cut short by a kill stays the last one until it is
\* repaired.
THEOREM RegenRowsOnce == Pipeline => []RowsOnce
<1>1. RegenInv => RowsOnce
  BY DEF RegenInv, RowsInv
<1> QED BY <1>1, RegenInvariant, PTL

\* What resume-regeneration.sh:47 demands of the output at each start, no id
\* twice, never fails if neither the prompts nor what was kept repeat one.
Unique(ids) == \A i, k \in DOMAIN ids : i # k => ids[i] # ids[k]
IdsOnce ==
  Unique(input) /\ (\A i, k \in DOMAIN Kept : i # k => Kept[i].id # Kept[k].id) /\ output # Absent
    => \A i, k \in DOMAIN output : i # k => output[i].id # output[k].id

THEOREM RegenIdsOnce == Pipeline => []IdsOnce
<1>1. ASSUME RegenInv PROVE IdsOnce
  <2> SUFFICES ASSUME Unique(input), \A i, k \in DOMAIN Kept : i # k => Kept[i].id # Kept[k].id, output # Absent
               PROVE  \A i, k \in DOMAIN output : i # k => output[i].id # output[k].id
    BY DEF IdsOnce
  <2>1. /\ Len(output) \in Nat /\ DOMAIN output = 1 .. Len(output)
        /\ Len(Kept) \in Nat /\ DOMAIN Kept = 1 .. Len(Kept)
        /\ RowsOnce /\ \A k \in 1 .. Len(Kept) : output[k] = Kept[k]
    BY <1>1, SeqIs, LegacyAssumption DEF RegenInv, RowsInv, LegacyAssumption, Seeded
  <2>2. ASSUME NEW i \in 1 .. Len(output) - 1, NEW k \in i + 1 .. Len(output), output[i].id = output[k].id
        PROVE  FALSE
    <3>1. CASE k > Len(Kept)
      <4>1. TwoRows(output[i], output[k])
        BY <2>1, <2>2, <3>1 DEF RowsOnce
      <4> QED BY <2>2, <4>1 DEF TwoRows, Unique
    <3>2. CASE ~(k > Len(Kept))
      <4>1. i \in DOMAIN Kept /\ k \in DOMAIN Kept /\ i # k
        BY <2>1, <3>2
      <4> QED BY <2>1, <2>2, <4>1
    <3> QED BY <3>1, <3>2
  <2>3. ASSUME NEW i \in 1 .. Len(output), NEW k \in 1 .. Len(output), i # k
        PROVE  output[i].id # output[k].id
    <3>1. CASE i < k
      <4>1. i \in 1 .. Len(output) - 1 /\ k \in i + 1 .. Len(output)
        BY <2>1, <3>1
      <4> QED BY <2>2, <4>1
    <3>2. CASE k < i
      <4>1. k \in 1 .. Len(output) - 1 /\ i \in k + 1 .. Len(output)
        BY <2>1, <3>2
      <4> QED BY <2>2, <4>1
    <3> QED BY <2>3, <3>1, <3>2
  <2> QED BY <2>1, <2>3
<1> QED BY <1>1, RegenInvariant, PTL

\* What the chat is told of an invocation is what became of it, over restarts of
\* the notifier and invocations that follow.
THEOREM RegenVerdictIsTrue == Pipeline => []VerdictIsTrue
<1>1. RegenInv => VerdictIsTrue
  BY DEF RegenInv, NotifierInv, True, Over, VerdictIsTrue
<1> QED BY <1>1, RegenInvariant, PTL

\* "exit=0" is printed with the API back, the capture set made of every whole
\* answer, and at most a share of the rows missing.
THEOREM RegenDoneMeansReady == Pipeline => DoneMeansReady
<1> DEFINE Ready ==
      \A n \in DOMAIN journal : journal[n] # 0 /\ journal'[n] = 0 =>
         /\ Up /\ pod
         /\ capture_set = CaptureRows(output)
         /\ Cardinality({i \in DOMAIN input : input[i] \notin Ids(output)}) * ErrorShare <= Len(input)
<1>1. ASSUME RegenInv, [Next \/ \E ids : Prompts(ids)]_vars PROVE [Ready]_vars
  <2>1. CASE \E ok \in BOOLEAN : Rollout("regen")
    <3>1. PICK ok \in BOOLEAN :
            /\ ok => (replicas = 1 => pod)
            /\ journal' = [journal EXCEPT ![starts["regen"]] = IF ok THEN rc["regen"] ELSE 1]
            /\ pc["regen"] = "rollout"
      BY <2>1 DEF Rollout
    <3> SUFFICES ASSUME NEW n \in DOMAIN journal, journal[n] # 0, journal'[n] = 0
                 PROVE  Up /\ pod /\ capture_set = CaptureRows(output) /\ Within
      BY DEF Within, Todo
    <3>2. ok /\ rc["regen"] = 0
      BY <3>1
    <3> QED BY <1>1, <3>1, <3>2 DEF RegenInv, DoneInv, Cleanup, Up
  <2>2. CASE journal' = journal
    BY <2>2
  <2>3. CASE \E j \in Jobs : Start(j)
    <3>1. /\ journal \in Seq(Codes \cup {NoExit})
          /\ journal' = journal \/ journal' = Append(journal, NoExit)
      BY <1>1, <2>3 DEF Start, RegenInv, JournalInv
    <3>2. \A n \in DOMAIN journal : journal'[n] = journal[n]
      BY <3>1
    <3> QED BY <3>2
  <2>4. CASE \E j \in Jobs : Rollout(j) /\ j # "regen"
    BY <2>4 DEF Rollout
  <2> QED
    <3> HIDE DEF Ready
    <3> USE DEF api, unit, files, notify, vars
    <3>1. CASE \E j \in Jobs : Stop(j) \/ Kill(j) \/ (Job(j) /\ ~Rollout(j))
      <4>1. journal' = journal
        BY <3>1 DEF Stop, Kill, Job, Check, Suspend, Scale, Wait, CheckGpu, Unserve, Restore, Resume
      <4> QED BY <2>2, <4>1
    <3>2. CASE Regen \/ Command
      <4>1. journal' = journal
        BY <3>2 DEF Regen, Command, Seed, Serve, Smoke, Answer, Regenerated, BuildCaptureSet
      <4> QED BY <2>2, <4>1
    <3>3. CASE Notifier \/ CrashNotifier
      <4>1. journal' = journal
        BY <3>3 DEF Notifier, CrashNotifier, Monitor, Poll, Judge, Queue, SaveState
      <4> QED BY <2>2, <4>1
    <3>4. CASE Reconcile \/ PodStarts \/ PodEnds \/ Repair \/ (\E ids : Prompts(ids)) \/ UNCHANGED vars
      <4>1. journal' = journal
        BY <3>4 DEF Reconcile, PodStarts, PodEnds, Repair, Prompts, Deliver
      <4> QED BY <2>2, <4>1
    <3> QED BY <1>1, <2>1, <2>3, <2>4, <3>1, <3>2, <3>3, <3>4 DEF Next, Job
<1>2. RegenInv /\ [Next \/ \E ids : Prompts(ids)]_vars => [Ready]_vars
  BY <1>1
<1>3. DoneMeansReady <=> [][Ready]_vars
  BY PTL DEF DoneMeansReady
<1> QED BY <1>2, <1>3, RegenInvariant, PTL DEF Pipeline

----------------------------------------------------------------------------
(* What a transcript has become at a line of it.                           *)

\* What the calls of a turn ask of the schemas.
Known(calls, ts) ==
  \A n \in DOMAIN calls : /\ calls[n].name \in DOMAIN ts
                          /\ \A a \in calls[n].args : \E p \in ts[calls[n].name] : p[1] = a[1]

HasCall(m, id) == m.role = "assistant" /\ \E n \in DOMAIN m.calls : m.calls[n].id = id

\* A list of messages in which no turn of the assistant follows another, and
\* a result follows its call without a turn of the user between them.
Alternate(ms) == \A i \in 1 .. Len(ms) - 1 : ~(ms[i].role = "assistant" /\ ms[i + 1].role = "assistant")
ResultsFollow(ms) ==
  \A i \in 1 .. Len(ms) : ms[i].role = "tool" =>
    \E k \in 1 .. i - 1 : HasCall(ms[k], ms[i].call) /\ \A j \in k + 1 .. i - 1 : ms[j].role # "user"
Taught(ms, ts) ==
  \A i \in 1 .. Len(ms) : ms[i].role = "assistant" => IsSeq(ms[i].calls) /\ Known(ms[i].calls, ts)

\* The call of one of the first n lines is in a message, after which there is a turn of
\* the user only if there has been one since in the lines.
Heard(ms, lines, n) ==
  \A k \in 1 .. n : \A id : Calls(lines[k], id) =>
    \E i \in 1 .. Len(ms) :
      /\ HasCall(ms[i], id)
      /\ (\A j \in k + 1 .. n : ~IsTurn(lines[j])) => \A j \in i + 1 .. Len(ms) : ms[j].role # "user"

MineInv ==
  /\ sessions \in Sessions /\ file \in Nat \ {0} /\ line \in Nat \ {0}
  /\ IsSeq(rows) /\ \A n \in 1 .. Len(rows) : Askable(rows[n])
  /\ IsSeq(msgs) /\ Alternate(msgs) /\ ResultsFollow(msgs) /\ Taught(msgs, tools)
  /\ file <= Len(sessions) => Heard(msgs, sessions[file].lines, line - 1)

----------------------------------------------------------------------------
(* More messages, and merged ones.                                         *)

\* The messages of ms are still there, at their places.
Grown(ms, mt) ==
  /\ IsSeq(ms) /\ IsSeq(mt) /\ Len(ms) <= Len(mt)
  /\ \A i \in 1 .. Len(ms) :
       /\ mt[i].role = ms[i].role
       /\ ms[i].role = "tool" => mt[i].call = ms[i].call
       /\ \A id : HasCall(ms[i], id) => HasCall(mt[i], id)

\* A message that is new has a call, with no turn of the user since.
Asked(mt, i) ==
  mt[i].role = "tool" =>
    \E k \in 1 .. i - 1 : HasCall(mt[k], mt[i].call) /\ \A j \in k + 1 .. i - 1 : mt[j].role # "user"

LEMMA ResultsStill ==
  ASSUME NEW ms, NEW mt, Grown(ms, mt), ResultsFollow(ms),
         \A i \in Len(ms) + 1 .. Len(mt) : Asked(mt, i)
  PROVE  ResultsFollow(mt)
<1>1. Len(ms) \in Nat /\ Len(mt) \in Nat
  BY SeqIs DEF Grown
<1>2. SUFFICES ASSUME NEW i \in 1 .. Len(mt) PROVE Asked(mt, i)
  BY DEF ResultsFollow, Asked
<1>3. CASE i \in 1 .. Len(ms)
  <2> SUFFICES ASSUME mt[i].role = "tool"
               PROVE  \E k \in 1 .. i - 1 : HasCall(mt[k], mt[i].call) /\ \A j \in k + 1 .. i - 1 : mt[j].role # "user"
    BY DEF Asked
  <2>1. ms[i].role = "tool" /\ mt[i].call = ms[i].call
    BY <1>3 DEF Grown
  <2>2. PICK k \in 1 .. i - 1 : HasCall(ms[k], ms[i].call) /\ \A j \in k + 1 .. i - 1 : ms[j].role # "user"
    BY <1>3, <2>1 DEF ResultsFollow
  <2>3. k \in 1 .. Len(ms) /\ \A j \in k + 1 .. i - 1 : j \in 1 .. Len(ms)
    BY <1>1, <1>3
  <2>4. HasCall(mt[k], mt[i].call)
    BY <2>1, <2>2, <2>3 DEF Grown
  <2>5. \A j \in k + 1 .. i - 1 : mt[j].role # "user"
    BY <2>2, <2>3 DEF Grown
  <2> QED BY <2>4, <2>5
<1>4. CASE i \in Len(ms) + 1 .. Len(mt)
  BY <1>4
<1> QED BY <1>1, <1>3, <1>4

\* The lines above are heard as well after a line that adds no turn of the
\* user unless it is one.
LEMMA HeardStill ==
  ASSUME NEW ms, NEW mt, NEW lines, NEW n \in Nat \ {0}, Grown(ms, mt), Heard(ms, lines, n - 1),
         IsTurn(lines[n]) \/ \A j \in Len(ms) + 1 .. Len(mt) : mt[j].role # "user",
         \A id : Calls(lines[n], id) =>
           \E i \in 1 .. Len(mt) : HasCall(mt[i], id) /\ \A j \in i + 1 .. Len(mt) : mt[j].role # "user"
  PROVE  Heard(mt, lines, n)
<1>1. Len(ms) \in Nat /\ Len(mt) \in Nat /\ Len(ms) <= Len(mt)
  BY SeqIs DEF Grown
<1>2. SUFFICES ASSUME NEW k \in 1 .. n, NEW id, Calls(lines[k], id)
               PROVE  \E i \in 1 .. Len(mt) :
                        /\ HasCall(mt[i], id)
                        /\ (\A j \in k + 1 .. n : ~IsTurn(lines[j])) => \A j \in i + 1 .. Len(mt) : mt[j].role # "user"
  BY DEF Heard
<1>3. CASE k = n
  BY <1>2, <1>3
<1>4. CASE k # n
  <2>1. k \in 1 .. n - 1 /\ n \in k + 1 .. n /\ \A j \in k + 1 .. n - 1 : j \in k + 1 .. n
    BY <1>4
  <2>2. PICK i \in 1 .. Len(ms) :
          /\ HasCall(ms[i], id)
          /\ (\A j \in k + 1 .. n - 1 : ~IsTurn(lines[j])) => \A j \in i + 1 .. Len(ms) : ms[j].role # "user"
    BY <1>2, <2>1 DEF Heard
  <2>3. i \in 1 .. Len(mt) /\ HasCall(mt[i], id)
    BY <1>1, <2>2 DEF Grown
  <2>4. ASSUME \A j \in k + 1 .. n : ~IsTurn(lines[j]), NEW j \in i + 1 .. Len(mt)
        PROVE  mt[j].role # "user"
    <3>1. ~IsTurn(lines[n]) /\ \A m \in i + 1 .. Len(ms) : ms[m].role # "user"
      BY <2>1, <2>2, <2>4
    <3>2. CASE j \in i + 1 .. Len(ms)
      <4>1. j \in 1 .. Len(ms)
        BY <3>2
      <4> QED BY <3>1, <3>2, <4>1 DEF Grown
    <3>3. CASE j \in Len(ms) + 1 .. Len(mt)
      BY <3>1, <3>3
    <3> QED BY <1>1, <3>2, <3>3
  <2> QED BY <2>3, <2>4
<1> QED BY <1>3, <1>4

----------------------------------------------------------------------------
(* What is learned of the tools.                                           *)

LEMMA LeastOf ==
  ASSUME NEW S \in SUBSET Nat, S # {}
  PROVE  \E m \in S : \A k \in S : m <= k
<1> DEFINE R == OpToRel(<, Nat)
<1>1. IsWellFoundedOn(R, Nat)
  BY NatLessThanWellFounded
<1>2. \A x, y \in Nat : x < y => <<x, y>> \in R
  BY DEF OpToRel
<1> HIDE DEF R
<1>3. PICK m \in S : \A y \in S : ~ (<<y, m>> \in R)
  BY <1>1, WFMin
<1>4. ASSUME NEW k \in S PROVE m <= k
  <2>1. m \in Nat /\ k \in Nat
    OBVIOUS
  <2>2. ~(k < m)
    BY <1>2, <1>3, <2>1
  <2> QED BY <2>1, <2>2
<1> QED BY <1>4

LEMMA AllNat ==
  ASSUME NEW S \in SUBSET Nat, 0 \in S, \A n \in S : n + 1 \in S
  PROVE  S = Nat
<1> SUFFICES ASSUME Nat \ S # {} PROVE FALSE
  OBVIOUS
<1>1. PICK m \in Nat \ S : \A k \in Nat \ S : m <= k
  BY LeastOf
<1>2. m # 0 /\ m - 1 \in Nat
  BY <1>1
<1>3. m - 1 \in S
  BY <1>1, <1>2
<1> QED BY <1>1, <1>3

LEMMA GreatestOf ==
  ASSUME NEW n \in Nat, NEW S \in SUBSET (1 .. n), S # {}
  PROVE  \E m \in S : \A k \in S : k <= m
<1> DEFINE T == {n - k : k \in S}
<1>1. T \in SUBSET Nat /\ T # {}
  <2>1. \A k \in S : k \in 1 .. n
    OBVIOUS
  <2>2. \A k \in S : n - k \in Nat
    BY <2>1
  <2> QED BY <2>2
<1>2. PICK d \in T : \A e \in T : d <= e
  BY <1>1, LeastOf
<1>3. PICK m \in S : d = n - m
  BY <1>2
<1>4. ASSUME NEW k \in S PROVE k <= m
  <2>1. n - k \in T
    OBVIOUS
  <2>2. d <= n - k
    BY <1>2, <2>1
  <2> HIDE DEF T
  <2> QED BY <1>3, <2>2
<1> QED BY <1>4

\* An argument of a call is known by one that is kept.
LEMMA LatestHas ==
  ASSUME NEW calls, IsSeq(calls), NEW i \in DOMAIN calls, NEW a \in calls[i].args
  PROVE  \E b \in Latest(calls, calls[i].name) : b[1] = a[1]
<1> DEFINE of == {k \in DOMAIN calls : calls[k].name = calls[i].name}
           K  == {k \in of : \E b \in calls[k].args : b[1] = a[1]}
<1>1. Len(calls) \in Nat /\ DOMAIN calls = 1 .. Len(calls)
  BY SeqIs
<1>2. K \in SUBSET (1 .. Len(calls)) /\ i \in K
  BY <1>1
<1> HIDE DEF K
<1>3. PICK m \in K : \A k \in K : k <= m
  BY <1>1, <1>2, GreatestOf
<1>4. m \in of /\ m \in 1 .. Len(calls) /\ \E b \in calls[m].args : b[1] = a[1]
  BY <1>2, <1>3 DEF K
<1>5. PICK b \in calls[m].args : b[1] = a[1]
  BY <1>4
<1>6. ASSUME NEW k \in of, k > m, NEW c \in calls[k].args PROVE c[1] # b[1]
  <2> SUFFICES ASSUME c[1] = b[1] PROVE FALSE
    OBVIOUS
  <2>1. k \in K
    BY <1>5 DEF K
  <2>2. k <= m /\ k \in Nat /\ m \in Nat
    BY <1>1, <1>3, <1>4, <2>1
  <2> QED BY <1>6, <2>2
<1>7. b \in Latest(calls, calls[i].name)
  BY <1>4, <1>5, <1>6 DEF Latest
<1> QED BY <1>5, <1>7

LEMMA Learned ==
  ASSUME NEW ts, NEW calls, IsSeq(calls)
  PROVE  /\ Known(calls, Learn(ts, calls))
         /\ \A cs : Known(cs, ts) => Known(cs, Learn(ts, calls))
<1> DEFINE tu == Learn(ts, calls)
           old(n) == IF n \in DOMAIN ts THEN ts[n] ELSE {}
<1>1. /\ DOMAIN tu = DOMAIN ts \cup {calls[i].name : i \in DOMAIN calls}
      /\ \A n \in DOMAIN tu : tu[n] = Merged(old(n), Latest(calls, n))
  BY DEF Learn
<1> HIDE DEF tu
<1>2. \A S, T : T \subseteq Merged(S, T) /\ \A p \in S : \E q \in Merged(S, T) : q[1] = p[1]
  BY DEF Merged
<1>3. Known(calls, tu)
  <2> SUFFICES ASSUME NEW i \in DOMAIN calls
               PROVE  /\ calls[i].name \in DOMAIN tu
                      /\ \A a \in calls[i].args : \E p \in tu[calls[i].name] : p[1] = a[1]
    BY DEF Known
  <2>1. calls[i].name \in DOMAIN tu
    BY <1>1
  <2>2. Latest(calls, calls[i].name) \subseteq tu[calls[i].name]
    BY <1>1, <1>2, <2>1
  <2> QED BY <2>1, <2>2, LatestHas
<1>4. ASSUME NEW cs, Known(cs, ts) PROVE Known(cs, tu)
  <2> SUFFICES ASSUME NEW n \in DOMAIN cs
               PROVE  /\ cs[n].name \in DOMAIN tu
                      /\ \A a \in cs[n].args : \E p \in tu[cs[n].name] : p[1] = a[1]
    BY DEF Known
  <2>1. cs[n].name \in DOMAIN ts /\ cs[n].name \in DOMAIN tu
    BY <1>1, <1>4 DEF Known
  <2>2. tu[cs[n].name] = Merged(ts[cs[n].name], Latest(calls, cs[n].name))
    BY <1>1, <2>1
  <2>3. ASSUME NEW a \in cs[n].args PROVE \E p \in tu[cs[n].name] : p[1] = a[1]
    <3>1. PICK p \in ts[cs[n].name] : p[1] = a[1]
      BY <1>4 DEF Known
    <3>2. PICK q \in tu[cs[n].name] : q[1] = p[1]
      BY <1>2, <2>2
    <3> QED BY <3>1, <3>2
  <2> QED BY <2>1, <2>3
<1> QED BY <1>3, <1>4 DEF tu

----------------------------------------------------------------------------
(* A turn of the assistant.                                                *)

LEMMA JoinedIs ==
  ASSUME NEW ms, IsSeq(ms), Alternate(ms), NEW ts, Taught(ms, ts),
         NEW size, NEW calls, IsSeq(calls), NEW mt,
         mt = Joined(ms, [role |-> "assistant", size |-> size, calls |-> calls])
  PROVE  /\ Grown(ms, mt) /\ Alternate(mt)
         /\ Len(mt) \in Nat \ {0} /\ mt[Len(mt)].role = "assistant"
         /\ \A i \in Len(ms) + 1 .. Len(mt) : i = Len(mt)
         /\ \A n \in DOMAIN calls : HasCall(mt[Len(mt)], calls[n].id)
         /\ Taught(mt, Learn(ts, calls))
<1> DEFINE m == Len(ms)
           entry == [role |-> "assistant", size |-> size, calls |-> calls]
           tu == Learn(ts, calls)
<1>1. m \in Nat /\ Known(calls, tu) /\ \A cs : Known(cs, ts) => Known(cs, tu)
  BY SeqIs, Learned
<1>2. m = 0 <=> ms = <<>>
  <2>1. \A S : \A s \in Seq(S) : s # <<>> => Len(s) \in Nat \ {0}
    BY EmptySeq
  <2>2. ms # <<>> => m \in Nat \ {0}
    BY <2>1 DEF IsSeq
  <2> QED BY <2>2, Empty
<1> HIDE DEF tu
<1>3. CASE m # 0 /\ ms[m].role = "assistant"
  <2> DEFINE front == SubSeq(ms, 1, m - 1)
             turn == [role |-> "assistant", size |-> ms[m].size + size, calls |-> ms[m].calls \o calls]
  <2>1. mt = Append(front, turn)
    BY <1>2, <1>3 DEF Joined, Front, Last
  <2>2. IsSeq(front) /\ Len(front) = m - 1 /\ \A i \in 1 .. m - 1 : front[i] = ms[i]
    <3>1. 1 \in Nat \ {0} /\ m - 1 \in 0 .. Len(ms) /\ 1 <= m - 1 + 1 /\ m - 1 - 1 + 1 = m - 1
      BY <1>1, <1>3
    <3>2. \A i \in 1 .. m - 1 : 1 + i - 1 = i
      OBVIOUS
    <3> HIDE DEF m
    <3> QED BY <3>1, <3>2, PartIs
  <2>3. IsSeq(ms[m].calls) /\ Known(ms[m].calls, ts)
    BY <1>1, <1>3 DEF Taught
  <2> DEFINE all == ms[m].calls \o calls
  <2>4. /\ IsSeq(all) /\ Len(all) = Len(ms[m].calls) + Len(calls)
        /\ \A i \in 1 .. Len(ms[m].calls) : all[i] = ms[m].calls[i]
        /\ \A i \in 1 .. Len(calls) : all[Len(ms[m].calls) + i] = calls[i]
    BY <2>3, Concatenated
  <2>5. turn.role = "assistant" /\ turn.calls = all
    OBVIOUS
  <2>6. /\ IsSeq(mt) /\ Len(mt) = m /\ mt[m] = turn /\ \A i \in 1 .. m - 1 : mt[i] = ms[i]
    <3> HIDE DEF front, turn
    <3> DEFINE app == Append(front, turn)
    <3>1. /\ IsSeq(app) /\ Len(app) = Len(front) + 1 /\ app[Len(front) + 1] = turn
          /\ \A i \in 1 .. Len(front) : app[i] = front[i]
      BY <2>2, Appended
    <3> HIDE DEF app
    <3>2. mt = app
      BY <2>1 DEF app
    <3>3. Len(front) + 1 = m
      BY <1>1, <2>2
    <3> QED BY <2>2, <3>1, <3>2, <3>3
  <2> HIDE DEF turn, all, front
  <2>7. /\ DOMAIN ms[m].calls = 1 .. Len(ms[m].calls) /\ DOMAIN calls = 1 .. Len(calls) /\ DOMAIN all = 1 .. Len(all)
        /\ Len(ms[m].calls) \in Nat /\ Len(calls) \in Nat
    BY <2>3, <2>4, SeqIs
  <2>8. /\ \A i \in DOMAIN ms[m].calls : i \in DOMAIN all /\ all[i] = ms[m].calls[i]
        /\ \A i \in DOMAIN calls : Len(ms[m].calls) + i \in DOMAIN all /\ all[Len(ms[m].calls) + i] = calls[i]
    BY <2>4, <2>7
  <2>9. Grown(ms, mt)
    <3>1. \A id : HasCall(ms[m], id) => HasCall(mt[m], id)
      BY <2>5, <2>6, <2>8 DEF HasCall
    <3>2. ASSUME NEW i \in 1 .. m
          PROVE  /\ mt[i].role = ms[i].role /\ (ms[i].role = "tool" => mt[i].call = ms[i].call)
                 /\ \A id : HasCall(ms[i], id) => HasCall(mt[i], id)
      <4>1. CASE i = m
        BY <1>3, <2>5, <2>6, <3>1, <4>1
      <4>2. CASE i # m
        <5>1. i \in 1 .. m - 1
          BY <1>1, <4>2
        <5>2. mt[i] = ms[i]
          BY <2>6, <5>1
        <5> QED BY <5>2
      <4> QED BY <4>1, <4>2
    <3>3. m <= Len(mt)
      BY <1>1, <2>6
    <3> QED BY <2>6, <3>2, <3>3 DEF Grown
  <2>10. Alternate(mt)
    <3> SUFFICES ASSUME NEW i \in 1 .. Len(mt) - 1 PROVE ~(mt[i].role = "assistant" /\ mt[i + 1].role = "assistant")
      BY DEF Alternate
    <3>1. i \in 1 .. m /\ i + 1 \in 1 .. m /\ i \in 1 .. Len(ms) - 1
      BY <1>1, <2>6
    <3> QED BY <2>9, <3>1 DEF Alternate, Grown
  <2>11. \A n \in DOMAIN calls : HasCall(mt[Len(mt)], calls[n].id)
    BY <2>5, <2>6, <2>8 DEF HasCall
  <2>12. Known(all, tu)
    <3>1. Known(ms[m].calls, tu)
      BY <1>1, <2>3
    <3> SUFFICES ASSUME NEW n \in 1 .. Len(all)
                 PROVE  /\ all[n].name \in DOMAIN tu
                        /\ \A a \in all[n].args : \E p \in tu[all[n].name] : p[1] = a[1]
      BY <2>7 DEF Known
    <3>2. CASE n <= Len(ms[m].calls)
      <4>1. n \in DOMAIN ms[m].calls /\ all[n] = ms[m].calls[n]
        BY <2>7, <2>8, <3>2
      <4> QED BY <3>1, <4>1 DEF Known
    <3>3. CASE ~(n <= Len(ms[m].calls))
      <4> DEFINE k == n - Len(ms[m].calls)
      <4>1. k \in DOMAIN calls /\ Len(ms[m].calls) + k = n
        BY <2>4, <2>7, <3>3
      <4>2. all[n] = calls[k]
        BY <2>8, <4>1
      <4> HIDE DEF k
      <4> QED BY <1>1, <4>1, <4>2 DEF Known
    <3> QED BY <3>2, <3>3
  <2>13. Taught(mt, tu)
    <3> SUFFICES ASSUME NEW i \in 1 .. m, mt[i].role = "assistant" PROVE IsSeq(mt[i].calls) /\ Known(mt[i].calls, tu)
      BY <2>6 DEF Taught
    <3>1. CASE i = m
      BY <2>4, <2>5, <2>6, <2>12, <3>1
    <3>2. CASE i # m
      <4>1. i \in 1 .. m - 1
        BY <1>1, <3>2
      <4>2. mt[i] = ms[i]
        BY <2>6, <4>1
      <4> QED BY <1>1, <4>2 DEF Taught
    <3> QED BY <3>1, <3>2
  <2>14. Len(mt) \in Nat \ {0} /\ mt[Len(mt)].role = "assistant" /\ \A i \in m + 1 .. Len(mt) : i = Len(mt)
    BY <1>1, <1>3, <2>5, <2>6
  <2> QED BY <2>9, <2>10, <2>11, <2>13, <2>14 DEF tu
<1>4. CASE ~(m # 0 /\ ms[m].role = "assistant")
  <2>1. mt = Append(ms, entry)
    BY <1>2, <1>4 DEF Joined, Last
  <2>2. entry.role = "assistant" /\ entry.calls = calls
    OBVIOUS
  <2> HIDE DEF entry
  <2>3. /\ IsSeq(mt) /\ Len(mt) = m + 1 /\ mt[m + 1] = entry /\ \A i \in 1 .. m : mt[i] = ms[i]
    <3> DEFINE app == Append(ms, entry)
    <3>1. /\ IsSeq(app) /\ Len(app) = m + 1 /\ app[m + 1] = entry
          /\ \A i \in 1 .. m : app[i] = ms[i]
      BY Appended
    <3> HIDE DEF app
    <3>2. mt = app
      BY <2>1 DEF app
    <3> QED BY <3>1, <3>2
  <2>4. Grown(ms, mt)
    <3>1. m <= Len(mt)
      BY <1>1, <2>3
    <3> QED BY <2>3, <3>1 DEF Grown
  <2>5. Alternate(mt)
    <3> SUFFICES ASSUME NEW i \in 1 .. Len(mt) - 1 PROVE ~(mt[i].role = "assistant" /\ mt[i + 1].role = "assistant")
      BY DEF Alternate
    <3>1. i \in 1 .. m
      BY <1>1, <2>3
    <3>2. CASE i = m
      BY <1>4, <2>3, <3>1, <3>2
    <3>3. CASE i # m
      <4>1. i \in 1 .. m - 1 /\ i + 1 \in 1 .. m
        BY <1>1, <3>1, <3>3
      <4> QED BY <2>3, <3>1, <4>1 DEF Alternate
    <3> QED BY <3>2, <3>3
  <2>6. \A n \in DOMAIN calls : HasCall(mt[Len(mt)], calls[n].id)
    BY <2>2, <2>3 DEF HasCall
  <2>7. Taught(mt, tu)
    <3> SUFFICES ASSUME NEW i \in 1 .. m + 1, mt[i].role = "assistant" PROVE IsSeq(mt[i].calls) /\ Known(mt[i].calls, tu)
      BY <2>3 DEF Taught
    <3>1. CASE i = m + 1
      BY <1>1, <2>2, <2>3, <3>1
    <3>2. CASE i # m + 1
      <4>1. i \in 1 .. m
        BY <1>1, <3>2
      <4>2. mt[i] = ms[i]
        BY <2>3, <4>1
      <4> QED BY <1>1, <4>1, <4>2 DEF Taught
    <3> QED BY <3>1, <3>2
  <2>8. Len(mt) \in Nat \ {0} /\ mt[Len(mt)].role = "assistant" /\ \A i \in m + 1 .. Len(mt) : i = Len(mt)
    BY <1>1, <2>2, <2>3
  <2> QED BY <2>4, <2>5, <2>6, <2>7, <2>8 DEF tu
<1> QED BY <1>3, <1>4

----------------------------------------------------------------------------
(* A sample.                                                               *)

\* A context is the messages from a turn of the user to the one before i.
StartsAt(c, ms, k, i) ==
  /\ ms[k].role = "user" /\ IsSeq(c) /\ Len(c) = i - k
  /\ \A j \in 1 .. i - k : c[j] = ms[k + j - 1]

LEMMA ContextIs ==
  ASSUME NEW ms, IsSeq(ms), NEW i \in 1 .. Len(ms), NEW ctx, ctx = SubSeq(ms, 1, i - 1), Trimmed(ctx) # <<>>
  PROVE  /\ Chars(Trimmed(ctx)) <= MaxChars
         /\ \E k \in 1 .. i - 1 : StartsAt(Trimmed(ctx), ms, k, i)
<1>1. Len(ms) \in Nat /\ i - 1 \in 0 .. Len(ms) /\ 1 <= i - 1 + 1 /\ i - 1 - 1 + 1 = i - 1 /\ \A j : j \in Nat => 1 + j - 1 = j
  BY SeqIs
<1>2. IsSeq(ctx) /\ Len(ctx) = i - 1 /\ \A j \in 1 .. i - 1 : ctx[j] = ms[j]
  <2>1. /\ IsSeq(SubSeq(ms, 1, i - 1)) /\ Len(SubSeq(ms, 1, i - 1)) = i - 1 - 1 + 1
        /\ \A j \in 1 .. i - 1 - 1 + 1 : SubSeq(ms, 1, i - 1)[j] = ms[1 + j - 1]
    BY <1>1, PartIs
  <2>2. \A j \in 1 .. i - 1 : j \in Nat
    OBVIOUS
  <2> QED BY <1>1, <2>1, <2>2
<1> DEFINE fits == {k \in 1 .. Len(ctx) : Chars(From(ctx, k)) <= MaxChars /\ ctx[k].role = "user"}
<1>3. fits # {} /\ Trimmed(ctx) = From(ctx, Min(fits))
  BY DEF Trimmed
<1>4. Min(fits) \in fits
  <2>1. fits \in SUBSET Nat
    BY <1>1, <1>2
  <2> HIDE DEF fits
  <2>2. \E m \in fits : \A k \in fits : m <= k
    BY <1>3, <2>1, LeastOf
  <2> QED BY <2>2 DEF Min
<1> DEFINE k == Min(fits)
<1>5. k \in 1 .. i - 1 /\ Chars(From(ctx, k)) <= MaxChars /\ ctx[k].role = "user"
  BY <1>2, <1>4
<1> HIDE DEF k, fits
<1>6. Trimmed(ctx) = SubSeq(ctx, k, i - 1) /\ Trimmed(ctx) = From(ctx, k)
  BY <1>2, <1>3 DEF k, From
<1>7. /\ IsSeq(SubSeq(ctx, k, i - 1)) /\ Len(SubSeq(ctx, k, i - 1)) = i - 1 - k + 1
      /\ \A j \in 1 .. i - 1 - k + 1 : SubSeq(ctx, k, i - 1)[j] = ctx[k + j - 1]
  <2>1. k \in Nat \ {0} /\ i - 1 \in 0 .. Len(ctx) /\ k <= i - 1 + 1
    BY <1>1, <1>2, <1>5
  <2> QED BY <1>2, <2>1, PartIs
<1>8. i - 1 - k + 1 = i - k /\ \A j \in 1 .. i - k : k + j - 1 \in 1 .. i - 1
  BY <1>1, <1>5
<1>9. ms[k].role = "user" /\ \A j \in 1 .. i - k : Trimmed(ctx)[j] = ms[k + j - 1]
  BY <1>2, <1>5, <1>6, <1>7, <1>8
<1>10. StartsAt(Trimmed(ctx), ms, k, i)
  BY <1>6, <1>7, <1>8, <1>9 DEF StartsAt
<1> QED BY <1>5, <1>6, <1>10

LEMMA SampleAskable ==
  ASSUME IsSeq(msgs), Alternate(msgs), ResultsFollow(msgs), Taught(msgs, tools),
         NEW i \in 1 .. Len(msgs), Sampled(i), NEW sid
  PROVE  Askable(Sample(sid, i))
<1> DEFINE ctx == SubSeq(msgs, 1, i - 1)
           c == Trimmed(ctx)
<1>1. Sample(sid, i).conversations = c /\ Sample(sid, i).tools = tools
  BY DEF Sample
<1>2. Len(msgs) \in Nat /\ i > 1 /\ msgs[i - 1].role \in {"user", "tool"} /\ c # <<>>
  BY SeqIs DEF Sampled
<1> HIDE DEF ctx
<1>4. Chars(c) <= MaxChars /\ \E k \in 1 .. i - 1 : StartsAt(c, msgs, k, i)
  <2>1. ctx = SubSeq(msgs, 1, i - 1)
    BY DEF ctx
  <2> QED BY <1>2, <2>1, ContextIs
<1>a. PICK k \in 1 .. i - 1 : StartsAt(c, msgs, k, i)
  BY <1>4
<1>3. msgs[k].role = "user" /\ IsSeq(c) /\ Len(c) = i - k /\ \A j \in 1 .. i - k : c[j] = msgs[k + j - 1]
  BY <1>a DEF StartsAt
<1> HIDE DEF c
<1>5. DOMAIN c = 1 .. i - k
  BY <1>3, SeqIs
<1>6. c[1].role = "user" /\ Last(c).role \in {"user", "tool"}
  <2>1. 1 \in 1 .. i - k /\ i - k \in 1 .. i - k /\ k + 1 - 1 = k /\ k + (i - k) - 1 = i - 1
    BY <1>2, <1>3
  <2>2. c[1] = msgs[k] /\ c[i - k] = msgs[i - 1]
    BY <1>3, <2>1
  <2> QED BY <1>2, <1>3, <2>2 DEF Last
<1>7. \A j \in 1 .. Len(c) - 1 : ~(c[j].role = "assistant" /\ c[j + 1].role = "assistant")
  <2> SUFFICES ASSUME NEW j \in 1 .. i - k - 1 PROVE ~(c[j].role = "assistant" /\ c[j + 1].role = "assistant")
    BY <1>3
  <2>1. /\ j \in 1 .. i - k /\ j + 1 \in 1 .. i - k
        /\ k + j - 1 \in 1 .. Len(msgs) - 1 /\ k + (j + 1) - 1 = k + j - 1 + 1
    BY <1>2, <1>3
  <2>2. c[j] = msgs[k + j - 1] /\ c[j + 1] = msgs[k + j - 1 + 1]
    BY <1>3, <2>1
  <2> QED BY <2>1, <2>2 DEF Alternate
<1>8. ASSUME NEW j \in 1 .. i - k, c[j].role = "tool"
      PROVE  \E p \in 1 .. j - 1 : c[p].role = "assistant" /\ \E n \in DOMAIN c[p].calls : c[p].calls[n].id = c[j].call
  <2> DEFINE a == k + j - 1
  <2>1. a \in 1 .. Len(msgs) /\ c[j] = msgs[a] /\ k <= a /\ a \in Nat /\ k \in Nat
    BY <1>2, <1>3
  <2>2. PICK q \in 1 .. a - 1 : HasCall(msgs[q], msgs[a].call) /\ \A m \in q + 1 .. a - 1 : msgs[m].role # "user"
    BY <1>8, <2>1 DEF ResultsFollow
  <2>3. k # a
    BY <1>3, <1>8, <2>1
  <2>4. k <= q
    <3> SUFFICES ASSUME q < k PROVE FALSE
      BY <2>1
    <3>1. k \in q + 1 .. a - 1
      BY <2>1, <2>3
    <3> QED BY <1>3, <2>2, <3>1
  <2> DEFINE p == q - k + 1
  <2>5. p \in 1 .. j - 1 /\ p \in 1 .. i - k /\ k + p - 1 = q
    BY <1>2, <1>3, <2>1, <2>4
  <2>6. c[p] = msgs[q]
    BY <1>3, <2>5
  <2> HIDE DEF p, a
  <2> QED BY <2>1, <2>2, <2>5, <2>6 DEF HasCall
<1>9. ASSUME NEW j \in 1 .. i - k, c[j].role = "assistant" PROVE Known(c[j].calls, tools)
  <2>1. k + j - 1 \in 1 .. Len(msgs) /\ c[j] = msgs[k + j - 1]
    BY <1>2, <1>3
  <2> QED BY <1>9, <2>1 DEF Taught
<1> DEFINE r == Sample(sid, i)
<1> HIDE DEF r
<1>10. Askable(r)
  <2>1. r.conversations = c /\ r.tools = tools
    BY <1>1 DEF r
  <2>2. c # <<>>
    BY <1>2 DEF c
  <2> QED BY <1>4, <1>5, <1>6, <1>7, <1>8, <1>9, <2>1, <2>2 DEF Askable, Known
<1> QED BY <1>10 DEF r

----------------------------------------------------------------------------
(* Joining a list of lists.                                                *)

Flattens(f, ss, n, A) ==
  f \in [1 .. n -> Seq(A)] /\ f[1] = ss[1] /\ \A i \in 1 .. n : i < n => f[i + 1] = f[i] \o ss[i + 1]

LEMMA FlatExists ==
  ASSUME NEW A, NEW ss, NEW n \in Nat \ {0}, \A i \in 1 .. n : ss[i] \in Seq(A)
  PROVE  \E f : Flattens(f, ss, n, A)
<1> DEFINE N == {k \in Nat : k + 1 <= n => \E f : Flattens(f, ss, k + 1, A)}
<1>1. 0 \in N
  <2> DEFINE f == [i \in 1 .. 1 |-> ss[1]]
  <2>1. ss[1] \in Seq(A)
    OBVIOUS
  <2>2. f \in [1 .. 1 -> Seq(A)] /\ f[1] = ss[1]
    BY <2>1
  <2> HIDE DEF f
  <2>3. Flattens(f, ss, 1, A)
    BY <2>2 DEF Flattens
  <2> QED BY <2>3
<1>2. ASSUME NEW k \in N PROVE k + 1 \in N
  <2> SUFFICES ASSUME k + 1 + 1 <= n PROVE \E f : Flattens(f, ss, k + 1 + 1, A)
    OBVIOUS
  <2>1. k \in Nat /\ k + 1 <= n /\ k + 1 + 1 \in 1 .. n /\ k + 1 \in Nat
    OBVIOUS
  <2>2. PICK f : Flattens(f, ss, k + 1, A)
    BY <2>1
  <2> DEFINE m == k + 1
             next == f[m] \o ss[m + 1]
             g == [i \in 1 .. m + 1 |-> IF i = m + 1 THEN next ELSE f[i]]
  <2>3. f \in [1 .. m -> Seq(A)] /\ f[1] = ss[1] /\ \A i \in 1 .. m : i < m => f[i + 1] = f[i] \o ss[i + 1]
    BY <2>2 DEF Flattens
  <2>4. m \in Nat \ {0} /\ m \in 1 .. m /\ m + 1 \in 1 .. n
    BY <2>1
  <2> HIDE DEF m
  <2>5. next \in Seq(A)
    <3>1. f[m] \in Seq(A) /\ ss[m + 1] \in Seq(A)
      BY <2>3, <2>4
    <3> QED BY <3>1, ConcatProperties
  <2>6. \A i \in 1 .. m : i \in 1 .. m + 1 /\ i # m + 1 /\ f[i] \in Seq(A)
    BY <2>3, <2>4
  <2> HIDE DEF next
  <2>7. g[m + 1] = next /\ \A i \in 1 .. m : g[i] = f[i]
    BY <2>4, <2>6
  <2>8. g \in [1 .. m + 1 -> Seq(A)]
    BY <2>4, <2>5, <2>6
  <2> HIDE DEF g
  <2>9. \A i \in 1 .. m + 1 : i < m + 1 => g[i + 1] = g[i] \o ss[i + 1]
    <3> SUFFICES ASSUME NEW i \in 1 .. m + 1, i < m + 1 PROVE g[i + 1] = g[i] \o ss[i + 1]
      OBVIOUS
    <3>1. CASE i = m
      BY <2>4, <2>7, <3>1 DEF next
    <3>2. CASE i # m
      <4>1. i \in 1 .. m /\ i < m /\ i + 1 \in 1 .. m
        BY <2>4, <3>2
      <4> QED BY <2>3, <2>7, <4>1
    <3> QED BY <3>1, <3>2
  <2>10. g[1] = ss[1]
    <3>1. 1 \in 1 .. m
      BY <2>4
    <3> QED BY <2>3, <2>7, <3>1
  <2>11. Flattens(g, ss, m + 1, A)
    BY <2>8, <2>9, <2>10 DEF Flattens
  <2> QED BY <2>11 DEF m
<1>3. N = Nat
  <2>1. N \in SUBSET Nat
    OBVIOUS
  <2> HIDE DEF N
  <2> QED BY <1>1, <1>2, <2>1, AllNat
<1>4. n - 1 \in N /\ n - 1 + 1 = n
  <2>1. n - 1 \in Nat /\ n - 1 + 1 = n
    OBVIOUS
  <2> HIDE DEF N
  <2> QED BY <1>3, <2>1
<1> QED BY <1>4

LEMMA FlatIs ==
  ASSUME NEW A, NEW ss, IsSeq(ss), \A i \in 1 .. Len(ss) : ss[i] \in Seq(A)
  PROVE  FlattenSeq(ss) \in Seq(A)
<1> DEFINE n == Len(ss)
           Def(f) == f = [i \in 1 .. n |-> IF i = 1 THEN ss[i] ELSE f[i - 1] \o ss[i]]
           f0 == CHOOSE f : Def(f)
<1>1. n \in Nat /\ DOMAIN ss = 1 .. n /\ ss \in [1 .. n -> {ss[i] : i \in DOMAIN ss}]
  BY SeqIs
<1>2. CASE n = 0
  <2>1. FlattenSeq(ss) = ss
    BY <1>2 DEF FlattenSeq
  <2>2. ss = <<>>
    <3>1. \A S : \A s \in Seq(S) : s # <<>> => Len(s) \in Nat \ {0}
      BY EmptySeq
    <3> QED BY <1>2, <3>1 DEF IsSeq
  <2> QED BY <2>1, <2>2, EmptySeq
<1>3. CASE n # 0
  <2>1. FlattenSeq(ss) = f0[n]
    BY <1>3 DEF FlattenSeq
  <2>2. PICK f : Flattens(f, ss, n, A)
    <3>1. n \in Nat \ {0}
      BY <1>1, <1>3
    <3> HIDE DEF n
    <3>2. \A i \in 1 .. n : ss[i] \in Seq(A)
      BY DEF n
    <3> QED BY <3>1, <3>2, FlatExists
  <2>3. Def(f)
    <3>1. f = [i \in 1 .. n |-> f[i]] /\ f[1] = ss[1]
      BY <2>2 DEF Flattens
    <3>2. ASSUME NEW i \in 1 .. n, i # 1 PROVE f[i] = f[i - 1] \o ss[i]
      <4>1. i - 1 \in 1 .. n /\ i - 1 < n /\ i - 1 + 1 = i
        BY <1>1, <3>2
      <4> QED BY <2>2, <4>1 DEF Flattens
    <3> QED BY <3>1, <3>2
  <2>4. Def(f0)
    <3> HIDE DEF Def
    <3> QED BY <2>3, Zenon
  <2> DEFINE V(g, i) == IF i = 1 THEN ss[i] ELSE g[i - 1] \o ss[i]
  <2>5. f0 = [i \in 1 .. n |-> V(f0, i)]
    <3> HIDE DEF f0
    <3> QED BY <2>4
  <2> HIDE DEF f0, V
  <2>6. \A i \in 1 .. n : f0[i] = V(f0, i)
    BY <2>5
  <2> DEFINE N == {k \in Nat : k + 1 <= n => f0[k + 1] \in Seq(A)}
  <2>7. 0 \in N
    <3>1. 1 \in 1 .. n
      BY <1>1, <1>3
    <3>2. f0[1] = ss[1] /\ ss[1] \in Seq(A)
      BY <2>6, <3>1 DEF V
    <3> QED BY <3>2
  <2>8. ASSUME NEW k \in N PROVE k + 1 \in N
    <3> SUFFICES ASSUME k + 1 + 1 <= n PROVE f0[k + 1 + 1] \in Seq(A)
      OBVIOUS
    <3> DEFINE j == k + 1 + 1
    <3>1. j \in 1 .. n /\ j # 1 /\ j - 1 = k + 1 /\ k + 1 <= n
      BY <1>1
    <3> HIDE DEF j
    <3>2. f0[j - 1] \in Seq(A) /\ ss[j] \in Seq(A)
      BY <3>1
    <3>3. V(f0, j) = f0[j - 1] \o ss[j]
      BY <3>1 DEF V
    <3>4. f0[j] \in Seq(A)
      <4>1. f0[j] = f0[j - 1] \o ss[j]
        BY <2>6, <3>1, <3>3
      <4> QED BY <3>2, <4>1, ConcatProperties
    <3> QED BY <3>4 DEF j
  <2>9. N = Nat
    <3>1. N \in SUBSET Nat
      OBVIOUS
    <3> HIDE DEF N
    <3> QED BY <2>7, <2>8, <3>1, AllNat
  <2>10. n - 1 \in N /\ n - 1 + 1 = n
    <3>1. n - 1 \in Nat /\ n - 1 + 1 = n
      BY <1>1, <1>3
    <3> HIDE DEF N
    <3> QED BY <2>9, <3>1
  <2>11. f0[n] \in Seq(A)
    BY <2>10
  <2> QED BY <2>1, <2>11
<1> QED BY <1>2, <1>3

LEMMA SameLength ==
  ASSUME NEW a \in Nat, NEW b \in Nat, 1 .. a = 1 .. b
  PROVE  a = b
<1>1. a <= b
  <2>1. CASE a # 0
    <3>1. a \in 1 .. a
      BY <2>1
    <3> QED BY <3>1
  <2> QED BY <2>1
<1>2. b <= a
  <2>1. CASE b # 0
    <3>1. b \in 1 .. b
      BY <2>1
    <3> QED BY <3>1
  <2> QED BY <2>1
<1> QED BY <1>1, <1>2

LEMMA WindowsAskable ==
  ASSUME IsSeq(msgs), Alternate(msgs), ResultsFollow(msgs), Taught(msgs, tools), NEW sid
  PROVE  IsSeq(Windows(sid)) /\ \A k \in 1 .. Len(Windows(sid)) : Askable(Windows(sid)[k])
<1> DEFINE A == {Sample(sid, i) : i \in {j \in DOMAIN msgs : Sampled(j)}}
           cut(i) == IF Sampled(i) THEN <<Sample(sid, i)>> ELSE <<>>
           ss == [i \in DOMAIN msgs |-> cut(i)]
<1>1. Len(msgs) \in Nat /\ DOMAIN msgs = 1 .. Len(msgs)
  BY SeqIs
<1>2. \A a \in A : Askable(a)
  BY <1>1, SampleAskable
<1>3. ASSUME NEW i \in 1 .. Len(msgs) PROVE cut(i) \in Seq(A)
  <2>1. CASE Sampled(i)
    <3>1. Sample(sid, i) \in A
      BY <1>1, <2>1
    <3> HIDE DEF A
    <3>2. <<Sample(sid, i)>> \in Seq(A)
      BY <3>1
    <3> QED BY <2>1, <3>2
  <2>2. CASE ~Sampled(i)
    <3> HIDE DEF A
    <3> QED BY <2>2, EmptySeq
  <2> QED BY <2>1, <2>2
<1> HIDE DEF A, cut
<1>4. ss \in [1 .. Len(msgs) -> Seq(A)] /\ \A i \in 1 .. Len(msgs) : ss[i] = cut(i)
  BY <1>1, <1>3
<1>5. ss \in Seq(Seq(A)) /\ Len(ss) = Len(msgs)
  <2> HIDE DEF ss
  <2>1. ss \in UNION {[1 .. n -> Seq(A)] : n \in Nat}
    BY <1>1, <1>4
  <2>2. ss \in Seq(Seq(A))
    BY <2>1, SeqDef
  <2>3. DOMAIN ss = 1 .. Len(ss) /\ Len(ss) \in Nat
    BY <2>2, LenProperties
  <2>4. DOMAIN ss = 1 .. Len(msgs)
    BY <1>4
  <2>5. Len(ss) = Len(msgs)
    BY <1>1, <2>3, <2>4, SameLength
  <2> QED BY <2>2, <2>5
<1>6. Windows(sid) = FlattenSeq(ss)
  BY DEF Windows, cut
<1> HIDE DEF ss
<1>7. IsSeq(ss) /\ \A i \in 1 .. Len(ss) : ss[i] \in Seq(A)
  BY <1>3, <1>4, <1>5, AnySeq
<1>8. FlattenSeq(ss) \in Seq(A)
  BY <1>7, FlatIs
<1>9. Windows(sid) \in Seq(A)
  BY <1>6, <1>8
<1>10. \A k \in 1 .. Len(Windows(sid)) : Windows(sid)[k] \in A
  BY <1>9, ElementOfSeq
<1> QED BY <1>2, <1>9, <1>10, AnySeq

----------------------------------------------------------------------------
(* The steps of the miner.                                                 *)

\* The line that is read, and what is assumed of it.
LEMMA LineIs ==
  ASSUME MineInv, Reading
  PROVE  /\ file \in DOMAIN sessions /\ line \in DOMAIN sessions[file].lines
         /\ line - 1 \in Nat /\ Heard(msgs, sessions[file].lines, line - 1)
         /\ Here.type \in {"other", "user", "results", "assistant"}
         /\ Here.type = "assistant" => IsSeq(Here.calls)
         /\ Here.type = "results" => IsSeq(Here.results)
         /\ Here.type = "results" => \A r \in DOMAIN Here.results :
              \E k \in 1 .. line - 1 : /\ Calls(sessions[file].lines[k], Here.results[r].call)
                                       /\ \A j \in k + 1 .. line - 1 : ~IsTurn(sessions[file].lines[j])
<1> DEFINE lines == sessions[file].lines
<1>1. sessions \in Sessions /\ file \in Nat \ {0} /\ line \in Nat \ {0} /\ file <= Len(sessions) /\ line <= Len(lines)
      /\ Heard(msgs, lines, line - 1)
  BY DEF MineInv, Reading
<1>2. \A f \in DOMAIN sessions : IsSeq(sessions) /\ IsSeq(sessions[f].lines)
  BY <1>1, TranscriptAssumption
<1>3. IsSeq(sessions)
  <2>1. CASE DOMAIN sessions # {}
    BY <1>2, <2>1
  <2>2. CASE DOMAIN sessions = {}
    BY <1>1, <2>2, TranscriptAssumption
  <2> QED BY <2>1, <2>2
<1>4. file \in DOMAIN sessions
  BY <1>1, <1>3, SeqIs
<1>5. IsSeq(lines)
  BY <1>2, <1>4
<1>6. line \in DOMAIN lines
  <2>1. DOMAIN lines = 1 .. Len(lines) /\ Len(lines) \in Nat
    BY <1>5, SeqIs
  <2> HIDE DEF lines
  <2> QED BY <1>1, <2>1
<1>7. line - 1 \in Nat
  BY <1>1
<1> QED BY <1>1, <1>4, <1>6, <1>7, TranscriptAssumption DEF Here

\* What a line must have done.
LEMMA LineDone ==
  ASSUME MineInv, Reading, NextLine, Grown(msgs, msgs'),
         Alternate(msgs'), Taught(msgs', tools'),
         \A i \in Len(msgs) + 1 .. Len(msgs') : Asked(msgs', i),
         IsTurn(Here) \/ \A i \in Len(msgs) + 1 .. Len(msgs') : msgs'[i].role # "user",
         \A id : Calls(Here, id) =>
           \E i \in 1 .. Len(msgs') : HasCall(msgs'[i], id) /\ \A j \in i + 1 .. Len(msgs') : msgs'[j].role # "user"
  PROVE  MineInv'
<1>1. /\ sessions' = sessions /\ file' = file /\ rows' = rows /\ line' = line + 1
      /\ line \in Nat \ {0} /\ line' \in Nat \ {0} /\ line' - 1 = line
  BY DEF NextLine, MineInv
<1>2. IsSeq(msgs') /\ ResultsFollow(msgs')
  BY ResultsStill DEF Grown, MineInv
<1>3. Heard(msgs', sessions[file].lines, line)
  <2>1. Heard(msgs, sessions[file].lines, line - 1)
    BY LineIs
  <2> QED BY <1>1, <2>1, HeardStill DEF Here
<1>4. (Heard(msgs, sessions[file].lines, line - 1))'
  BY <1>1, <1>3
<1>5. sessions' \in Sessions /\ file' \in Nat \ {0} /\ IsSeq(rows') /\ \A n \in 1 .. Len(rows') : Askable(rows'[n])
  BY <1>1 DEF MineInv
<1> QED BY <1>1, <1>2, <1>4, <1>5 DEF MineInv

LEMMA GrownByNone ==
  ASSUME NEW ms, IsSeq(ms)
  PROVE  Grown(ms, ms) /\ \A i : i \notin Len(ms) + 1 .. Len(ms)
<1>1. Len(ms) \in Nat
  BY SeqIs
<1> QED BY <1>1 DEF Grown

LEMMA SkipStep ==
  ASSUME MineInv, SkipLine
  PROVE  MineInv'
<1>1. Reading /\ NextLine /\ msgs' = msgs /\ tools' = tools /\ Unused(Here)
  BY DEF SkipLine
<1>2. IsSeq(msgs) /\ Alternate(msgs) /\ Taught(msgs, tools)
  BY DEF MineInv
<1>3. Grown(msgs, msgs') /\ \A i : i \notin Len(msgs) + 1 .. Len(msgs')
  BY <1>1, <1>2, GrownByNone
<1>4. \A id : ~Calls(Here, id)
  BY <1>1 DEF Unused, Calls
<1>5. Alternate(msgs') /\ Taught(msgs', tools')
  BY <1>1, <1>2
<1> QED BY <1>1, <1>3, <1>4, <1>5, LineDone

\* Messages that are not the assistant's, appended.
LEMMA OthersAppended ==
  ASSUME NEW ms, NEW ts, Alternate(ms), Taught(ms, ts), NEW mt, Grown(ms, mt),
         \A i \in 1 .. Len(ms) : mt[i] = ms[i],
         \A i \in Len(ms) + 1 .. Len(mt) : mt[i].role # "assistant"
  PROVE  Alternate(mt) /\ Taught(mt, ts)
<1>1. Len(ms) \in Nat /\ Len(mt) \in Nat /\ Len(ms) <= Len(mt)
  BY SeqIs DEF Grown
<1>2. \A i \in 1 .. Len(mt) : i \in 1 .. Len(ms) \/ i \in Len(ms) + 1 .. Len(mt)
  BY <1>1
<1>3. Taught(mt, ts)
  BY <1>2 DEF Taught
<1>4. Alternate(mt)
  <2> SUFFICES ASSUME NEW i \in 1 .. Len(mt) - 1, mt[i].role = "assistant", mt[i + 1].role = "assistant" PROVE FALSE
    BY DEF Alternate
  <2>1. i \in 1 .. Len(mt) /\ i + 1 \in 1 .. Len(mt)
    BY <1>1
  <2>2. i \in 1 .. Len(ms) /\ i + 1 \in 1 .. Len(ms)
    BY <1>2, <2>1
  <2>3. i \in 1 .. Len(ms) - 1
    BY <1>1, <2>2
  <2> QED BY <2>2, <2>3 DEF Alternate
<1> QED BY <1>3, <1>4

LEMMA UserStep ==
  ASSUME MineInv, UserLine
  PROVE  MineInv'
<1> DEFINE m == [role |-> "user", size |-> Here.size]
           mt == Append(msgs, m)
<1>1. Reading /\ NextLine /\ msgs' = mt /\ tools' = tools /\ IsTurn(Here)
  BY DEF UserLine
<1>2. IsSeq(msgs) /\ Alternate(msgs) /\ Taught(msgs, tools) /\ Len(msgs) \in Nat
  BY SeqIs DEF MineInv
<1>3. m.role = "user"
  OBVIOUS
<1> HIDE DEF m
<1>4. IsSeq(mt) /\ Len(mt) = Len(msgs) + 1 /\ mt[Len(msgs) + 1] = m /\ \A i \in 1 .. Len(msgs) : mt[i] = msgs[i]
  BY <1>2, Appended
<1> HIDE DEF mt
<1>5. \A i \in Len(msgs) + 1 .. Len(mt) : mt[i].role = "user"
  <2> TAKE i \in Len(msgs) + 1 .. Len(mt)
  <2>1. i = Len(msgs) + 1
    BY <1>2, <1>4
  <2> QED BY <1>3, <1>4, <2>1
<1>6. Grown(msgs, mt)
  <2>1. Len(msgs) <= Len(mt)
    BY <1>2, <1>4
  <2> QED BY <1>2, <1>4, <2>1 DEF Grown
<1>7. Alternate(mt) /\ Taught(mt, tools)
  <2>1. \A i \in Len(msgs) + 1 .. Len(mt) : mt[i].role # "assistant"
    BY <1>5
  <2> QED BY <1>2, <1>4, <1>6, <2>1, OthersAppended
<1>8. \A i \in Len(msgs) + 1 .. Len(mt) : Asked(mt, i)
  BY <1>5 DEF Asked
<1>9. \A id : ~Calls(Here, id)
  BY <1>1 DEF IsTurn, Calls
<1> QED BY <1>1, <1>6, <1>7, <1>8, <1>9, LineDone

LEMMA ResultStep ==
  ASSUME MineInv, ResultLine
  PROVE  MineInv'
<1> DEFINE res == Here.results
           new == [i \in DOMAIN res |-> [role |-> "tool", size |-> Cut(res[i].size), call |-> res[i].call]]
           mt == msgs \o new
           lines == sessions[file].lines
<1>1. Reading /\ NextLine /\ msgs' = mt /\ tools' = tools /\ Here.type = "results"
  BY DEF ResultLine
<1>2. IsSeq(msgs) /\ Alternate(msgs) /\ Taught(msgs, tools) /\ Len(msgs) \in Nat
  BY SeqIs DEF MineInv
<1>3. /\ IsSeq(res) /\ Heard(msgs, lines, line - 1)
      /\ \A r \in DOMAIN res : \E k \in 1 .. line - 1 : /\ Calls(lines[k], res[r].call)
                                                        /\ \A j \in k + 1 .. line - 1 : ~IsTurn(lines[j])
  BY <1>1, LineIs
<1>4. /\ IsSeq(new) /\ Len(new) = Len(res) /\ Len(res) \in Nat /\ DOMAIN res = 1 .. Len(res)
      /\ \A i \in 1 .. Len(res) : new[i].role = "tool" /\ new[i].call = res[i].call
  <2>1. Len(res) \in Nat /\ DOMAIN res = 1 .. Len(res)
    BY <1>3, SeqIs
  <2>2. \A i \in 1 .. Len(res) : new[i].role = "tool" /\ new[i].call = res[i].call
    BY <2>1
  <2> DEFINE S == {new[i] : i \in 1 .. Len(res)}
             n == Len(res)
  <2>3. new \in [1 .. n -> S]
    BY <2>1
  <2> HIDE DEF S, n, new
  <2>4. new \in UNION {[1 .. k -> S] : k \in Nat}
    BY <2>1, <2>3 DEF n
  <2>5. new \in Seq(S)
    BY <2>4, SeqDef
  <2>6. DOMAIN new = 1 .. Len(new) /\ Len(new) \in Nat
    BY <2>5, LenProperties
  <2>7. DOMAIN new = 1 .. n
    BY <2>3
  <2>8. Len(new) = n
    BY <2>1, <2>6, <2>7, SameLength DEF n
  <2> QED BY <2>1, <2>2, <2>5, <2>8, AnySeq DEF n
<1> HIDE DEF new, res
<1>5. /\ IsSeq(mt) /\ Len(mt) = Len(msgs) + Len(res) /\ \A i \in 1 .. Len(msgs) : mt[i] = msgs[i]
      /\ \A i \in 1 .. Len(res) : mt[Len(msgs) + i] = new[i]
  <2>1. IsSeq(msgs) /\ IsSeq(new)
    BY <1>2, <1>4
  <2>2. /\ IsSeq(mt) /\ Len(mt) = Len(msgs) + Len(new)
        /\ \A i \in 1 .. Len(msgs) : mt[i] = msgs[i]
        /\ \A i \in 1 .. Len(new) : mt[Len(msgs) + i] = new[i]
    BY <2>1, Concatenated
  <2> HIDE DEF mt
  <2>3. Len(new) = Len(res)
    BY <1>4
  <2> QED BY <2>2, <2>3
<1> HIDE DEF mt
<1>6. \A i \in Len(msgs) + 1 .. Len(mt) : mt[i].role = "tool" /\ \E r \in DOMAIN res : mt[i].call = res[r].call
  <2> TAKE i \in Len(msgs) + 1 .. Len(mt)
  <2> DEFINE r == i - Len(msgs)
  <2>1. r \in 1 .. Len(res) /\ Len(msgs) + r = i
    BY <1>2, <1>4, <1>5
  <2> HIDE DEF r
  <2>2. mt[i] = new[r]
    BY <1>5, <2>1
  <2> QED BY <1>4, <2>1, <2>2
<1>7. Grown(msgs, mt)
  <2>1. Len(msgs) <= Len(mt)
    BY <1>2, <1>4, <1>5
  <2> QED BY <1>2, <1>5, <2>1 DEF Grown
<1>8. Alternate(mt) /\ Taught(mt, tools)
  <2>1. \A i \in Len(msgs) + 1 .. Len(mt) : mt[i].role # "assistant"
    BY <1>6
  <2> QED BY <1>2, <1>5, <1>7, <2>1, OthersAppended
<1>9. ASSUME NEW i \in Len(msgs) + 1 .. Len(mt) PROVE Asked(mt, i)
  <2>1. PICK r \in DOMAIN res : mt[i].call = res[r].call
    BY <1>6
  <2>2. PICK k \in 1 .. line - 1 : Calls(lines[k], res[r].call) /\ \A j \in k + 1 .. line - 1 : ~IsTurn(lines[j])
    BY <1>3
  <2>3. PICK q \in 1 .. Len(msgs) : /\ HasCall(msgs[q], res[r].call)
                                    /\ \A j \in q + 1 .. Len(msgs) : msgs[j].role # "user"
    BY <1>3, <2>2 DEF Heard
  <2>4. q \in 1 .. i - 1 /\ Len(msgs) \in Nat /\ \A j \in q + 1 .. i - 1 : j \in q + 1 .. Len(msgs) \/ j \in Len(msgs) + 1 .. Len(mt)
    BY <1>2, <1>4, <1>5
  <2>5. HasCall(mt[q], mt[i].call)
    BY <1>7, <2>1, <2>3 DEF Grown
  <2>6. \A j \in q + 1 .. i - 1 : mt[j].role # "user"
    <3> TAKE j \in q + 1 .. i - 1
    <3>1. CASE j \in q + 1 .. Len(msgs)
      <4>1. j \in 1 .. Len(msgs)
        BY <3>1
      <4> QED BY <1>5, <2>3, <3>1, <4>1
    <3>2. CASE j \in Len(msgs) + 1 .. Len(mt)
      BY <1>6, <3>2
    <3> QED BY <2>4, <3>1, <3>2
  <2> QED BY <2>4, <2>5, <2>6 DEF Asked
<1>10. \A id : ~Calls(Here, id)
  BY <1>1 DEF Calls
<1>11. \A i \in Len(msgs) + 1 .. Len(mt) : mt[i].role # "user"
  BY <1>6
<1> QED BY <1>1, <1>7, <1>8, <1>9, <1>10, <1>11, LineDone

LEMMA AssistantStep ==
  ASSUME MineInv, AssistantLine
  PROVE  MineInv'
<1>1. /\ Reading /\ NextLine /\ Here.type = "assistant" /\ tools' = Learn(tools, Here.calls)
      /\ msgs' = Joined(msgs, [role |-> "assistant", size |-> Here.size, calls |-> Here.calls])
  BY DEF AssistantLine
<1>2. IsSeq(msgs) /\ Alternate(msgs) /\ Taught(msgs, tools) /\ Len(msgs) \in Nat
  BY SeqIs DEF MineInv
<1>3. IsSeq(Here.calls)
  BY <1>1, LineIs
<1> DEFINE mt == msgs'
<1>4. /\ Grown(msgs, mt) /\ Alternate(mt)
      /\ Len(mt) \in Nat \ {0} /\ mt[Len(mt)].role = "assistant"
      /\ \A i \in Len(msgs) + 1 .. Len(mt) : i = Len(mt)
      /\ \A n \in DOMAIN Here.calls : HasCall(mt[Len(mt)], Here.calls[n].id)
      /\ Taught(mt, Learn(tools, Here.calls))
  BY <1>1, <1>2, <1>3, JoinedIs
<1>5. \A i \in Len(msgs) + 1 .. Len(mt) : mt[i].role = "assistant"
  BY <1>4
<1>6. \A i \in Len(msgs) + 1 .. Len(mt) : Asked(mt, i)
  BY <1>5 DEF Asked
<1>7. ASSUME NEW id, Calls(Here, id)
      PROVE  \E i \in 1 .. Len(mt) : HasCall(mt[i], id) /\ \A j \in i + 1 .. Len(mt) : mt[j].role # "user"
  <2>1. HasCall(mt[Len(mt)], id)
    BY <1>4, <1>7 DEF Calls
  <2>2. Len(mt) \in 1 .. Len(mt) /\ \A j : j \notin Len(mt) + 1 .. Len(mt)
    BY <1>4
  <2> QED BY <2>1, <2>2
<1>8. \A i \in Len(msgs) + 1 .. Len(mt) : mt[i].role # "user"
  BY <1>5
<1> QED BY <1>1, <1>4, <1>6, <1>7, <1>8, LineDone

LEMMA EndStep ==
  ASSUME MineInv, EndFile
  PROVE  MineInv'
<1> DEFINE new == Windows(SessionId(sessions[file].name))
<1>1. /\ rows' = (IF Short THEN rows ELSE rows \o new)
      /\ file' = file + 1 /\ line' = 1 /\ msgs' = <<>> /\ tools' = NoTools /\ sessions' = sessions
  BY DEF EndFile
<1>2. IsSeq(rows) /\ (\A n \in 1 .. Len(rows) : Askable(rows[n])) /\ sessions \in Sessions /\ file' \in Nat \ {0}
  BY <1>1 DEF MineInv
<1>3. IsSeq(new) /\ \A k \in 1 .. Len(new) : Askable(new[k])
  BY WindowsAskable DEF MineInv
<1> HIDE DEF new
<1>4. IsSeq(rows') /\ \A n \in 1 .. Len(rows') : Askable(rows'[n])
  <2>1. CASE Short
    BY <1>1, <1>2, <2>1
  <2>2. CASE ~Short
    <3> DEFINE all == rows \o new
    <3>1. /\ IsSeq(all) /\ Len(all) = Len(rows) + Len(new)
          /\ \A i \in 1 .. Len(rows) : all[i] = rows[i]
          /\ \A i \in 1 .. Len(new) : all[Len(rows) + i] = new[i]
      BY <1>2, <1>3, Concatenated
    <3>2. Len(rows) \in Nat /\ Len(new) \in Nat
      BY <1>2, <1>3, SeqIs
    <3> HIDE DEF all
    <3>3. ASSUME NEW n \in 1 .. Len(all) PROVE Askable(all[n])
      <4>1. CASE n <= Len(rows)
        <5>1. n \in 1 .. Len(rows)
          BY <3>2, <4>1
        <5>2. all[n] = rows[n]
          BY <3>1, <5>1
        <5> QED BY <1>2, <5>1, <5>2
      <4>2. CASE ~(n <= Len(rows))
        <5> DEFINE k == n - Len(rows)
        <5>1. k \in 1 .. Len(new) /\ Len(rows) + k = n
          BY <3>1, <3>2, <4>2
        <5> HIDE DEF k
        <5>2. all[n] = new[k]
          BY <3>1, <5>1
        <5> QED BY <1>3, <5>1, <5>2
      <4> QED BY <4>1, <4>2
    <3>4. rows' = all
      BY <1>1, <2>2 DEF all
    <3> QED BY <3>1, <3>3, <3>4
  <2> QED BY <2>1, <2>2
<1>5. IsSeq(msgs') /\ \A i : i \notin 1 .. Len(msgs') /\ i \notin 1 .. Len(msgs') - 1
  BY <1>1, Empty
<1>6. Alternate(msgs') /\ ResultsFollow(msgs') /\ Taught(msgs', tools')
  BY <1>5 DEF Alternate, ResultsFollow, Taught
<1>7. \A ls : Heard(msgs', ls, line' - 1)
  <2>1. \A k : k \notin 1 .. line' - 1
    BY <1>1
  <2> QED BY <2>1 DEF Heard
<1> QED BY <1>1, <1>2, <1>4, <1>5, <1>6, <1>7 DEF MineInv

LEMMA BuildStep ==
  ASSUME MineInv, BuildPrompts \/ UNCHANGED mine_vars
  PROVE  MineInv'
<1>1. sessions' = sessions /\ file' = file /\ line' = line /\ msgs' = msgs /\ tools' = tools /\ rows' = rows
  BY DEF BuildPrompts, mine_vars
<1> QED BY <1>1 DEF MineInv

LEMMA MineBase ==
  ASSUME MineInit
  PROVE  MineInv
<1>1. sessions \in Sessions /\ file = 1 /\ line = 1 /\ msgs = <<>> /\ rows = <<>>
  BY DEF MineInit
<1>2. IsSeq(msgs) /\ Len(msgs) = 0 /\ IsSeq(rows) /\ Len(rows) = 0
  BY <1>1, Empty
<1>3. \A i : i \notin 1 .. Len(msgs) /\ i \notin 1 .. Len(msgs) - 1 /\ i \notin 1 .. Len(rows)
  BY <1>2
<1>4. Alternate(msgs) /\ ResultsFollow(msgs) /\ Taught(msgs, tools)
  BY <1>3 DEF Alternate, ResultsFollow, Taught
<1>5. \A ls : Heard(msgs, ls, line - 1)
  <2>1. \A k : k \notin 1 .. line - 1
    BY <1>1
  <2> QED BY <2>1 DEF Heard
<1> QED BY <1>1, <1>2, <1>3, <1>4, <1>5 DEF MineInv

LEMMA MineSteps ==
  ASSUME MineInv, [MineNext]_mine_vars
  PROVE  MineInv'
<1>1. CASE SkipLine
  BY <1>1, SkipStep
<1>2. CASE UserLine
  BY <1>2, UserStep
<1>3. CASE ResultLine
  BY <1>3, ResultStep
<1>4. CASE AssistantLine
  BY <1>4, AssistantStep
<1>5. CASE EndFile
  BY <1>5, EndStep
<1>6. CASE BuildPrompts \/ UNCHANGED mine_vars
  BY <1>6, BuildStep
<1> QED BY <1>1, <1>2, <1>3, <1>4, <1>5, <1>6 DEF MineNext

\* Of any transcripts in which a tool's results come before the user's next
\* turn, every context that windows of extract_claude_sessions.py yields can be
\* rendered: it opens with the user, alternates, fits, and holds each tool
\* result behind its call, whose arguments the tool's schema names.
THEOREM MinedWhole == MineSpec => []ContextsAreWhole
<1>1. MineInit => MineInv
  BY MineBase
<1>2. MineInv /\ [MineNext]_mine_vars => MineInv'
  BY MineSteps
<1>3. MineInv => ContextsAreWhole
  <2> SUFFICES ASSUME MineInv PROVE ContextsAreWhole
    OBVIOUS
  <2>1. DOMAIN rows = 1 .. Len(rows) /\ \A n \in 1 .. Len(rows) : Askable(rows[n])
    BY SeqIs DEF MineInv
  <2> QED BY <2>1 DEF ContextsAreWhole
<1> QED BY <1>1, <1>2, <1>3, PTL DEF MineSpec
=============================================================================
