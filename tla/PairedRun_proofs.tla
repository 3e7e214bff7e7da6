-------------------------- MODULE PairedRun_proofs --------------------------
(***************************************************************************)
(* What a report of the paired harness rests on, for any number of jobs,   *)
(* plans, arms, directories and overlapping run processes.                 *)
(***************************************************************************)
EXTENDS PairedRun, SequenceTheorems, TLAPS

----------------------------------------------------------------------------
(* The inductive invariant.                                                *)

DirStates == {"absent", "made", "manifest", "results"}
Working   == {"manifest", "warmup", "request", "write"}

DirType ==
  [state : DirStates, plan : Plans \cup {NoPlan}, arm : Arms \cup {NoArm}, rows : Seq(Row),
   torn : BOOLEAN]

RunnerType ==
  [pc : Working \cup {"idle", "done", "raised", "killed"}, plan : Plans \cup {NoPlan},
   arm : Arms \cup {NoArm}, dir : Dirs \cup {"none"}, job : JobIds, harness : 0 .. Versions]

Types ==
  /\ harness \in 1 .. Versions /\ frozen \in [Plans -> 0 .. Versions]
  /\ dir \in [Dirs -> DirType]
  /\ runner \in [Runners -> RunnerType]
  /\ attempts \in [Dirs -> [JobIds -> Nat]]
  /\ reports \subseteq Plans \X Dirs \X Dirs

\* The rows of a directory are its plan's first jobs, each attempted once, and
\* jobs that have no row were attempted at most once.
Prefix(d) ==
  /\ Len(dir[d].rows) <= Jobs
  /\ \A i \in 1 .. Len(dir[d].rows) :
       /\ dir[d].rows[i].job = i
       /\ dir[d].rows[i].plan = dir[d].plan
       /\ dir[d].rows[i].harness = frozen[dir[d].plan]
       /\ attempts[d][i] = 1
  /\ dir[d].rows # <<>> => dir[d].state = "results"
  /\ dir[d].state \in {"manifest", "results"} => dir[d].plan \in Plans /\ frozen[dir[d].plan] # 0

\* A run process at work is where its directory is, and has not tried the job
\* it is about to send.
Place(r) ==
  LET me == runner[r] d == runner[r].dir IN
  me.pc \in Working =>
    /\ d \in Dirs /\ me.plan \in Plans /\ me.arm \in Arms
    /\ frozen[me.plan] # 0 /\ me.harness = frozen[me.plan]
    /\ me.pc \in {"manifest", "warmup"} => me.job = 1
    /\ me.pc = "manifest" => dir[d].state = "made"
    /\ me.pc = "warmup" => dir[d].state = "manifest" /\ dir[d].plan = me.plan
    /\ me.pc \in {"request", "write"} =>
         /\ dir[d].state = "results" /\ dir[d].plan = me.plan
         /\ Len(dir[d].rows) = me.job - 1
    /\ me.pc = "write" => attempts[d][me.job] = 1
    /\ \A j \in JobIds :
         (me.pc \in {"manifest", "warmup"} \/ j > me.job \/ (j = me.job /\ me.pc = "request"))
           => attempts[d][j] = 0

\* A directory is the work of one process.
OneEach ==
  \A r, s \in Runners :
    runner[r].pc \in Working /\ runner[s].pc \in Working /\ runner[r].dir = runner[s].dir => r = s

\* An absent directory was never used.
Unused(d) ==
  dir[d].state = "absent" =>
    /\ \A j \in JobIds : attempts[d][j] = 0
    /\ \A r \in Runners : runner[r].pc \in Working => runner[r].dir # d

\* A report's directories are full.
Full ==
  \A rep \in reports : \A d \in {rep[2], rep[3]} :
    dir[d].plan = rep[1] /\ Len(dir[d].rows) = Jobs

RunInv ==
  /\ Types /\ OneEach /\ Full
  /\ \A d \in Dirs : Prefix(d) /\ Unused(d)
  /\ \A r \in Runners : Place(r)

----------------------------------------------------------------------------

LEMMA RunInit == Init => RunInv
<1> SUFFICES ASSUME Init PROVE RunInv
  OBVIOUS
<1> USE RunAssumption DEF RunAssumption, Init, Absent, Idle
<1>1. <<>> \in Seq(Row) /\ Len(<<>>) = 0
  OBVIOUS
<1>2. Types
  BY <1>1 DEF Types, DirType, RunnerType, DirStates, Working, JobIds
<1>3. OneEach /\ Full /\ \A r \in Runners : Place(r)
  BY DEF OneEach, Full, Place, Working
<1>4. \A d \in Dirs : Prefix(d) /\ Unused(d)
  BY <1>1 DEF Prefix, Unused, Working
<1> QED BY <1>2, <1>3, <1>4 DEF RunInv

LEMMA StepEdit ==
  ASSUME RunInv, EditHarness
  PROVE  RunInv'
BY RunAssumption DEF RunAssumption, RunInv, EditHarness, Types, OneEach, Full, Prefix, Unused, Place

LEMMA StepFreeze ==
  ASSUME RunInv, NEW p \in Plans, Freeze(p)
  PROVE  RunInv'
<1> USE RunAssumption DEF RunAssumption, RunInv, Freeze
<1>1. Types'
  BY DEF Types
<1>2. \A q \in Plans : frozen[q] # 0 => frozen'[q] = frozen[q]
  BY DEF Types
<1>3. (OneEach /\ Full)'
  BY DEF OneEach, Full
<1>4. ASSUME NEW d \in Dirs PROVE (Prefix(d) /\ Unused(d))'
  <2>1. Prefix(d) /\ Unused(d)
    OBVIOUS
  <2>2. Unused(d)'
    BY <2>1 DEF Unused
  <2>3. dir'[d] = dir[d] /\ attempts' = attempts
    OBVIOUS
  <2>4. dir[d].state \in {"manifest", "results"} => frozen'[dir[d].plan] = frozen[dir[d].plan]
    BY <1>2, <2>1 DEF Prefix
  <2>5. dir[d].state \notin {"manifest", "results"} => dir[d].rows = <<>>
    BY <2>1 DEF Prefix
  <2>6. Prefix(d)'
    BY <2>1, <2>3, <2>4, <2>5 DEF Prefix
  <2> QED BY <2>2, <2>6
<1>5. ASSUME NEW r \in Runners PROVE Place(r)'
  BY <1>2 DEF Place
<1> QED BY <1>1, <1>3, <1>4, <1>5

LEMMA StepStart ==
  ASSUME RunInv, NEW r \in Runners, NEW p \in Plans, NEW a \in Arms, NEW d \in Dirs,
         Start(r, p, a, d)
  PROVE  RunInv'
<1> USE RunAssumption DEF RunAssumption, RunInv, Start, Creates, SameHarness
<1>1. Types'
  <2>1. [dir[d] EXCEPT !.state = "made"] \in DirType
    BY DEF Types, DirType, DirStates
  <2>2. dir' \in [Dirs -> DirType]
    BY <2>1 DEF Types
  <2>3. harness \in 0 .. Versions /\ 1 \in JobIds /\ "manifest" \in Working
    BY DEF Types, JobIds, Working
  <2>4. [pc |-> "manifest", plan |-> p, arm |-> a, dir |-> d, job |-> 1, harness |-> harness]
          \in RunnerType
    BY <2>3 DEF RunnerType
  <2> QED BY <2>2, <2>4 DEF Types
<1>2. /\ dir[d].state = "absent"
      /\ dir' = [dir EXCEPT ![d].state = "made"]
      /\ runner' = [runner EXCEPT ![r] = [pc |-> "manifest", plan |-> p, arm |-> a, dir |-> d,
                                          job |-> 1, harness |-> harness]]
  OBVIOUS
<1>3. \A e \in Dirs : /\ dir'[e].rows = dir[e].rows /\ dir'[e].plan = dir[e].plan
                       /\ e # d => dir'[e] = dir[e]
  BY <1>2 DEF Types, DirType, RunnerType
<1>4. \A s \in Runners : s # r => runner'[s] = runner[s]
  BY <1>2 DEF Types, DirType, RunnerType
<1>5. runner'[r] = [pc |-> "manifest", plan |-> p, arm |-> a, dir |-> d, job |-> 1, harness |-> harness]
  BY <1>2 DEF Types, DirType, RunnerType
<1>6. dir'[d].state = "made"
  BY <1>2 DEF Types, DirType, RunnerType
<1>7. \A s \in Runners : runner[s].pc \in Working => runner[s].dir # d
  BY <1>2 DEF Unused
<1>8. OneEach'
  BY <1>4, <1>5, <1>7 DEF OneEach
<1>9. Full'
  BY <1>3 DEF Full, Types
<1>10. ASSUME NEW e \in Dirs PROVE (Prefix(e) /\ Unused(e))'
  <2>1. Prefix(e) /\ Unused(e) /\ Unused(d)
    OBVIOUS
  <2>2. Prefix(e)'
    BY <1>2, <1>3, <1>6, <2>1 DEF Prefix
  <2>3. Unused(e)'
    BY <1>3, <1>4, <1>5, <1>6, <2>1 DEF Unused
  <2> QED BY <2>2, <2>3
<1>11. ASSUME NEW s \in Runners PROVE Place(s)'
  <2>1. CASE s = r
    BY <1>2, <1>5, <1>6, <2>1 DEF Place, Unused
  <2>2. CASE s # r
    <3>1. Place(s) /\ runner'[s] = runner[s]
      BY <1>4, <2>2
    <3>2. runner[s].pc \in Working => dir'[runner[s].dir] = dir[runner[s].dir]
      BY <1>3, <1>7, <3>1 DEF Place
    <3> QED BY <3>1, <3>2 DEF Place
  <2> QED BY <2>1, <2>2
<1> QED BY <1>1, <1>8, <1>9, <1>10, <1>11

----------------------------------------------------------------------------
(* The steps of a process at work touch its own directory only.            *)

Own(r) ==
  /\ frozen' = frozen /\ reports' = reports
  /\ runner[r].pc \in Working /\ runner'[r].dir = runner[r].dir
  /\ \A s \in Runners : s # r => runner'[s] = runner[s]
  /\ \A e \in Dirs : e # runner[r].dir => dir'[e] = dir[e] /\ attempts'[e] = attempts[e]

LEMMA OwnOthers ==
  ASSUME RunInv, NEW r \in Runners, Own(r), NEW s \in Runners, s # r
  PROVE  Place(s)'
<1>1. Place(s) /\ runner'[s] = runner[s] /\ frozen' = frozen
  BY DEF RunInv, Own
<1>2. runner[s].pc \in Working => runner[s].dir # runner[r].dir
  BY DEF RunInv, OneEach, Own
<1>3. runner[s].pc \in Working =>
        /\ runner[s].dir \in Dirs
        /\ dir'[runner[s].dir] = dir[runner[s].dir]
        /\ attempts'[runner[s].dir] = attempts[runner[s].dir]
  BY <1>1, <1>2 DEF Own, Place
<1> QED BY <1>1, <1>3 DEF Place

LEMMA OwnOtherDirs ==
  ASSUME RunInv, NEW r \in Runners, Own(r), NEW e \in Dirs, e # runner[r].dir
  PROVE  (Prefix(e) /\ Unused(e))'
<1>1. Prefix(e) /\ Unused(e) /\ dir'[e] = dir[e] /\ attempts'[e] = attempts[e] /\ frozen' = frozen
  BY DEF RunInv, Own
<1>2. Prefix(e)'
  BY <1>1 DEF Prefix
<1>3. Unused(e)'
  BY <1>1 DEF Unused, Own
<1> QED BY <1>2, <1>3

LEMMA OwnOneEach ==
  ASSUME RunInv, NEW r \in Runners, Own(r)
  PROVE  OneEach'
BY DEF RunInv, Own, OneEach

\* What is left to show of such a step.
LEMMA OwnStep ==
  ASSUME RunInv, NEW r \in Runners, NEW d \in Dirs, d = runner[r].dir, Own(r),
         Types', Full', Place(r)', Prefix(d)', Unused(d)'
  PROVE  RunInv'
<1>1. \A s \in Runners : Place(s)'
  BY OwnOthers
<1>2. \A e \in Dirs : (Prefix(e) /\ Unused(e))'
  BY OwnOtherDirs
<1> QED BY <1>1, <1>2, OwnOneEach DEF RunInv

\* The type of what such a step writes.
LEMMA OwnTypes ==
  ASSUME Types, NEW r \in Runners, NEW d \in Dirs, NEW m \in DirType, NEW n \in RunnerType,
         dir' = [dir EXCEPT ![d] = m], runner' = [runner EXCEPT ![r] = n],
         attempts' \in [Dirs -> [JobIds -> Nat]], UNCHANGED <<harness, frozen, reports>>
  PROVE  Types'
<1>1. dir' \in [Dirs -> DirType] /\ runner' \in [Runners -> RunnerType]
  BY DEF Types
<1> QED BY <1>1 DEF Types

\* A directory that is not yet full is in no report.
LEMMA NotReported ==
  ASSUME RunInv, NEW d \in Dirs, Len(dir[d].rows) < Jobs, NEW rep \in reports
  PROVE  rep[2] # d /\ rep[3] # d
BY RunAssumption DEF RunAssumption, RunInv, Full, Types, DirType

----------------------------------------------------------------------------

LEMMA StepWriteManifest ==
  ASSUME RunInv, NEW r \in Runners, WriteManifest(r)
  PROVE  RunInv'
<1>0. PICK d \in Dirs : d = runner[r].dir
  BY DEF RunInv, WriteManifest, Place, Working
<1> DEFINE me == runner[r]
           made == [dir[d] EXCEPT !.state = "manifest", !.plan = me.plan, !.arm = me.arm]
           next == [me EXCEPT !.pc = "warmup"]
<1>1. /\ me \in RunnerType /\ me.pc = "manifest" /\ me.dir = d /\ dir[d] \in DirType
      /\ me.plan \in Plans /\ me.arm \in Arms /\ frozen[me.plan] # 0
  BY <1>0 DEF RunInv, WriteManifest, Types, Place, Working
<1>2. dir' = [dir EXCEPT ![d] = made] /\ runner' = [runner EXCEPT ![r] = next]
  BY <1>0 DEF WriteManifest
<1>3. made \in DirType /\ made.state = "manifest" /\ made.plan = me.plan /\ made.rows = dir[d].rows
  BY <1>1 DEF DirType, DirStates
<1>4. /\ next \in RunnerType /\ next.pc = "warmup" /\ next.dir = d /\ next.plan = me.plan
      /\ next.arm = me.arm /\ next.harness = me.harness /\ next.job = me.job
  BY <1>1 DEF RunnerType, Working
<1> HIDE DEF made, next
<1>5. /\ dir'[d] = made /\ runner'[r] = next /\ \A e \in Dirs : e # d => dir'[e] = dir[e]
      /\ \A s \in Runners : s # r => runner'[s] = runner[s]
      /\ frozen' = frozen /\ attempts' = attempts /\ reports' = reports
  BY <1>1, <1>2 DEF RunInv, Types, WriteManifest
<1>6. Types'
  <2>1. Types /\ attempts' \in [Dirs -> [JobIds -> Nat]] /\ UNCHANGED <<harness, frozen, reports>>
    BY DEF RunInv, Types, WriteManifest
  <2> QED BY <1>2, <1>3, <1>4, <2>1, OwnTypes
<1>7. Own(r)
  BY <1>1, <1>4, <1>5 DEF Own, Working
<1>8. Place(r) /\ dir[d].rows = <<>> /\ dir[d].state = "made"
  BY <1>1 DEF RunInv, Prefix, Place, Working
<1>9. Full'
  <2>1. \A rep \in reports : rep[2] # d /\ rep[3] # d
    BY <1>1, <1>8, NotReported, RunAssumption DEF RunAssumption
  <2> QED BY <2>1, <1>5 DEF RunInv, Full, Types
<1>10. Place(r)'
  BY <1>1, <1>3, <1>4, <1>5, <1>8 DEF Place, Working
<1>11. Prefix(d)'
  BY <1>1, <1>3, <1>5, <1>8, RunAssumption DEF RunAssumption, Prefix
<1>12. Unused(d)'
  BY <1>1, <1>3, <1>5 DEF Unused
<1> QED BY <1>1, <1>6, <1>7, <1>9, <1>10, <1>11, <1>12, OwnStep

LEMMA StepWarmup ==
  ASSUME RunInv, NEW r \in Runners, Warmup(r)
  PROVE  RunInv'
<1>0. PICK d \in Dirs : d = runner[r].dir
  BY DEF RunInv, Warmup, Place, Working
<1> DEFINE me == runner[r]
           made == [dir[d] EXCEPT !.state = "results", !.rows = <<>>]
           next == [me EXCEPT !.pc = "request"]
           raised == [me EXCEPT !.pc = "raised"]
<1>1. /\ me \in RunnerType /\ me.pc = "warmup" /\ me.dir = d /\ dir[d] \in DirType
      /\ me.plan \in Plans /\ me.arm \in Arms /\ frozen[me.plan] # 0 /\ me.job = 1
      /\ Place(r) /\ Prefix(d) /\ dir[d].state = "manifest" /\ dir[d].plan = me.plan
  BY <1>0 DEF RunInv, Warmup, Types, Place, Working
<1>2. dir[d].rows = <<>> /\ Len(dir[d].rows) = 0
  BY <1>1 DEF Prefix
<1>3. /\ made \in DirType /\ made.state = "results" /\ made.plan = me.plan
      /\ made.rows = <<>>
  <2>1. <<>> \in Seq(Row)
    OBVIOUS
  <2> QED BY <1>1, <2>1 DEF DirType, DirStates
<1>4. /\ next \in RunnerType /\ next.pc = "request" /\ next.dir = d /\ next.plan = me.plan
      /\ next.arm = me.arm /\ next.harness = me.harness /\ next.job = 1
  BY <1>1 DEF RunnerType, Working
<1>5. raised \in RunnerType /\ raised.pc = "raised" /\ raised.dir = d
  BY <1>1 DEF RunnerType
<1>6. Types /\ attempts' \in [Dirs -> [JobIds -> Nat]] /\ UNCHANGED <<harness, frozen, attempts, reports>>
  BY DEF RunInv, Types, Warmup
<1>7. \/ dir' = [dir EXCEPT ![d] = made] /\ runner' = [runner EXCEPT ![r] = next]
      \/ dir' = [dir EXCEPT ![d] = dir[d]] /\ runner' = [runner EXCEPT ![r] = raised]
  BY <1>0, <1>6 DEF Warmup, Types
<1> HIDE DEF made, next, raised
<1>8. CASE dir' = [dir EXCEPT ![d] = made] /\ runner' = [runner EXCEPT ![r] = next]
  <2>1. Types'
    BY <1>3, <1>4, <1>6, <1>8, OwnTypes
  <2>2. /\ dir'[d] = made /\ runner'[r] = next /\ \A e \in Dirs : e # d => dir'[e] = dir[e]
        /\ \A s \in Runners : s # r => runner'[s] = runner[s]
    BY <1>6, <1>8 DEF Types
  <2>3. Own(r)
    BY <1>1, <1>4, <1>6, <2>2 DEF Own, Working
  <2>4. \A rep \in reports : rep[2] # d /\ rep[3] # d
    BY <1>2, NotReported, RunAssumption DEF RunAssumption
  <2>5. Full'
    BY <1>6, <2>2, <2>4 DEF RunInv, Full, Types
  <2>6. Place(r)'
    BY <1>1, <1>3, <1>4, <1>6, <2>2, <1>2 DEF Place, Working, JobIds
  <2>7. Prefix(d)'
    BY <1>1, <1>2, <1>3, <1>6, <2>2, RunAssumption DEF RunAssumption, Prefix
  <2>8. Unused(d)'
    BY <1>3, <2>2 DEF Unused
  <2> QED BY <1>0, <2>1, <2>3, <2>5, <2>6, <2>7, <2>8, OwnStep
<1>9. CASE dir' = [dir EXCEPT ![d] = dir[d]] /\ runner' = [runner EXCEPT ![r] = raised]
  <2>1. Types'
    BY <1>1, <1>5, <1>6, <1>9, OwnTypes
  <2>2. /\ dir' = dir /\ runner'[r] = raised
        /\ \A s \in Runners : s # r => runner'[s] = runner[s]
    BY <1>6, <1>9 DEF Types
  <2>3. Own(r)
    BY <1>1, <1>5, <1>6, <2>2 DEF Own, Working
  <2>4. Full' /\ Place(r)' /\ Prefix(d)' /\ Unused(d)'
    BY <1>1, <1>5, <1>6, <2>2 DEF RunInv, Full, Place, Prefix, Unused, Working
  <2> QED BY <1>0, <2>1, <2>3, <2>4, OwnStep
<1> QED BY <1>7, <1>8, <1>9

LEMMA StepRequest ==
  ASSUME RunInv, NEW r \in Runners, Request(r)
  PROVE  RunInv'
<1>0. PICK d \in Dirs : d = runner[r].dir
  BY DEF RunInv, Request, Place, Working
<1> DEFINE me == runner[r]
           write == [me EXCEPT !.pc = "write"]
           raised == [me EXCEPT !.pc = "raised"]
<1>1. /\ me \in RunnerType /\ me.pc = "request" /\ me.dir = d /\ dir[d] \in DirType
      /\ me.job \in JobIds /\ Place(r) /\ Prefix(d)
      /\ dir[d].state = "results" /\ Len(dir[d].rows) = me.job - 1
  BY <1>0 DEF RunInv, Request, Types, Place, Working, RunnerType
<1>2. attempts[d][me.job] = 0
  BY <1>1 DEF Place, Working
<1>3. /\ write \in RunnerType /\ write.pc = "write" /\ write.dir = d /\ write.plan = me.plan
      /\ write.arm = me.arm /\ write.harness = me.harness /\ write.job = me.job
  BY <1>1 DEF RunnerType, Working
<1>4. raised \in RunnerType /\ raised.pc = "raised" /\ raised.dir = d
  BY <1>1 DEF RunnerType
<1>5. /\ Types /\ UNCHANGED <<harness, frozen, dir, reports>>
      /\ attempts' = [attempts EXCEPT ![d] = [@ EXCEPT ![me.job] = 1]]
  BY <1>0, <1>1, <1>2 DEF RunInv, Request, Types
<1>6. PICK n \in {write, raised} : runner' = [runner EXCEPT ![r] = n]
  BY <1>0 DEF Request
<1> HIDE DEF write, raised
<1>7. /\ attempts' \in [Dirs -> [JobIds -> Nat]]
      /\ attempts'[d][me.job] = 1
      /\ \A j \in JobIds : j # me.job => attempts'[d][j] = attempts[d][j]
      /\ \A e \in Dirs : e # d => attempts'[e] = attempts[e]
  BY <1>1, <1>5 DEF Types
<1>8. Types'
  <2>1. dir' = [dir EXCEPT ![d] = dir[d]]
    BY <1>5 DEF Types
  <2>2. n \in RunnerType /\ dir[d] \in DirType
    BY <1>1, <1>3, <1>4, <1>6
  <2>3. Types /\ UNCHANGED <<harness, frozen, reports>>
    BY <1>5
  <2>4. attempts' \in [Dirs -> [JobIds -> Nat]]
    BY <1>7
  <2>5. runner' = [runner EXCEPT ![r] = n]
    BY <1>6
  <2> QED BY <2>1, <2>2, <2>3, <2>4, <2>5, OwnTypes
<1>9. runner'[r] = n /\ \A s \in Runners : s # r => runner'[s] = runner[s]
  BY <1>5, <1>6 DEF Types
<1>10. Own(r)
  BY <1>0, <1>1, <1>3, <1>4, <1>5, <1>6, <1>7, <1>9 DEF Own, Working
<1>11. Full'
  BY <1>5 DEF RunInv, Full
<1>12. Place(r)'
  <2>1. CASE n = write
    BY <1>1, <1>3, <1>5, <1>7, <1>9, <2>1 DEF Place, Working, JobIds
  <2>2. CASE n = raised
    BY <1>4, <1>9, <2>2 DEF Place, Working
  <2> QED BY <1>6, <2>1, <2>2
<1>13. Prefix(d)'
  <2>1. \A i \in 1 .. Len(dir[d].rows) : attempts'[d][i] = attempts[d][i]
    BY <1>1, <1>7, RunAssumption DEF JobIds, RunAssumption
  <2> QED BY <1>1, <1>5, <2>1 DEF Prefix
<1>14. Unused(d)'
  BY <1>1, <1>5 DEF Unused
<1> QED BY <1>0, <1>8, <1>10, <1>11, <1>12, <1>13, <1>14, OwnStep

LEMMA AppendRow ==
  ASSUME NEW q \in Seq(Row), NEW w \in Row
  PROVE  /\ Len(Append(q, w)) = Len(q) + 1
         /\ Append(q, w)[Len(q) + 1] = w
         /\ \A i \in 1 .. Len(q) : Append(q, w)[i] = q[i]
OBVIOUS

LEMMA StepWriteRow ==
  ASSUME RunInv, NEW r \in Runners, WriteRow(r)
  PROVE  RunInv'
<1>0. PICK d \in Dirs : d = runner[r].dir
  BY DEF RunInv, WriteRow, Place, Working
<1> DEFINE me == runner[r]
           row == [job |-> me.job, plan |-> me.plan, arm |-> me.arm, harness |-> me.harness]
           made == [dir[d] EXCEPT !.rows = Append(dir[d].rows, row)]
           more == [me EXCEPT !.job = me.job + 1, !.pc = "request"]
           done == [me EXCEPT !.pc = "done"]
           next == IF me.job < Jobs THEN more ELSE done
<1>1. /\ me \in RunnerType /\ me.pc = "write" /\ me.dir = d /\ dir[d] \in DirType
      /\ me.job \in JobIds /\ Place(r) /\ Prefix(d) /\ me.plan \in Plans /\ me.arm \in Arms
      /\ dir[d].state = "results" /\ dir[d].plan = me.plan /\ Len(dir[d].rows) = me.job - 1
      /\ attempts[d][me.job] = 1 /\ me.harness = frozen[me.plan] /\ frozen[me.plan] # 0
  BY <1>0 DEF RunInv, WriteRow, Types, Place, Working, RunnerType
<1>2. /\ Types /\ UNCHANGED <<harness, frozen, attempts, reports>>
      /\ frozen[me.plan] \in 0 .. Versions
      /\ attempts' \in [Dirs -> [JobIds -> Nat]]
  BY <1>1 DEF RunInv, WriteRow, Types
<1>3. row \in Row
  BY <1>1, <1>2, RunAssumption DEF Row, RunAssumption
<1>4. dir' = [dir EXCEPT ![d] = made] /\ runner' = [runner EXCEPT ![r] = next]
  BY <1>0 DEF WriteRow
<1>5. /\ made \in DirType /\ made.state = "results" /\ made.plan = me.plan
      /\ made.rows = Append(dir[d].rows, row)
  <2>1. dir[d].rows \in Seq(Row) /\ Append(dir[d].rows, row) \in Seq(Row)
    BY <1>1, <1>3 DEF DirType
  <2> QED BY <1>1, <2>1 DEF DirType, DirStates
<1>6. me.job < Jobs =>
        /\ next \in RunnerType /\ next.pc = "request" /\ next.dir = d /\ next.plan = me.plan
        /\ next.arm = me.arm /\ next.harness = me.harness /\ next.job = me.job + 1
  <2>1. me.job < Jobs => me.job + 1 \in JobIds
    BY <1>1, RunAssumption DEF JobIds, RunAssumption
  <2> QED BY <1>1, <2>1 DEF RunnerType, Working
<1>7. ~(me.job < Jobs) => next \in RunnerType /\ next.pc = "done" /\ next.dir = d
  BY <1>1 DEF RunnerType
<1>8. /\ Len(made.rows) = me.job
      /\ made.rows[me.job] = row
      /\ \A i \in 1 .. Len(dir[d].rows) : made.rows[i] = dir[d].rows[i]
  <2>1. dir[d].rows \in Seq(Row) /\ me.job \in Nat /\ Len(dir[d].rows) + 1 = me.job
    BY <1>1 DEF DirType, JobIds
  <2> HIDE DEF made, row, me
  <2> QED BY <1>3, <1>5, <2>1, AppendRow
<1>9. row.job = me.job /\ row.plan = me.plan /\ row.harness = me.harness
  OBVIOUS
<1> HIDE DEF made, next, row
<1>10. Types'
  BY <1>2, <1>4, <1>5, <1>6, <1>7, OwnTypes
<1>11. /\ dir'[d] = made /\ runner'[r] = next /\ \A e \in Dirs : e # d => dir'[e] = dir[e]
       /\ \A s \in Runners : s # r => runner'[s] = runner[s]
  BY <1>2, <1>4 DEF Types
<1>12. Own(r)
  BY <1>0, <1>1, <1>2, <1>6, <1>7, <1>11 DEF Own, Working
<1>13. Full'
  <2>1. Len(dir[d].rows) < Jobs
    BY <1>1, RunAssumption DEF JobIds, RunAssumption
  <2>2. \A rep \in reports : rep[2] # d /\ rep[3] # d
    BY <2>1, NotReported
  <2> QED BY <1>2, <1>11, <2>2 DEF RunInv, Full, Types
<1>14. Place(r)'
  <2>1. CASE me.job < Jobs
    <3>1. \A j \in JobIds : j > me.job => attempts[d][j] = 0
      BY <1>1 DEF Place, Working
    <3>2. \A j \in JobIds : j > me.job + 1 \/ j = me.job + 1 => j > me.job
      BY <1>1 DEF JobIds
    <3>3. dir'[d].state = "results" /\ dir'[d].plan = me.plan
          /\ Len(dir'[d].rows) = me.job /\ me.job \in Nat
      BY <1>1, <1>5, <1>8, <1>11 DEF JobIds
    <3>4. /\ next.pc = "request" /\ next.dir = d /\ next.plan = me.plan /\ next.arm = me.arm
          /\ next.harness = me.harness /\ next.job = me.job + 1 /\ runner'[r] = next
      BY <1>6, <1>11, <2>1
    <3>5. \A j \in JobIds : j > next.job \/ j = next.job => attempts'[d][j] = 0
      BY <1>2, <3>1, <3>2, <3>4
    <3>6. next.plan \in Plans /\ next.arm \in Arms /\ frozen'[next.plan] # 0
          /\ next.harness = frozen'[next.plan]
      BY <1>1, <1>2, <3>4
    <3> HIDE DEF me
    <3>7. /\ runner'[r].pc = "request" /\ runner'[r].dir = d
          /\ Len(dir'[d].rows) = runner'[r].job - 1
      BY <3>3, <3>4
    <3>8. d \in Dirs /\ runner'[r].plan \in Plans /\ runner'[r].arm \in Arms
          /\ frozen'[runner'[r].plan] # 0 /\ runner'[r].harness = frozen'[runner'[r].plan]
          /\ dir'[d].plan = runner'[r].plan /\ dir'[d].state = "results"
      BY <1>0, <3>3, <3>4, <3>6
    <3>9. \A j \in JobIds : j > runner'[r].job \/ j = runner'[r].job => attempts'[d][j] = 0
      BY <3>4, <3>5
    <3> QED BY <3>7, <3>8, <3>9 DEF Place, Working
  <2>2. CASE ~(me.job < Jobs)
    BY <1>7, <1>11, <2>2 DEF Place, Working
  <2> QED BY <2>1, <2>2
<1>15. Prefix(d)'
  <2>1. made.rows # <<>> => dir'[d].state = "results"
    BY <1>5, <1>11
  <2>2. me.job \in 1 .. Jobs
    BY <1>1 DEF JobIds
  <2>3. ASSUME NEW i \in 1 .. Len(made.rows)
        PROVE  /\ made.rows[i].job = i /\ made.rows[i].plan = made.plan
               /\ made.rows[i].harness = frozen[made.plan] /\ attempts[d][i] = 1
    <3>1. CASE i = me.job
      BY <1>1, <1>5, <1>8, <1>9, <3>1
    <3>2. CASE i # me.job
      <4>1. i \in 1 .. Len(dir[d].rows)
        BY <1>1, <1>8, <2>2, <3>2, RunAssumption DEF RunAssumption
      <4> QED BY <1>1, <1>5, <1>8, <4>1 DEF Prefix
    <3> QED BY <3>1, <3>2
  <2>4. Len(made.rows) <= Jobs
    BY <1>8, <2>2
  <2> QED BY <1>1, <1>2, <1>5, <1>11, <2>1, <2>3, <2>4 DEF Prefix
<1>16. Unused(d)'
  BY <1>5, <1>11 DEF Unused
<1> QED BY <1>0, <1>10, <1>12, <1>13, <1>14, <1>15, <1>16, OwnStep

LEMMA StepKill ==
  ASSUME RunInv, NEW r \in Runners, Kill(r)
  PROVE  RunInv'
<1>0. PICK d \in Dirs : d = runner[r].dir
  BY DEF RunInv, Kill, Place, Working
<1> DEFINE me == runner[r]
           torn == [dir[d] EXCEPT !.torn = TRUE]
           killed == [me EXCEPT !.pc = "killed"]
<1>1. /\ me \in RunnerType /\ me.pc \in Working /\ me.dir = d /\ dir[d] \in DirType
      /\ Prefix(d) /\ Unused(d)
  BY <1>0 DEF RunInv, Kill, Types, Working
<1>2. killed \in RunnerType /\ killed.pc = "killed" /\ killed.dir = d
  BY <1>1 DEF RunnerType
<1>3. torn \in DirType /\ torn.rows = dir[d].rows /\ torn.plan = dir[d].plan /\ torn.state = dir[d].state
  BY <1>1 DEF DirType
<1>4. Types /\ attempts' \in [Dirs -> [JobIds -> Nat]] /\ UNCHANGED <<harness, frozen, attempts, reports>>
  BY DEF RunInv, Types, Kill
<1>5. PICK m \in {dir[d], torn} : dir' = [dir EXCEPT ![d] = m]
  BY <1>0, <1>4 DEF Kill, Types
<1>6. runner' = [runner EXCEPT ![r] = killed]
  BY DEF Kill
<1> HIDE DEF torn, killed
<1>7. m \in DirType /\ m.rows = dir[d].rows /\ m.plan = dir[d].plan /\ m.state = dir[d].state
  BY <1>1, <1>3, <1>5
<1>8. Types'
  BY <1>2, <1>4, <1>5, <1>6, <1>7, OwnTypes
<1>9. /\ dir'[d] = m /\ runner'[r] = killed /\ \A e \in Dirs : e # d => dir'[e] = dir[e]
      /\ \A s \in Runners : s # r => runner'[s] = runner[s]
  BY <1>4, <1>5, <1>6 DEF Types
<1>10. Own(r)
  BY <1>1, <1>2, <1>4, <1>9 DEF Own
<1>11. Full'
  <2>1. \A e \in Dirs : dir'[e].plan = dir[e].plan /\ dir'[e].rows = dir[e].rows
    BY <1>7, <1>9
  <2>2. \A rep \in reports : rep[2] \in Dirs /\ rep[3] \in Dirs
    BY <1>4 DEF Types
  <2> QED BY <1>4, <2>1, <2>2 DEF RunInv, Full
<1>12. Place(r)'
  BY <1>2, <1>9 DEF Place, Working
<1>13. Prefix(d)' /\ Unused(d)'
  BY <1>1, <1>2, <1>4, <1>7, <1>9 DEF Prefix, Unused, Working
<1> QED BY <1>0, <1>8, <1>10, <1>11, <1>12, <1>13, OwnStep

LEMMA StepAgain ==
  ASSUME RunInv, NEW r \in Runners, Again(r)
  PROVE  RunInv'
<1>1. /\ Types /\ UNCHANGED <<harness, frozen, dir, attempts, reports>>
      /\ runner' = [runner EXCEPT ![r] = Idle]
  BY DEF RunInv, Again
<1>2. Idle \in RunnerType /\ Idle.pc = "idle"
  <2>1. 1 \in JobIds /\ 0 \in 0 .. Versions
    BY RunAssumption DEF RunAssumption, JobIds
  <2> QED BY <2>1 DEF Idle, RunnerType
<1>3. runner'[r] = Idle /\ \A s \in Runners : s # r => runner'[s] = runner[s]
  BY <1>1 DEF Types
<1> HIDE DEF Idle
<1>4. Types'
  BY <1>1, <1>2 DEF Types
<1>5. (OneEach /\ Full)'
  BY <1>1, <1>2, <1>3 DEF RunInv, OneEach, Full, Working
<1>6. ASSUME NEW e \in Dirs PROVE (Prefix(e) /\ Unused(e))'
  BY <1>1, <1>2, <1>3 DEF RunInv, Prefix, Unused, Working
<1>7. ASSUME NEW s \in Runners PROVE Place(s)'
  <2>1. CASE s = r
    BY <1>2, <1>3, <2>1 DEF Place, Working
  <2>2. CASE s # r
    BY <1>1, <1>3, <2>2 DEF RunInv, Place
  <2> QED BY <2>1, <2>2
<1> QED BY <1>4, <1>5, <1>6, <1>7 DEF RunInv

\* A directory whose rows name every job has them all.
LEMMA CompleteIsFull ==
  ASSUME RunInv, NEW d \in Dirs, Complete(dir[d].rows)
  PROVE  Len(dir[d].rows) = Jobs
<1>1. Prefix(d) /\ dir[d].rows \in Seq(Row) /\ Jobs \in Nat \ {0}
  BY RunAssumption DEF RunAssumption, RunInv, Types, DirType
<1>2. PICK i \in 1 .. Len(dir[d].rows) : dir[d].rows[i].job = Jobs
  BY <1>1 DEF Complete, JobsOf, JobIds
<1> QED BY <1>1, <1>2 DEF Prefix

LEMMA StepCompare ==
  ASSUME RunInv, NEW p \in Plans, NEW c \in Dirs, NEW d \in Dirs, Compare(p, c, d)
  PROVE  RunInv'
<1>1. /\ UNCHANGED <<harness, frozen, dir, runner, attempts>>
      /\ reports' = reports \cup {<<p, c, d>>}
  BY DEF Compare
<1>2. dir[c].plan = p /\ Len(dir[c].rows) = Jobs /\ dir[d].plan = p /\ Len(dir[d].rows) = Jobs
  BY CompleteIsFull DEF Compare, Loads, SamePlan
<1>3. Types'
  BY <1>1 DEF RunInv, Types
<1>4. Full'
  <2> SUFFICES ASSUME NEW rep \in reports'
               PROVE  /\ dir[rep[2]].plan = rep[1] /\ Len(dir[rep[2]].rows) = Jobs
                      /\ dir[rep[3]].plan = rep[1] /\ Len(dir[rep[3]].rows) = Jobs
    BY <1>1 DEF Full
  <2>1. CASE rep \in reports
    BY <2>1 DEF RunInv, Full
  <2>2. CASE rep = <<p, c, d>>
    BY <1>2, <2>2
  <2> QED BY <1>1, <2>1, <2>2
<1>5. OneEach'
  BY <1>1 DEF RunInv, OneEach
<1>6. ASSUME NEW e \in Dirs PROVE (Prefix(e) /\ Unused(e))'
  BY <1>1 DEF RunInv, Prefix, Unused
<1>7. ASSUME NEW s \in Runners PROVE Place(s)'
  BY <1>1 DEF RunInv, Place
<1> QED BY <1>3, <1>4, <1>5, <1>6, <1>7 DEF RunInv

LEMMA StepStutter ==
  ASSUME RunInv, UNCHANGED vars
  PROVE  RunInv'
BY DEF RunInv, vars, Types, OneEach, Full, Prefix, Unused, Place

----------------------------------------------------------------------------
(* The theorems.                                                           *)

LEMMA RunInductive == RunInv /\ [Next]_vars => RunInv'
<1> SUFFICES ASSUME RunInv, [Next]_vars PROVE RunInv'
  OBVIOUS
<1>1. CASE EditHarness
  BY <1>1, StepEdit
<1>2. ASSUME NEW p \in Plans, Freeze(p) PROVE RunInv'
  BY <1>2, StepFreeze
<1>3. ASSUME NEW r \in Runners, Run(r) PROVE RunInv'
  BY <1>3, StepStart, StepWriteManifest, StepWarmup, StepRequest, StepWriteRow, StepKill, StepAgain
     DEF Run
<1>4. ASSUME NEW p \in Plans, NEW c \in Dirs, NEW d \in Dirs, Compare(p, c, d) PROVE RunInv'
  BY <1>4, StepCompare
<1>5. CASE UNCHANGED vars
  BY <1>5, StepStutter
<1> QED BY <1>1, <1>2, <1>3, <1>4, <1>5 DEF Next

\* The rows of a full directory are the jobs of its plan, each of them attempted
\* once under the frozen harness.
LEMMA FullIsWhole == RunInv => ReportsWholeRuns
<1> SUFFICES ASSUME RunInv, NEW rep \in reports, NEW d \in {rep[2], rep[3]}
             PROVE  /\ \A j \in JobIds : attempts[d][j] = 1
                    /\ {dir[d].rows[i].job : i \in DOMAIN dir[d].rows} = JobIds
                    /\ \A i \in DOMAIN dir[d].rows :
                         dir[d].rows[i].plan = rep[1] /\ dir[d].rows[i].harness = frozen[rep[1]]
  BY DEF ReportsWholeRuns
<1>1. d \in Dirs /\ dir[d].plan = rep[1] /\ Len(dir[d].rows) = Jobs
  BY DEF RunInv, Types, Full
<1>2. DOMAIN dir[d].rows = JobIds
  BY <1>1, RunAssumption DEF RunAssumption, RunInv, Types, DirType, JobIds
<1>3. \A i \in JobIds : /\ dir[d].rows[i].job = i /\ dir[d].rows[i].plan = dir[d].plan
                       /\ dir[d].rows[i].harness = frozen[dir[d].plan] /\ attempts[d][i] = 1
  BY <1>1 DEF RunInv, Prefix, JobIds
<1> QED BY <1>1, <1>2, <1>3

\* A report rests on whole runs of its plan and of the frozen harness, one
\* attempt per job, whatever the numbers of jobs, processes and directories:
\* what load_run() and compare() accept of what run() writes.
THEOREM PairedReports == Spec => []ReportsWholeRuns
<1>1. Spec => []RunInv
  BY RunInit, RunInductive, PTL DEF Spec
<1> QED BY <1>1, FullIsWhole, PTL

\* No step of any process changes a directory that a report was made from:
\* run() creates its directory and appends only until its last job.
THEOREM PairedReportedIsFixed == Spec => ReportedIsFixed
<1>1. Spec => []RunInv
  BY RunInit, RunInductive, PTL DEF Spec
<1>2. ASSUME RunInv, [Next]_vars
      PROVE  [\A rep \in reports : dir'[rep[2]] = dir[rep[2]] /\ dir'[rep[3]] = dir[rep[3]]]_vars
  <2> SUFFICES ASSUME NEW rep \in reports
               PROVE  dir'[rep[2]] = dir[rep[2]] /\ dir'[rep[3]] = dir[rep[3]]
    OBVIOUS
  <2> SUFFICES ASSUME NEW d \in Dirs, Len(dir[d].rows) = Jobs PROVE dir'[d] = dir[d]
    BY <1>2 DEF RunInv, Full, Types
  <2>1. dir[d].rows # <<>> /\ dir[d].state = "results"
    BY <1>2, RunAssumption DEF RunAssumption, RunInv, Prefix, Types, DirType
  <2>2. ASSUME NEW r \in Runners, runner[r].dir = d PROVE runner[r].pc \notin Working
    BY <1>2, <2>1, <2>2, RunAssumption DEF RunAssumption, RunInv, Place, Working, Types, RunnerType, JobIds
  <2>3. dir \in [Dirs -> DirType]
    BY <1>2 DEF RunInv, Types
  <2>4. ASSUME NEW r \in Runners, Run(r) PROVE dir'[d] = dir[d]
    BY <2>1, <2>2, <2>3, <2>4
       DEF Run, Start, Creates, WriteManifest, Warmup, Request, WriteRow, Kill, Again, Working
  <2> QED BY <1>2, <2>4 DEF Next, EditHarness, Freeze, Compare, vars
<1> QED BY <1>1, <1>2, PTL DEF Spec, ReportedIsFixed
=============================================================================
