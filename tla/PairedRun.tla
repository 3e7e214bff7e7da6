----------------------------- MODULE PairedRun -----------------------------
(***************************************************************************)
(* benchmarks/paired-harness/harness.py: freeze, run, compare, summarize.  *)
(*                                                                         *)
(* A plan freezes the jobs and the harness; a run sends each job once to   *)
(* one arm and appends a row per attempt to its own directory; a report is *)
(* made only of whole runs of one plan. Runs overlap, are killed anywhere  *)
(* and started again in other directories, while the harness is edited.    *)
(***************************************************************************)
EXTENDS Naturals, Sequences, FiniteSets

CONSTANTS
  Jobs,         \* jobs of a plan, 1 .. Jobs in its shuffled order
  Plans, Arms, Dirs,
  Runners,      \* processes that run the command "run"
  Versions,     \* bound: versions of harness.py
  NoPlan, NoArm

ASSUME RunAssumption ==
  /\ Jobs \in Nat \ {0} /\ Versions \in Nat \ {0}
  /\ NoPlan \notin Plans /\ NoArm \notin Arms

VARIABLES
  harness,      \* the version of harness.py on disk
  frozen,       \* harness_sha256 of each plan, 0 before freeze
  dir,          \* the output directories
  runner,       \* the run processes
  attempts,     \* requests sent for each job of each directory (history)
  reports       \* reports written: pairs of a plan and two directories

vars == <<harness, frozen, dir, runner, attempts, reports>>

JobIds == 1 .. Jobs
Row    == [job : JobIds, plan : Plans, arm : Arms, harness : 1 .. Versions]

Absent == [state |-> "absent", plan |-> NoPlan, arm |-> NoArm, rows |-> <<>>, torn |-> FALSE]
Idle   == [pc |-> "idle", plan |-> NoPlan, arm |-> NoArm, dir |-> "none", job |-> 1, harness |-> 0]

Init ==
  /\ harness = 1
  /\ frozen = [p \in Plans |-> 0]
  /\ dir = [d \in Dirs |-> Absent]
  /\ runner = [r \in Runners |-> Idle]
  /\ attempts = [d \in Dirs |-> [j \in JobIds |-> 0]]
  /\ reports = {}

EditHarness ==
  /\ harness < Versions
  /\ harness' = harness + 1
  /\ UNCHANGED <<frozen, dir, runner, attempts, reports>>

Freeze(p) ==
  /\ frozen[p] = 0
  /\ frozen' = [frozen EXCEPT ![p] = harness]
  /\ UNCHANGED <<harness, dir, runner, attempts, reports>>

----------------------------------------------------------------------------
(* run                                                                     *)

\* The harness is the one that was frozen.
SameHarness(p) == frozen[p] = harness

\* mkdir(exist_ok=False), open("x"): a directory and its files are created once.
\* Mutant: they are made over.
MadeOver(d, state) == TRUE
Creates(d, state) == dir[d].state = state

Start(r, p, a, d) ==
  /\ runner[r].pc = "idle" /\ frozen[p] # 0 /\ SameHarness(p) /\ Creates(d, "absent")
  /\ dir' = [dir EXCEPT ![d].state = "made"]
  /\ runner' = [runner EXCEPT ![r] = [pc |-> "manifest", plan |-> p, arm |-> a, dir |-> d,
                                      job |-> 1, harness |-> harness]]
  /\ UNCHANGED <<harness, frozen, attempts, reports>>

WriteManifest(r) ==
  /\ runner[r].pc = "manifest" /\ Creates(runner[r].dir, "made")
  /\ dir' = [dir EXCEPT ![runner[r].dir].state = "manifest",
                        ![runner[r].dir].plan = runner[r].plan,
                        ![runner[r].dir].arm = runner[r].arm]
  /\ runner' = [runner EXCEPT ![r].pc = "warmup"]
  /\ UNCHANGED <<harness, frozen, attempts, reports>>

\* The warm-up request is no observation, but it may end the process; then
\* results.jsonl is created.
Warmup(r) ==
  /\ runner[r].pc = "warmup" /\ Creates(runner[r].dir, "manifest")
  /\ \/ /\ dir' = [dir EXCEPT ![runner[r].dir].state = "results", ![runner[r].dir].rows = <<>>]
        /\ runner' = [runner EXCEPT ![r].pc = "request"]
     \/ runner' = [runner EXCEPT ![r].pc = "raised"] /\ UNCHANGED dir
  /\ UNCHANGED <<harness, frozen, attempts, reports>>

\* A request is answered, or ends in a failure that request() turns into a
\* result. An IncompleteRead, which is no OSError, or a malformed choice ends
\* the process, and so does a grader whose sandbox hangs.
Request(r) ==
  /\ runner[r].pc = "request"
  /\ attempts' = [attempts EXCEPT ![runner[r].dir][runner[r].job] = @ + 1]
  /\ \/ runner' = [runner EXCEPT ![r].pc = "write"]
     \/ runner' = [runner EXCEPT ![r].pc = "raised"]
  /\ UNCHANGED <<harness, frozen, dir, reports>>

WriteRow(r) ==
  LET me == runner[r] IN
  /\ me.pc = "write"
  /\ dir' = [dir EXCEPT ![me.dir].rows = Append(@,
       [job |-> me.job, plan |-> me.plan, arm |-> me.arm, harness |-> me.harness])]
  /\ runner' = [runner EXCEPT ![r] =
       IF me.job < Jobs THEN [me EXCEPT !.job = me.job + 1, !.pc = "request"]
                        ELSE [me EXCEPT !.pc = "done"]]
  /\ UNCHANGED <<harness, frozen, attempts, reports>>

\* A killed process may leave the beginning of a row that outgrew the buffer.
Kill(r) ==
  /\ runner[r].pc \in {"manifest", "warmup", "request", "write"}
  /\ \/ UNCHANGED dir
     \/ runner[r].pc = "write" /\ dir' = [dir EXCEPT ![runner[r].dir].torn = TRUE]
  /\ runner' = [runner EXCEPT ![r].pc = "killed"]
  /\ UNCHANGED <<harness, frozen, attempts, reports>>

Again(r) ==
  /\ runner[r].pc \in {"done", "raised", "killed"}
  /\ runner' = [runner EXCEPT ![r] = Idle]
  /\ UNCHANGED <<harness, frozen, dir, attempts, reports>>

----------------------------------------------------------------------------
(* compare                                                                 *)

JobsOf(rows) == {rows[i].job : i \in DOMAIN rows}

\* Every job, each once. Mutant: rows may be missing.
NoneTwice(rows) == Cardinality(JobsOf(rows)) = Len(rows)
Complete(rows) == Cardinality(JobsOf(rows)) = Len(rows) /\ JobsOf(rows) = JobIds

SamePlan(d, p) == dir[d].plan = p /\ \A i \in DOMAIN dir[d].rows : dir[d].rows[i].plan = p

Loads(d, p) ==
  /\ dir[d].state = "results" /\ ~dir[d].torn
  /\ SamePlan(d, p) /\ Complete(dir[d].rows)
  /\ \A i \in DOMAIN dir[d].rows : dir[d].rows[i].arm = dir[d].arm

Compare(p, c, d) ==
  /\ frozen[p] # 0 /\ Loads(c, p) /\ Loads(d, p)
  /\ reports' = reports \cup {<<p, c, d>>}
  /\ UNCHANGED <<harness, frozen, dir, runner, attempts>>

----------------------------------------------------------------------------

Run(r) ==
  \/ \E p \in Plans, a \in Arms, d \in Dirs : Start(r, p, a, d)
  \/ WriteManifest(r) \/ Warmup(r) \/ Request(r) \/ WriteRow(r) \/ Kill(r) \/ Again(r)

Next ==
  \/ EditHarness \/ \E p \in Plans : Freeze(p)
  \/ \E r \in Runners : Run(r)
  \/ \E p \in Plans, c, d \in Dirs : Compare(p, c, d)

Spec == Init /\ [][Next]_vars

----------------------------------------------------------------------------
(* Properties.                                                             *)

\* Every variable has its type.
TypeOK ==
  /\ harness \in 1 .. Versions /\ frozen \in [Plans -> 0 .. Versions]
  /\ \A d \in Dirs :
       /\ dir[d].state \in {"absent", "made", "manifest", "results"} /\ dir[d].torn \in BOOLEAN
       /\ dir[d].plan \in Plans \cup {NoPlan} /\ dir[d].arm \in Arms \cup {NoArm}
       /\ Len(dir[d].rows) <= Jobs /\ \A i \in DOMAIN dir[d].rows : dir[d].rows[i] \in Row
  /\ attempts \in [Dirs -> [JobIds -> 0 .. 1]]
  /\ reports \subseteq Plans \X Dirs \X Dirs

\* README: "compare refuses incomplete, duplicated, or differently frozen
\* observations". What a report rests on is one attempt per job, each made
\* under the plan of the report and the harness that was frozen with it.
ReportsWholeRuns ==
  \A rep \in reports : \A d \in {rep[2], rep[3]} :
    /\ \A j \in JobIds : attempts[d][j] = 1
    /\ {dir[d].rows[i].job : i \in DOMAIN dir[d].rows} = JobIds
    /\ \A i \in DOMAIN dir[d].rows :
         dir[d].rows[i].plan = rep[1] /\ dir[d].rows[i].harness = frozen[rep[1]]

\* "Output directories cannot be overwritten": no run, however it interleaves
\* with others, changes a directory a report was made from.
ReportedIsFixed ==
  [][\A rep \in reports : dir'[rep[2]] = dir[rep[2]] /\ dir'[rep[3]] = dir[rep[3]]]_vars
=============================================================================
