---------------------------- MODULE Regeneration ----------------------------
(***************************************************************************)
(* The jobs of the K2 drafter that borrow the GPU from the local API.      *)
(*                                                                         *)
(* resume-regeneration.sh ("regen") and with-local-api-paused.sh           *)
(* ("capture") run as units of the user's systemd. Each takes one lock,    *)
(* suspends Flux, scales the API to zero, uses the GPU and restores both   *)
(* in its trap. regen resumes the regeneration of the answers where an     *)
(* earlier invocation left it and filters them into the capture set.       *)
(* notify_completion.py watches one invocation and reports its end.        *)
(***************************************************************************)
EXTENDS Integers, Sequences, SequencesExt, FiniteSets

CONSTANTS
  Legacy,       \* the first output: [id, finish, usable], answers lost to the old parser unusable
  ErrorShare,   \* an invocation may fail on one row in ErrorShare
  MaxStarts,    \* bound: invocations of the two units together
  MaxCrashes    \* bound: ends of the notifier before its work is done

Jobs == {"regen", "capture"}

VARIABLES
  replicas, suspended, pod,   \* the deployment, Flux's kustomization, the API's pod
  pc, rc, saved, stop, gpu,   \* per job: step, $?, $replicas, TERM sent, it holds the GPU
  starts,                     \* per job: invocations so far, the last one's number
  lock,                       \* who holds .k2-training.lock
  input,                      \* regen-input.jsonl: the id of each row, which other rows may have, too
  output,                     \* regen-output-v2.jsonl: [row, id, finish, usable], row the place in input
                              \* of the conversation that is answered; Absent before it is seeded
  todo, errors, quota,        \* of this invocation: rows submitted and unanswered (places), failed, submitted at first
  capture_set,                \* k2-eagle3-regenerated.jsonl
  journal,                    \* per invocation of regen: the exit status it printed, or NoExit
  watch, seen, verdict,       \* the notifier: step, service status and result
  saved_state, queued,        \* its state file, the messages in the chat (set)
  crashes

api    == <<replicas, suspended, pod>>
unit   == <<pc, rc, saved, stop, gpu, starts, lock>>
files  == <<input, output, todo, errors, quota, capture_set>>
notify == <<watch, seen, verdict, saved_state, queued, crashes>>
vars   == <<api, unit, files, journal, notify>>

Nobody   == "nobody"
NoExit   == 999                                  \* nothing printed, or nothing concluded
Torn     == [id |-> <<>>, finish |-> "torn"]     \* a line cut short by a kill
Absent   == <<[id |-> <<>>, finish |-> "absent"]>>
Unread   == [active |-> "unread", invocation |-> 0, status |-> 0]
Unnoted  == [invocation |-> 0, delivered |-> FALSE]
NoResult == <<>>

\* The steps of a job up to its trap, in order.
Steps == [regen   |-> <<"seed", "check", "suspend", "scale", "wait", "gpu", "serve", "smoke", "regenerate", "build">>,
          capture |-> <<"check", "suspend", "scale", "wait", "gpu", "command">>]
After(j, s) == LET n == CHOOSE i \in DOMAIN Steps[j] : Steps[j][i] = s
               IN  IF n = Len(Steps[j]) THEN "unserve" ELSE Steps[j][n + 1]

\* The steps before the trap is set, and the trap's own.
Untrapped == {"seed", "check"}
Cleanup   == {"unserve", "restore", "resume", "rollout"}

ASSUME BoundAssumption == ErrorShare \in Nat /\ MaxStarts \in Nat /\ MaxCrashes \in Nat

Live(j) == pc[j] # "off"
Up == replicas = 1 /\ ~suspended

Init ==
  /\ replicas = 1 /\ suspended = FALSE /\ pod = TRUE
  /\ pc = [j \in Jobs |-> "off"] /\ rc = [j \in Jobs |-> 0] /\ saved = [j \in Jobs |-> 0]
  /\ stop = [j \in Jobs |-> FALSE] /\ gpu = [j \in Jobs |-> FALSE] /\ starts = [j \in Jobs |-> 0]
  /\ lock = Nobody
  /\ input = <<>> /\ output = Absent /\ todo = {} /\ errors = 0 /\ quota = 0 /\ capture_set = <<>>
  /\ journal = <<>>
  /\ watch = "off" /\ seen = Unread /\ verdict = NoResult /\ saved_state = Unnoted /\ queued = {} /\ crashes = 0

----------------------------------------------------------------------------
(* Flux, the cluster and the operator                                      *)

Reconcile == ~suspended /\ replicas = 0 /\ replicas' = 1 /\ UNCHANGED <<suspended, pod, unit, files, journal, notify>>
PodStarts == replicas = 1 /\ ~pod /\ pod' = TRUE /\ UNCHANGED <<replicas, suspended, unit, files, journal, notify>>
PodEnds   == replicas = 0 /\ pod /\ pod' = FALSE /\ UNCHANGED <<replicas, suspended, unit, files, journal, notify>>

\* The operator puts the API back once no job runs, and cuts off a torn line.
Repair ==
  /\ \A j \in Jobs : ~Live(j)
  /\ replicas' = 1 /\ suspended' = FALSE
  /\ output' = IF output # <<>> /\ Last(output) = Torn THEN Front(output) ELSE output
  /\ UNCHANGED <<pod, unit, input, todo, errors, quota, capture_set, journal, notify>>

\* build_regen_prompts.py has written the input, once; no job runs without it.
Deliver(ids) ==
  /\ input = <<>> /\ input' = ids
  /\ UNCHANGED <<api, unit, output, todo, errors, quota, capture_set, journal, notify>>

----------------------------------------------------------------------------
(* A job                                                                   *)

\* systemd-run: an invocation that does not get the lock ends at once.
Start(j) ==
  /\ ~Live(j) /\ input # <<>> /\ starts["regen"] + starts["capture"] < MaxStarts
  /\ starts' = [starts EXCEPT ![j] = @ + 1]
  /\ journal' = IF j = "regen" THEN Append(journal, NoExit) ELSE journal
  /\ IF lock = Nobody
     THEN lock' = j /\ pc' = [pc EXCEPT ![j] = Steps[j][1]] /\ rc' = [rc EXCEPT ![j] = 0]
     ELSE rc' = [rc EXCEPT ![j] = 1] /\ UNCHANGED <<lock, pc>>
  /\ UNCHANGED <<api, saved, stop, gpu, files, notify>>

\* The main process has ended with status code: its memory is gone, its
\* descriptors are closed, and systemd kills what is left of its cgroup.
Gone(j, code) ==
  /\ pc' = [pc EXCEPT ![j] = "off"] /\ rc' = [rc EXCEPT ![j] = code]
  /\ gpu' = [gpu EXCEPT ![j] = FALSE] /\ lock' = Nobody
  /\ saved' = [saved EXCEPT ![j] = 0] /\ stop' = [stop EXCEPT ![j] = FALSE]
  /\ UNCHANGED starts

\* The foreground command of step s has ended. Under set -e a failure ends the
\* script, and a TERM that came meanwhile is handled only now: by the trap where
\* it is set.
Ends(j, s, code, uses) ==
  LET end == IF stop[j] THEN 143 ELSE code IN
  /\ pc[j] = s
  /\ IF end = 0
     THEN /\ pc' = [pc EXCEPT ![j] = After(j, s)]
          /\ gpu' = [gpu EXCEPT ![j] = uses] /\ UNCHANGED <<rc, lock, saved, stop, starts>>
     ELSE IF s \in Untrapped THEN Gone(j, end)
     ELSE /\ pc' = [pc EXCEPT ![j] = "unserve"] /\ rc' = [rc EXCEPT ![j] = end]
          /\ gpu' = [gpu EXCEPT ![j] = uses] /\ UNCHANGED <<lock, saved, stop, starts>>

\* systemctl stop: bash has no handler before the trap is set and after the
\* trap has reset it, and dies at once; under the trap it waits for its command.
Stop(j) ==
  /\ Live(j) /\ ~stop[j]
  /\ IF pc[j] \in Untrapped \cup Cleanup
     THEN Gone(j, 143)
     ELSE stop' = [stop EXCEPT ![j] = TRUE] /\ UNCHANGED <<pc, rc, saved, gpu, starts, lock>>
  /\ UNCHANGED <<api, files, journal, notify>>

\* TimeoutStopSec has passed while a foreground command runs on, as a
\* regeneration does and any command may that hangs: SIGKILL to the whole unit,
\* which may cut the line being written.
Kill(j) ==
  /\ Live(j) /\ stop[j]
  /\ Gone(j, 137)
  /\ output' \in IF pc[j] = "regenerate" /\ todo # {} THEN {output, Append(output, Torn)} ELSE {output}
  /\ todo' = {} /\ errors' = 0 /\ quota' = 0 /\ UNCHANGED <<api, input, capture_set, journal, notify>>

Ids(out) == {out[i].id : i \in DOMAIN out}
Parses(out) == \A i \in DOMAIN out : out[i] # Torn
Usable(row) == row.finish # "length" /\ row.usable

\* What the old parser left whole, each line of which parses and has an id.
Kept == SelectSeq(Legacy, LAMBDA r : r.finish = "length" \/ r.usable)
ASSUME LegacyAssumption ==
  /\ Kept \in Seq({Kept[i] : i \in DOMAIN Kept})
  /\ \A i \in DOMAIN Kept : Kept[i] # Torn /\ Kept[i].id # <<>>

\* The output is seeded once, through a temporary file, with the rows kept; then
\* the output must parse, without an id twice or from elsewhere.
Seed ==
  LET out  == IF output = Absent THEN Kept ELSE output
      good == Parses(out) /\ Cardinality(Ids(out)) = Len(out) /\ Ids(out) \subseteq ToSet(input)
  IN  /\ Ends("regen", "seed", IF good THEN 0 ELSE 1, FALSE)
      /\ output' = out
      /\ UNCHANGED <<api, input, todo, errors, quota, capture_set, journal, notify>>

\* Mutant: whatever the number of replicas is, it is the one to restore.
AnyReplicas == TRUE
Normal == replicas = 1 /\ ~suspended

Check(j) ==
  /\ pc[j] = "check"
  /\ IF Normal
     THEN saved' = [saved EXCEPT ![j] = replicas] /\ pc' = [pc EXCEPT ![j] = "suspend"] /\ UNCHANGED <<rc, stop, gpu, starts, lock>>
     ELSE Gone(j, 1)
  /\ UNCHANGED <<api, files, journal, notify>>

Suspend(j) == \E ok \in BOOLEAN :
  /\ Ends(j, "suspend", IF ok THEN 0 ELSE 1, FALSE)
  /\ suspended' = (suspended \/ ok) /\ UNCHANGED <<replicas, pod, files, journal, notify>>

Scale(j) == \E ok \in BOOLEAN :
  /\ Ends(j, "scale", IF ok THEN 0 ELSE 1, FALSE)
  /\ replicas' = IF ok THEN 0 ELSE replicas
  /\ UNCHANGED <<suspended, pod, files, journal, notify>>

\* kubectl wait --for=delete, five minutes at most.
Wait(j) == \E ok \in BOOLEAN :
  /\ ok => ~pod
  /\ Ends(j, "wait", IF ok THEN 0 ELSE 1, FALSE) /\ UNCHANGED <<api, files, journal, notify>>

Free == ~pod /\ \A j \in Jobs : ~gpu[j]

\* nvidia-smi, which may fail.
CheckGpu(j) == \E ok \in BOOLEAN :
  /\ ok => Free
  /\ Ends(j, "gpu", IF ok THEN 0 ELSE 1, FALSE) /\ UNCHANGED <<api, files, journal, notify>>

\* SGLang is in the background; it may exit, or not be ready in time. The smoke
\* answer may be wrong.
Serve == \E ok \in BOOLEAN :
  Ends("regen", "serve", IF ok THEN 0 ELSE 1, TRUE) /\ UNCHANGED <<api, files, journal, notify>>

\* Mutant: every row is submitted again.
AllRows == DOMAIN input
\* Rows are left out by the ids in the output as the program finds it: two rows
\* with one id are both submitted.
Todo == {n \in DOMAIN input : input[n] \notin Ids(output)}

\* The smoke test, and with its success the start of regenerate_sessions.py.
Smoke == \E ok \in BOOLEAN :
  /\ Ends("regen", "smoke", IF ok THEN 0 ELSE 1, TRUE)
  /\ todo' = IF pc'["regen"] = "regenerate" THEN Todo ELSE {}
  /\ quota' = Cardinality(todo')
  /\ UNCHANGED <<api, input, output, errors, capture_set, journal, notify>>

\* regen_one, its three attempts taken together, and the loop over the answers
\* in the order they come: each is written at once. An answer with neither text
\* nor call is an error unless it was cut off.
Answer(n) == \E finish \in {"stop", "length", "error"} :
  /\ pc["regen"] = "regenerate" /\ n \in todo
  /\ todo' = todo \ {n}
  /\ IF finish = "error"
     THEN errors' = errors + 1 /\ UNCHANGED output
     ELSE output' = Append(output, [row |-> n, id |-> input[n], finish |-> finish, usable |-> finish = "stop"]) /\ UNCHANGED errors
  /\ UNCHANGED <<api, unit, input, quota, capture_set, journal, notify>>

WithinRate == errors * ErrorShare <= quota

\* All are answered; or an answer without "choices" raised in its future, and
\* the pool went on to the end for nothing.
Regenerated == \E raised \in BOOLEAN :
  /\ IF raised THEN todo # {} ELSE todo = {}
  /\ Ends("regen", "regenerate", IF raised \/ ~WithinRate THEN 1 ELSE 0, TRUE)
  /\ todo' = {} /\ errors' = 0 /\ quota' = 0
  /\ UNCHANGED <<api, input, output, capture_set, journal, notify>>

CaptureRows(out) == SelectSeq(out, Usable)

\* build_capture_set.py empties its file as it opens it.
BuildCaptureSet == \E ok \in BOOLEAN :
  /\ Ends("regen", "build", IF ok THEN 0 ELSE 1, TRUE)
  /\ capture_set' = IF ok THEN CaptureRows(output) ELSE <<>>
  /\ UNCHANGED <<api, input, output, todo, errors, quota, journal, notify>>

\* The command of with-local-api-paused.sh takes the GPU and gives it back.
Command == \E ok \in BOOLEAN :
  /\ IF gpu["capture"]
     THEN Ends("capture", "command", IF ok THEN 0 ELSE 1, FALSE)
     ELSE /\ pc["capture"] = "command" /\ gpu' = [gpu EXCEPT !["capture"] = TRUE]
          /\ UNCHANGED <<pc, rc, saved, stop, starts, lock>>
  /\ UNCHANGED <<api, files, journal, notify>>

----------------------------------------------------------------------------
(* The trap                                                                *)

To(j, s) == pc' = [pc EXCEPT ![j] = s] /\ UNCHANGED <<saved, stop, starts, lock>>
Marked(j, ok) == rc' = IF ok THEN rc ELSE [rc EXCEPT ![j] = 1]

\* Mutant: the server is left to the end of the unit.
LeaveServer(j) == gpu
KillServer(j) == [gpu EXCEPT ![j] = FALSE]

Unserve(j) ==
  /\ pc[j] = "unserve" /\ gpu' = KillServer(j)
  /\ To(j, "restore") /\ UNCHANGED <<rc, api, files, journal, notify>>

Restore(j) == \E ok \in BOOLEAN :
  /\ pc[j] = "restore" /\ replicas' = (IF ok THEN saved[j] ELSE replicas)
  /\ To(j, "resume") /\ Marked(j, ok) /\ UNCHANGED <<gpu, suspended, pod, files, journal, notify>>

Resume(j) == \E ok \in BOOLEAN :
  /\ pc[j] = "resume" /\ suspended' = (suspended /\ ~ok)
  /\ To(j, "rollout") /\ Marked(j, ok) /\ UNCHANGED <<gpu, replicas, pod, files, journal, notify>>

\* The rollout, the line in the journal and the exit.
Rollout(j) == \E ok \in BOOLEAN :
  LET code == IF ok THEN rc[j] ELSE 1 IN
  /\ pc[j] = "rollout" /\ (ok => (replicas = 1 => pod))
  /\ Gone(j, code)
  /\ journal' = IF j = "regen" THEN [journal EXCEPT ![starts[j]] = code] ELSE journal
  /\ UNCHANGED <<api, files, notify>>

Job(j) ==
  \/ Check(j) \/ Suspend(j) \/ Scale(j) \/ Wait(j) \/ CheckGpu(j)
  \/ Unserve(j) \/ Restore(j) \/ Resume(j) \/ Rollout(j)
Regen == Seed \/ Serve \/ Smoke \/ (\E n \in todo : Answer(n)) \/ Regenerated \/ BuildCaptureSet

----------------------------------------------------------------------------
(* The notifier                                                            *)

\* systemctl show: the invocation is known while the unit is loaded, and a unit
\* that ended well is unloaded.
Status ==
  [active |-> IF Live("regen") THEN "active" ELSE IF rc["regen"] = 0 THEN "inactive" ELSE "failed",
   invocation |-> IF Live("regen") \/ rc["regen"] # 0 THEN starts["regen"] ELSE 0,
   status |-> rc["regen"]]

\* It starts from its state file, or notes the invocation it finds.
Monitor ==
  /\ watch = "off" /\ crashes <= MaxCrashes
  /\ IF saved_state = Unnoted
     THEN /\ starts["regen"] > 0 /\ Status.invocation # 0
          /\ saved_state' = [invocation |-> Status.invocation, delivered |-> FALSE]
          /\ watch' = "poll"
     ELSE watch' = (IF saved_state.delivered THEN "done" ELSE "poll") /\ UNCHANGED saved_state
  /\ UNCHANGED <<api, unit, files, journal, seen, verdict, queued, crashes>>

Poll ==
  /\ watch = "poll" /\ seen' = Status /\ watch' = "judge"
  /\ UNCHANGED <<api, unit, files, journal, verdict, saved_state, queued, crashes>>

\* Mutant: the journal of the unit, whichever invocation wrote the line.
OfTheUnit(i) == LET ends == SelectSeq(journal, LAMBDA c : c # NoExit) IN IF ends = <<>> THEN NoExit ELSE Last(ends)
Ending(i) == journal[i]

\* completion_result
Result(i) ==
  LET end == Ending(i) IN
  CASE end # NoExit                                         -> <<"finished", end>>
    [] end = NoExit /\ seen.invocation \notin {0, i}        -> <<"replaced">>
    [] end = NoExit /\ seen.invocation \in {0, i} /\ seen.active = "active" -> NoResult
    [] end = NoExit /\ seen.invocation \in {0, i} /\ seen.active = "failed" -> <<"failed", seen.status>>
    [] OTHER                                              -> <<"stopped">>

\* Mutant: the message is noted as delivered before it is.
NotedFirst(result) == [saved_state EXCEPT !.delivered = result # NoResult]
Concluded(result) == saved_state

\* The journal is read after the status.
Judge ==
  LET result == Result(saved_state.invocation) IN
  /\ watch = "judge"
  /\ verdict' = result /\ watch' = (IF result = NoResult THEN "poll" ELSE "queue") /\ seen' = Unread
  /\ saved_state' = Concluded(result)
  /\ UNCHANGED <<api, unit, files, journal, queued, crashes>>

\* codex queue, then the state file; a queue that fails ends the program.
Queue == \E ok \in BOOLEAN :
  /\ watch = "queue"
  /\ IF ok THEN queued' = queued \cup {<<saved_state.invocation, verdict>>} /\ watch' = "save" /\ UNCHANGED <<crashes, verdict>>
     ELSE crashes < MaxCrashes /\ crashes' = crashes + 1 /\ watch' = "off" /\ verdict' = NoResult /\ UNCHANGED queued
  /\ UNCHANGED <<api, unit, files, journal, seen, saved_state>>

SaveState ==
  /\ watch = "save" /\ saved_state' = [saved_state EXCEPT !.delivered = TRUE]
  /\ watch' = "done" /\ verdict' = NoResult
  /\ UNCHANGED <<api, unit, files, journal, seen, queued, crashes>>

\* The notifier is killed, or a command of its fails; systemd starts it again.
CrashNotifier ==
  /\ watch \in {"poll", "judge", "queue", "save"} /\ crashes < MaxCrashes
  /\ crashes' = crashes + 1 /\ watch' = "off" /\ seen' = Unread /\ verdict' = NoResult
  /\ UNCHANGED <<api, unit, files, journal, saved_state, queued>>

Notifier == Monitor \/ Poll \/ Judge \/ Queue \/ SaveState

----------------------------------------------------------------------------

Next ==
  \/ Reconcile \/ PodStarts \/ PodEnds \/ Repair
  \/ \E j \in Jobs : Start(j) \/ Stop(j) \/ Kill(j) \/ Job(j)
  \/ Regen \/ Command
  \/ Notifier \/ CrashNotifier

\* systemd starts the notifier again until it is done; jobs owe nothing.
Fairness == WF_vars(Notifier)

Spec == Init /\ [][Next]_vars /\ Fairness

----------------------------------------------------------------------------
(* Properties.                                                             *)

\* The API's pod, SGLang and the captured engine never share the GPU, whatever
\* fails or is stopped, and Flux does not bring the API back under a job.
OneOnGpu == Cardinality({j \in Jobs : gpu[j]}) + (IF pod THEN 1 ELSE 0) <= 1

\* Over all invocations a row is answered once, and not at all if its id was
\* kept: when an answer has the id of an earlier line, both answer rows of the
\* input that share it. A line a kill cut short stays the last one until it is
\* repaired.
TwoRows(r, t) ==
  /\ r.row \in DOMAIN input /\ t.row \in DOMAIN input /\ r.row # t.row
  /\ input[r.row] = r.id /\ input[t.row] = t.id
RowsOnce ==
  output # Absent => \A i \in 1 .. Len(output) - 1 :
    /\ output[i] # Torn
    /\ \A k \in i + 1 .. Len(output) :
         k > Len(Kept) /\ output[k].id = output[i].id => i > Len(Kept) /\ TwoRows(output[i], output[k])

\* "Regeneration finished with exit=0" is printed with the API back and with the
\* capture set made of every whole answer, at most a share of the rows missing.
DoneMeansReady ==
  [][\A n \in DOMAIN journal : journal[n] # 0 /\ journal'[n] = 0 =>
       /\ Up /\ pod
       /\ capture_set = CaptureRows(output)
       /\ Cardinality({i \in DOMAIN input : input[i] \notin Ids(output)}) * ErrorShare <= Len(input)]_vars

\* What the chat is told of an invocation is what became of it: the status it
\* printed, or that it is over without one.
VerdictIsTrue ==
  \A m \in queued :
    IF m[2][1] = "finished" THEN journal[m[1]] = m[2][2]
    ELSE journal[m[1]] = NoExit /\ (starts["regen"] > m[1] \/ ~Live("regen"))

\* An invocation that was noted and is over is reported, whatever crashes.
Notified ==
  \A i \in 1 .. MaxStarts :
    (saved_state.invocation = i /\ (starts["regen"] > i \/ ~Live("regen"))) ~> \E m \in queued : m[1] = i

\* with-local-api-paused.sh:2-3: suspends Flux, scales the API to zero, and
\* restores "both on success, failure, or TERM".
StopRestores ==
  \A j \in Jobs : ~Live(j) /\ rc[j] \in {137, 143} /\ lock = Nobody => Up
=============================================================================
