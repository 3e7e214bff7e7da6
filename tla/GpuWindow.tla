----------------------------- MODULE GpuWindow -----------------------------
(***************************************************************************)
(* benchmarks/orca-thinkingcap-2026-10-07/run.py: one GPU window. The      *)
(* script takes the live service off the GPU, benchmarks one container     *)
(* after another beside a monitor thread, and puts the service back in a   *)
(* finally block.                                                          *)
(*                                                                         *)
(* A command may do its work and return, do it and raise (it timed out), or*)
(* raise without doing it; a signal raises in the main thread wherever it  *)
(* is. faults admits what the restoration itself is exposed to.            *)
(***************************************************************************)
EXTENDS Naturals, FiniteSets

CONSTANTS
  Arms,         \* containers benchmarked, 1 .. Arms
  Rounds,       \* plans and concurrency panels run on each
  Runs,         \* bound: times the script is started
  Faults        \* what may strike: subset of {"rm_timeout", "rm_error", "late_signal"}

ASSUME WindowAssumption ==
  /\ Arms \in Nat \ {0} /\ Rounds \in Nat \ {0} /\ Runs \in Nat \ {0}
  /\ Faults \subseteq {"rm_timeout", "rm_error", "late_signal"}

VARIABLES
  faults,       \* what strikes in this behaviour: nothing, or all of Faults
  original,     \* replicas and Flux suspension before anything ran (history)
  replicas,     \* replicas the Deployment asks for: 0 or 1
  suspended,    \* Flux reconciliation is suspended
  pod,          \* the service's pod is on the GPU
  container,    \* state of each arm's container
  before,       \* state-before.json
  report,       \* state-restored.json
  pc, arm, round,
  active,       \* global active: an arm, 0 for None
  failing,      \* an exception is on its way out of main
  failures,     \* some restoration command failed
  stop, abort,  \* the two threading.Events
  monitor,      \* state of each arm's monitor thread
  disturbed,    \* arms that tripped or died while they were measured (history)
  runs

cluster == <<replicas, suspended, pod>>
files   == <<before, report>>
locals  == <<arm, round, active, failing, failures>>
threads == <<stop, abort, monitor, disturbed>>
fixed == <<faults, original>>
vars == <<fixed, cluster, container, files, pc, locals, threads, runs>>

ArmIds == 1 .. Arms
NoRecord == [replicas |-> 0, suspended |-> FALSE, saved |-> FALSE]

InArm   == {"start_monitor", "ready", "work", "logs", "rm_arm", "stop_arm", "join"}
Measure == {"ready", "work"}
Body    == {"suspend", "scale_down", "wait_gone", "wait_gpu", "launch", "compare"} \cup InArm
Restore == {"rm", "stop_all", "scale_back", "resume", "verify", "report"}
Ended   == {"ended", "refused", "killed"}
Labels  == {"guard", "record", "exit"} \cup Body \cup Restore \cup Ended

Quiet(m) == m \in {"none", "done"}

Init ==
  /\ faults \in {{}, Faults}
  /\ replicas \in {0, 1} /\ suspended \in BOOLEAN /\ (~suspended => replicas = 1)
  /\ original = [replicas |-> replicas, suspended |-> suspended]
  /\ pod = (replicas = 1)
  /\ container = [a \in ArmIds |-> "absent"]
  /\ before = NoRecord /\ report = "none"
  /\ pc = "guard" /\ arm = 1 /\ round = 0 /\ active = 0
  /\ failing = FALSE /\ failures = FALSE
  /\ stop = FALSE /\ abort = FALSE /\ disturbed = {}
  /\ monitor = [a \in ArmIds |-> "none"]
  /\ runs = 1

----------------------------------------------------------------------------
(* Exceptions. try/finally around an arm, try/finally around the window.   *)

\* Mutant: the window has no finally of its own.
HandlerNoFinally(p) == IF p \in Measure THEN "logs" ELSE "exit"
Handler(p) ==
  CASE p \in Measure           -> "logs"
    [] p \in Body \ Measure    -> "rm"
    [] OTHER                   -> "exit"

\* A command fails without effect, or a signal arrives. Inside the window's
\* finally block only the admitted faults raise.
MayRaise(p) ==
  \/ p \in {"record"} \cup Body
  \/ p = "rm" /\ active # 0 /\ "rm_timeout" \in faults
  \/ p \in Restore /\ "late_signal" \in faults

Raise ==
  /\ MayRaise(pc)
  /\ pc' = Handler(pc) /\ failing' = TRUE
  /\ UNCHANGED <<fixed, cluster, container, files, arm, round, active, failures, threads, runs>>

\* A command took effect: it returns, or it timed out.
Return(next) ==
  \/ pc' = next /\ UNCHANGED failing
  \/ MayRaise(pc) /\ pc' = Handler(pc) /\ failing' = TRUE

Goto(next) == pc' = next /\ UNCHANGED failing

----------------------------------------------------------------------------
(* Opening the window                                                      *)

\* state-before.json is not there; it is looked for, and created exclusively.
\* Mutant: every start has a directory of its own.
OwnDirectory == TRUE
Fresh == ~before.saved

Guard ==
  /\ pc = "guard"
  /\ Goto(IF Fresh THEN "record" ELSE "refused")
  /\ UNCHANGED <<fixed, cluster, container, files, arm, round, active, failures, threads, runs>>

Record ==
  /\ pc = "record" /\ Fresh
  /\ before' = [replicas |-> replicas, suspended |-> suspended, saved |-> TRUE]
  /\ Return("suspend")
  /\ UNCHANGED <<fixed, cluster, container, report, arm, round, active, failures, threads, runs>>

\* Mutant: Flux is left to reconcile.
FluxLeft == FALSE
SuspendsFlux == ~before.suspended

Suspend ==
  /\ pc = "suspend"
  /\ suspended' = (suspended \/ SuspendsFlux)
  /\ Return("scale_down")
  /\ UNCHANGED <<fixed, replicas, pod, container, files, arm, round, active, failures, threads, runs>>

ScaleDown ==
  /\ pc = "scale_down"
  /\ replicas' = 0
  /\ Return("wait_gone")
  /\ UNCHANGED <<fixed, suspended, pod, container, files, arm, round, active, failures, threads, runs>>

\* kubectl wait, then nvidia-smi shows no process; else they raise.
WaitGone ==
  /\ \/ pc = "wait_gone" /\ ~pod /\ Goto("wait_gpu")
     \/ pc = "wait_gpu" /\ ~pod /\ (\A a \in ArmIds : container[a] # "running") /\ Goto("launch")
  /\ UNCHANGED <<fixed, cluster, container, files, arm, round, active, failures, threads, runs>>

----------------------------------------------------------------------------
(* One arm                                                                 *)

\* active is set before docker run.
Launch ==
  /\ pc = "launch"
  /\ active' = arm /\ round' = 0
  /\ container' = [container EXCEPT ![arm] = "running"]
  /\ Return("start_monitor")
  /\ UNCHANGED <<fixed, cluster, files, arm, failures, threads, runs>>

StartMonitor ==
  /\ pc = "start_monitor"
  /\ stop' = FALSE /\ abort' = FALSE
  /\ monitor' = [monitor EXCEPT ![arm] = "watch"]
  /\ Return("ready")
  /\ UNCHANGED <<fixed, cluster, container, files, arm, round, active, failures, disturbed, runs>>

Ready ==
  /\ pc = "ready" /\ ~abort /\ container[arm] = "running"
  /\ Goto("work")
  /\ UNCHANGED <<fixed, cluster, container, files, arm, round, active, failures, threads, runs>>

\* Mutant: the abort event is not looked at after a plan.
AbortIgnored == TRUE
MayGoOn == ~abort

\* One plan, or last the concurrency panels. A tripped monitor makes it raise;
\* a plan records the requests that fail and goes on, a panel raises.
Work ==
  /\ pc = "work" /\ MayGoOn
  /\ round + 1 = Rounds => container[arm] = "running"
  /\ round' = round + 1
  /\ Goto(IF round + 1 = Rounds THEN "logs" ELSE "work")
  /\ UNCHANGED <<fixed, cluster, container, files, arm, active, failures, threads, runs>>

Logs ==
  /\ pc = "logs" /\ Goto("rm_arm")
  /\ UNCHANGED <<fixed, cluster, container, files, arm, round, active, failures, threads, runs>>

\* docker rm -f with check off: a failure that is not a timeout goes unseen.
Remove(a) ==
  \/ container' = [container EXCEPT ![a] = "absent"]
  \/ "rm_error" \in faults /\ UNCHANGED container

RmArm ==
  /\ pc = "rm_arm"
  /\ Remove(active)
  /\ \/ Goto("stop_arm") /\ active' = 0
     \/ pc' = Handler(pc) /\ failing' = TRUE /\ UNCHANGED active
  /\ UNCHANGED <<fixed, cluster, files, arm, round, failures, threads, runs>>

\* Event.set releases the threads that wait on it, even if it is cleared next.
Released == [a \in ArmIds |-> IF monitor[a] = "watch" THEN "done" ELSE monitor[a]]

StopArm ==
  /\ pc = "stop_arm"
  /\ stop' = TRUE /\ monitor' = Released
  /\ Goto("join")
  /\ UNCHANGED <<fixed, cluster, container, files, arm, round, active, failures, abort, disturbed, runs>>

\* There is an arm after this one.
MoreArms == arm < Arms

\* The thread has ended, or the join timed out on its commands.
Join ==
  /\ pc = "join"
  /\ monitor[arm] # "watch"
  /\ IF failing THEN Goto("rm") /\ UNCHANGED arm
     ELSE IF MoreArms THEN Goto("launch") /\ arm' = arm + 1
                      ELSE Goto("compare") /\ UNCHANGED arm
  /\ UNCHANGED <<fixed, cluster, container, files, round, active, failures, threads, runs>>

Compare ==
  /\ pc = "compare" /\ Goto("rm")
  /\ UNCHANGED <<fixed, cluster, container, files, arm, round, active, failures, threads, runs>>

----------------------------------------------------------------------------
(* The window's finally block                                              *)

Rm ==
  /\ pc = "rm"
  /\ IF active = 0 THEN UNCHANGED container ELSE Remove(active)
  /\ IF active = 0 THEN Goto("stop_all") ELSE Return("stop_all")
  /\ UNCHANGED <<fixed, cluster, files, arm, round, active, failures, threads, runs>>

\* Mutant: the monitors are not told to end.
NotStopped == stop
Stopped == TRUE

StopAll ==
  /\ pc = "stop_all"
  /\ stop' = Stopped
  /\ monitor' = IF stop' THEN Released ELSE monitor
  /\ Goto("scale_back")
  /\ UNCHANGED <<fixed, cluster, container, files, arm, round, active, failures, abort, disturbed, runs>>

\* Restoration commands run in a try of their own: a failure is noted.
Noted(next) == Goto(next) /\ (failures' = failures \/ failures' = TRUE)

ScaleBack ==
  /\ pc = "scale_back"
  /\ \/ replicas' = before.replicas /\ Noted("resume")
     \/ UNCHANGED replicas /\ failures' = TRUE /\ Goto("resume")
  /\ UNCHANGED <<fixed, suspended, pod, container, files, arm, round, active, threads, runs>>

Resume ==
  /\ pc = "resume"
  /\ IF before.suspended THEN UNCHANGED <<suspended, failures>> /\ Goto("verify")
     ELSE \/ suspended' = FALSE /\ Noted("verify")
          \/ UNCHANGED suspended /\ failures' = TRUE /\ Goto("verify")
  /\ UNCHANGED <<fixed, replicas, pod, container, files, arm, round, active, threads, runs>>

\* The rollout is complete and the template is the one it was.
Verify ==
  /\ pc = "verify"
  /\ \/ pod = (replicas = 1) /\ UNCHANGED failures
     \/ failures' = TRUE
  /\ Goto("report")
  /\ UNCHANGED <<fixed, cluster, container, files, arm, round, active, threads, runs>>

\* Mutant: a complete rollout is taken for a restoration.
RolledOut == pod = (replicas = 1)
Restored == ~failures

Report ==
  /\ pc = "report"
  /\ report' = IF Restored THEN "restored" ELSE "attention"
  /\ Goto("exit")
  /\ UNCHANGED <<fixed, cluster, container, before, arm, round, active, failures, threads, runs>>

\* The interpreter joins every thread before the process ends.
Exit ==
  /\ pc = "exit" /\ \A a \in ArmIds : Quiet(monitor[a])
  /\ Goto("ended")
  /\ UNCHANGED <<fixed, cluster, container, files, arm, round, active, failures, threads, runs>>

----------------------------------------------------------------------------
(* The monitor threads: every five seconds a reading, between two waits.   *)

Disturbed(a) == IF pc \in Measure /\ arm = a THEN disturbed \cup {a} ELSE disturbed

MonitorRead(a) ==
  /\ monitor[a] = "watch" /\ ~stop
  /\ monitor' = [monitor EXCEPT ![a] = "read"]
  /\ UNCHANGED <<fixed, cluster, container, files, pc, locals, stop, abort, disturbed, runs>>

\* The reading is in bounds, or it is not or failed: abort, docker stop, end.
MonitorJudge(a) ==
  /\ monitor[a] = "read"
  /\ \/ /\ monitor' = [monitor EXCEPT ![a] = IF stop THEN "done" ELSE "watch"]
        /\ UNCHANGED <<abort, disturbed>>
     \/ /\ monitor' = [monitor EXCEPT ![a] = "trip"]
        /\ abort' = TRUE
        /\ disturbed' = Disturbed(a)
  /\ UNCHANGED <<fixed, cluster, container, files, pc, locals, stop, runs>>

MonitorTrip(a) ==
  /\ monitor[a] = "trip"
  /\ monitor' = [monitor EXCEPT ![a] = "done"]
  /\ \/ container[a] = "running" /\ container' = [container EXCEPT ![a] = "exited"]
     \/ UNCHANGED container
  /\ UNCHANGED <<fixed, cluster, files, pc, locals, stop, abort, disturbed, runs>>

Monitor(a) == MonitorRead(a) \/ MonitorJudge(a) \/ MonitorTrip(a)

----------------------------------------------------------------------------
(* The cluster, and the end and the next start of the process              *)

\* Flux reconciles to one replica unless suspended; the pod follows.
Reconcile ==
  /\ \/ ~suspended /\ replicas = 0 /\ replicas' = 1 /\ UNCHANGED pod
     \/ pod # (replicas = 1) /\ pod' = (replicas = 1) /\ UNCHANGED replicas
  /\ UNCHANGED <<fixed, suspended, container, files, pc, locals, threads, runs>>

ServerDies(a) ==
  /\ container[a] = "running"
  /\ container' = [container EXCEPT ![a] = "exited"]
  /\ disturbed' = Disturbed(a)
  /\ UNCHANGED <<fixed, cluster, files, pc, locals, stop, abort, monitor, runs>>

Kill ==
  /\ pc \notin Ended
  /\ pc' = "killed"
  /\ monitor' = [a \in ArmIds |-> "none"]
  /\ UNCHANGED <<fixed, cluster, container, files, locals, stop, abort, disturbed, runs>>

Rerun ==
  /\ pc \in Ended /\ runs < Runs
  /\ pc' = "guard" /\ runs' = runs + 1
  /\ arm' = 1 /\ round' = 0 /\ active' = 0 /\ failing' = FALSE /\ failures' = FALSE
  /\ stop' = FALSE /\ abort' = FALSE /\ disturbed' = {}
  /\ monitor' = [a \in ArmIds |-> "none"]
  /\ UNCHANGED <<fixed, cluster, container, files>>

Main ==
  \/ Raise \/ Guard \/ Record \/ Suspend \/ ScaleDown \/ WaitGone \/ Launch
  \/ StartMonitor \/ Ready \/ Work \/ Logs \/ RmArm \/ StopArm \/ Join \/ Compare
  \/ Rm \/ StopAll \/ ScaleBack \/ Resume \/ Verify \/ Report \/ Exit

Next == Main \/ (\E a \in ArmIds : Monitor(a) \/ ServerDies(a)) \/ Reconcile \/ Kill \/ Rerun

\* Every command has a timeout and both threads are scheduled.
Fairness == WF_vars(Main) /\ \A a \in ArmIds : WF_vars(Monitor(a))

Spec == Init /\ [][Next]_vars /\ Fairness

----------------------------------------------------------------------------
(* Properties.                                                             *)

\* One user of the GPU at a time: no container runs beside the service's pod
\* or beside another arm's container, whenever Flux acts and whatever fails but
\* docker rm and the restoration itself.
OneOnGpu ==
  LET running == {a \in ArmIds : container[a] = "running"}
  IN faults = {} => Cardinality(running) <= 1 /\ (pod => running = {})

\* state-restored.json never claims a restoration that did not happen.
RestoredIsTrue ==
  report = "restored" => replicas = original.replicas /\ suspended = original.suspended

\* PLAN.md: "restore its original replica count and Flux suspension state
\* in a finally block". A window that ends by itself has put the service back
\* or says that it needs attention.
ServiceRestored ==
  pc = "ended" => \/ report = "attention"
                  \/ replicas = original.replicas /\ suspended = original.suspended

\* It does so whenever no fault strikes the restoration itself.
RestoredUnlessStruck == faults = {} => ServiceRestored

\* Arms are compared only if no server died and no monitor tripped while its arm was measured.
ComparedUndisturbed == pc = "compare" => disturbed = {}

\* A process that leaves main ends: unless the restoration was struck, no
\* monitor thread keeps it for ever.
ProcessEnds == faults = {} /\ pc = "exit" ~> pc \in Ended
=============================================================================
