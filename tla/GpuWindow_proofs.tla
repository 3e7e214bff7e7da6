-------------------------- MODULE GpuWindow_proofs --------------------------
(***************************************************************************)
(* What the window script guarantees for any number of arms, plans and     *)
(* starts: the GPU has one user, the service comes back or the report says *)
(* that it did not, and the arms compared were measured undisturbed.       *)
(***************************************************************************)
EXTENDS GpuWindow, FiniteSetTheorems, TLAPS

----------------------------------------------------------------------------
(* The inductive invariant.                                                *)

Services == [replicas : {0, 1}, suspended : BOOLEAN]
Records  == [replicas : {0, 1}, suspended : BOOLEAN, saved : BOOLEAN]

TypeInv ==
  /\ original \in Services /\ replicas \in {0, 1} /\ suspended \in BOOLEAN /\ pod \in BOOLEAN
  /\ container \in [ArmIds -> {"absent", "running", "exited"}]
  /\ before \in Records /\ report \in {"none", "restored", "attention"}
  /\ pc \in Labels /\ arm \in ArmIds /\ round \in Nat /\ active \in 0 .. Arms
  /\ failing \in BOOLEAN /\ failures \in BOOLEAN /\ stop \in BOOLEAN /\ abort \in BOOLEAN
  /\ monitor \in [ArmIds -> {"none", "watch", "read", "trip", "done"}]
  /\ disturbed \subseteq ArmIds

Intact == replicas = original.replicas /\ suspended = original.suspended

\* Where the service is off the GPU for good: scaled to zero under a suspended
\* Flux, and from wait_gpu on its pod gone.
Scaled  == {"wait_gone", "wait_gpu", "launch", "compare"} \cup InArm
Emptied == Scaled \ {"wait_gone"}

\* state-before.json, once written, is the original state; before that nothing
\* was touched. A service that was not suspended asked for one replica.
RecordInv ==
  /\ ~original.suspended => original.replicas = 1
  /\ original.suspended => suspended
  /\ before.saved => before.replicas = original.replicas /\ before.suspended = original.suspended
  /\ ~before.saved => Intact /\ report = "none" /\ pc \in {"guard", "record", "exit", "ended", "killed"}
  /\ pc = "record" => ~before.saved

\* Up to the restoration the service is as it was or held at zero; after each
\* restoration command without a failure it is as the command left it.
ServiceInv ==
  /\ pc = "suspend" => Intact
  /\ pc = "scale_down" => suspended
  /\ pc \in Scaled => suspended /\ replicas = 0
  /\ pc \in Emptied => ~pod
  /\ pc \in {"resume", "verify", "report"} /\ ~failures => replicas = original.replicas
  /\ pc \in {"verify", "report"} /\ ~failures => suspended = original.suspended

\* A report is written last, and it tells the truth.
ReportInv ==
  /\ report # "none" => pc \in {"exit", "guard"} \cup Ended
  /\ report = "restored" => Intact
  /\ faults = {} /\ pc \in {"exit", "ended"} => report = "attention" \/ Intact

\* A container that runs is the active one of a window at work, or what a kill
\* left behind, and the service is off the GPU.
Occupied == {"start_monitor", "ready", "work", "logs", "rm_arm", "rm"}
GpuInv ==
  faults = {} => \A a \in ArmIds : container[a] = "running" =>
    /\ before.saved /\ suspended /\ replicas = 0 /\ ~pod
    /\ pc \in Occupied \cup {"killed", "guard", "refused"}
    /\ pc \in Occupied => a = active
    /\ \A b \in ArmIds : container[b] = "running" => a = b

\* A disturbed arm makes the window fail, at the latest at its last panel.
MeasureInv ==
  /\ failing => pc \in {"logs", "rm_arm", "stop_arm", "join", "exit", "ended", "killed"} \cup Restore
  /\ pc \in {"start_monitor", "ready"} => round = 0
  /\ pc = "work" => round < Rounds
  /\ disturbed # {} /\ ~failing =>
       /\ pc \in Measure \cup {"killed"}
       /\ pc \in Measure => abort \/ container[arm] # "running"

WindowInv == TypeInv /\ RecordInv /\ ServiceInv /\ ReportInv /\ GpuInv /\ MeasureInv

----------------------------------------------------------------------------
(* One step of the main thread, of a monitor, of the cluster, or a kill.   *)

LEMMA StepRaise ==
  ASSUME WindowInv, Raise
  PROVE  WindowInv'
<1> USE WindowAssumption DEF WindowAssumption, Raise, MayRaise, Handler,
      fixed, cluster, files, locals, threads, ArmIds, InArm, Measure, Body, Restore, Ended
<1>0. TypeInv /\ RecordInv /\ ServiceInv /\ ReportInv /\ GpuInv /\ MeasureInv
  BY DEF WindowInv
<1>1. TypeInv'
  BY <1>0 DEF TypeInv, Labels
<1>2. (RecordInv /\ ServiceInv /\ ReportInv)'
  BY <1>0 DEF TypeInv, Services, Records, RecordInv, ServiceInv, ReportInv, Intact, Scaled, Emptied
<1>3. GpuInv'
  BY <1>0 DEF TypeInv, RecordInv, ServiceInv, GpuInv, Occupied, Scaled, Emptied
<1>4. MeasureInv'
  BY <1>0 DEF TypeInv, MeasureInv
<1> QED BY <1>1, <1>2, <1>3, <1>4 DEF WindowInv

LEMMA StepGuard ==
  ASSUME WindowInv, Guard
  PROVE  WindowInv'
<1> USE WindowAssumption DEF WindowAssumption, Guard, Goto, Fresh,
      fixed, cluster, files, locals, threads, ArmIds, InArm, Measure, Body, Restore, Ended
<1>0. TypeInv /\ RecordInv /\ ServiceInv /\ ReportInv /\ GpuInv /\ MeasureInv
  BY DEF WindowInv
<1>1. TypeInv'
  BY <1>0 DEF TypeInv, Labels
<1>2. (RecordInv /\ ServiceInv /\ ReportInv)'
  BY <1>0 DEF TypeInv, Services, Records, RecordInv, ServiceInv, ReportInv, Intact, Scaled, Emptied
<1>3. GpuInv'
  BY <1>0 DEF TypeInv, RecordInv, ServiceInv, GpuInv, Occupied, Scaled, Emptied
<1>4. MeasureInv'
  BY <1>0 DEF TypeInv, MeasureInv
<1> QED BY <1>1, <1>2, <1>3, <1>4 DEF WindowInv

LEMMA StepRecord ==
  ASSUME WindowInv, Record
  PROVE  WindowInv'
<1> USE WindowAssumption DEF WindowAssumption, Record, Return, MayRaise, Handler, Fresh,
      fixed, cluster, files, locals, threads, ArmIds, InArm, Measure, Body, Restore, Ended
<1>0. TypeInv /\ RecordInv /\ ServiceInv /\ ReportInv /\ GpuInv /\ MeasureInv
  BY DEF WindowInv
<1>1. TypeInv'
  <2>1. before' \in Records
    BY <1>0 DEF TypeInv, Records
  <2> QED BY <1>0, <2>1 DEF TypeInv, Labels
<1>2. (RecordInv /\ ServiceInv /\ ReportInv)'
  BY <1>0 DEF TypeInv, Services, Records, RecordInv, ServiceInv, ReportInv, Intact, Scaled, Emptied
<1>3. GpuInv'
  BY <1>0 DEF TypeInv, RecordInv, ServiceInv, GpuInv, Occupied, Scaled, Emptied
<1>4. MeasureInv'
  BY <1>0 DEF TypeInv, MeasureInv
<1> QED BY <1>1, <1>2, <1>3, <1>4 DEF WindowInv

LEMMA StepSuspend ==
  ASSUME WindowInv, Suspend
  PROVE  WindowInv'
<1> USE WindowAssumption DEF WindowAssumption, Suspend, SuspendsFlux, Return, MayRaise, Handler,
      fixed, cluster, files, locals, threads, ArmIds, InArm, Measure, Body, Restore, Ended
<1>0. TypeInv /\ RecordInv /\ ServiceInv /\ ReportInv /\ GpuInv /\ MeasureInv
  BY DEF WindowInv
<1>1. TypeInv'
  BY <1>0 DEF TypeInv, Labels
<1>2. (RecordInv /\ ServiceInv /\ ReportInv)'
  BY <1>0 DEF TypeInv, Services, Records, RecordInv, ServiceInv, ReportInv, Intact, Scaled, Emptied
<1>3. GpuInv'
  BY <1>0 DEF TypeInv, RecordInv, ServiceInv, GpuInv, Occupied, Scaled, Emptied
<1>4. MeasureInv'
  BY <1>0 DEF TypeInv, MeasureInv
<1> QED BY <1>1, <1>2, <1>3, <1>4 DEF WindowInv

LEMMA StepScaleDown ==
  ASSUME WindowInv, ScaleDown
  PROVE  WindowInv'
<1> USE WindowAssumption DEF WindowAssumption, ScaleDown, Return, MayRaise, Handler,
      fixed, cluster, files, locals, threads, ArmIds, InArm, Measure, Body, Restore, Ended
<1>0. TypeInv /\ RecordInv /\ ServiceInv /\ ReportInv /\ GpuInv /\ MeasureInv
  BY DEF WindowInv
<1>1. TypeInv'
  BY <1>0 DEF TypeInv, Labels
<1>2. (RecordInv /\ ServiceInv /\ ReportInv)'
  BY <1>0 DEF TypeInv, Services, Records, RecordInv, ServiceInv, ReportInv, Intact, Scaled, Emptied
<1>3. GpuInv'
  BY <1>0 DEF TypeInv, RecordInv, ServiceInv, GpuInv, Occupied, Scaled, Emptied
<1>4. MeasureInv'
  BY <1>0 DEF TypeInv, MeasureInv
<1> QED BY <1>1, <1>2, <1>3, <1>4 DEF WindowInv

LEMMA StepWaitGone ==
  ASSUME WindowInv, WaitGone
  PROVE  WindowInv'
<1> USE WindowAssumption DEF WindowAssumption, WaitGone, Goto,
      fixed, cluster, files, locals, threads, ArmIds, InArm, Measure, Body, Restore, Ended
<1>0. TypeInv /\ RecordInv /\ ServiceInv /\ ReportInv /\ GpuInv /\ MeasureInv
  BY DEF WindowInv
<1>1. TypeInv'
  BY <1>0 DEF TypeInv, Labels
<1>2. (RecordInv /\ ServiceInv /\ ReportInv)'
  BY <1>0 DEF TypeInv, Services, Records, RecordInv, ServiceInv, ReportInv, Intact, Scaled, Emptied
<1>3. GpuInv'
  BY <1>0 DEF TypeInv, RecordInv, ServiceInv, GpuInv, Occupied, Scaled, Emptied
<1>4. MeasureInv'
  BY <1>0 DEF TypeInv, MeasureInv
<1> QED BY <1>1, <1>2, <1>3, <1>4 DEF WindowInv

LEMMA StepLaunch ==
  ASSUME WindowInv, Launch
  PROVE  WindowInv'
<1> USE WindowAssumption DEF WindowAssumption, Launch, Return, MayRaise, Handler,
      fixed, cluster, files, locals, threads, ArmIds, InArm, Measure, Body, Restore, Ended
<1>0. TypeInv /\ RecordInv /\ ServiceInv /\ ReportInv /\ GpuInv /\ MeasureInv
  BY DEF WindowInv
<1>1. TypeInv'
  <2>1. active' \in 0 .. Arms
    BY <1>0 DEF TypeInv
  <2>2. container' \in [ArmIds -> {"absent", "running", "exited"}]
    BY <1>0 DEF TypeInv
  <2> QED BY <1>0, <2>1, <2>2 DEF TypeInv, Labels
<1>2. (RecordInv /\ ServiceInv /\ ReportInv)'
  BY <1>0 DEF TypeInv, Services, Records, RecordInv, ServiceInv, ReportInv, Intact, Scaled, Emptied
<1>3. GpuInv'
  BY <1>0 DEF TypeInv, RecordInv, ServiceInv, GpuInv, Occupied, Scaled, Emptied
<1>4. MeasureInv'
  BY <1>0 DEF TypeInv, MeasureInv
<1> QED BY <1>1, <1>2, <1>3, <1>4 DEF WindowInv

LEMMA StepStartMonitor ==
  ASSUME WindowInv, StartMonitor
  PROVE  WindowInv'
<1> USE WindowAssumption DEF WindowAssumption, StartMonitor, Return, MayRaise, Handler,
      fixed, cluster, files, locals, threads, ArmIds, InArm, Measure, Body, Restore, Ended
<1>0. TypeInv /\ RecordInv /\ ServiceInv /\ ReportInv /\ GpuInv /\ MeasureInv
  BY DEF WindowInv
<1>1. TypeInv'
  BY <1>0 DEF TypeInv, Labels
<1>2. (RecordInv /\ ServiceInv /\ ReportInv)'
  BY <1>0 DEF TypeInv, Services, Records, RecordInv, ServiceInv, ReportInv, Intact, Scaled, Emptied
<1>3. GpuInv'
  BY <1>0 DEF TypeInv, RecordInv, ServiceInv, GpuInv, Occupied, Scaled, Emptied
<1>4. MeasureInv'
  BY <1>0 DEF TypeInv, MeasureInv
<1> QED BY <1>1, <1>2, <1>3, <1>4 DEF WindowInv

LEMMA StepReady ==
  ASSUME WindowInv, Ready
  PROVE  WindowInv'
<1> USE WindowAssumption DEF WindowAssumption, Ready, Goto,
      fixed, cluster, files, locals, threads, ArmIds, InArm, Measure, Body, Restore, Ended
<1>0. TypeInv /\ RecordInv /\ ServiceInv /\ ReportInv /\ GpuInv /\ MeasureInv
  BY DEF WindowInv
<1>1. TypeInv'
  BY <1>0 DEF TypeInv, Labels
<1>2. (RecordInv /\ ServiceInv /\ ReportInv)'
  BY <1>0 DEF TypeInv, Services, Records, RecordInv, ServiceInv, ReportInv, Intact, Scaled, Emptied
<1>3. GpuInv'
  BY <1>0 DEF TypeInv, RecordInv, ServiceInv, GpuInv, Occupied, Scaled, Emptied
<1>4. MeasureInv'
  BY <1>0 DEF TypeInv, MeasureInv
<1> QED BY <1>1, <1>2, <1>3, <1>4 DEF WindowInv

LEMMA StepWork ==
  ASSUME WindowInv, Work
  PROVE  WindowInv'
<1> USE WindowAssumption DEF WindowAssumption, Work, MayGoOn, Goto,
      fixed, cluster, files, locals, threads, ArmIds, InArm, Measure, Body, Restore, Ended
<1>0. TypeInv /\ RecordInv /\ ServiceInv /\ ReportInv /\ GpuInv /\ MeasureInv
  BY DEF WindowInv
<1>1. TypeInv'
  BY <1>0 DEF TypeInv, Labels
<1>2. (RecordInv /\ ServiceInv /\ ReportInv)'
  BY <1>0 DEF TypeInv, Services, Records, RecordInv, ServiceInv, ReportInv, Intact, Scaled, Emptied
<1>3. GpuInv'
  BY <1>0 DEF TypeInv, RecordInv, ServiceInv, GpuInv, Occupied, Scaled, Emptied
<1>4. MeasureInv'
  BY <1>0 DEF TypeInv, MeasureInv
<1> QED BY <1>1, <1>2, <1>3, <1>4 DEF WindowInv

LEMMA StepLogs ==
  ASSUME WindowInv, Logs
  PROVE  WindowInv'
<1> USE WindowAssumption DEF WindowAssumption, Logs, Goto,
      fixed, cluster, files, locals, threads, ArmIds, InArm, Measure, Body, Restore, Ended
<1>0. TypeInv /\ RecordInv /\ ServiceInv /\ ReportInv /\ GpuInv /\ MeasureInv
  BY DEF WindowInv
<1>1. TypeInv'
  BY <1>0 DEF TypeInv, Labels
<1>2. (RecordInv /\ ServiceInv /\ ReportInv)'
  BY <1>0 DEF TypeInv, Services, Records, RecordInv, ServiceInv, ReportInv, Intact, Scaled, Emptied
<1>3. GpuInv'
  BY <1>0 DEF TypeInv, RecordInv, ServiceInv, GpuInv, Occupied, Scaled, Emptied
<1>4. MeasureInv'
  BY <1>0 DEF TypeInv, MeasureInv
<1> QED BY <1>1, <1>2, <1>3, <1>4 DEF WindowInv

LEMMA StepRmArm ==
  ASSUME WindowInv, RmArm
  PROVE  WindowInv'
<1> USE WindowAssumption DEF WindowAssumption, RmArm, Remove, Goto, Handler,
      fixed, cluster, files, locals, threads, ArmIds, InArm, Measure, Body, Restore, Ended
<1>0. TypeInv /\ RecordInv /\ ServiceInv /\ ReportInv /\ GpuInv /\ MeasureInv
  BY DEF WindowInv
<1>1. TypeInv'
  <2>1. active' \in 0 .. Arms
    BY <1>0 DEF TypeInv
  <2>2. container' \in [ArmIds -> {"absent", "running", "exited"}]
    BY <1>0 DEF TypeInv
  <2> QED BY <1>0, <2>1, <2>2 DEF TypeInv, Labels
<1>2. (RecordInv /\ ServiceInv /\ ReportInv)'
  BY <1>0 DEF TypeInv, Services, Records, RecordInv, ServiceInv, ReportInv, Intact, Scaled, Emptied
<1>3. GpuInv'
  BY <1>0 DEF TypeInv, RecordInv, ServiceInv, GpuInv, Occupied, Scaled, Emptied
<1>4. MeasureInv'
  BY <1>0 DEF TypeInv, MeasureInv
<1> QED BY <1>1, <1>2, <1>3, <1>4 DEF WindowInv

LEMMA StepStopArm ==
  ASSUME WindowInv, StopArm
  PROVE  WindowInv'
<1> USE WindowAssumption DEF WindowAssumption, StopArm, Released, Goto,
      fixed, cluster, files, locals, threads, ArmIds, InArm, Measure, Body, Restore, Ended
<1>0. TypeInv /\ RecordInv /\ ServiceInv /\ ReportInv /\ GpuInv /\ MeasureInv
  BY DEF WindowInv
<1>1. TypeInv'
  BY <1>0 DEF TypeInv, Labels
<1>2. (RecordInv /\ ServiceInv /\ ReportInv)'
  BY <1>0 DEF TypeInv, Services, Records, RecordInv, ServiceInv, ReportInv, Intact, Scaled, Emptied
<1>3. GpuInv'
  BY <1>0 DEF TypeInv, RecordInv, ServiceInv, GpuInv, Occupied, Scaled, Emptied
<1>4. MeasureInv'
  BY <1>0 DEF TypeInv, MeasureInv
<1> QED BY <1>1, <1>2, <1>3, <1>4 DEF WindowInv

LEMMA StepJoin ==
  ASSUME WindowInv, Join
  PROVE  WindowInv'
<1> USE WindowAssumption DEF WindowAssumption, Join, MoreArms, Goto,
      fixed, cluster, files, locals, threads, ArmIds, InArm, Measure, Body, Restore, Ended
<1>0. TypeInv /\ RecordInv /\ ServiceInv /\ ReportInv /\ GpuInv /\ MeasureInv
  BY DEF WindowInv
<1>1. TypeInv'
  BY <1>0 DEF TypeInv, Labels
<1>2. (RecordInv /\ ServiceInv /\ ReportInv)'
  BY <1>0 DEF TypeInv, Services, Records, RecordInv, ServiceInv, ReportInv, Intact, Scaled, Emptied
<1>3. GpuInv'
  BY <1>0 DEF TypeInv, RecordInv, ServiceInv, GpuInv, Occupied, Scaled, Emptied
<1>4. MeasureInv'
  BY <1>0 DEF TypeInv, MeasureInv
<1> QED BY <1>1, <1>2, <1>3, <1>4 DEF WindowInv

LEMMA StepCompare ==
  ASSUME WindowInv, Compare
  PROVE  WindowInv'
<1> USE WindowAssumption DEF WindowAssumption, Compare, Goto,
      fixed, cluster, files, locals, threads, ArmIds, InArm, Measure, Body, Restore, Ended
<1>0. TypeInv /\ RecordInv /\ ServiceInv /\ ReportInv /\ GpuInv /\ MeasureInv
  BY DEF WindowInv
<1>1. TypeInv'
  BY <1>0 DEF TypeInv, Labels
<1>2. (RecordInv /\ ServiceInv /\ ReportInv)'
  BY <1>0 DEF TypeInv, Services, Records, RecordInv, ServiceInv, ReportInv, Intact, Scaled, Emptied
<1>3. GpuInv'
  BY <1>0 DEF TypeInv, RecordInv, ServiceInv, GpuInv, Occupied, Scaled, Emptied
<1>4. MeasureInv'
  BY <1>0 DEF TypeInv, MeasureInv
<1> QED BY <1>1, <1>2, <1>3, <1>4 DEF WindowInv

LEMMA StepRm ==
  ASSUME WindowInv, Rm
  PROVE  WindowInv'
<1> USE WindowAssumption DEF WindowAssumption, Rm, Remove, Goto, Return, MayRaise, Handler,
      fixed, cluster, files, locals, threads, ArmIds, InArm, Measure, Body, Restore, Ended
<1>0. TypeInv /\ RecordInv /\ ServiceInv /\ ReportInv /\ GpuInv /\ MeasureInv
  BY DEF WindowInv
<1>1. TypeInv'
  BY <1>0 DEF TypeInv, Labels
<1>2. (RecordInv /\ ServiceInv /\ ReportInv)'
  BY <1>0 DEF TypeInv, Services, Records, RecordInv, ServiceInv, ReportInv, Intact, Scaled, Emptied
<1>3. GpuInv'
  BY <1>0 DEF TypeInv, RecordInv, ServiceInv, GpuInv, Occupied, Scaled, Emptied
<1>4. MeasureInv'
  BY <1>0 DEF TypeInv, MeasureInv
<1> QED BY <1>1, <1>2, <1>3, <1>4 DEF WindowInv

LEMMA StepStopAll ==
  ASSUME WindowInv, StopAll
  PROVE  WindowInv'
<1> USE WindowAssumption DEF WindowAssumption, StopAll, Stopped, Released, Goto,
      fixed, cluster, files, locals, threads, ArmIds, InArm, Measure, Body, Restore, Ended
<1>0. TypeInv /\ RecordInv /\ ServiceInv /\ ReportInv /\ GpuInv /\ MeasureInv
  BY DEF WindowInv
<1>1. TypeInv'
  BY <1>0 DEF TypeInv, Labels
<1>2. (RecordInv /\ ServiceInv /\ ReportInv)'
  BY <1>0 DEF TypeInv, Services, Records, RecordInv, ServiceInv, ReportInv, Intact, Scaled, Emptied
<1>3. GpuInv'
  BY <1>0 DEF TypeInv, RecordInv, ServiceInv, GpuInv, Occupied, Scaled, Emptied
<1>4. MeasureInv'
  BY <1>0 DEF TypeInv, MeasureInv
<1> QED BY <1>1, <1>2, <1>3, <1>4 DEF WindowInv

LEMMA StepScaleBack ==
  ASSUME WindowInv, ScaleBack
  PROVE  WindowInv'
<1> USE WindowAssumption DEF WindowAssumption, ScaleBack, Noted, Goto,
      fixed, cluster, files, locals, threads, ArmIds, InArm, Measure, Body, Restore, Ended
<1>0. TypeInv /\ RecordInv /\ ServiceInv /\ ReportInv /\ GpuInv /\ MeasureInv
  BY DEF WindowInv
<1>1. TypeInv'
  <2>1. replicas' \in {0, 1}
    BY <1>0 DEF TypeInv, Records
  <2> QED BY <1>0, <2>1 DEF TypeInv, Labels
<1>2. (RecordInv /\ ServiceInv /\ ReportInv)'
  BY <1>0 DEF TypeInv, Services, Records, RecordInv, ServiceInv, ReportInv, Intact, Scaled, Emptied
<1>3. GpuInv'
  BY <1>0 DEF TypeInv, RecordInv, ServiceInv, GpuInv, Occupied, Scaled, Emptied
<1>4. MeasureInv'
  BY <1>0 DEF TypeInv, MeasureInv
<1> QED BY <1>1, <1>2, <1>3, <1>4 DEF WindowInv

LEMMA StepResume ==
  ASSUME WindowInv, Resume
  PROVE  WindowInv'
<1> USE WindowAssumption DEF WindowAssumption, Resume, Noted, Goto,
      fixed, cluster, files, locals, threads, ArmIds, InArm, Measure, Body, Restore, Ended
<1>0. TypeInv /\ RecordInv /\ ServiceInv /\ ReportInv /\ GpuInv /\ MeasureInv
  BY DEF WindowInv
<1>1. TypeInv'
  BY <1>0 DEF TypeInv, Labels
<1>2. (RecordInv /\ ServiceInv /\ ReportInv)'
  BY <1>0 DEF TypeInv, Services, Records, RecordInv, ServiceInv, ReportInv, Intact, Scaled, Emptied
<1>3. GpuInv'
  BY <1>0 DEF TypeInv, RecordInv, ServiceInv, GpuInv, Occupied, Scaled, Emptied
<1>4. MeasureInv'
  BY <1>0 DEF TypeInv, MeasureInv
<1> QED BY <1>1, <1>2, <1>3, <1>4 DEF WindowInv

LEMMA StepVerify ==
  ASSUME WindowInv, Verify
  PROVE  WindowInv'
<1> USE WindowAssumption DEF WindowAssumption, Verify, Goto,
      fixed, cluster, files, locals, threads, ArmIds, InArm, Measure, Body, Restore, Ended
<1>0. TypeInv /\ RecordInv /\ ServiceInv /\ ReportInv /\ GpuInv /\ MeasureInv
  BY DEF WindowInv
<1>1. TypeInv'
  BY <1>0 DEF TypeInv, Labels
<1>2. (RecordInv /\ ServiceInv /\ ReportInv)'
  BY <1>0 DEF TypeInv, Services, Records, RecordInv, ServiceInv, ReportInv, Intact, Scaled, Emptied
<1>3. GpuInv'
  BY <1>0 DEF TypeInv, RecordInv, ServiceInv, GpuInv, Occupied, Scaled, Emptied
<1>4. MeasureInv'
  BY <1>0 DEF TypeInv, MeasureInv
<1> QED BY <1>1, <1>2, <1>3, <1>4 DEF WindowInv

LEMMA StepReport ==
  ASSUME WindowInv, Report
  PROVE  WindowInv'
<1> USE WindowAssumption DEF WindowAssumption, Report, Restored, Goto,
      fixed, cluster, files, locals, threads, ArmIds, InArm, Measure, Body, Restore, Ended
<1>0. TypeInv /\ RecordInv /\ ServiceInv /\ ReportInv /\ GpuInv /\ MeasureInv
  BY DEF WindowInv
<1>1. TypeInv'
  BY <1>0 DEF TypeInv, Labels
<1>2. (RecordInv /\ ServiceInv /\ ReportInv)'
  BY <1>0 DEF TypeInv, Services, Records, RecordInv, ServiceInv, ReportInv, Intact, Scaled, Emptied
<1>3. GpuInv'
  BY <1>0 DEF TypeInv, RecordInv, ServiceInv, GpuInv, Occupied, Scaled, Emptied
<1>4. MeasureInv'
  BY <1>0 DEF TypeInv, MeasureInv
<1> QED BY <1>1, <1>2, <1>3, <1>4 DEF WindowInv

LEMMA StepExit ==
  ASSUME WindowInv, Exit
  PROVE  WindowInv'
<1> USE WindowAssumption DEF WindowAssumption, Exit, Quiet, Goto,
      fixed, cluster, files, locals, threads, ArmIds, InArm, Measure, Body, Restore, Ended
<1>0. TypeInv /\ RecordInv /\ ServiceInv /\ ReportInv /\ GpuInv /\ MeasureInv
  BY DEF WindowInv
<1>1. TypeInv'
  BY <1>0 DEF TypeInv, Labels
<1>2. (RecordInv /\ ServiceInv /\ ReportInv)'
  BY <1>0 DEF TypeInv, Services, Records, RecordInv, ServiceInv, ReportInv, Intact, Scaled, Emptied
<1>3. GpuInv'
  BY <1>0 DEF TypeInv, RecordInv, ServiceInv, GpuInv, Occupied, Scaled, Emptied
<1>4. MeasureInv'
  BY <1>0 DEF TypeInv, MeasureInv
<1> QED BY <1>1, <1>2, <1>3, <1>4 DEF WindowInv

LEMMA StepReconcile ==
  ASSUME WindowInv, Reconcile
  PROVE  WindowInv'
<1> USE WindowAssumption DEF WindowAssumption, Reconcile,
      fixed, cluster, files, locals, threads, ArmIds, InArm, Measure, Body, Restore, Ended
<1>0. TypeInv /\ RecordInv /\ ServiceInv /\ ReportInv /\ GpuInv /\ MeasureInv
  BY DEF WindowInv
<1>1. TypeInv'
  <2>1. (replicas = 1) \in BOOLEAN
    OBVIOUS
  <2>2. pod' \in BOOLEAN
    BY <1>0, <2>1, Zenon DEF TypeInv
  <2> QED BY <1>0, <2>2 DEF TypeInv
<1>2. (RecordInv /\ ServiceInv /\ ReportInv)'
  BY <1>0 DEF TypeInv, Services, Records, RecordInv, ServiceInv, ReportInv, Intact, Scaled, Emptied
<1>3. GpuInv'
  BY <1>0 DEF TypeInv, RecordInv, ServiceInv, GpuInv, Occupied, Scaled, Emptied
<1>4. MeasureInv'
  BY <1>0 DEF TypeInv, MeasureInv
<1> QED BY <1>1, <1>2, <1>3, <1>4 DEF WindowInv

LEMMA StepKill ==
  ASSUME WindowInv, Kill
  PROVE  WindowInv'
<1> USE WindowAssumption DEF WindowAssumption, Kill,
      fixed, cluster, files, locals, threads, ArmIds, InArm, Measure, Body, Restore, Ended
<1>0. TypeInv /\ RecordInv /\ ServiceInv /\ ReportInv /\ GpuInv /\ MeasureInv
  BY DEF WindowInv
<1>1. TypeInv'
  BY <1>0 DEF TypeInv, Labels
<1>2. (RecordInv /\ ServiceInv /\ ReportInv)'
  BY <1>0 DEF TypeInv, Services, Records, RecordInv, ServiceInv, ReportInv, Intact, Scaled, Emptied
<1>3. GpuInv'
  BY <1>0 DEF TypeInv, RecordInv, ServiceInv, GpuInv, Occupied, Scaled, Emptied
<1>4. MeasureInv'
  BY <1>0 DEF TypeInv, MeasureInv
<1> QED BY <1>1, <1>2, <1>3, <1>4 DEF WindowInv

LEMMA StepRerun ==
  ASSUME WindowInv, Rerun
  PROVE  WindowInv'
<1> USE WindowAssumption DEF WindowAssumption, Rerun,
      fixed, cluster, files, locals, threads, ArmIds, InArm, Measure, Body, Restore, Ended
<1>0. TypeInv /\ RecordInv /\ ServiceInv /\ ReportInv /\ GpuInv /\ MeasureInv
  BY DEF WindowInv
<1>1. TypeInv'
  <2>1. arm' \in ArmIds /\ active' \in 0 .. Arms
    OBVIOUS
  <2>2. monitor' \in [ArmIds -> {"none", "watch", "read", "trip", "done"}]
    OBVIOUS
  <2> QED BY <1>0, <2>1, <2>2 DEF TypeInv, Labels
<1>2. (RecordInv /\ ServiceInv /\ ReportInv)'
  BY <1>0 DEF TypeInv, Services, Records, RecordInv, ServiceInv, ReportInv, Intact, Scaled, Emptied
<1>3. GpuInv'
  BY <1>0 DEF TypeInv, RecordInv, ServiceInv, GpuInv, Occupied, Scaled, Emptied
<1>4. MeasureInv'
  BY <1>0 DEF TypeInv, MeasureInv
<1> QED BY <1>1, <1>2, <1>3, <1>4 DEF WindowInv

LEMMA StepMonitorRead ==
  ASSUME WindowInv, NEW a \in ArmIds, MonitorRead(a)
  PROVE  WindowInv'
<1> USE WindowAssumption DEF WindowAssumption, MonitorRead,
      fixed, cluster, files, locals, threads, ArmIds, InArm, Measure, Body, Restore, Ended
<1>0. TypeInv /\ RecordInv /\ ServiceInv /\ ReportInv /\ GpuInv /\ MeasureInv
  BY DEF WindowInv
<1>1. TypeInv'
  BY <1>0 DEF TypeInv, Labels
<1>2. (RecordInv /\ ServiceInv /\ ReportInv)'
  BY <1>0 DEF TypeInv, Services, Records, RecordInv, ServiceInv, ReportInv, Intact, Scaled, Emptied
<1>3. GpuInv'
  BY <1>0 DEF TypeInv, RecordInv, ServiceInv, GpuInv, Occupied, Scaled, Emptied
<1>4. MeasureInv'
  BY <1>0 DEF TypeInv, MeasureInv
<1> QED BY <1>1, <1>2, <1>3, <1>4 DEF WindowInv

LEMMA StepMonitorJudge ==
  ASSUME WindowInv, NEW a \in ArmIds, MonitorJudge(a)
  PROVE  WindowInv'
<1> USE WindowAssumption DEF WindowAssumption, MonitorJudge, Disturbed,
      fixed, cluster, files, locals, threads, ArmIds, InArm, Measure, Body, Restore, Ended
<1>0. TypeInv /\ RecordInv /\ ServiceInv /\ ReportInv /\ GpuInv /\ MeasureInv
  BY DEF WindowInv
<1>1. TypeInv'
  <2>1. disturbed' \subseteq ArmIds
    BY <1>0 DEF TypeInv
  <2>2. monitor' \in [ArmIds -> {"none", "watch", "read", "trip", "done"}]
    BY <1>0 DEF TypeInv
  <2>3. abort' \in BOOLEAN
    BY <1>0 DEF TypeInv
  <2> QED BY <1>0, <2>1, <2>2, <2>3 DEF TypeInv
<1>2. (RecordInv /\ ServiceInv /\ ReportInv)'
  BY <1>0 DEF TypeInv, Services, Records, RecordInv, ServiceInv, ReportInv, Intact, Scaled, Emptied
<1>3. GpuInv'
  BY <1>0 DEF TypeInv, RecordInv, ServiceInv, GpuInv, Occupied, Scaled, Emptied
<1>4. MeasureInv'
  BY <1>0 DEF TypeInv, MeasureInv
<1> QED BY <1>1, <1>2, <1>3, <1>4 DEF WindowInv

LEMMA StepMonitorTrip ==
  ASSUME WindowInv, NEW a \in ArmIds, MonitorTrip(a)
  PROVE  WindowInv'
<1> USE WindowAssumption DEF WindowAssumption, MonitorTrip,
      fixed, cluster, files, locals, threads, ArmIds, InArm, Measure, Body, Restore, Ended
<1>0. TypeInv /\ RecordInv /\ ServiceInv /\ ReportInv /\ GpuInv /\ MeasureInv
  BY DEF WindowInv
<1>1. TypeInv'
  BY <1>0 DEF TypeInv, Labels
<1>2. (RecordInv /\ ServiceInv /\ ReportInv)'
  BY <1>0 DEF TypeInv, Services, Records, RecordInv, ServiceInv, ReportInv, Intact, Scaled, Emptied
<1>3. GpuInv'
  BY <1>0 DEF TypeInv, RecordInv, ServiceInv, GpuInv, Occupied, Scaled, Emptied
<1>4. MeasureInv'
  BY <1>0 DEF TypeInv, MeasureInv
<1> QED BY <1>1, <1>2, <1>3, <1>4 DEF WindowInv

LEMMA StepServerDies ==
  ASSUME WindowInv, NEW a \in ArmIds, ServerDies(a)
  PROVE  WindowInv'
<1> USE WindowAssumption DEF WindowAssumption, ServerDies, Disturbed,
      fixed, cluster, files, locals, threads, ArmIds, InArm, Measure, Body, Restore, Ended
<1>0. TypeInv /\ RecordInv /\ ServiceInv /\ ReportInv /\ GpuInv /\ MeasureInv
  BY DEF WindowInv
<1>1. TypeInv'
  BY <1>0 DEF TypeInv, Labels
<1>2. (RecordInv /\ ServiceInv /\ ReportInv)'
  BY <1>0 DEF TypeInv, Services, Records, RecordInv, ServiceInv, ReportInv, Intact, Scaled, Emptied
<1>3. GpuInv'
  BY <1>0 DEF TypeInv, RecordInv, ServiceInv, GpuInv, Occupied, Scaled, Emptied
<1>4. MeasureInv'
  BY <1>0 DEF TypeInv, MeasureInv
<1> QED BY <1>1, <1>2, <1>3, <1>4 DEF WindowInv

LEMMA StepStutter ==
  ASSUME WindowInv, UNCHANGED vars
  PROVE  WindowInv'
BY DEF WindowInv, TypeInv, RecordInv, ServiceInv, ReportInv, GpuInv, MeasureInv, Intact,
       vars, fixed, cluster, files, locals, threads

LEMMA WindowInit == Init => WindowInv
<1> SUFFICES ASSUME Init PROVE WindowInv
  OBVIOUS
<1> USE WindowAssumption DEF WindowAssumption, Init, NoRecord, ArmIds, InArm, Measure, Body, Restore, Ended
<1>1. original \in Services /\ before \in Records
  BY DEF Services, Records
<1>2. (replicas = 1) \in BOOLEAN
  OBVIOUS
<1>3. pod \in BOOLEAN
  BY <1>2, Zenon
<1>4. 1 \in ArmIds /\ 0 \in 0 .. Arms
  OBVIOUS
<1>5. TypeInv
  BY <1>1, <1>3, <1>4 DEF TypeInv, Labels
<1>6. RecordInv /\ ServiceInv /\ ReportInv
  BY <1>1 DEF RecordInv, ServiceInv, ReportInv, Intact, Scaled, Emptied, Services
<1>7. GpuInv /\ MeasureInv
  BY DEF GpuInv, MeasureInv
<1> QED BY <1>5, <1>6, <1>7 DEF WindowInv

LEMMA WindowNext == WindowInv /\ [Next]_vars => WindowInv'
<1> SUFFICES ASSUME WindowInv, [Next]_vars PROVE WindowInv'
  OBVIOUS
<1>1. CASE Main
  BY <1>1, StepRaise, StepGuard, StepRecord, StepSuspend, StepScaleDown, StepWaitGone, StepLaunch,
     StepStartMonitor, StepReady, StepWork, StepLogs, StepRmArm, StepStopArm, StepJoin, StepCompare,
     StepRm, StepStopAll, StepScaleBack, StepResume, StepVerify, StepReport, StepExit DEF Main
<1>2. ASSUME NEW a \in ArmIds, Monitor(a) \/ ServerDies(a) PROVE WindowInv'
  BY <1>2, StepMonitorRead, StepMonitorJudge, StepMonitorTrip, StepServerDies DEF Monitor
<1>3. CASE Reconcile \/ Kill \/ Rerun
  BY <1>3, StepReconcile, StepKill, StepRerun
<1>4. CASE UNCHANGED vars
  BY <1>4, StepStutter
<1> QED BY <1>1, <1>2, <1>3, <1>4 DEF Next

----------------------------------------------------------------------------
(* The theorems.                                                           *)

\* Every variable of the script keeps its type, whatever a command, a signal,
\* a monitor, Flux or a kill does.
THEOREM WindowTypeCorrect == Spec => []TypeInv
<1>1. WindowInv => TypeInv
  BY DEF WindowInv
<1> QED BY <1>1, WindowInit, WindowNext, PTL DEF Spec

\* One user of the GPU at a time, unless docker rm or the restoration is struck:
\* the window holds the service at zero for as long as a container may run.
THEOREM WindowOneOnGpu == Spec => []OneOnGpu
<1>1. WindowInv => OneOnGpu
  <2> DEFINE running == {a \in ArmIds : container[a] = "running"}
  <2> SUFFICES ASSUME WindowInv, faults = {} PROVE Cardinality(running) <= 1 /\ (pod => running = {})
    BY DEF OneOnGpu
  <2>1. \A a, b \in running : a = b
    BY DEF WindowInv, GpuInv
  <2>2. pod => running = {}
    BY DEF WindowInv, GpuInv
  <2>3. CASE running = {}
    BY <2>2, <2>3, FS_EmptySet
  <2>4. CASE running # {}
    <3>1. PICK a \in running : TRUE
      BY <2>4
    <3>2. running = {a}
      BY <2>1, <3>1
    <3>3. Cardinality(running) = 1
      BY <3>2, FS_Singleton
    <3> QED BY <2>2, <3>3
  <2> QED BY <2>3, <2>4
<1> QED BY <1>1, WindowInit, WindowNext, PTL DEF Spec

\* state-restored.json claims a restoration only if replicas and suspension are
\* the original ones, over any number of starts and whatever strikes.
THEOREM WindowRestoredIsTrue == Spec => []RestoredIsTrue
<1>1. WindowInv => RestoredIsTrue
  BY DEF WindowInv, ReportInv, Intact, RestoredIsTrue
<1> QED BY <1>1, WindowInit, WindowNext, PTL DEF Spec

\* A window that ends has put the service back or asks for attention, unless its
\* finally block was struck.
THEOREM WindowRestores == Spec => []RestoredUnlessStruck
<1>1. WindowInv => RestoredUnlessStruck
  BY DEF WindowInv, ReportInv, Intact, RestoredUnlessStruck, ServiceRestored
<1> QED BY <1>1, WindowInit, WindowNext, PTL DEF Spec

\* Arms are compared only if nothing disturbed the measurement of any of them.
THEOREM WindowCompares == Spec => []ComparedUndisturbed
<1>1. WindowInv => ComparedUndisturbed
  BY DEF WindowInv, MeasureInv, ComparedUndisturbed, Restore, Measure
<1> QED BY <1>1, WindowInit, WindowNext, PTL DEF Spec
=============================================================================
