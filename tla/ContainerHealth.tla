-------------------------- MODULE ContainerHealth --------------------------
(***************************************************************************)
(* tools/bench/container-health.sh wait: the watcher a campaign blocks on  *)
(* after docker run -d. It polls docker inspect until the container runs,  *)
(* has exited, or was not registered within the grace period; docker goes  *)
(* on by itself meanwhile.                                                 *)
(***************************************************************************)
EXTENDS Naturals

CONSTANTS
  Grace, Poll,  \* seconds
  Restarts      \* bound: times docker starts the container over

ASSUME HealthAssumption == Grace \in Nat \ {0} /\ Poll \in Nat

VARIABLES
  state,        \* State.Status; "absent" when docker inspect finds no container
  registered,   \* the container has been registered with the daemon
  failed,       \* it has exited or was removed (history)
  starts,       \* times it was started over
  elapsed,      \* seconds slept since the watcher began, no more than Grace needs
  polled,       \* the status the loop holds, "unset" between two polls
  late,         \* the container was not registered when the grace ended (history)
  rc            \* the exit status of the watcher, NoStatus while it polls

docker      == <<state, registered, failed, starts>>
watcher     == <<elapsed, polled, late, rc>>
health_vars == <<docker, watcher>>

NoStatus  == 9
Transient == {"created", "restarting", "paused"}
Gone      == {"exited", "dead"}
States    == {"absent", "running"} \cup Transient \cup Gone

HealthInit ==
  /\ state \in {"absent", "created", "running"} /\ registered = (state # "absent")
  /\ failed = FALSE /\ starts = 0
  /\ elapsed = 0 /\ polled = "unset" /\ late = FALSE /\ rc = NoStatus

----------------------------------------------------------------------------
(* Docker: registration, start, exit, restart policy, removal (--rm).      *)

Become(next) ==
  /\ state' = next /\ registered' = TRUE
  /\ failed' = (failed \/ next \in {"absent"} \cup Gone)
  /\ UNCHANGED <<starts, watcher>>

Register == state = "absent" /\ ~registered /\ Become("created")
StartUp  == state = "created" /\ \E s \in {"running", "dead"} : Become(s)
Run      == state = "running" /\ \E s \in {"paused", "exited"} : Become(s)
Unpause  == state = "paused" /\ Become("running")
Removal  == state \in Gone \cup {"created"} /\ Become("absent")
Backoff  == state = "exited" /\ starts < Restarts /\ Become("restarting")
StartOver ==
  /\ state = "restarting"
  /\ state' = "running" /\ starts' = starts + 1
  /\ UNCHANGED <<registered, failed, watcher>>

Docker == Register \/ StartUp \/ Run \/ Unpause \/ Removal \/ Backoff \/ StartOver

----------------------------------------------------------------------------
(* The watcher                                                             *)

Inspect ==
  /\ rc = NoStatus /\ polled = "unset"
  /\ polled' = state
  /\ UNCHANGED <<docker, elapsed, late, rc>>

\* Mutant: the grace period is over one poll early.
GraceOverEarly == elapsed + Poll >= Grace
GraceOver == elapsed >= Grace

\* The statuses that are waited out: a passing one for as long as it lasts, an
\* absent container within the grace period.
Waits == polled \in Transient \/ (polled = "absent" /\ ~GraceOver)

\* Mutant: the seconds slept are not counted.
NotCounted == elapsed
Slept == IF elapsed >= Grace THEN elapsed ELSE elapsed + Poll

Sleep ==
  /\ rc = NoStatus /\ Waits
  /\ elapsed' = Slept
  /\ late' = (late \/ (elapsed < Grace /\ elapsed' >= Grace /\ ~registered))
  /\ polled' = "unset"
  /\ UNCHANGED <<docker, rc>>

Verdict(s) == CASE s = "running" -> 0 [] s = "absent" -> 2 [] OTHER -> 1

Answer ==
  /\ rc = NoStatus /\ polled # "unset" /\ ~Waits
  /\ rc' = Verdict(polled)
  /\ UNCHANGED <<docker, elapsed, polled, late>>

Watch == Inspect \/ Sleep \/ Answer

HealthNext == Docker \/ Watch

\* The watcher is a shell that the kernel schedules; docker owes nothing.
HealthFairness == WF_health_vars(Watch)

HealthSpec == HealthInit /\ [][HealthNext]_health_vars /\ HealthFairness

----------------------------------------------------------------------------
(* Properties.                                                             *)

\* container-health.sh:6-8: no false failure. A container that is only slow,
\* registered in time and neither exited nor removed, is never reported lost.
NoFalseFailure == rc \in {1, 2} => failed \/ late

\* The campaign is not left waiting: once the container stays in a state that
\* is not a passing one, the watcher answers.
Answers ==
  <>[](state \in {"running", "absent"} \cup Gone) => <>(rc # NoStatus)
=============================================================================
