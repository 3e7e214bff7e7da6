------------------------------ MODULE GpuLock ------------------------------
(***************************************************************************)
(* tools/bench/gpulock.sh: the directory lock of the one shared GPU.       *)
(*                                                                         *)
(* Each agent is a campaign shell that calls the script's commands one     *)
(* after another; every file-system call of a command is a step of its own.*)
(* Acquiring forks a refresher, a process that outlives the command and    *)
(* watches the campaign shell. A shell may die at any step, its refreshers *)
(* may not: they are disowned.                                             *)
(***************************************************************************)
EXTENDS Naturals, FiniteSets

CONSTANTS
  Agents,       \* campaign shells; each one's name is its owner name
  NoAgent,
  Rounds,       \* bound: locks an agent acquires
  IdleMinutes   \* samples of a steal's idle window

ASSUME LockAssumption ==
  /\ NoAgent \notin Agents
  /\ Rounds \in Nat \ {0} /\ IdleMinutes \in Nat \ {0}

VARIABLES
  dir,          \* the lock directory exists
  creator,      \* who made the present directory (history)
  owner,        \* the name in its owner file, NoAgent when there is no file
  pidfile,      \* refresher.pid: a refresher, or NoRefresher
  heartbeat,    \* the heartbeat file exists
  pc,           \* where each agent is
  round,        \* directories an agent has made with acquire
  refresher,    \* state of the refresher of each round of each agent
  samples,      \* idle samples of a steal in progress
  computing,    \* agents with work on the GPU
  stolen        \* some agent has begun to take a lock over (history)

files == <<dir, creator, owner, pidfile, heartbeat>>
vars  == <<files, pc, round, refresher, samples, computing, stolen>>

NoRefresher == <<NoAgent, 0>>
Refreshers  == Agents \X (1 .. Rounds)

Acquiring == {"owner", "fork", "pidfile"}
Releasing == {"stop_child", "unlink", "rmdir"}
Stealing  == {"sample", "s_stop", "s_unlink", "s_rmdir", "s_mkdir", "s_owner"}
Inside    == Acquiring \cup {"holding"} \cup Releasing

Init ==
  /\ dir = FALSE /\ creator = NoAgent /\ owner = NoAgent
  /\ pidfile = NoRefresher /\ heartbeat = FALSE
  /\ pc = [a \in Agents |-> "idle"]
  /\ round = [a \in Agents |-> 0]
  /\ refresher = [r \in Refreshers |-> "none"]
  /\ samples = [a \in Agents |-> 0]
  /\ computing = {} /\ stolen = FALSE

Goto(a, label) == pc' = [pc EXCEPT ![a] = label]

----------------------------------------------------------------------------
(* acquire                                                                 *)

\* mkdir decides who gets the lock. Mutant: test -d, then mkdir -p.
MayMkdirAnyway(a) == TRUE
MayMkdir(a) == ~dir

Mkdir(a) ==
  /\ pc[a] = "idle" /\ MayMkdir(a) /\ round[a] < Rounds
  /\ dir' = TRUE /\ creator' = a
  /\ round' = [round EXCEPT ![a] = round[a] + 1]
  /\ Goto(a, "owner")
  /\ UNCHANGED <<owner, pidfile, heartbeat, refresher, samples, computing, stolen>>

\* A file of a directory that is gone cannot be written; the command goes on.
WriteOwner(a) ==
  /\ pc[a] = "owner"
  /\ owner' = IF dir THEN a ELSE owner
  /\ Goto(a, "fork")
  /\ UNCHANGED <<dir, creator, pidfile, heartbeat, round, refresher, samples, computing, stolen>>

ForkRefresher(a) ==
  /\ pc[a] = "fork"
  /\ refresher' = [refresher EXCEPT ![<<a, round[a]>>] = "check"]
  /\ Goto(a, "pidfile")
  /\ UNCHANGED <<files, round, samples, computing, stolen>>

WritePid(a) ==
  /\ pc[a] = "pidfile"
  /\ pidfile' = IF dir THEN <<a, round[a]>> ELSE pidfile
  /\ Goto(a, "holding")
  /\ UNCHANGED <<dir, creator, owner, heartbeat, round, refresher, samples, computing, stolen>>

\* While it holds the lock an agent puts work on the GPU and takes it off.
Compute(a) ==
  /\ pc[a] = "holding"
  /\ computing' = IF a \in computing THEN computing \ {a} ELSE computing \cup {a}
  /\ UNCHANGED <<files, pc, round, refresher, samples, stolen>>

----------------------------------------------------------------------------
(* The refresher: while its shell lives and the directory exists, write the*)
(* heartbeat and sleep.                                                    *)

Alive(r) == refresher[r] \in {"check", "write"}

\* Mutant: the refresher does not watch its holder.
HolderIgnored(a) == TRUE
HolderAlive(a) == pc[a] # "dead"

RefresherCheck(r) ==
  /\ refresher[r] = "check"
  /\ refresher' = [refresher EXCEPT ![r] =
                     IF HolderAlive(r[1]) /\ dir THEN "write" ELSE "dead"]
  /\ UNCHANGED <<files, pc, round, samples, computing, stolen>>

RefresherWrite(r) ==
  /\ refresher[r] = "write"
  /\ heartbeat' = (heartbeat \/ dir)
  /\ refresher' = [refresher EXCEPT ![r] = "check"]
  /\ UNCHANGED <<dir, creator, owner, pidfile, pc, round, samples, computing, stolen>>

----------------------------------------------------------------------------
(* release                                                                 *)

\* Release goes on only if the owner file names the caller, who need not be
\* the holder. Mutant: any lock is released.
AnyLock(a) == dir
IsOwner(a) == owner = a

ReleaseCheck(a) ==
  /\ pc[a] \in {"idle", "holding"} /\ a \notin computing
  /\ IF IsOwner(a) THEN Goto(a, "stop_child")
                   ELSE pc[a] = "holding" /\ Goto(a, "idle")
  /\ UNCHANGED <<files, round, refresher, samples, computing, stolen>>

\* The refresher the pid file names is killed. Mutant: it is left to run.
LeftToRun == refresher
Killed == IF pidfile = NoRefresher THEN refresher
                                   ELSE [refresher EXCEPT ![pidfile] = "dead"]

StopChild(a, from, to) ==
  /\ pc[a] = from
  /\ refresher' = Killed
  /\ pidfile' = NoRefresher
  /\ Goto(a, to)
  /\ stolen' = (stolen \/ from = "s_stop")
  /\ UNCHANGED <<dir, creator, owner, heartbeat, round, samples, computing>>

\* rm -rf: the entries, then the directory if nothing came back into it.
Unlink(a, from, to) ==
  /\ pc[a] = from
  /\ owner' = NoAgent /\ pidfile' = NoRefresher /\ heartbeat' = FALSE
  /\ Goto(a, to)
  /\ UNCHANGED <<dir, creator, round, refresher, samples, computing, stolen>>

Empty == owner = NoAgent /\ pidfile = NoRefresher /\ ~heartbeat

Rmdir(a, from, to) ==
  /\ pc[a] = from
  /\ IF Empty THEN dir' = FALSE /\ creator' = NoAgent ELSE UNCHANGED <<dir, creator>>
  /\ Goto(a, to)
  /\ UNCHANGED <<owner, pidfile, heartbeat, round, refresher, samples, computing, stolen>>

Release(a) ==
  \/ ReleaseCheck(a) \/ StopChild(a, "stop_child", "unlink")
  \/ Unlink(a, "unlink", "rmdir") \/ Rmdir(a, "rmdir", "idle")

----------------------------------------------------------------------------
(* steal                                                                   *)

StealStart(a) ==
  /\ pc[a] = "idle" /\ dir
  /\ samples' = [samples EXCEPT ![a] = 0]
  /\ Goto(a, "sample")
  /\ UNCHANGED <<files, round, refresher, computing, stolen>>

\* One sample a minute; any work on the GPU refuses the steal.
Sample(a) ==
  /\ pc[a] = "sample"
  /\ samples' = [samples EXCEPT ![a] = IF computing = {} THEN samples[a] + 1 ELSE 0]
  /\ Goto(a, IF computing # {} THEN "idle"
             ELSE IF samples[a] + 1 = IdleMinutes THEN "s_stop" ELSE "sample")
  /\ UNCHANGED <<files, round, refresher, computing, stolen>>

\* mkdir's failure is not looked at.
StealMkdir(a) ==
  /\ pc[a] = "s_mkdir"
  /\ dir' = TRUE /\ creator' = IF dir THEN creator ELSE a
  /\ Goto(a, "s_owner")
  /\ UNCHANGED <<owner, pidfile, heartbeat, round, refresher, samples, computing, stolen>>

\* The owner file is written; start_heartbeat_child is then called without the
\* holder pid it needs, and set -u ends the script with status 1.
StealOwner(a) ==
  /\ pc[a] = "s_owner"
  /\ owner' = IF dir THEN a ELSE owner
  /\ Goto(a, "idle")
  /\ UNCHANGED <<dir, creator, pidfile, heartbeat, round, refresher, samples, computing, stolen>>

Steal(a) ==
  \/ StealStart(a) \/ Sample(a)
  \/ StopChild(a, "s_stop", "s_unlink") \/ Unlink(a, "s_unlink", "s_rmdir")
  \/ Rmdir(a, "s_rmdir", "s_mkdir") \/ StealMkdir(a) \/ StealOwner(a)

----------------------------------------------------------------------------

\* The campaign shell and the command it runs are killed.
Die(a) ==
  /\ pc[a] # "dead"
  /\ Goto(a, "dead")
  /\ computing' = computing \ {a}
  /\ UNCHANGED <<files, round, refresher, samples, stolen>>

Acquire(a) == Mkdir(a) \/ WriteOwner(a) \/ ForkRefresher(a) \/ WritePid(a)
Refresh(r) == RefresherCheck(r) \/ RefresherWrite(r)

Next ==
  \/ \E a \in Agents : Acquire(a) \/ Compute(a) \/ Release(a) \/ Steal(a) \/ Die(a)
  \/ \E r \in Refreshers : Refresh(r)

\* The kernel keeps scheduling a process that is not asleep for ever.
Fairness == \A r \in Refreshers : WF_vars(Refresh(r))

Spec == Init /\ [][Next]_vars /\ Fairness

----------------------------------------------------------------------------
(* Properties.                                                             *)

\* Every variable has its type.
TypeOK ==
  /\ dir \in BOOLEAN /\ heartbeat \in BOOLEAN
  /\ creator \in Agents \cup {NoAgent} /\ owner \in Agents \cup {NoAgent}
  /\ pidfile \in Refreshers \cup {NoRefresher}
  /\ pc \in [Agents -> {"idle", "dead"} \cup Inside \cup Stealing]
  /\ round \in [Agents -> 0 .. Rounds]
  /\ refresher \in [Refreshers -> {"none", "check", "write", "dead"}]
  /\ samples \in [Agents -> 0 .. IdleMinutes]
  /\ computing \in SUBSET Agents /\ stolen \in BOOLEAN

\* Until a lock is stolen, from its mkdir to its rmdir, an agent is alone with
\* the lock, across the deaths of others and the writes of any refresher.
Exclusive == ~stolen => \A a \in Agents : pc[a] \in Inside => dir /\ creator = a

\* The agent the lock names holds it, or died with it: an idle agent is never
\* named, so that no agent finds a lock in its own name that it does not hold.
OwnerHolds == \A a \in Agents : dir /\ owner = a => pc[a] \in Inside \cup {"dead"}

\* The same until a lock is stolen.
FirstOwnerHolds == ~stolen => OwnerHolds

\* Until a lock is stolen, a refresher that runs belongs to the agent whose
\* directory it writes in: a lock never looks alive because of an earlier holder.
HeartbeatIsTheOwners ==
  ~stolen => \A r \in Refreshers : Alive(r) /\ dir => creator = r[1]

\* A step that ends the rm -rf of the lock directory removes the caller's own.
RemovesOwn ==
  \A a \in Agents : pc[a] = "rmdir" /\ pc'[a] # "rmdir" /\ dir /\ ~dir' => creator = a

\* gpulock.sh:17-19, 141: "Never remove a lock you didn't create." Until a
\* lock is stolen, release takes away no directory but the caller's.
ReleaseUnstolen == [][~stolen => RemovesOwn]_vars

\* gpulock.sh:74-75: "a dead campaign can never look alive": once a shell is
\* dead, its refreshers end, however its lock was taken over.
DeadGoesQuiet ==
  \A a \in Agents : pc[a] = "dead" ~> \A n \in 1 .. Rounds : ~Alive(<<a, n>>)
=============================================================================
