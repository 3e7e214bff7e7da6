--------------------------- MODULE GpuLock_proofs ---------------------------
(***************************************************************************)
(* Theorems about the GPU lock, for any number of agents and acquisitions: *)
(* the types always, the rest until the first lock is stolen.              *)
(***************************************************************************)
EXTENDS GpuLock, TLAPS

\* What an agent inside the lock has made of its directory, step by step.
HasOwner == Inside \ {"owner", "rmdir"}

\* A steal past its idle window.
Thieving == {"s_unlink", "s_rmdir", "s_mkdir", "s_owner"}

FilesInv ==
  /\ \A a \in Agents : pc[a] \notin Thieving
  /\ \A a \in Agents : pc[a] \in Inside => dir /\ creator = a
  /\ \A a \in Agents : pc[a] \in HasOwner \ {"unlink"} => owner = a
  /\ \A a \in Agents : pc[a] \notin Inside \cup {"dead"} => creator # a
  /\ \A a \in Agents : pc[a] = "rmdir" => Empty
  /\ owner # NoAgent => dir /\ creator = owner
  /\ pidfile # NoRefresher => dir /\ creator = pidfile[1]
  /\ ~dir => creator = NoAgent /\ ~heartbeat

\* A running refresher is its creator's current one, and refresher.pid names
\* it once acquire has returned, which is what lets release kill it.
RefresherInv ==
  /\ \A r \in Refreshers : Alive(r) =>
       /\ dir /\ creator = r[1]
       /\ r[2] = round[r[1]]
       /\ pc[r[1]] \in {"pidfile", "holding", "stop_child", "dead"}
  /\ \A a \in Agents : pc[a] \in {"holding", "stop_child"} => pidfile = <<a, round[a]>>
  /\ \A a \in Agents : pc[a] \in Inside => round[a] \in 1 .. Rounds

LockInv == TypeOK /\ FilesInv /\ RefresherInv

\* Stolen lock or not: who is acquiring has begun a round, and who is sampling
\* has samples left.
TypeInv ==
  /\ TypeOK
  /\ \A a \in Agents : pc[a] \in Acquiring => round[a] \in 1 .. Rounds
  /\ \A a \in Agents : pc[a] = "sample" => samples[a] < IdleMinutes

StolenInv == TypeInv /\ (~stolen => LockInv)

USE DEF Inside, Acquiring, Releasing, Goto, Thieving

LEMMA LockInit == Init => LockInv
<1> SUFFICES ASSUME Init PROVE LockInv
  OBVIOUS
<1> USE LockAssumption DEF LockAssumption, Init
<1>1. TypeOK
  <2>1. round \in [Agents -> 0 .. Rounds] /\ samples \in [Agents -> 0 .. IdleMinutes]
    OBVIOUS
  <2>2. pc \in [Agents -> {"idle", "dead"} \cup Inside \cup Stealing]
    OBVIOUS
  <2> QED BY <2>1, <2>2 DEF TypeOK
<1>2. FilesInv
  BY DEF FilesInv, HasOwner
<1>3. RefresherInv
  BY DEF RefresherInv, Alive
<1> QED BY <1>1, <1>2, <1>3 DEF LockInv

\* At most one agent is inside, so that a step of one disturbs no other.
LEMMA Alone ==
  ASSUME LockInv, NEW a \in Agents, NEW b \in Agents, pc[a] \in Inside, pc[b] \in Inside
  PROVE  a = b
BY DEF LockInv, FilesInv

\* A refresher is told apart from the others by its agent and its round.
LEMMA Pairs ==
  ASSUME NEW r \in Refreshers
  PROVE  r = <<r[1], r[2]>> /\ r[1] \in Agents /\ r[2] \in 1 .. Rounds /\ r # NoRefresher
BY LockAssumption DEF Refreshers, NoRefresher, LockAssumption

LEMMA StepMkdir ==
  ASSUME LockInv, NEW a \in Agents, Mkdir(a)
  PROVE  LockInv'
<1> USE LockAssumption DEF LockAssumption, Mkdir, MayMkdir
<1>1. TypeOK'
  BY DEF LockInv, TypeOK
<1>2. FilesInv'
  BY DEF LockInv, TypeOK, FilesInv, HasOwner, Empty
<1>3. RefresherInv'
  <2>1. \A r \in Refreshers : ~Alive(r)
    BY DEF LockInv, RefresherInv
  <2> QED BY <2>1 DEF LockInv, TypeOK, FilesInv, RefresherInv, Alive
<1> QED BY <1>1, <1>2, <1>3 DEF LockInv

LEMMA StepWriteOwner ==
  ASSUME LockInv, NEW a \in Agents, WriteOwner(a)
  PROVE  LockInv'
<1> USE DEF WriteOwner
<1>1. TypeOK'
  BY DEF LockInv, TypeOK
<1>2. FilesInv'
  BY Alone DEF LockInv, TypeOK, FilesInv, HasOwner, Empty
<1>3. RefresherInv'
  BY Alone, Pairs DEF LockInv, TypeOK, FilesInv, RefresherInv, Alive
<1> QED BY <1>1, <1>2, <1>3 DEF LockInv

LEMMA StepForkRefresher ==
  ASSUME LockInv, NEW a \in Agents, ForkRefresher(a)
  PROVE  LockInv'
<1> USE DEF ForkRefresher, files
<1>1. TypeOK'
  BY DEF LockInv, TypeOK
<1>2. FilesInv'
  BY Alone DEF LockInv, TypeOK, FilesInv, HasOwner, Empty
<1>3. RefresherInv'
  BY Alone, Pairs DEF LockInv, TypeOK, FilesInv, RefresherInv, Alive
<1> QED BY <1>1, <1>2, <1>3 DEF LockInv

LEMMA StepWritePid ==
  ASSUME LockInv, NEW a \in Agents, WritePid(a)
  PROVE  LockInv'
<1> USE DEF WritePid
<1>0. <<a, round[a]>> \in Refreshers
  BY DEF LockInv, RefresherInv, Refreshers
<1>1. TypeOK'
  BY <1>0 DEF LockInv, TypeOK
<1>2. FilesInv'
  BY <1>0, Alone DEF LockInv, TypeOK, FilesInv, HasOwner, Empty
<1>3. RefresherInv'
  BY <1>0, Alone, Pairs DEF LockInv, TypeOK, FilesInv, RefresherInv, Alive
<1> QED BY <1>1, <1>2, <1>3 DEF LockInv

LEMMA StepCompute ==
  ASSUME LockInv, NEW a \in Agents, Compute(a)
  PROVE  LockInv'
BY DEF Compute, files, LockInv, TypeOK, FilesInv, RefresherInv, HasOwner, Empty, Alive

LEMMA StepReleaseCheck ==
  ASSUME LockInv, NEW a \in Agents, ReleaseCheck(a)
  PROVE  LockInv'
<1> USE DEF ReleaseCheck, IsOwner, files
<1>0. owner = a /\ pc[a] = "holding" /\ pc' = [pc EXCEPT ![a] = "stop_child"]
  BY LockAssumption DEF LockInv, FilesInv, HasOwner, LockAssumption
<1>1. TypeOK'
  BY <1>0 DEF LockInv, TypeOK
<1>2. FilesInv'
  BY <1>0, Alone DEF LockInv, TypeOK, FilesInv, HasOwner, Empty
<1>3. RefresherInv'
  BY <1>0, Alone, Pairs DEF LockInv, TypeOK, FilesInv, RefresherInv, Alive
<1> QED BY <1>1, <1>2, <1>3 DEF LockInv

LEMMA StepStopChild ==
  ASSUME LockInv, NEW a \in Agents, StopChild(a, "stop_child", "unlink")
  PROVE  LockInv'
<1> USE DEF StopChild
<1>0. /\ pidfile = <<a, round[a]>> /\ <<a, round[a]>> \in Refreshers /\ creator = a
      /\ refresher' = [refresher EXCEPT ![<<a, round[a]>>] = "dead"]
  BY Pairs DEF LockInv, RefresherInv, FilesInv, Refreshers, Killed
<1>1. TypeOK'
  BY <1>0 DEF LockInv, TypeOK
<1>2. FilesInv'
  BY <1>0, Alone DEF LockInv, TypeOK, FilesInv, HasOwner, Empty
<1>3. \A r \in Refreshers : ~Alive(r)'
  <2> SUFFICES ASSUME NEW r \in Refreshers, Alive(r)' PROVE FALSE
    OBVIOUS
  <2>1. r # <<a, round[a]>> /\ Alive(r)
    BY <1>0 DEF Alive, LockInv, TypeOK
  <2>2. creator = r[1] /\ r[2] = round[r[1]]
    BY <2>1 DEF LockInv, RefresherInv
  <2> QED BY <1>0, <2>1, <2>2, Pairs
<1>4. RefresherInv'
  BY <1>0, <1>3, Alone DEF LockInv, TypeOK, FilesInv, RefresherInv
<1> QED BY <1>1, <1>2, <1>4 DEF LockInv

LEMMA StepUnlink ==
  ASSUME LockInv, NEW a \in Agents, Unlink(a, "unlink", "rmdir")
  PROVE  LockInv'
<1> USE DEF Unlink
<1>1. TypeOK'
  BY DEF LockInv, TypeOK
<1>2. FilesInv'
  BY Alone DEF LockInv, TypeOK, FilesInv, HasOwner, Empty
<1>3. RefresherInv'
  BY Alone, Pairs DEF LockInv, TypeOK, FilesInv, RefresherInv, Alive
<1> QED BY <1>1, <1>2, <1>3 DEF LockInv

LEMMA StepRmdir ==
  ASSUME LockInv, NEW a \in Agents, Rmdir(a, "rmdir", "idle")
  PROVE  LockInv' /\ creator = a
<1> USE DEF Rmdir
<1>0. Empty /\ creator = a /\ dir' = FALSE /\ creator' = NoAgent
  BY DEF LockInv, FilesInv
<1>1. TypeOK'
  BY <1>0 DEF LockInv, TypeOK
<1>2. FilesInv'
  BY <1>0, Alone, LockAssumption DEF LockInv, TypeOK, FilesInv, HasOwner, Empty, LockAssumption
<1>3. RefresherInv'
  BY <1>0, Alone, Pairs DEF LockInv, TypeOK, FilesInv, RefresherInv, Alive
<1> QED BY <1>0, <1>1, <1>2, <1>3 DEF LockInv

LEMMA StepDie ==
  ASSUME LockInv, NEW a \in Agents, Die(a)
  PROVE  LockInv'
<1> USE DEF Die, files
<1>1. TypeOK'
  BY DEF LockInv, TypeOK
<1>2. FilesInv'
  BY DEF LockInv, TypeOK, FilesInv, HasOwner, Empty
<1>3. RefresherInv'
  BY Pairs DEF LockInv, TypeOK, RefresherInv, Alive
<1> QED BY <1>1, <1>2, <1>3 DEF LockInv

LEMMA StepRefresh ==
  ASSUME LockInv, NEW r \in Refreshers, Refresh(r)
  PROVE  LockInv'
<1> USE DEF Refresh, RefresherCheck, RefresherWrite, files
<1>1. TypeOK'
  BY DEF LockInv, TypeOK
<1>2. FilesInv'
  <2>1. CASE RefresherCheck(r)
    BY <2>1 DEF LockInv, TypeOK, FilesInv, HasOwner, Empty
  <2>2. CASE RefresherWrite(r)
    <3>1. Alive(r) /\ dir /\ creator = r[1] /\ r[1] \in Agents /\ pc[r[1]] # "rmdir"
      BY <2>2, Pairs DEF Alive, LockInv, RefresherInv
    <3>2. \A a \in Agents : pc[a] # "rmdir"
      BY <3>1 DEF LockInv, FilesInv
    <3> QED BY <2>2, <3>1, <3>2 DEF LockInv, TypeOK, FilesInv, HasOwner, Empty
  <2> QED BY <2>1, <2>2
<1>3. RefresherInv'
  BY DEF LockInv, TypeOK, RefresherInv, Alive
<1> QED BY <1>1, <1>2, <1>3 DEF LockInv

----------------------------------------------------------------------------
(* The types, with steals.                                                 *)

LEMMA TypeInit == Init => TypeInv
BY LockInit DEF LockInv, TypeInv, Init

LEMMA TypeAcquire ==
  ASSUME TypeInv, NEW a \in Agents, Acquire(a)
  PROVE  TypeInv'
<1> USE LockAssumption DEF LockAssumption, TypeInv, TypeOK
<1>1. CASE Mkdir(a)
  BY <1>1 DEF Mkdir
<1>2. CASE WriteOwner(a)
  BY <1>2 DEF WriteOwner
<1>3. CASE ForkRefresher(a)
  BY <1>3 DEF ForkRefresher, files
<1>4. CASE WritePid(a)
  <2>1. <<a, round[a]>> \in Refreshers
    BY <1>4 DEF WritePid, Refreshers
  <2> QED BY <1>4, <2>1 DEF WritePid
<1> QED BY <1>1, <1>2, <1>3, <1>4 DEF Acquire

LEMMA TypeRelease ==
  ASSUME TypeInv, NEW a \in Agents, Release(a)
  PROVE  TypeInv'
<1> USE DEF TypeInv, TypeOK
<1>1. CASE ReleaseCheck(a)
  BY <1>1 DEF ReleaseCheck, files
<1>2. CASE StopChild(a, "stop_child", "unlink")
  BY <1>2 DEF StopChild, Killed
<1>3. CASE Unlink(a, "unlink", "rmdir")
  BY <1>3 DEF Unlink
<1>4. CASE Rmdir(a, "rmdir", "idle")
  BY <1>4 DEF Rmdir
<1> QED BY <1>1, <1>2, <1>3, <1>4 DEF Release

LEMMA TypeSteal ==
  ASSUME TypeInv, NEW a \in Agents, Steal(a)
  PROVE  TypeInv'
<1> USE LockAssumption DEF LockAssumption, TypeInv, TypeOK, Stealing
<1>1. CASE StealStart(a)
  BY <1>1 DEF StealStart, files
<1>2. CASE Sample(a)
  <2>1. /\ samples' \in [Agents -> 0 .. IdleMinutes]
        /\ pc'[a] = "sample" => samples'[a] < IdleMinutes
        /\ \A b \in Agents : b # a => samples'[b] = samples[b] /\ pc'[b] = pc[b]
    BY <1>2 DEF Sample
  <2>2. \E l \in {"idle", "sample", "s_stop"} : pc' = [pc EXCEPT ![a] = l]
    BY <1>2 DEF Sample
  <2>3. UNCHANGED <<files, round, refresher, computing, stolen>>
    BY <1>2 DEF Sample
  <2> QED BY <2>1, <2>2, <2>3 DEF files
<1>3. CASE StopChild(a, "s_stop", "s_unlink")
  BY <1>3 DEF StopChild, Killed
<1>4. CASE Unlink(a, "s_unlink", "s_rmdir")
  BY <1>4 DEF Unlink
<1>5. CASE Rmdir(a, "s_rmdir", "s_mkdir")
  BY <1>5 DEF Rmdir
<1>6. CASE StealMkdir(a)
  BY <1>6 DEF StealMkdir
<1>7. CASE StealOwner(a)
  BY <1>7 DEF StealOwner
<1> QED BY <1>1, <1>2, <1>3, <1>4, <1>5, <1>6, <1>7 DEF Steal

LEMMA TypeStep == TypeInv /\ [Next]_vars => TypeInv'
<1> SUFFICES ASSUME TypeInv, [Next]_vars PROVE TypeInv'
  OBVIOUS
<1>1. CASE UNCHANGED vars
  BY <1>1 DEF vars, files, TypeInv, TypeOK
<1>2. ASSUME NEW a \in Agents, Compute(a) PROVE TypeInv'
  BY <1>2 DEF Compute, files, TypeInv, TypeOK
<1>3. ASSUME NEW a \in Agents, Die(a) PROVE TypeInv'
  BY <1>3 DEF Die, files, TypeInv, TypeOK
<1>4. ASSUME NEW r \in Refreshers, Refresh(r) PROVE TypeInv'
  BY <1>4 DEF Refresh, RefresherCheck, RefresherWrite, files, TypeInv, TypeOK
<1> QED BY <1>1, <1>2, <1>3, <1>4, TypeAcquire, TypeRelease, TypeSteal DEF Next

----------------------------------------------------------------------------
(* What steals leave alone until one passes its window.                    *)

\* A steal that has not passed its idle window touches nothing.
LEMMA StepWait ==
  ASSUME LockInv, TypeInv, NEW a \in Agents, StealStart(a) \/ Sample(a)
  PROVE  LockInv'
<1> USE DEF StealStart, Sample, files
<1>0. /\ pc[a] \in {"idle", "sample"}
      /\ \E l \in {"idle", "sample", "s_stop"} : pc' = [pc EXCEPT ![a] = l]
      /\ UNCHANGED <<files, round, refresher, computing, stolen>>
  OBVIOUS
<1>1. TypeOK'
  BY TypeSteal DEF Steal, TypeInv
<1> HIDE DEF StealStart, Sample
<1>2. FilesInv'
  BY <1>0 DEF LockInv, TypeOK, FilesInv, HasOwner, Empty
<1>3. RefresherInv'
  BY <1>0, Pairs DEF LockInv, TypeOK, RefresherInv, Alive
<1> QED BY <1>1, <1>2, <1>3 DEF LockInv

\* A step that steals nothing.
LEMMA LockStep ==
  ASSUME LockInv, TypeInv, [Next]_vars, ~stolen'
  PROVE  LockInv'
<1>1. CASE UNCHANGED vars
  BY <1>1 DEF vars, files, LockInv, TypeOK, FilesInv, RefresherInv, HasOwner, Empty, Alive
<1>2. ASSUME NEW a \in Agents, Acquire(a) PROVE LockInv'
  BY <1>2, StepMkdir, StepWriteOwner, StepForkRefresher, StepWritePid DEF Acquire
<1>3. ASSUME NEW a \in Agents, Release(a) PROVE LockInv'
  BY <1>3, StepReleaseCheck, StepStopChild, StepUnlink, StepRmdir DEF Release
<1>4. ASSUME NEW a \in Agents, Compute(a) \/ Die(a) PROVE LockInv'
  BY <1>4, StepCompute, StepDie
<1>5. ASSUME NEW r \in Refreshers, Refresh(r) PROVE LockInv'
  BY <1>5, StepRefresh
<1>6. ASSUME NEW a \in Agents, Steal(a) PROVE LockInv'
  <2>1. CASE StealStart(a) \/ Sample(a)
    BY <2>1, StepWait
  <2>2. CASE StopChild(a, "s_stop", "s_unlink")
    BY <2>2 DEF StopChild
  <2>3. CASE \/ Unlink(a, "s_unlink", "s_rmdir") \/ Rmdir(a, "s_rmdir", "s_mkdir")
             \/ StealMkdir(a) \/ StealOwner(a)
    BY <2>3 DEF Unlink, Rmdir, StealMkdir, StealOwner, LockInv, FilesInv
  <2> QED BY <1>6, <2>1, <2>2, <2>3 DEF Steal
<1> QED BY <1>1, <1>2, <1>3, <1>4, <1>5, <1>6 DEF Next

----------------------------------------------------------------------------
(* The theorems.                                                           *)

\* Nobody forgets that a lock was stolen.
LEMMA StolenStays ==
  ASSUME [Next]_vars, ~stolen'
  PROVE  ~stolen
BY DEF Next, vars, Acquire, Mkdir, WriteOwner, ForkRefresher, WritePid, Compute, Release,
       ReleaseCheck, StopChild, Unlink, Rmdir, Steal, StealStart, Sample, StealMkdir, StealOwner,
       Die, Refresh, RefresherCheck, RefresherWrite

LEMMA LockInvariant == Spec => []StolenInv
<1>1. Init => StolenInv
  BY LockInit, TypeInit DEF StolenInv
<1>2. StolenInv /\ [Next]_vars => StolenInv'
  BY LockStep, TypeStep, StolenStays DEF StolenInv
<1> QED BY <1>1, <1>2, PTL DEF Spec

\* Every variable of the lock keeps its type, stolen locks or not.
THEOREM LockTypeCorrect == Spec => []TypeOK
<1>1. StolenInv => TypeOK
  BY DEF StolenInv, TypeInv
<1> QED BY <1>1, LockInvariant, PTL

\* Until the first steal the lock is exclusive from mkdir to rmdir (gpulock.sh
\* acquire and release), for any number of agents, acquisitions and deaths.
THEOREM LockExclusive == Spec => []Exclusive
<1>1. StolenInv => Exclusive
  BY DEF StolenInv, LockInv, FilesInv, Exclusive
<1> QED BY <1>1, LockInvariant, PTL

\* Until the first steal the agent named by the owner file is inside or dead.
THEOREM LockOwnerHolds == Spec => []FirstOwnerHolds
<1>1. StolenInv => FirstOwnerHolds
  BY LockAssumption
     DEF StolenInv, LockInv, TypeOK, FilesInv, OwnerHolds, FirstOwnerHolds, LockAssumption, Stealing
<1> QED BY <1>1, LockInvariant, PTL

\* Until the first steal only the present holder's refresher runs.
THEOREM LockHeartbeat == Spec => []HeartbeatIsTheOwners
<1>1. StolenInv => HeartbeatIsTheOwners
  BY DEF StolenInv, LockInv, RefresherInv, HeartbeatIsTheOwners
<1> QED BY <1>1, LockInvariant, PTL

\* Until the first steal release removes no directory but the caller's own
\* (gpulock.sh:17-19, 141).
THEOREM LockReleaseRemovesOwn == Spec => ReleaseUnstolen
<1>1. StolenInv => [~stolen => RemovesOwn]_vars
  BY DEF StolenInv, LockInv, FilesInv, RemovesOwn
<1>2. Spec => [][~stolen => RemovesOwn]_vars
  BY <1>1, LockInvariant, PTL
<1> QED BY <1>2 DEF ReleaseUnstolen
=============================================================================
