------------------------ MODULE ApplyServicesProofs ------------------------
(***************************************************************************)
(* Proofs about ApplyServices, for every number of filesets, services and  *)
(* containers and every bound.                                             *)
(*                                                                         *)
(* NoServiceLeftDown is about the end of a run.  While a cold fileset is   *)
(* being synced the containers it stopped are down, so the invariant DownInv *)
(* carries the promise that every container that was running is running or *)
(* among those the code remembers to start again.  QueueInv does the same  *)
(* for restarts: the service of a container that became stale is queued,   *)
(* or about to be.                                                         *)
(***************************************************************************)
EXTENDS ApplyServices, TLAPS

\* A leaf goes to Zenon unless it names another prover.
USE ZenonT(60)

\* The failures that do not touch a container.
Harmless == {"resolve", "sync", "list"}

\* What ran before the run is running, or in the list of stopped containers.
DownInv ==
  faults \subseteq Harmless =>
    IF pc \in {"sync", "start", "recover"}
    THEN before.running \subseteq running \cup stopped
    ELSE before.running \subseteq running

\* In a run without failures, what became stale is queued for a restart or about to be.
QueueInv ==
  faults = {} /\ (pc # "idle" \/ result = "ok") =>
    \A c \in stale \ before.stale : IsFirst(c) =>
      \/ pc \in {"filesets", "sync", "start", "stacks", "list", "restart"}
         /\ ServiceOf[c] \in pending
      \/ pc = "start" /\ mode[k] = "hot" /\ ServiceOf[c] \in targets[k]

\* Recovery happens only after a failure.
NoRecoveryWithoutFault == pc = "recover" => faults # {}

\* The inductive invariant.
IInv == TypeOK /\ DownInv /\ ColdSyncFindsServicesStopped /\ QueueInv /\ NoRecoveryWithoutFault

\* The first containers of services are containers.
LEMMA FirstsAreContainers == \A S : Firsts(S) \subseteq Containers
  BY DEF Firsts

\* The initial states satisfy the invariant.
LEMMA InitEstablishesIInv == Init => IInv
  <1> SUFFICES ASSUME Init PROVE IInv
    OBVIOUS
  <1> USE ConfigurationAssumption DEF Init
  <1>1. TypeOK
    <2>1. cancelled \in BOOLEAN
      OBVIOUS
    <2>2. bound \in Bounds
      BY SMTT(30) DEF Bounds
    <2>3. before \in [running : SUBSET Containers, stale : SUBSET Containers]
      OBVIOUS
    <2>4. k \in 1..(N + 1)
      BY SMTT(30)
    <2> QED
      BY <2>1, <2>2, <2>3, <2>4 DEF TypeOK
  <1> QED
    BY <1>1 DEF IInv, DownInv, ColdSyncFindsServicesStopped, QueueInv, NoRecoveryWithoutFault

\* What a failing command does to the bookkeeping.
LEMMA FailsFacts ==
  ASSUME TypeOK
  PROVE  \A kind \in FaultKinds : Fails(kind) =>
           /\ faults' = faults \cup {"cancel"} \/ faults' = faults \cup {kind}
           /\ faults' \subseteq FaultKinds
           /\ faults' # {}
           /\ bound' \in Bounds
  <1> SUFFICES ASSUME NEW kind \in FaultKinds, Fails(kind)
               PROVE  /\ faults' = faults \cup {"cancel"} \/ faults' = faults \cup {kind}
                      /\ faults' \subseteq FaultKinds
                      /\ faults' # {}
                      /\ bound' \in Bounds
    OBVIOUS
  <1>1. faults \subseteq FaultKinds /\ bound \in Bounds
    BY DEF TypeOK
  <1>2. bound' \in Bounds
    BY SMTT(30), <1>1, ConfigurationAssumption DEF Fails, Bounds
  <1>3. faults' = faults \cup {"cancel"} \/ faults' = faults \cup {kind}
    BY DEF Fails
  <1> QED
    BY <1>1, <1>2, <1>3 DEF FaultKinds

\* The names of the failures that the actions use.
LEMMA FaultKindNames ==
  /\ "resolve" \in FaultKinds
  /\ "stop" \in FaultKinds
  /\ "sync" \in FaultKinds
  /\ "start" \in FaultKinds
  /\ "compose" \in FaultKinds
  /\ "list" \in FaultKinds
  /\ "restart" \in FaultKinds
  /\ "crash" \in FaultKinds
  BY DEF FaultKinds

(***************************************************************************)
(* Type correctness                                                        *)
(***************************************************************************)
\* Every step keeps the types.
LEMMA NextPreservesTypeOK == TypeOK /\ [Next]_vars => TypeOK'
  <1> SUFFICES ASSUME TypeOK, [Next]_vars PROVE TypeOK'
    OBVIOUS
  <1>f. \A kind \in FaultKinds : Fails(kind) =>
          /\ faults' = faults \cup {"cancel"} \/ faults' = faults \cup {kind}
          /\ faults' \subseteq FaultKinds
          /\ faults' # {}
          /\ bound' \in Bounds
    BY FailsFacts
  <1> USE ConfigurationAssumption DEF TypeOK, config, history, End
  <1>1. CASE Begin
    <2>1. bound' \in Bounds
      BY SMTT(30), <1>1 DEF Begin, Bounds
    <2>2. before' \in [running : SUBSET Containers, stale : SUBSET Containers]
      BY <1>1 DEF Begin
    <2>3. cancelled' \in BOOLEAN
      BY <1>1, Zenon DEF Begin
    <2> QED
      BY SMTT(30), <1>1, <2>1, <2>2, <2>3 DEF Begin
  <1>2. CASE SkipUnchanged
    BY SMTT(30), <1>2 DEF SkipUnchanged, NotChanged, Filesets
  <1>3. CASE StopTargets
    <2>1. ContainersToStop \subseteq Containers
      BY FirstsAreContainers DEF ContainersToStop
    <2>2. /\ running' \subseteq Containers /\ stale' \subseteq running'
          /\ stopped' \subseteq Containers
      BY <1>3, <2>1 DEF StopTargets, Stopped
    <2>3. faults' \subseteq FaultKinds
      BY <1>3, <1>f, FaultKindNames DEF StopTargets
    <2>4. bound' \in Bounds
      BY <1>3, <1>f, FaultKindNames DEF StopTargets
    <2> QED
      BY <1>3, <2>2, <2>3, <2>4 DEF StopTargets
  <1>4. CASE SyncFileset
    <2>1. Outdated \subseteq running
      BY DEF Outdated
    <2>2. faults' \subseteq FaultKinds
      BY <1>4, <1>f, FaultKindNames DEF SyncFileset, Succeeds
    <2>3. bound' \in Bounds
      BY <1>4, <1>f, FaultKindNames DEF SyncFileset, Succeeds
    <2> QED
      BY <1>4, <2>1, <2>2, <2>3 DEF SyncFileset
  <1>5. CASE Recover
    <2>1. running' \subseteq Containers /\ stale' \subseteq running'
      BY <1>5 DEF Recover, Recovered, Started
    <2>2. faults' \subseteq FaultKinds
      BY <1>5, <1>f, FaultKindNames DEF Recover
    <2>3. bound' \in Bounds
      BY <1>5, <1>f, FaultKindNames DEF Recover
    <2> QED
      BY <1>5, <2>1, <2>2, <2>3 DEF Recover
  <1>6. CASE StartAndQueue
    <2>1. running' \subseteq Containers /\ stale' \subseteq running'
      BY <1>6 DEF StartAndQueue, Started
    <2>2. faults' \subseteq FaultKinds
      BY <1>6, <1>f, FaultKindNames DEF StartAndQueue
    <2>3. bound' \in Bounds
      BY <1>6, <1>f, FaultKindNames DEF StartAndQueue
    <2>4. pending' \subseteq Services /\ k' \in 1..(N + 1)
      BY SMTT(30), <1>6 DEF StartAndQueue, Queued, Filesets
    <2> QED
      BY <1>6, <2>1, <2>2, <2>3, <2>4 DEF StartAndQueue
  <1>7. CASE FilesetsDone
    BY <1>7 DEF FilesetsDone
  <1>8. CASE ApplyStackChanges
    <2>1. running' \subseteq Containers /\ stale' \subseteq running'
      BY <1>8 DEF ApplyStackChanges, Stopped
    <2>2. faults' \subseteq FaultKinds
      BY <1>8, <1>f, FaultKindNames DEF ApplyStackChanges, Succeeds
    <2>3. bound' \in Bounds
      BY <1>8, <1>f, FaultKindNames DEF ApplyStackChanges, Succeeds
    <2>4. pc' \in {"list", "idle"} /\ result' \in {"none", "ok", "error"}
      BY <1>8 DEF ApplyStackChanges
    <2> QED
      BY <1>8, <2>1, <2>2, <2>3, <2>4 DEF ApplyStackChanges
  <1>9. CASE ListContainers
    <2>1. faults' \subseteq FaultKinds
      BY <1>9, <1>f, FaultKindNames DEF ListContainers, Succeeds
    <2>2. bound' \in Bounds
      BY <1>9, <1>f, FaultKindNames DEF ListContainers, Succeeds
    <2> QED
      BY <1>9, <2>1, <2>2 DEF ListContainers
  <1>10. ASSUME NEW s \in Services, RestartService(s) PROVE TypeOK'
    <2>1. running' \subseteq Containers /\ stale' \subseteq running'
      BY <1>10, FirstsAreContainers DEF RestartService, Stopped
    <2>2. faults' \subseteq FaultKinds
      BY <1>10, <1>f, FaultKindNames DEF RestartService
    <2>3. bound' \in Bounds
      BY <1>10, <1>f, FaultKindNames DEF RestartService
    <2> QED
      BY <1>10, <2>1, <2>2, <2>3 DEF RestartService
  <1>11. CASE RestartsDone
    BY <1>11 DEF RestartsDone
  <1>12. CASE Cancel
    <2>1. cancelled' \in BOOLEAN
      BY <1>12, Zenon DEF Cancel
    <2> QED
      BY <1>12, <2>1 DEF Cancel
  <1>13. CASE Crash
    BY <1>13, <1>f, FaultKindNames DEF Crash
  <1>14. CASE UNCHANGED vars
    BY <1>14 DEF vars
  <1> QED
    BY <1>1, <1>2, <1>3, <1>4, <1>5, <1>6, <1>7, <1>8, <1>9, <1>10, <1>11, <1>12, <1>13, <1>14
    DEF Next, Finished

(***************************************************************************)
(* The other conjuncts                                                     *)
(***************************************************************************)
\* A service that is down is one of those the run stopped and will start again.
LEMMA NextPreservesDownInv == IInv /\ [Next]_vars => DownInv'
  <1> SUFFICES ASSUME IInv, [Next]_vars, faults' \subseteq Harmless PROVE DownInv'
    BY DEF DownInv
  <1>f. /\ ~Fails("stop") /\ ~Fails("start") /\ ~Fails("compose") /\ ~Fails("restart")
        /\ ~Fails("crash")
    BY SMTT(30) DEF Fails, Harmless
  <1>g. \A kind : Fails(kind) => faults \subseteq Harmless
    BY DEF Fails
  <1> USE DEF IInv, TypeOK, DownInv, config, history, End
  <1>1. CASE Begin
    BY <1>1 DEF Begin
  <1>2. CASE SkipUnchanged \/ FilesetsDone \/ RestartsDone \/ Cancel \/ Finished \/ UNCHANGED vars
    BY <1>2 DEF SkipUnchanged, FilesetsDone, RestartsDone, Cancel, Finished, vars
  <1>3. CASE StopTargets
    BY <1>3, <1>f, <1>g DEF StopTargets, Stopped
  <1>4. CASE SyncFileset
    BY <1>4, <1>f, <1>g DEF SyncFileset, Succeeds
  <1>5. CASE Recover
    BY <1>5, <1>f, <1>g DEF Recover, Recovered, Started
  <1>6. CASE StartAndQueue
    BY <1>6, <1>f, <1>g DEF StartAndQueue, Started
  <1>7. CASE ApplyStackChanges
    BY <1>7, <1>f, <1>g DEF ApplyStackChanges, Succeeds
  <1>8. CASE ListContainers
    BY <1>8, <1>f, <1>g DEF ListContainers, Succeeds
  <1>9. ASSUME NEW s \in Services, RestartService(s) PROVE DownInv'
    BY <1>9, <1>f, <1>g DEF RestartService
  <1>10. CASE Crash
    BY <1>10, <1>f, <1>g DEF Crash
  <1> QED
    BY <1>1, <1>2, <1>3, <1>4, <1>5, <1>6, <1>7, <1>8, <1>9, <1>10 DEF Next

\* A cold sync finds its services stopped; recovery happens only after a failure.
LEMMA NextPreservesColdSync ==
  IInv /\ [Next]_vars => ColdSyncFindsServicesStopped' /\ NoRecoveryWithoutFault'
  <1> SUFFICES ASSUME IInv, [Next]_vars
               PROVE  ColdSyncFindsServicesStopped' /\ NoRecoveryWithoutFault'
    OBVIOUS
  <1>f. \A kind \in FaultKinds : Fails(kind) =>
          /\ faults' = faults \cup {"cancel"} \/ faults' = faults \cup {kind}
          /\ faults' \subseteq FaultKinds
          /\ faults' # {}
          /\ bound' \in Bounds
    BY FailsFacts DEF IInv
  <1> USE DEF IInv, ColdSyncFindsServicesStopped, NoRecoveryWithoutFault, config, history, End
  <1>1. CASE StopTargets
    BY <1>1 DEF StopTargets, Stopped, ContainersToStop, Firsts, IsFirst
  <1>2. CASE SyncFileset
    BY <1>2, <1>f, FaultKindNames DEF SyncFileset, Succeeds
  <1>3. CASE Cancel \/ UNCHANGED vars \/ Finished
    BY <1>3 DEF Cancel, vars, Finished, Firsts, IsFirst
  <1>4. CASE SkipUnchanged
    BY <1>4 DEF SkipUnchanged
  <1>5. CASE pc' \notin {"sync", "recover"}
    BY <1>5
  <1> QED
    BY <1>1, <1>2, <1>3, <1>4, <1>5
    DEF Next, Begin, Recover, StartAndQueue, FilesetsDone, ApplyStackChanges, ListContainers,
        RestartService, RestartsDone, Crash

\* In a run without failures, a container made stale is queued or about to be.
LEMMA NextPreservesQueueInv == IInv /\ [Next]_vars => QueueInv'
  <1> SUFFICES ASSUME IInv, [Next]_vars, faults' = {} PROVE QueueInv'
    BY DEF QueueInv
  <1>f. \A kind \in FaultKinds : Fails(kind) =>
          /\ faults' = faults \cup {"cancel"} \/ faults' = faults \cup {kind}
          /\ faults' \subseteq FaultKinds
          /\ faults' # {}
          /\ bound' \in Bounds
    BY FailsFacts DEF IInv
  <1> USE DEF IInv, TypeOK, QueueInv, config, history, End
  <1>1. CASE Begin
    BY <1>1 DEF Begin
  <1>2. CASE SkipUnchanged \/ FilesetsDone \/ Cancel \/ Finished \/ UNCHANGED vars
    BY <1>2 DEF SkipUnchanged, FilesetsDone, Cancel, Finished, vars, IsFirst
  <1>3. CASE StopTargets
    BY <1>3, <1>f, FaultKindNames DEF StopTargets, Stopped, IsFirst
  <1>4. CASE SyncFileset
    <2>1. stale' = stale \cup Outdated /\ pc' = "start" /\ faults = {}
      BY <1>4, <1>f, FaultKindNames DEF SyncFileset, Succeeds
    <2>2. \A c \in Outdated : IsFirst(c) => mode[k] = "hot" /\ ServiceOf[c] \in targets[k]
      BY <1>4 DEF SyncFileset, Outdated, ColdSyncFindsServicesStopped, Firsts
    <2> QED
      BY <1>4, <2>1, <2>2 DEF SyncFileset, IsFirst
  <1>5. CASE Recover
    BY <1>5, <1>f, FaultKindNames DEF Recover, NoRecoveryWithoutFault
  <1>6. CASE StartAndQueue
    BY <1>6, <1>f, FaultKindNames DEF StartAndQueue, Started, Queued, IsFirst
  <1>7. CASE ApplyStackChanges
    BY <1>7, <1>f, FaultKindNames DEF ApplyStackChanges, Succeeds, IsFirst
  <1>8. CASE ListContainers
    BY <1>8, <1>f, FaultKindNames DEF ListContainers, Succeeds, IsFirst
  <1>9. ASSUME NEW s \in Services, RestartService(s) PROVE QueueInv'
    BY <1>9, <1>f, FaultKindNames DEF RestartService, Firsts, IsFirst
  <1>10. CASE RestartsDone
    BY <1>10 DEF RestartsDone, IsFirst
  <1>11. CASE Crash
    BY <1>11, <1>f, FaultKindNames DEF Crash
  <1> QED
    BY <1>1, <1>2, <1>3, <1>4, <1>5, <1>6, <1>7, <1>8, <1>9, <1>10, <1>11 DEF Next

\* The inductive invariant holds in every reachable state.
THEOREM Invariance == Spec => []IInv
  <1>1. IInv /\ [Next]_vars => IInv'
    BY NextPreservesTypeOK, NextPreservesDownInv, NextPreservesColdSync, NextPreservesQueueInv
    DEF IInv
  <1> QED
    BY InitEstablishesIInv, <1>1, PTL DEF Spec

\* The variables keep their types; in particular only running containers are ever stale.
THEOREM TypeCorrect == Spec => []TypeOK
  BY Invariance, PTL DEF IInv

\* restartColdContainersOnFailure and the start after the sync are enough: a run whose stop,
\* start, restart and compose commands work leaves running whatever was running.
THEOREM ColdServicesComeBack == Spec => []NoServiceLeftDown
  <1>1. IInv => NoServiceLeftDown
    BY DEF IInv, DownInv, Harmless, NoServiceLeftDown
  <1> QED
    BY Invariance, <1>1, PTL

\* SyncFilesetsForContext writes the files of a cold fileset with the containers it found
\* for the target services stopped.
THEOREM ColdSyncIsCold == Spec => []ColdSyncFindsServicesStopped
  BY Invariance, PTL DEF IInv

\* RestartPendingServices reaches every service that any of the filesets queued.
THEOREM HotServicesAreRestarted == Spec => []SuccessRestartsServices
  <1>1. IInv => SuccessRestartsServices
    BY DEF IInv, QueueInv, SuccessRestartsServices
  <1> QED
    BY Invariance, <1>1, PTL
=============================================================================
