---------------------------- MODULE ApplyServices ----------------------------
(***************************************************************************)
(* The containers of one context during `dockform apply`: the filesets are *)
(* synced in order, a cold fileset stops its services around the sync, a   *)
(* hot one queues them for a restart that happens after every stack has    *)
(* been brought up (src/internal/planner/apply_filesets.go, apply.go,      *)
(* apply_restarts.go, targets.go).                                         *)
(*                                                                         *)
(* A container is stale when the files of a fileset that targets its       *)
(* service changed under it since it was started.  What a sync does inside *)
(* the volume is the subject of FilesetSync; here it is one step.          *)
(***************************************************************************)
EXTENDS Naturals, FiniteSets

CONSTANTS
  N,          \* number of filesets, synced in the order 1..N
  Services,   \* service names
  C,          \* number of containers, in the order `docker ps -a` lists them
  ServiceOf,  \* the service of each container
  MaxRuns,    \* bound on runs of apply
  MaxFaults   \* bound on failing commands and killed processes

Filesets == 1..N
Containers == 1..C

ASSUME ConfigurationAssumption ==
  /\ N \in Nat
  /\ C \in Nat
  /\ ServiceOf \in [Containers -> Services]
  /\ MaxRuns \in Nat
  /\ MaxFaults \in Nat

VARIABLES
  mode,        \* apply_mode of each fileset
  targets,     \* what resolveTargetServices gives for each fileset
  changed,     \* filesets whose source differs from the index in the volume
  running,     \* running containers
  stale,       \* containers that run with files older than the volume's
  pc,          \* where applyContext is
  k,           \* the fileset being synced
  stopped,     \* stoppedContainers of that fileset
  pending,     \* restartPending
  cancelled,   \* Ctrl-C: every further docker command fails
  result,      \* how the run ended
  faults,      \* history: the kinds of failures of this run
  before,      \* history: running and stale containers when the run began
  bound        \* runs begun and faults so far

vars == <<mode, targets, changed, running, stale, pc, k, stopped, pending,
          cancelled, result, faults, before, bound>>

FaultKinds == {"cancel", "resolve", "stop", "sync", "start", "compose", "list", "restart",
               "crash"}
Bounds == [runs : 0..MaxRuns, faults : 0..MaxFaults]

config == <<mode, targets>>
history == <<before>>

\* The container the code finds first for a service; it looks no further.
IsFirst(c) == \A d \in Containers : ServiceOf[d] = ServiceOf[c] => c <= d

Firsts(S) == {c \in Containers : ServiceOf[c] \in S /\ IsFirst(c)}

Init ==
  /\ mode \in [Filesets -> {"hot", "cold"}]
  /\ targets \in [Filesets -> SUBSET Services]
  /\ changed = {}
  /\ running \in SUBSET Containers
  /\ stale = {}
  /\ pc = "idle"
  /\ k = 1
  /\ stopped = {}
  /\ pending = {}
  /\ cancelled = FALSE
  /\ result = "none"
  /\ faults = {}
  /\ before = [running |-> running, stale |-> {}]
  /\ bound = [runs |-> 0, faults |-> 0]

End(how) == pc' = "idle" /\ result' = how

\* A docker command succeeds, or fails: by itself or because of Ctrl-C.
Succeeds == ~cancelled /\ UNCHANGED <<faults, bound>>

Fails(kind) ==
  \/ /\ cancelled
     /\ faults' = faults \cup {"cancel"}
     /\ UNCHANGED bound
  \/ /\ ~cancelled
     /\ bound.faults < MaxFaults
     /\ faults' = faults \cup {kind}
     /\ bound' = [bound EXCEPT !.faults = @ + 1]

Stopped(S) == running' = running \ S /\ stale' = stale \ S

Started(S) == running' = running \cup S /\ stale' = stale \ (S \ running)

\* The user edits some sources and runs apply.
Begin ==
  /\ pc = "idle"
  /\ bound.runs < MaxRuns
  /\ bound' = [bound EXCEPT !.runs = @ + 1]
  /\ \E D \in SUBSET Filesets : changed' = changed \cup D
  /\ pc' = "filesets"
  /\ k' = 1
  /\ stopped' = {}
  /\ pending' = {}
  /\ cancelled' = FALSE
  /\ result' = "none"
  /\ faults' = {}
  /\ before' = [running |-> running, stale |-> stale]
  /\ UNCHANGED <<config, running, stale>>

(***************************************************************************)
(* SyncFilesetsForContext                                                  *)
(***************************************************************************)
NotChanged == k \in Filesets \ changed

SkipUnchanged ==
  /\ pc = "filesets"
  /\ NotChanged
  /\ k' = k + 1
  /\ UNCHANGED <<config, changed, running, stale, pc, stopped, pending, cancelled,
                 result, faults, history, bound>>

NothingToStop == {}

ContainersToStop == IF mode[k] = "cold" THEN Firsts(targets[k]) ELSE {}

StopTargets ==
  /\ pc = "filesets"
  /\ k \in changed
  /\ \/ \* resolveTargetServices or the list of containers fails
        /\ Fails("resolve")
        /\ End("error")
        /\ UNCHANGED <<running, stale, stopped>>
     \/ /\ ContainersToStop = {} \/ ~cancelled
        /\ Stopped(ContainersToStop)
        /\ stopped' = ContainersToStop
        /\ pc' = "sync"
        /\ UNCHANGED <<result, faults, bound>>
     \/ \* StopContainers fails with some of them stopped; nothing restarts these
        /\ ContainersToStop # {}
        /\ Fails("stop")
        /\ \E S \in SUBSET ContainersToStop : Stopped(S)
        /\ End("error")
        /\ UNCHANGED stopped
  /\ UNCHANGED <<config, changed, k, pending, cancelled, history>>

\* The containers that see the files change under them.
Outdated == {c \in running : ServiceOf[c] \in targets[k]}

RecoverNothing == {}

\* What restartColdContainersOnFailure starts again.
Recovered == stopped

SyncFileset ==
  /\ pc = "sync"
  /\ \/ /\ Succeeds
        /\ changed' = changed \ {k}
        /\ stale' = stale \cup Outdated
        /\ pc' = "start"
     \/ \* no file, some files, or all of them and the index have been written
        /\ Fails("sync")
        /\ \/ UNCHANGED <<changed, stale>>
           \/ UNCHANGED changed /\ stale' = stale \cup Outdated
           \/ changed' = changed \ {k} /\ stale' = stale \cup Outdated
        /\ pc' = "recover"
  /\ UNCHANGED <<config, running, k, stopped, pending, cancelled, result, history>>

Recover ==
  /\ pc = "recover"
  /\ End("error")
  /\ \/ /\ Recovered = {} \/ ~cancelled
        /\ Started(Recovered)
        /\ UNCHANGED <<faults, bound>>
     \/ /\ Recovered # {}
        /\ Fails("start")
        /\ \E S \in SUBSET Recovered : Started(S)
  /\ UNCHANGED <<config, changed, k, stopped, pending, cancelled, history>>

QueueOnlyTheLast == targets[k]

Queued == pending \cup targets[k]

StartAndQueue ==
  /\ pc = "start"
  /\ \/ /\ stopped = {} \/ ~cancelled
        /\ Started(stopped)
        /\ pending' = IF mode[k] = "hot" THEN Queued ELSE pending
        /\ k' = k + 1
        /\ pc' = "filesets"
        /\ UNCHANGED <<result, faults, bound>>
     \/ /\ stopped # {}
        /\ Fails("start")
        /\ \E S \in SUBSET stopped : Started(S)
        /\ End("error")
        /\ UNCHANGED <<k, pending>>
  /\ UNCHANGED <<config, changed, stopped, cancelled, history>>

FilesetsDone ==
  /\ pc = "filesets"
  /\ k = N + 1
  /\ pc' = "stacks"
  /\ UNCHANGED <<config, changed, running, stale, k, stopped, pending, cancelled,
                 result, faults, history, bound>>

(***************************************************************************)
(* applyStackChangesForContext: compose up starts the containers S of the  *)
(* stacks that need it and creates those in R anew; it may also fail       *)
(* half-way, with containers in D down.                                    *)
(***************************************************************************)
ApplyStackChanges ==
  /\ pc = "stacks"
  /\ \/ \* no stack needs an update
        pc' = "list" /\ UNCHANGED <<running, stale, result, faults, bound>>
     \/ \E S \in SUBSET Containers : \E R \in SUBSET S :
          /\ S # {}
          /\ Succeeds
          /\ running' = running \cup S
          /\ stale' = stale \ (R \cup (S \ running))
          /\ pc' = "list"
          /\ UNCHANGED result
     \/ \E D \in SUBSET Containers :
          /\ Fails("compose")
          /\ Stopped(D)
          /\ End("error")
  /\ UNCHANGED <<config, changed, k, stopped, pending, cancelled, history>>

(***************************************************************************)
(* RestartPendingServices: an error of the list is ignored, so that no     *)
(* service is found and the run still succeeds.                            *)
(***************************************************************************)
ListContainers ==
  /\ pc = "list"
  /\ \/ pending = {} /\ End("ok") /\ UNCHANGED <<faults, bound>>
     \/ pending # {} /\ Succeeds /\ pc' = "restart" /\ UNCHANGED result
     \/ pending # {} /\ Fails("list") /\ End("ok")
  /\ UNCHANGED <<config, changed, running, stale, k, stopped, pending, cancelled, history>>

RestartService(s) ==
  /\ pc = "restart"
  /\ s \in pending
  /\ \/ /\ Firsts({s}) = {} \/ ~cancelled
        /\ running' = running \cup Firsts({s})
        /\ stale' = stale \ Firsts({s})
        /\ pending' = pending \ {s}
        /\ UNCHANGED <<pc, result, faults, bound>>
     \/ /\ Firsts({s}) # {}
        /\ Fails("restart")
        /\ \E D \in SUBSET Firsts({s}) : Stopped(D)
        /\ End("error")
        /\ UNCHANGED pending
  /\ UNCHANGED <<config, changed, k, stopped, cancelled, history>>

RestartsDone ==
  /\ pc = "restart"
  /\ pending = {}
  /\ End("ok")
  /\ UNCHANGED <<config, changed, running, stale, k, stopped, pending, cancelled,
                 faults, history, bound>>

Cancel ==
  /\ pc # "idle"
  /\ ~cancelled
  /\ cancelled' = TRUE
  /\ UNCHANGED <<config, changed, running, stale, pc, k, stopped, pending, result,
                 faults, history, bound>>

Crash ==
  /\ pc # "idle"
  /\ ~cancelled
  /\ Fails("crash")
  /\ End("error")
  /\ UNCHANGED <<config, changed, running, stale, k, stopped, pending, cancelled, history>>

\* No further run within the bound.
Finished == pc = "idle" /\ bound.runs = MaxRuns /\ UNCHANGED vars

Next ==
  \/ Begin
  \/ SkipUnchanged
  \/ StopTargets
  \/ SyncFileset
  \/ Recover
  \/ StartAndQueue
  \/ FilesetsDone
  \/ ApplyStackChanges
  \/ ListContainers
  \/ \E s \in Services : RestartService(s)
  \/ RestartsDone
  \/ Cancel
  \/ Crash
  \/ Finished

Spec == Init /\ [][Next]_vars

-----------------------------------------------------------------------------
(***************************************************************************)
(* Properties                                                              *)
(***************************************************************************)
\* The variables keep their types.
TypeOK ==
  /\ mode \in [Filesets -> {"hot", "cold"}]
  /\ targets \in [Filesets -> SUBSET Services]
  /\ changed \subseteq Filesets
  /\ running \subseteq Containers
  /\ stale \subseteq running
  /\ pc \in {"idle", "filesets", "sync", "start", "recover", "stacks", "list", "restart"}
  /\ k \in 1..(N + 1)
  /\ pc \in {"sync", "start", "recover"} => k \in Filesets
  /\ stopped \subseteq Containers
  /\ pending \subseteq Services
  /\ cancelled \in BOOLEAN
  /\ result \in {"none", "ok", "error"}
  /\ faults \subseteq FaultKinds
  /\ before \in [running : SUBSET Containers, stale : SUBSET Containers]
  /\ bound \in Bounds

\* A cold fileset never leaves a service down: when the run is over and no stop, start,
\* restart or compose command failed by itself (and nobody interrupted the run),
\* every container that was running before is running, whichever sync failed.
NoServiceLeftDown ==
  pc = "idle" /\ faults \subseteq {"resolve", "sync", "list"}
    => before.running \subseteq running

\* Files of a cold fileset are only written while the container found for each of its
\* services is stopped.
ColdSyncFindsServicesStopped ==
  pc = "sync" /\ mode[k] = "cold" => Firsts(targets[k]) \cap running = {}

\* A successful run restarted the first container of every service whose files it
\* changed, however many filesets queued it.  (A run can also succeed with the list of
\* containers failed, by itself or by Ctrl-C; then it restarted nothing.)
SuccessRestartsServices ==
  pc = "idle" /\ result = "ok" /\ faults = {} =>
    \A c \in stale \ before.stale : ~IsFirst(c)
=============================================================================
