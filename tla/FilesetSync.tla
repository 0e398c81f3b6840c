---------------------------- MODULE FilesetSync ----------------------------
(***************************************************************************)
(* One fileset (a source directory) and the Docker volume it is synced     *)
(* into, over repeated runs of `dockform apply`: the local index, the      *)
(* index file kept in the volume, their diff, and the steps of the sync    *)
(* (src/internal/filesets/index.go, src/internal/planner/                  *)
(* build_plan_filesets.go, apply_filesets.go, apply_ownership.go).         *)
(*                                                                         *)
(* A file is its path and its contents (size and sha256 tell two contents  *)
(* apart), a directory is a tree: a contents or Absent for each path.      *)
(* Between any two steps the user may edit the source directory, and every *)
(* docker command may fail after having had part of its effect.            *)
(***************************************************************************)
EXTENDS Naturals, FiniteSets

CONSTANTS
  Paths,        \* relative paths of files
  Contents,     \* contents of the user's files
  Absent,       \* no file at a path
  Foreign,      \* contents written by an application, never by dockform
  MaxEdits,     \* bound on the user's edits of the source directory
  MaxFaults,    \* bound on failing docker commands and killed processes
  MaxRemovals,  \* bound on removals of the volume by others
  MaxAppWrites  \* bound on files created by the application

ASSUME ContentsAssumption ==
  /\ Absent \notin Contents
  /\ Foreign \notin Contents
  /\ Absent # Foreign

ASSUME BoundsAssumption ==
  /\ MaxEdits \in Nat
  /\ MaxFaults \in Nat
  /\ MaxRemovals \in Nat
  /\ MaxAppWrites \in Nat

VARIABLES
  local,      \* the source directory
  exists,     \* the volume exists
  files,      \* the files of the volume
  owned,      \* paths of the volume's files that have the configured ownership
  index,      \* the index file of the volume
  ownership,  \* the configured ownership: see Ownerships
  phase,      \* where the run is
  plan,       \* FilesetExecutionData: the local and the remote index of the plan
  last,       \* how the last run ended for this fileset
  unfinished, \* history: the trees a sync started to write and did not complete
  left,       \* history: the paths that a sync took for deleted though rm failed
  bound       \* how often each bounded event has happened

vars == <<local, exists, files, owned, index, ownership, phase, plan, last, unfinished,
          left, bound>>

Trees == [Paths -> Contents \cup {Absent}]
Empty == [p \in Paths |-> Absent]

\* A parsed index: ParseIndexJSON gives the empty index for a blank file (its
\* TreeHash is "", unlike the hash of an empty tree) and an error for a broken one.
Index(t) == [kind |-> "ok", tree |-> t]
NoIndex == [kind |-> "none", tree |-> Empty]
Corrupt == [kind |-> "corrupt", tree |-> Empty]
Indexes == {Index(t) : t \in Trees} \cup {NoIndex, Corrupt}

\* The ownership of the whole subtree, or of the files of the diff (PreserveExisting); none,
\* or one whose user or group the helper image does not know and the script skips; one for
\* a target path that buildOwnershipScript refuses, as it does the default "/".
Ownerships == {"recursive", "preserve", "skipped", "refused"}

(***************************************************************************)
(* DiffIndexes                                                             *)
(***************************************************************************)
SameTreeHash(l, r) == l = r

ToCreate(l, r) ==
  {p \in Paths : ~SameTreeHash(l, r) /\ l.tree[p] # Absent /\ r.tree[p] = Absent}

ToUpdateMissed(l, r) == {}

ToUpdate(l, r) ==
  {p \in Paths : /\ ~SameTreeHash(l, r)
                 /\ l.tree[p] # Absent
                 /\ r.tree[p] # Absent
                 /\ l.tree[p] # r.tree[p]}

ToDeleteMirror(l, r) == {p \in Paths : files[p] # Absent /\ l.tree[p] = Absent}

ToDelete(l, r) ==
  {p \in Paths : ~SameTreeHash(l, r) /\ l.tree[p] = Absent /\ r.tree[p] # Absent}

ToWrite == ToCreate(plan.local, plan.remote) \cup ToUpdate(plan.local, plan.remote)

-----------------------------------------------------------------------------
Init ==
  /\ local \in Trees
  /\ exists = FALSE
  /\ files = Empty
  /\ owned = {}
  /\ index = NoIndex
  /\ ownership \in Ownerships
  /\ phase = "idle"
  /\ plan = [local |-> Index(local), remote |-> NoIndex]
  /\ last = "none"
  /\ unfinished = {}
  /\ left = {}
  /\ bound = [edits |-> 0, faults |-> 0, removals |-> 0, appWrites |-> 0]

\* The run ends here for this fileset.
End(how) == phase' = "idle" /\ last' = how

\* A docker command fails, or the process is killed during it.
Fault ==
  /\ bound.faults < MaxFaults
  /\ bound' = [bound EXCEPT !.faults = @ + 1]

(***************************************************************************)
(* buildFilesetResourcesForContext: both indexes are read and kept in the  *)
(* execution context.  An index that does not parse fails the plan.        *)
(***************************************************************************)
ParseError == index.kind = "corrupt"

Plan ==
  /\ phase = "idle"
  /\ IF ParseError
     THEN End("error") /\ UNCHANGED plan
     ELSE /\ plan' = [local |-> Index(local), remote |-> index]
          /\ phase' = "planned"
          /\ last' = "none"
  /\ UNCHANGED <<local, exists, files, owned, index, ownership, unfinished, left, bound>>

\* The user declines, an earlier step of the run fails, or the process is killed.
Abandon ==
  /\ phase = "planned"
  /\ End("error")
  /\ UNCHANGED <<local, exists, files, owned, index, ownership, plan, unfinished, left, bound>>

\* `apply` ends early when the plan shows nothing to create, update or delete.
NothingToApply ==
  /\ phase = "planned"
  /\ exists
  /\ ToWrite = {}
  /\ ToDelete(plan.local, plan.remote) = {}
  /\ End("noop")
  /\ UNCHANGED <<local, exists, files, owned, index, ownership, plan, unfinished, left, bound>>

(***************************************************************************)
(* EnsureVolumesExistForContext creates a missing volume, then             *)
(* SyncFilesetsForContext skips the fileset if the planned hashes agree.   *)
(***************************************************************************)
SkipWhenNothingToWrite == ToWrite = {}

SkipFileset == SameTreeHash(plan.local, plan.remote)

BeginSync ==
  /\ phase = "planned"
  /\ exists' = TRUE
  /\ IF SkipFileset
     THEN End("noop") /\ UNCHANGED unfinished
     ELSE /\ phase' = "files"
          /\ unfinished' = unfinished \cup {plan.local.tree}
          /\ UNCHANGED last
  /\ UNCHANGED <<local, files, owned, index, ownership, plan, left, bound>>

\* The contents that the tar holds for the paths in S: the current ones.
Extracted(S) == [p \in Paths |-> IF p \in S THEN local[p] ELSE files[p]]

\* syncFilesetFiles: a path that has vanished fails TarFilesToWriter; the
\* extraction may fail with some of the files written.
SyncFilesetFiles ==
  /\ phase = "files"
  /\ \/ /\ \E p \in ToWrite : local[p] = Absent
        /\ End("error")
        /\ UNCHANGED <<files, owned, unfinished, left, bound>>
     \/ /\ \A p \in ToWrite : local[p] # Absent
        /\ phase' = "delete"
        /\ files' = Extracted(ToWrite)
        /\ owned' = owned \ ToWrite
        /\ left' = left \ ToWrite
        /\ unfinished' = IF ToWrite = {} THEN unfinished ELSE unfinished \cup {local}
        /\ UNCHANGED <<last, bound>>
     \/ /\ \A p \in ToWrite : local[p] # Absent
        /\ ToWrite # {}
        /\ Fault
        /\ \E S \in SUBSET ToWrite :
             files' = Extracted(S) /\ owned' = owned \ S /\ left' = left \ S
        /\ unfinished' = unfinished \cup {local}
        /\ End("error")
  /\ UNCHANGED <<local, exists, index, ownership, plan>>

Deleted(S) == [p \in Paths |-> IF p \in S THEN Absent ELSE files[p]]

\* deleteFilesetFiles: the command may fail with some of the files deleted; the errors of rm
\* itself are dropped, and the sync goes on as if all were deleted.
DeleteFilesetFiles ==
  /\ phase = "delete"
  /\ LET D == ToDelete(plan.local, plan.remote)
     IN \/ /\ phase' = "index"
           /\ files' = Deleted(D)
           /\ owned' = owned \ D
           /\ left' = left \ D
           /\ UNCHANGED <<last, bound>>
        \/ /\ D # {}
           /\ Fault
           /\ \E S \in SUBSET D :
                /\ files' = Deleted(S)
                /\ owned' = owned \ S
                /\ \/ End("error") /\ left' = left \ S
                   \/ phase' = "index" /\ left' = (left \cup D) \ S /\ UNCHANGED last
  /\ UNCHANGED <<local, exists, index, ownership, plan, unfinished>>

IndexNotSaved == UNCHANGED <<index, unfinished>>

\* writeFilesetIndex stores the planned local index.  The command is a redirected
\* cat: when it fails the file may be unchanged, written, empty or cut short.
IndexWritten == index' = plan.local /\ unfinished' = unfinished \ {plan.local.tree}

WriteFilesetIndex ==
  /\ phase = "index"
  /\ \/ /\ phase' = "ownership"
        /\ IndexWritten
        /\ UNCHANGED <<last, bound>>
     \/ /\ Fault
        /\ \/ IndexWritten
           \/ index' \in {index, NoIndex, Corrupt} /\ UNCHANGED unfinished
        /\ End("error")
  /\ UNCHANGED <<local, exists, files, owned, ownership, plan, left>>

\* The files that have the configured ownership after a complete script.
Owned ==
  CASE ownership = "recursive" -> {p \in Paths : files[p] # Absent}
    [] ownership = "preserve" -> owned \cup ToWrite
    [] OTHER -> owned

\* applyOwnership: a script that fails may have changed some of the files, and the errors of
\* its chmod and chown are dropped.
ApplyOwnership ==
  /\ phase = "ownership"
  /\ \/ ownership = "refused" /\ End("error") /\ UNCHANGED <<owned, bound>>
     \/ ownership # "refused" /\ End("synced") /\ owned' = Owned /\ UNCHANGED bound
     \/ /\ ownership # "refused"
        /\ Fault
        /\ \E how \in {"error", "synced"} : End(how)
        /\ \E S \in SUBSET Owned : owned' = owned \cup S
  /\ UNCHANGED <<local, exists, files, index, ownership, plan, unfinished, left>>

\* The process is killed between two commands.
Crash ==
  /\ phase \notin {"idle", "planned"}
  /\ Fault
  /\ End("error")
  /\ UNCHANGED <<local, exists, files, owned, index, ownership, plan, unfinished, left>>

(***************************************************************************)
(* The environment                                                         *)
(***************************************************************************)
\* The user edits the source directory, at any time.
Edit ==
  /\ bound.edits < MaxEdits
  /\ bound' = [bound EXCEPT !.edits = @ + 1]
  /\ \E p \in Paths : \E c \in (Contents \cup {Absent}) \ {local[p]} :
       local' = [local EXCEPT ![p] = c]
  /\ UNCHANGED <<exists, files, owned, index, ownership, phase, plan, last, unfinished, left>>

\* Someone removes the volume.  If a plan is waiting to be applied, its diff was
\* computed against files that are gone.
RemoveVolume ==
  /\ exists
  /\ phase \in {"idle", "planned"}
  /\ bound.removals < MaxRemovals
  /\ bound' = [bound EXCEPT !.removals = @ + 1]
  /\ exists' = FALSE
  /\ files' = Empty
  /\ owned' = {}
  /\ index' = NoIndex
  /\ last' = "none"
  /\ unfinished' = IF phase = "idle" THEN {} ELSE {Empty}
  /\ left' = {}
  /\ UNCHANGED <<local, ownership, phase, plan>>

\* The application that mounts the volume creates a file of its own.
AppWrite ==
  /\ exists
  /\ bound.appWrites < MaxAppWrites
  /\ bound' = [bound EXCEPT !.appWrites = @ + 1]
  /\ last' = "none"
  /\ \E p \in Paths : files[p] = Absent /\ files' = [files EXCEPT ![p] = Foreign]
  /\ UNCHANGED <<local, exists, owned, index, ownership, phase, plan, unfinished, left>>

Run ==
  \/ Plan
  \/ NothingToApply
  \/ BeginSync
  \/ SyncFilesetFiles
  \/ DeleteFilesetFiles
  \/ WriteFilesetIndex
  \/ ApplyOwnership

Next == Run \/ Abandon \/ Crash \/ Edit \/ RemoveVolume \/ AppWrite

Spec == Init /\ [][Next]_vars

\* Someone keeps running `dockform apply` and confirms it, and a running sync goes on.
FairSpec ==
  /\ Spec
  /\ WF_vars(Run)
  /\ SF_vars(phase = "planned" /\ (NothingToApply \/ BeginSync))

-----------------------------------------------------------------------------
(***************************************************************************)
(* Properties                                                              *)
(***************************************************************************)
\* The variables keep their types: dockform never records the contents of a file
\* it did not read from the source directory.
TypeOK ==
  /\ local \in Trees
  /\ exists \in BOOLEAN
  /\ files \in [Paths -> Contents \cup {Absent, Foreign}]
  /\ owned \subseteq Paths
  /\ index \in Indexes
  /\ ownership \in Ownerships
  /\ phase \in {"idle", "planned", "files", "delete", "index", "ownership"}
  /\ plan \in [local : {Index(t) : t \in Trees},
               remote : {Index(t) : t \in Trees} \cup {NoIndex}]
  /\ last \in {"none", "noop", "synced", "error"}
  /\ unfinished \subseteq Trees
  /\ left \subseteq Paths
  /\ bound \in [edits : 0..MaxEdits, faults : 0..MaxFaults,
                removals : 0..MaxRemovals, appWrites : 0..MaxAppWrites]

\* The index tells the truth about the volume: a file differs from its index entry
\* only if it comes from a sync that was started and not completed, or is the
\* application's own, or is one that rm could not delete and the index no longer lists.
\* In particular, once no sync is left unfinished, every file that the index lists is as
\* listed; retrying a failed sync of the same source repairs it.
VolumeMatchesIndex ==
  phase = "idle" /\ index.kind # "corrupt" =>
    \A p \in Paths :
      \/ files[p] = index.tree[p]
      \/ \E t \in unfinished : files[p] = t[p]
      \/ files[p] = Foreign
      \/ p \in left /\ index.tree[p] = Absent

\* A run that reports success without a pending failure leaves in the volume the very
\* tree it planned, apart from files that rm could not delete: nothing is forgotten by the
\* diff or lost between the steps.
SuccessMeansPlannedTree ==
  last \in {"synced", "noop"} /\ phase = "idle" /\ unfinished = {} =>
    \A p \in Paths : \/ files[p] \in {plan.local.tree[p], Foreign}
                     \/ p \in left /\ plan.local.tree[p] = Absent

\* A step of dockform removes or overwrites only files of the planned source and files
\* that its own index lists: what the application created elsewhere survives.
ForeignFilesSurvive ==
  [][\A p \in Paths :
       files[p] = Foreign /\ files'[p] # Foreign /\ exists'
         => plan.local.tree[p] # Absent \/ plan.remote.tree[p] # Absent]_vars

\* The comment "If completely equal, skip this fileset": when a run ends with nothing to
\* do, the volume holds the planned source.  It does not hold after a failed sync and a
\* revert of the source, since only the index is compared.
NoopMeansInSync ==
  last = "noop" => \A p \in Paths : files[p] \in {plan.local.tree[p], Foreign}

\* Ownership is part of the sync: as long as no command failed, a run that reports
\* success leaves every file it synced, now or earlier, with the configured ownership,
\* where the helper image knows it and the target path is accepted.  (After a failed or
\* refused ownership step it need not: the index is written before.)
OwnershipFollowsSync ==
  ownership \in {"recursive", "preserve"} /\ bound.faults = 0
    /\ last \in {"noop", "synced"} /\ phase = "idle" =>
    {p \in Paths : plan.local.tree[p] # Absent /\ files[p] = plan.local.tree[p]} \subseteq owned

\* Success means that the fileset is done: the planned files are in the volume, and with the
\* configured ownership (SyncFilesetsForContext).
SuccessIsComplete == SuccessMeansPlannedTree /\ OwnershipFollowsSync

\* Once failures and edits stop, repeated runs bring the index to the source's tree,
\* unless an interrupted write left an index that does not parse.
EventuallyIndexed == <>[](index.kind = "corrupt" \/ index.tree = local)
=============================================================================
