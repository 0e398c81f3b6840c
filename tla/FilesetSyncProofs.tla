------------------------- MODULE FilesetSyncProofs -------------------------
(***************************************************************************)
(* The sync of a fileset and the docker commands that carry it out.        *)
(*                                                                         *)
(* FilesetSync, for every set of paths and contents and every number of    *)
(* edits, failures, removals and application writes.  VolumeMatchesIndex   *)
(* speaks of the idle volume only and is not inductive: what a sync has    *)
(* done so far has to be carried from step to step.  IInv says that at any *)
(* time every file agrees with the index, is covered (Foreign, or from an  *)
(* unfinished tree) or was left by rm and is not listed, that the plan was *)
(* made from the index the volume still has (or the volume was removed     *)
(* since), and that after each step of the sync the paths it handled are   *)
(* covered or left, so that by the time the index is replaced no file      *)
(* depends on the old one.                                                 *)
(*                                                                         *)
(* DockerExec, for any number of calls, any limit and any number of        *)
(* retries: the commands over SSH stay within the limit, and what a call   *)
(* reports agrees with what the daemon executed.                           *)
(***************************************************************************)
EXTENDS FilesetSync, DockerExec, FiniteSetTheorems, TLAPS

\* A leaf goes to Zenon unless it names another prover.
USE ZenonT(60)

(***************************************************************************)
(* FilesetSync                                                             *)
(***************************************************************************)
\* The file at p is the application's or comes from a sync that is not complete.
Covered(p) == files[p] = Foreign \/ \E t \in unfinished : files[p] = t[p]

\* rm left the file at p, and the tree t does not list it.
LeftOut(p, t) == p \in left /\ t[p] = Absent

\* VolumeMatchesIndex, at every step.
VolumeInv ==
  index.kind # "corrupt" =>
    \A p \in Paths : Covered(p) \/ files[p] = index.tree[p] \/ LeftOut(p, index.tree)

\* The index stays the one the plan read until the sync writes it, unless the volume was
\* removed meanwhile.
PlanInv ==
  /\ phase # "idle" => index.kind # "corrupt"
  /\ phase \in {"planned", "files", "delete", "index"} =>
       \/ index = plan.remote
       \/ /\ Empty \in unfinished /\ index = NoIndex
          /\ left \subseteq ToDelete(plan.local, plan.remote)
  /\ phase = "ownership" => index = plan.local

\* What each phase of the sync has brought to the volume.
SyncInv ==
  /\ phase \in {"files", "delete", "index"} =>
       plan.local.tree \in unfinished /\ plan.local # plan.remote
  /\ phase \in {"delete", "index"} => \A p \in ToWrite : Covered(p)
  /\ phase = "index" => \A p \in ToDelete(plan.local, plan.remote) : Covered(p) \/ p \in left

\* What a run that reports success leaves in the index.
EndInv ==
  phase = "idle" /\ last \in {"synced", "noop"} =>
    index.kind # "corrupt" /\ (index.tree = plan.local.tree \/ unfinished # {})

\* The inductive invariant.
IInv == TypeOK /\ VolumeInv /\ PlanInv /\ SyncInv /\ EndInv

\* The empty directory is a tree.
LEMMA EmptyIsTree == Empty \in Trees
  BY DEF Empty, Trees

\* A path that the diff does not mention is the same on both sides.
LEMMA DiffIsComplete ==
  ASSUME TypeOK, plan.local # plan.remote,
         NEW p \in Paths, p \notin ToWrite, p \notin ToDelete(plan.local, plan.remote)
  PROVE  plan.local.tree[p] = plan.remote.tree[p]
  BY DEF TypeOK, ToWrite, ToCreate, ToUpdate, ToDelete, SameTreeHash

\* The initial states satisfy the invariant.
LEMMA InitEstablishesIInv == Init => IInv
  <1> SUFFICES ASSUME Init PROVE IInv
    OBVIOUS
  <1> USE DEF Init
  <1>1. TypeOK
    <2>1. index \in Indexes /\ plan \in [local : {Index(t) : t \in Trees},
                                       remote : {Index(t) : t \in Trees} \cup {NoIndex}]
      BY DEF Indexes
    <2>2. files \in [Paths -> Contents \cup {Absent, Foreign}]
      BY DEF Empty
    <2>3. bound \in [edits : 0..MaxEdits, faults : 0..MaxFaults,
                     removals : 0..MaxRemovals, appWrites : 0..MaxAppWrites]
      BY SMTT(30), BoundsAssumption
    <2>4. exists \in BOOLEAN /\ ownership \in Ownerships /\ left \subseteq Paths
      OBVIOUS
    <2> QED
      BY <2>1, <2>2, <2>3, <2>4 DEF TypeOK
  <1>2. VolumeInv
    BY DEF VolumeInv, NoIndex, Empty
  <1> QED
    BY <1>1, <1>2 DEF IInv, PlanInv, SyncInv, EndInv

(***************************************************************************)
(* Type correctness of every step                                          *)
(***************************************************************************)
\* Every step keeps the types.
LEMMA NextPreservesTypeOK == TypeOK /\ [Next]_vars => TypeOK'
  <1> SUFFICES ASSUME TypeOK, [Next]_vars PROVE TypeOK'
    OBVIOUS
  <1> USE DEF TypeOK
  <1>a. ASSUME Fault PROVE bound' \in [edits : 0..MaxEdits, faults : 0..MaxFaults,
                     removals : 0..MaxRemovals, appWrites : 0..MaxAppWrites]
    BY SMTT(30), <1>a, BoundsAssumption DEF Fault
  <1>b. ASSUME NEW S \in SUBSET Paths PROVE
          /\ (\A p \in S : local[p] # Absent) =>
               Extracted(S) \in [Paths -> Contents \cup {Absent, Foreign}]
          /\ Deleted(S) \in [Paths -> Contents \cup {Absent, Foreign}]
    BY DEF Extracted, Deleted, Trees
  <1>c. ToWrite \in SUBSET Paths /\ ToDelete(plan.local, plan.remote) \in SUBSET Paths
    BY DEF ToWrite, ToCreate, ToUpdate, ToDelete
  <1>d. plan.local \in Indexes /\ plan.local.tree \in Trees
    BY SMTT(30) DEF Indexes, Index
  <1>1. CASE Plan
    <2>1. index.kind # "corrupt" => index \in {Index(t) : t \in Trees} \cup {NoIndex}
      BY SMTT(30) DEF Indexes, Corrupt
    <2> QED
      BY SMTT(30), <1>1, <2>1 DEF Plan, ParseError, End
  <1>2. CASE NothingToApply
    BY <1>2 DEF NothingToApply, End
  <1>3. CASE BeginSync
    BY <1>3, <1>d DEF BeginSync, End
  <1>4. CASE SyncFilesetFiles
    <2>1. CASE UNCHANGED <<files, owned, unfinished, left, bound>>
      BY <1>4, <2>1 DEF SyncFilesetFiles, End
    <2>2. CASE /\ \A p \in ToWrite : local[p] # Absent
               /\ phase' = "delete"
               /\ files' = Extracted(ToWrite)
               /\ owned' = owned \ ToWrite /\ left' = left \ ToWrite
               /\ unfinished' = IF ToWrite = {} THEN unfinished ELSE unfinished \cup {local}
               /\ UNCHANGED <<last, bound>>
      BY <1>4, <2>2, <1>b, <1>c DEF SyncFilesetFiles
    <2>3. CASE /\ \A p \in ToWrite : local[p] # Absent
               /\ Fault
               /\ \E S \in SUBSET ToWrite :
                    files' = Extracted(S) /\ owned' = owned \ S /\ left' = left \ S
               /\ unfinished' = unfinished \cup {local}
               /\ End("error")
      BY <1>4, <2>3, <1>a, <1>b, <1>c DEF SyncFilesetFiles, End
    <2> QED
      BY <1>4, <2>1, <2>2, <2>3 DEF SyncFilesetFiles
  <1>5. CASE DeleteFilesetFiles
    <2>1. PICK S \in SUBSET Paths :
            files' = Deleted(S) /\ owned' = owned \ S /\ left' \subseteq Paths
      BY <1>5, <1>c DEF DeleteFilesetFiles
    <2>2. bound' = bound \/ Fault
      BY <1>5 DEF DeleteFilesetFiles
    <2> QED
      BY <1>5, <2>1, <2>2, <1>a, <1>b DEF DeleteFilesetFiles, End
  <1>6. CASE WriteFilesetIndex
    BY <1>6, <1>a, <1>d DEF WriteFilesetIndex, IndexWritten, End, Indexes
  <1>7. CASE ApplyOwnership
    <2>1. Owned \subseteq Paths
      BY DEF Owned, ToWrite, ToCreate, ToUpdate
    <2> QED
      BY <1>7, <1>a, <1>c, <2>1 DEF ApplyOwnership, End
  <1>8. CASE Abandon
    BY <1>8 DEF Abandon, End
  <1>9. CASE Crash
    BY <1>9, <1>a DEF Crash, End
  <1>10. CASE Edit
    BY SMTT(30), <1>10, BoundsAssumption DEF Edit, Trees
  <1>11. CASE RemoveVolume
    <2>1. files' \in [Paths -> Contents \cup {Absent, Foreign}]
      BY <1>11 DEF RemoveVolume, Empty
    <2>2. exists' \in BOOLEAN /\ ownership' \in Ownerships /\ left' \subseteq Paths
      BY <1>11, Zenon DEF RemoveVolume
    <2>3. index' \in Indexes
      BY <1>11 DEF RemoveVolume, Indexes
    <2>4. unfinished' \subseteq Trees
      BY <1>11, EmptyIsTree DEF RemoveVolume
    <2>5. bound' \in [edits : 0..MaxEdits, faults : 0..MaxFaults,
                      removals : 0..MaxRemovals, appWrites : 0..MaxAppWrites]
      BY SMTT(30), <1>11, BoundsAssumption DEF RemoveVolume
    <2> QED
      BY <1>11, <2>1, <2>2, <2>3, <2>4, <2>5 DEF RemoveVolume
  <1>12. CASE AppWrite
    BY SMTT(30), <1>12, BoundsAssumption DEF AppWrite
  <1>13. CASE UNCHANGED vars
    BY <1>13 DEF vars
  <1> QED
    BY <1>1, <1>2, <1>3, <1>4, <1>5, <1>6, <1>7, <1>8, <1>9, <1>10, <1>11, <1>12, <1>13
    DEF Next, Run
(***************************************************************************)
(* Every step keeps the inductive invariant                                *)
(***************************************************************************)
\* A step that leaves the volume, its index and the history alone and ends the run
\* with an error keeps everything.
LEMMA ErrorEndPreserves ==
  IInv /\ End("error") /\ UNCHANGED <<files, index, plan, unfinished, left>>
    => (VolumeInv /\ PlanInv /\ SyncInv /\ EndInv)'
  BY DEF IInv, End, VolumeInv, PlanInv, SyncInv, EndInv, Covered, LeftOut

\* When the index is about to be replaced, every file is covered or left out: the diff's
\* paths by the steps of the sync, the others because both sides agree on them.
LEMMA AllCoveredBeforeIndex ==
  ASSUME IInv, phase = "index", NEW p \in Paths
  PROVE  Covered(p) \/ LeftOut(p, plan.local.tree)
  <1> USE DEF IInv
  <1>1. CASE p \in ToWrite \/ p \in ToDelete(plan.local, plan.remote)
    BY <1>1 DEF SyncInv, LeftOut, ToDelete
  <1>2. CASE p \notin ToWrite /\ p \notin ToDelete(plan.local, plan.remote)
    <2>1. plan.local.tree[p] = plan.remote.tree[p] /\ plan.local.tree \in unfinished
      BY <1>2, DiffIsComplete DEF SyncInv
    <2>2. Covered(p) \/ files[p] = index.tree[p] \/ LeftOut(p, index.tree)
      BY DEF VolumeInv, PlanInv
    <2>3. CASE index = plan.remote
      BY <2>1, <2>2, <2>3 DEF Covered, LeftOut
    <2>4. CASE /\ Empty \in unfinished /\ index = NoIndex
               /\ left \subseteq ToDelete(plan.local, plan.remote)
      BY <1>2, <2>2, <2>4 DEF Covered, NoIndex, LeftOut
    <2> QED
      BY <2>3, <2>4 DEF PlanInv
  <1> QED
    BY <1>1, <1>2

\* The steps of a run preserve the invariant.
LEMMA RunPreserves == IInv /\ Run => (VolumeInv /\ PlanInv /\ SyncInv /\ EndInv)'
  <1> SUFFICES ASSUME IInv, Run PROVE (VolumeInv /\ PlanInv /\ SyncInv /\ EndInv)'
    OBVIOUS
  <1> USE DEF IInv
  <1>1. CASE Plan
    BY SMTT(30), <1>1 DEF Plan, ParseError, End, VolumeInv, PlanInv, SyncInv, EndInv, Covered,
       LeftOut
  <1>2. CASE NothingToApply
    <2>1. \A p \in Paths : plan.local.tree[p] = plan.remote.tree[p]
      BY <1>2, DiffIsComplete DEF NothingToApply
    <2>2. plan.local.tree = plan.remote.tree
      BY SMTT(30), <2>1, EmptyIsTree DEF TypeOK, Trees, Index, NoIndex
    <2> QED
      BY <1>2, <2>2 DEF NothingToApply, End, VolumeInv, PlanInv, SyncInv, EndInv, Covered, LeftOut
  <1>3. CASE BeginSync
    BY <1>3 DEF BeginSync, SkipFileset, SameTreeHash, End, VolumeInv, PlanInv, SyncInv,
                EndInv, Covered, LeftOut
  <1>4. CASE SyncFilesetFiles
    <2>1. CASE End("error") /\ UNCHANGED <<files, unfinished, left>>
      BY <1>4, <2>1, ErrorEndPreserves DEF SyncFilesetFiles
    <2>2. CASE \E S \in SUBSET ToWrite :
                 /\ files' = Extracted(S) /\ left' = left \ S
                 /\ unfinished' = IF S = {} THEN unfinished ELSE unfinished \cup {local}
                 /\ phase' = "delete" /\ S = ToWrite
      <3>1. PICK S \in SUBSET ToWrite :
                 /\ files' = Extracted(S) /\ left' = left \ S
                 /\ unfinished' = IF S = {} THEN unfinished ELSE unfinished \cup {local}
                 /\ phase' = "delete" /\ S = ToWrite
        BY <2>2
      <3>2. \A p \in Paths : IF p \in S THEN Covered(p)' ELSE files'[p] = files[p]
        BY <3>1 DEF Extracted, Covered
      <3>3. unfinished \subseteq unfinished' /\ ToWrite' = ToWrite /\ S \subseteq Paths
        BY <1>4, <3>1 DEF SyncFilesetFiles, ToWrite, ToCreate, ToUpdate
      <3>4. VolumeInv'
        BY <1>4, <3>1, <3>2, <3>3 DEF SyncFilesetFiles, VolumeInv, Covered, LeftOut
      <3>5. SyncInv'
        BY <1>4, <3>1, <3>2, <3>3 DEF SyncFilesetFiles, SyncInv
      <3>6. PlanInv' /\ EndInv'
        BY <1>4, <3>1, <3>3 DEF SyncFilesetFiles, PlanInv, EndInv, ToDelete
      <3> QED
        BY <3>4, <3>5, <3>6
    <2>3. CASE /\ \E S \in SUBSET ToWrite : files' = Extracted(S) /\ left' = left \ S
               /\ unfinished' = unfinished \cup {local}
               /\ End("error")
      <3>1. PICK S \in SUBSET ToWrite : files' = Extracted(S) /\ left' = left \ S
        BY <2>3
      <3>2. \A p \in Paths : IF p \in S THEN Covered(p)' ELSE files'[p] = files[p]
        BY <2>3, <3>1 DEF Extracted, Covered
      <3>3. VolumeInv'
        BY <1>4, <2>3, <3>1, <3>2 DEF SyncFilesetFiles, VolumeInv, Covered, LeftOut
      <3> QED
        BY <1>4, <2>3, <3>3 DEF SyncFilesetFiles, End, PlanInv, SyncInv, EndInv
    <2> QED
      BY <1>4, <2>1, <2>2, <2>3 DEF SyncFilesetFiles
  <1>5. CASE DeleteFilesetFiles
    <2> DEFINE D == ToDelete(plan.local, plan.remote)
    <2>1. PICK S \in SUBSET D : /\ files' = Deleted(S)
                               /\ \/ phase' = "index" /\ D \ S \subseteq left'
                                  \/ End("error")
                               /\ left \ S \subseteq left' /\ left' \subseteq left \cup D
      BY <1>5 DEF DeleteFilesetFiles
    <2>2. plan.local.tree \in unfinished /\ \A p \in D : p \in Paths /\ plan.local.tree[p] = Absent
      BY <1>5 DEF DeleteFilesetFiles, SyncInv, ToDelete
    <2>3. \A p \in Paths : IF p \in S THEN Covered(p)' ELSE files'[p] = files[p]
      BY <1>5, <2>1, <2>2 DEF DeleteFilesetFiles, Deleted, Covered
    <2>4. \A p \in Paths : Covered(p) => Covered(p)'
      BY <1>5, <2>3 DEF DeleteFilesetFiles, Covered
    <2>5. ToWrite' = ToWrite /\ D' = D /\ ToWrite \subseteq Paths
      BY <1>5 DEF DeleteFilesetFiles, ToWrite, ToCreate, ToUpdate, ToDelete
    <2>6. VolumeInv'
      BY <1>5, <2>1, <2>3, <2>4 DEF DeleteFilesetFiles, VolumeInv, LeftOut
    <2>7. SyncInv'
      BY <1>5, <2>1, <2>2, <2>3, <2>4, <2>5 DEF DeleteFilesetFiles, SyncInv, End
    <2>8. PlanInv' /\ EndInv'
      BY <1>5, <2>1, <2>5 DEF DeleteFilesetFiles, PlanInv, EndInv, End
    <2> QED
      BY <2>6, <2>7, <2>8
  <1>6. CASE WriteFilesetIndex
    <2>1. \A p \in Paths : Covered(p) \/ LeftOut(p, plan.local.tree)
      BY <1>6, AllCoveredBeforeIndex DEF WriteFilesetIndex
    <2>2. CASE IndexWritten
      <3>1. VolumeInv'
        BY <1>6, <2>1, <2>2 DEF WriteFilesetIndex, IndexWritten, VolumeInv, Covered, LeftOut
      <3>2. plan.local.kind # "corrupt"
        BY SMTT(30) DEF TypeOK, Index
      <3> QED
        BY <1>6, <2>2, <3>1, <3>2 DEF WriteFilesetIndex, IndexWritten, End, PlanInv, SyncInv, EndInv
    <2>3. CASE End("error") /\ index' \in {index, NoIndex, Corrupt} /\ UNCHANGED unfinished
      <3>1. \A p \in Paths : Covered(p)' <=> Covered(p)
        BY <1>6, <2>3 DEF WriteFilesetIndex, Covered
      <3>2. ASSUME index' = index PROVE VolumeInv'
        BY <1>6, <3>1, <3>2 DEF WriteFilesetIndex, VolumeInv, LeftOut
      <3>3. ASSUME index' = NoIndex PROVE VolumeInv'
        BY <1>6, <2>1, <3>1, <3>3 DEF WriteFilesetIndex, VolumeInv, LeftOut, NoIndex, Empty
      <3>4. ASSUME index' = Corrupt PROVE VolumeInv'
        BY <3>4 DEF VolumeInv, Corrupt
      <3> QED
        BY <1>6, <2>3, <3>2, <3>3, <3>4 DEF WriteFilesetIndex, End, PlanInv, SyncInv, EndInv
    <2> QED
      BY <1>6, <2>2, <2>3 DEF WriteFilesetIndex
  <1>7. CASE ApplyOwnership
    BY <1>7 DEF ApplyOwnership, End, VolumeInv, PlanInv, SyncInv, EndInv, Covered, LeftOut
  <1> QED
    BY <1>1, <1>2, <1>3, <1>4, <1>5, <1>6, <1>7 DEF Run

\* Edits of the files and of the volume preserve the invariant.
LEMMA EnvironmentPreserves ==
  IInv /\ (Abandon \/ Crash \/ Edit \/ RemoveVolume \/ AppWrite \/ UNCHANGED vars)
    => (VolumeInv /\ PlanInv /\ SyncInv /\ EndInv)'
  <1> SUFFICES ASSUME IInv, Abandon \/ Crash \/ Edit \/ RemoveVolume \/ AppWrite \/ UNCHANGED vars
               PROVE  (VolumeInv /\ PlanInv /\ SyncInv /\ EndInv)'
    OBVIOUS
  <1>1. CASE Abandon \/ Crash
    BY <1>1, ErrorEndPreserves DEF Abandon, Crash
  <1>2. CASE Edit \/ UNCHANGED vars
    <2>1. UNCHANGED <<files, index, phase, plan, last, unfinished, left>>
      BY <1>2 DEF Edit, vars
    <2> QED
      BY <2>1 DEF IInv, VolumeInv, PlanInv, SyncInv, EndInv, Covered, LeftOut, ToWrite,
                  ToCreate, ToUpdate, ToDelete
  <1>3. CASE RemoveVolume
    BY <1>3 DEF IInv, RemoveVolume, VolumeInv, PlanInv, SyncInv, EndInv, Covered, LeftOut, NoIndex, Empty
  <1>4. CASE AppWrite
    <2>1. \A p \in Paths : files'[p] = files[p] \/ files'[p] = Foreign
      BY <1>4 DEF AppWrite, IInv, TypeOK
    <2>2. \A p \in Paths : Covered(p) => Covered(p)'
      BY <1>4, <2>1 DEF AppWrite, Covered
    <2>3. VolumeInv'
      BY <1>4, <2>1, <2>2 DEF AppWrite, IInv, VolumeInv, Covered, LeftOut
    <2>4. ToWrite' = ToWrite /\ ToWrite \subseteq Paths
      BY <1>4 DEF AppWrite, ToWrite, ToCreate, ToUpdate
    <2>5. /\ ToDelete(plan.local, plan.remote)' = ToDelete(plan.local, plan.remote)
          /\ ToDelete(plan.local, plan.remote) \subseteq Paths
      BY <1>4 DEF AppWrite, ToDelete
    <2>6. SyncInv'
      BY <1>4, <2>2, <2>4, <2>5 DEF AppWrite, IInv, SyncInv
    <2> QED
      BY <1>4, <2>3, <2>5, <2>6 DEF AppWrite, IInv, PlanInv, EndInv
  <1> QED
    BY <1>1, <1>2, <1>3, <1>4

\* The inductive invariant holds in every reachable state.
THEOREM Invariance == Spec => []IInv
  <1>1. IInv /\ [Next]_vars => IInv'
    BY NextPreservesTypeOK, RunPreserves, EnvironmentPreserves DEF IInv, Next
  <1> QED
    BY InitEstablishesIInv, <1>1, PTL DEF Spec

\* The variables keep their types (TypeOK), in particular the volume's index is always
\* one that writeFilesetIndex wrote, none, or the rest of an interrupted write.
THEOREM TypeCorrect == Spec => []TypeOK
  BY Invariance, PTL DEF IInv

\* Whatever failed, was killed, edited or removed: a file of the idle volume that differs
\* from the index comes from a sync that did not complete or from the application, or is not
\* listed and rm failed on it.
THEOREM IndexIsTruthful == Spec => []VolumeMatchesIndex
  <1>1. IInv => VolumeMatchesIndex
    BY DEF IInv, VolumeInv, VolumeMatchesIndex, Covered, LeftOut
  <1> QED
    BY Invariance, <1>1, PTL

\* A run that reports the fileset as synced or unchanged, with no sync left unfinished,
\* leaves the planned source in the volume, and besides only what rm could not delete.
THEOREM SuccessIsSound == Spec => []SuccessMeansPlannedTree
  <1>1. IInv => SuccessMeansPlannedTree
    BY DEF IInv, VolumeInv, EndInv, SuccessMeansPlannedTree, Covered, LeftOut
  <1> QED
    BY Invariance, <1>1, PTL

\* dockform put the file at p into the volume.
Synced(p) == files[p] \notin {Absent, Foreign}

\* While nothing has failed, the only files without their ownership are those that the sync
\* under way has just written.
OwnedInv ==
  ownership \in {"recursive", "preserve"} /\ bound.faults = 0 =>
    /\ phase \in {"idle", "planned", "files"} => \A p \in Paths : Synced(p) => p \in owned
    /\ phase \in {"delete", "index", "ownership"} =>
         \A p \in Paths : Synced(p) => p \in owned \/ p \in ToWrite

\* Every step keeps the account of ownership.
LEMMA OwnershipInductive == TypeOK /\ OwnedInv /\ [Next]_vars => OwnedInv'
  <1> SUFFICES ASSUME TypeOK, OwnedInv, [Next]_vars, bound'.faults = 0,
                      ownership' \in {"recursive", "preserve"}
               PROVE  OwnedInv'
    BY DEF OwnedInv
  <1>f. ~Fault
    BY SMTT(30), BoundsAssumption DEF Fault, TypeOK
  <1>0. bound.faults = 0 /\ ownership \in {"recursive", "preserve"}
    BY <1>f DEF TypeOK, Next, Run, Plan, NothingToApply, BeginSync, SyncFilesetFiles,
       DeleteFilesetFiles, WriteFilesetIndex, ApplyOwnership, Abandon, Crash, Edit, RemoveVolume,
       AppWrite, vars
  <1>1. CASE Plan \/ NothingToApply \/ BeginSync \/ Abandon \/ Edit \/ UNCHANGED vars
    <2>1. UNCHANGED <<files, owned>> /\ (UNCHANGED plan \/ phase' \in {"idle", "planned", "files"})
      BY <1>1 DEF Plan, NothingToApply, BeginSync, Abandon, Edit, vars
    <2>2. \/ phase \in {"idle", "planned", "files"} /\ phase' \in {"idle", "planned", "files"}
          \/ phase' = phase /\ UNCHANGED plan
      BY <1>1 DEF Plan, NothingToApply, BeginSync, Abandon, Edit, vars, End
    <2>3. UNCHANGED plan => ToWrite' = ToWrite
      BY DEF ToWrite, ToCreate, ToUpdate
    <2> QED BY <1>0, <2>1, <2>2, <2>3 DEF OwnedInv, Synced
  <1>2. CASE SyncFilesetFiles
    <2>1. ToWrite' = ToWrite
      BY <1>2 DEF SyncFilesetFiles, ToWrite, ToCreate, ToUpdate
    <2> QED BY <1>0, <1>2, <1>f, <2>1 DEF SyncFilesetFiles, OwnedInv, Synced, Extracted, End
  <1>3. CASE DeleteFilesetFiles
    <2>1. ToWrite' = ToWrite
      BY <1>3 DEF DeleteFilesetFiles, ToWrite, ToCreate, ToUpdate
    <2> QED BY <1>0, <1>3, <1>f, <2>1 DEF DeleteFilesetFiles, OwnedInv, Synced, Deleted, End
  <1>4. CASE WriteFilesetIndex
    <2>1. ToWrite' = ToWrite
      BY <1>4 DEF WriteFilesetIndex, ToWrite, ToCreate, ToUpdate
    <2> QED BY <1>0, <1>4, <1>f, <2>1 DEF WriteFilesetIndex, OwnedInv, Synced
  <1>5. CASE ApplyOwnership
    BY <1>0, <1>5, <1>f DEF ApplyOwnership, OwnedInv, Synced, Owned, End
  <1>6. CASE Crash
    BY <1>6, <1>f DEF Crash
  <1>7. CASE RemoveVolume
    BY <1>0, <1>7 DEF RemoveVolume, OwnedInv, Synced, Empty
  <1>8. CASE AppWrite
    <2>1. \A p \in Paths : files'[p] = files[p] \/ files'[p] = Foreign
      BY <1>8 DEF AppWrite, TypeOK
    <2>2. ToWrite' = ToWrite
      BY <1>8 DEF AppWrite, ToWrite, ToCreate, ToUpdate
    <2> QED BY <1>0, <1>8, <2>1, <2>2 DEF AppWrite, OwnedInv, Synced
  <1> QED
    BY <1>1, <1>2, <1>3, <1>4, <1>5, <1>6, <1>7, <1>8 DEF Next, Run

\* As long as nothing fails, applyOwnership leaves every synced file with its ownership, if it
\* neither skips nor refuses it.
THEOREM OwnershipIsApplied == Spec => []OwnershipFollowsSync
  <1>1. Init => OwnedInv
    BY DEF Init, OwnedInv, Synced, Empty
  <1>2. TypeOK /\ OwnedInv => OwnershipFollowsSync
    <2> SUFFICES ASSUME TypeOK, OwnedInv, phase = "idle", bound.faults = 0,
                        ownership \in {"recursive", "preserve"},
                        NEW p \in Paths, plan.local.tree[p] # Absent, files[p] = plan.local.tree[p]
                 PROVE  p \in owned
      BY DEF OwnershipFollowsSync
    <2>1. plan.local.tree \in Trees
      BY SMTT(30) DEF TypeOK, Index
    <2> QED BY <2>1, ContentsAssumption DEF OwnedInv, Synced, Trees
  <1> QED
    BY TypeCorrect, <1>1, <1>2, OwnershipInductive, PTL DEF Spec

\* A successful run has done the whole fileset, its files and their ownership.
THEOREM SuccessIsWhole == Spec => []SuccessIsComplete
  BY SuccessIsSound, OwnershipIsApplied, PTL DEF SuccessIsComplete

\* deleteFilesetFiles and syncFilesetFiles touch no file of the application outside the
\* planned source and the recorded index.
THEOREM ForeignFilesAreSafe == Spec => ForeignFilesSurvive
  <1> DEFINE A == \A p \in Paths :
         files[p] = Foreign /\ files'[p] # Foreign /\ exists'
           => plan.local.tree[p] # Absent \/ plan.remote.tree[p] # Absent
  <1>1. TypeOK /\ [Next]_vars => [A]_vars
    <2> SUFFICES ASSUME TypeOK, Next PROVE A
      OBVIOUS
    <2>1. CASE UNCHANGED files
      BY <2>1
    <2>2. CASE SyncFilesetFiles
      BY <2>2 DEF SyncFilesetFiles, Extracted, ToWrite, ToCreate, ToUpdate
    <2>3. CASE DeleteFilesetFiles
      BY <2>3 DEF DeleteFilesetFiles, Deleted, ToDelete
    <2>4. CASE RemoveVolume
      BY <2>4 DEF RemoveVolume
    <2>5. CASE AppWrite
      BY <2>5 DEF AppWrite, TypeOK
    <2> QED
      BY <2>1, <2>2, <2>3, <2>4, <2>5
      DEF Next, Run, Plan, NothingToApply, BeginSync, WriteFilesetIndex, ApplyOwnership,
          Abandon, Crash, Edit
  <1> QED
    BY TypeCorrect, <1>1, PTL DEF Spec, ForeignFilesSurvive

(***************************************************************************)
(* DockerExec                                                              *)
(***************************************************************************)
Active(c) == pc[c] \in {"run", "backoff"}

\* The slots that are taken are those of the active calls that need one, all on the
\* only client; the attempts bound how often a command was executed.
ExecInv ==
  /\ ExecTypes
  /\ clients = created
  /\ \A c \in Calls : pc[c] \notin {"start", "create"} => client[c] = 1
  /\ \A c \in Calls : c \in sem <=> Limited(c) /\ Active(c)
  /\ IsFiniteSet(sem) /\ Cardinality(sem) <= MaxConcurrentSSH
  /\ \A c \in Calls :
       /\ attempt[c] < MaxAttempts(c)
       /\ pc[c] = "backoff" => attempt[c] + 1 < MaxAttempts(c)
       /\ executed[c] <= attempt[c] + (IF pc[c] \in {"backoff", "returned"} THEN 1 ELSE 0)
       /\ outcome[c] = "nil" => executed[c] >= 1

\* All calls use one client, so the holders of its slots are all holders.
LEMMA OneSemaphore ==
  ASSUME ExecInv, NEW c \in Calls, pc[c] = "acquire"
  PROVE  Holders(client[c]) = sem
  BY DEF ExecInv, ExecTypes, Holders, Active

\* One attempt of a call and the end of a call, whatever their outcome.
StepOf(c) ==
  /\ UNCHANGED <<config, factory, done>>
  /\ pc[c] \in {"acquire", "run", "backoff"}
  /\ \/ sem' = sem \ {c} /\ Goto(c, "returned")
        /\ UNCHANGED attempt
        /\ \E how \in {"nil", "error", "cancelled"}, n \in {0, 1} :
             /\ Execute(c, n)
             /\ outcome' = [outcome EXCEPT ![c] = how]
             /\ how = "nil" => n = 1
             /\ n = 1 => pc[c] = "run"
     \/ /\ pc[c] = "run" /\ Goto(c, "backoff") /\ UNCHANGED <<sem, attempt, outcome>>
        /\ attempt[c] + 1 < MaxAttempts(c)
        /\ \E n \in {0, 1} : Execute(c, n)
     \/ /\ pc[c] = "backoff" /\ Goto(c, "run") /\ UNCHANGED <<sem, executed, outcome>>
        /\ attempt' = [attempt EXCEPT ![c] = @ + 1]

\* A step of one call keeps the accounts of the semaphore and the executions.
LEMMA StepOfPreserves ==
  ASSUME ExecInv, NEW c \in Calls, StepOf(c)
  PROVE  ExecInv'
<1> USE ExecAssumption
<1>m. \A d \in Calls : MaxAttempts(d) \in Nat /\ MaxAttempts(d) <= sshMaxRetries + 1 /\ MaxAttempts(d)' = MaxAttempts(d)
  BY SMTT(30) DEF MaxAttempts, CanRetry, StepOf, config
<1>t. ExecTypes BY DEF ExecInv
<1>r. remote' \in BOOLEAN
  BY <1>t, Zenon DEF ExecTypes, StepOf, config
<1>1. ExecTypes'
  <2>1. /\ kind' \in [Calls -> Kinds] /\ hangs' \subseteq Calls /\ clients' \in 0..1 /\ created' \in 0..1
        /\ client' \in [Calls -> 0..1] /\ done' \subseteq Calls /\ sem' \subseteq Calls
    BY <1>t DEF ExecTypes, StepOf, config, factory
  <2>2. pc' \in [Calls -> {"start", "create", "acquire", "run", "backoff", "returned"}]
    BY <1>t DEF ExecTypes, StepOf, Goto
  <2>3. attempt' \in [Calls -> 0..sshMaxRetries]
    BY SMTT(30), <1>t, <1>m DEF ExecInv, ExecTypes, StepOf
  <2>4. executed' \in [Calls -> 0..(sshMaxRetries + 1)]
    <3>1. CASE UNCHANGED executed
      BY <3>1, <1>t DEF ExecTypes
    <3>2. CASE \E n \in {0, 1} : Execute(c, n) /\ (n = 1 => pc[c] = "run")
      <4>1. PICK n \in {0, 1} : Execute(c, n) /\ (n = 1 => pc[c] = "run")
        BY <3>2
      <4>2. executed[c] + n \in 0..(sshMaxRetries + 1)
        BY SMTT(30), <4>1, <1>t, <1>m DEF ExecInv, ExecTypes
      <4> QED BY <4>1, <4>2, <1>t DEF ExecTypes, Execute
    <3> QED BY <3>1, <3>2 DEF StepOf
  <2>5. outcome' \in [Calls -> {"none", "nil", "error", "cancelled"}]
    BY <1>t DEF ExecTypes, StepOf
  <2> QED BY <1>r, <2>1, <2>2, <2>3, <2>4, <2>5 DEF ExecTypes
<1>2. (clients = created)' /\ \A d \in Calls : pc'[d] \notin {"start", "create"} => client'[d] = 1
  BY <1>t DEF ExecInv, ExecTypes, StepOf, Goto, factory
<1>3. \A d \in Calls : d \in sem' <=> Limited(d)' /\ Active(d)'
  <2>1. \A d \in Calls : Limited(d)' <=> Limited(d)
    BY DEF Limited, StepOf, config
  <2> QED BY SMTT(30), <1>t, <2>1 DEF ExecInv, ExecTypes, StepOf, Goto, Active
<1>4. IsFiniteSet(sem') /\ Cardinality(sem') <= MaxConcurrentSSH
  <2>1. sem' \in SUBSET sem
    BY DEF StepOf
  <2>2. IsFiniteSet(sem') /\ Cardinality(sem') <= Cardinality(sem)
    BY <2>1, FS_Subset DEF ExecInv
  <2>3. Cardinality(sem') \in Nat /\ Cardinality(sem) \in Nat
    BY <2>2, FS_CardinalityType DEF ExecInv
  <2> QED BY SMTT(30), <2>2, <2>3 DEF ExecInv
<1>5. ASSUME NEW d \in Calls
      PROVE  (/\ attempt[d] < MaxAttempts(d)
              /\ pc[d] = "backoff" => attempt[d] + 1 < MaxAttempts(d)
              /\ executed[d] <= attempt[d] + (IF pc[d] \in {"backoff", "returned"} THEN 1 ELSE 0)
              /\ outcome[d] = "nil" => executed[d] >= 1)'
  BY SMTT(30), <1>t, <1>m DEF ExecInv, ExecTypes, StepOf, Goto, Execute
<1> QED BY <1>1, <1>2, <1>3, <1>4, <1>5 DEF ExecInv

\* The inductive invariant holds in every reachable state.
LEMMA ExecInvInductive == ExecSpec => []ExecInv
<1> USE ExecAssumption
<1>1. ExecInit => ExecInv
  BY SMTT(30), FS_EmptySet DEF ExecInit, ExecInv, ExecTypes, Active, NoClient, MaxAttempts, Kinds
<1>2. ExecInv /\ [ExecNext]_execVars => ExecInv'
  <2> SUFFICES ASSUME ExecInv, [ExecNext]_execVars PROVE ExecInv'
    OBVIOUS
  <2>1. ASSUME NEW c \in Calls, LookUp(c) PROVE ExecInv'
    BY SMTT(30), <2>1 DEF ExecInv, ExecTypes, LookUp, Goto, Active, Limited, MaxAttempts, CanRetry, config,
       NoClient
  <2>2. ASSUME NEW c \in Calls, Create(c) PROVE ExecInv'
    BY SMTT(30), <2>2 DEF ExecInv, ExecTypes, Create, Cached, Goto, Active, Limited, MaxAttempts, CanRetry, config,
       NoClient
  <2>3. ASSUME NEW c \in Calls, Acquire(c) PROVE ExecInv'
    <3>1. IsFiniteSet(sem') /\ Cardinality(sem') <= MaxConcurrentSSH
      <4>1. CASE Limited(c)
        <5>1. Cardinality(sem) < MaxConcurrentSSH
          BY <2>3, <4>1, OneSemaphore DEF Acquire
        <5>2. /\ IsFiniteSet(sem \cup {c})
              /\ Cardinality(sem \cup {c}) = IF c \in sem THEN Cardinality(sem) ELSE Cardinality(sem) + 1
          BY FS_AddElement DEF ExecInv
        <5>3. Cardinality(sem) \in Nat
          BY FS_CardinalityType DEF ExecInv
        <5> QED BY SMTT(30), <2>3, <4>1, <5>1, <5>2, <5>3 DEF Acquire
      <4>2. CASE ~Limited(c)
        BY <2>3, <4>2 DEF Acquire, ExecInv
      <4> QED BY <4>1, <4>2
    <3> QED BY <2>3, <3>1 DEF ExecInv, ExecTypes, Acquire, Goto, Active, Limited, MaxAttempts, CanRetry,
       config, factory
  <2>4. ASSUME NEW c \in Calls, AcquireCancelled(c) PROVE StepOf(c)
    BY SMTT(30), <2>4 DEF AcquireCancelled, StepOf, Goto, Execute, ExecInv, ExecTypes, Active
  <2>5. ASSUME NEW c \in Calls, RunCommand(c) PROVE StepOf(c)
    BY <2>5 DEF RunCommand, CommandSucceeds, CommandFails, CommandKilled, ConnectionBreaks, Return,
       Released, StepOf
  <2>6. ASSUME NEW c \in Calls, Backoff(c) PROVE StepOf(c)
    BY SMTT(30), <2>6 DEF Backoff, Return, Released, StepOf, Execute, ExecInv, ExecTypes
  <2>7. ASSUME UNCHANGED <<config, factory, pc, sem, attempt, executed, outcome>>, done' \subseteq Calls PROVE ExecInv'
    BY <2>7 DEF ExecInv, ExecTypes, Active, Limited, MaxAttempts, CanRetry, config, factory
  <2>8. CASE UNCHANGED execVars
    BY <2>8, <2>7 DEF execVars, ExecInv, ExecTypes
  <2>9. CASE Cancel \/ \E c \in Calls : ProbeExpires(c)
    BY <2>9, <2>7 DEF Cancel, ProbeExpires, ExecInv, ExecTypes
  <2> QED BY <2>1, <2>2, <2>3, <2>4, <2>5, <2>6, <2>8, <2>9, StepOfPreserves DEF ExecNext, Call,
     Finished
<1> QED BY <1>1, <1>2, PTL DEF ExecSpec

\* The type invariant: in particular the factory never makes a second client.
THEOREM ExecTypeOK == ExecSpec => []ExecTypes
<1>1. ExecInv => ExecTypes BY DEF ExecInv
<1> QED BY <1>1, ExecInvInductive, PTL

\* The calls under way are the holders of the semaphore's slots.
LEMMA UnderWayIsSem == ExecInv => UnderWay = sem
  BY DEF ExecInv, ExecTypes, UnderWay, OverSSH, Limited, Active

\* The semaphore bounds the commands over SSH, whatever the races in GetClient.
THEOREM ExecSSHLimit == ExecSpec => []SSHLimit
<1>1. ExecInv => SSHLimit
  BY UnderWayIsSem DEF SSHLimit, ExecInv
<1> QED BY <1>1, ExecInvInductive, PTL

\* Success means executed, and only commands without stdin and stream run again.
THEOREM ExecReportsTruth == ExecSpec => []ExecutedAsReported
<1>1. ExecInv => ExecutedAsReported
  <2> SUFFICES ASSUME ExecInv, NEW c \in Calls
        PROVE (outcome[c] = "nil" => executed[c] >= 1) /\ (kind[c] # "plain" => executed[c] <= 1)
    BY DEF ExecutedAsReported
  <2>1. outcome[c] = "nil" => executed[c] >= 1
    BY DEF ExecInv
  <2>2. ASSUME kind[c] # "plain" PROVE executed[c] <= 1
    <3>1. MaxAttempts(c) = 1
      BY <2>2 DEF MaxAttempts, CanRetry
    <3> QED BY SMTT(30), <3>1 DEF ExecInv, ExecTypes
  <2> QED BY <2>1, <2>2
<1> QED BY <1>1, ExecInvInductive, PTL

\* A call that returns shows in its phase only.
LEMMA PhaseOfReturned ==
  ASSUME ExecInv, NEW c \in Calls, Goto(c, "returned")
  PROVE  [d \in Calls |-> Phase(d)]' = [[d \in Calls |-> Phase(d)] EXCEPT ![c] = "returned"]
  BY DEF ExecInv, ExecTypes, Phase, Goto

\* Creating clients and backing off between attempts do not show.
LEMMA PhaseKept ==
  ASSUME ExecInv, NEW c \in Calls, NEW where, Goto(c, where), UNCHANGED config,
         \/ pc[c] \in {"start", "create"} /\ where \in {"create", "acquire"}
         \/ pc[c] \in {"run", "backoff"} /\ where \in {"run", "backoff"}
  PROVE  [d \in Calls |-> Phase(d)]' = [d \in Calls |-> Phase(d)] /\ UNCHANGED UnderWay
  BY DEF ExecInv, ExecTypes, Phase, Goto, UnderWay, OverSSH, config

\* What does not change along a step of a call.
LEMMA ConfigKept ==
  ASSUME UNCHANGED config
  PROVE  /\ UNCHANGED OverSSH
         /\ {c \in Calls : ~(remote /\ kind[c] = "plain")}' = {c \in Calls : ~(remote /\ kind[c] = "plain")}
  BY DEF config, OverSSH

\* A call that was executed before its last attempt is one that may be repeated.
LEMMA OnceIsOnce ==
  ASSUME ExecInv, NEW c \in Calls, ~(remote /\ kind[c] = "plain")
  PROVE  /\ MaxAttempts(c) = 1
         /\ pc[c] \in {"acquire", "run"} => executed[c] = 0
  BY SMTT(30), ExecAssumption DEF ExecInv, ExecTypes, MaxAttempts, CanRetry

\* The end of a call that is under way is an end of the promise.
LEMMA ReturnKeepsPromise ==
  ASSUME ExecInv, NEW c \in Calls, pc[c] \in {"run", "backoff"}, UNCHANGED config,
         Goto(c, "returned"),
         NEW how \in {"nil", "error", "cancelled"}, NEW k \in {0, 1}, Execute(c, k),
         outcome' = [outcome EXCEPT ![c] = how],
         how = "nil" => k = 1, how = "cancelled" => k = 0, k = 1 => pc[c] = "run"
  PROVE  Promise!Next
<1>1. k = 0 => executed' = executed
  BY SMTT(30) DEF Execute, ExecInv, ExecTypes
<1>2. k = 1 /\ c \in {d \in Calls : ~(remote /\ kind[d] = "plain")} => executed[c] = 0
  BY OnceIsOnce
<1>3. [d \in Calls |-> Phase(d)][c] = "active"
  BY DEF Phase
<1>4. Cardinality(UnderWay)' = Promise!Counted(c, -1)
  <2>1. UnderWay' = UnderWay \ {c}
    BY DEF UnderWay, OverSSH, Goto, ExecInv, ExecTypes, config
  <2>2. c \in UnderWay <=> c \in OverSSH
    BY DEF UnderWay
  <2>3. IsFiniteSet(UnderWay)
    BY UnderWayIsSem DEF ExecInv
  <2>4. Cardinality(UnderWay \ {c}) = IF c \in UnderWay THEN Cardinality(UnderWay) - 1 ELSE Cardinality(UnderWay)
    BY <2>3, FS_RemoveElement
  <2>5. Cardinality(UnderWay) \in Nat
    BY <2>3, FS_CardinalityType
  <2> QED BY <2>1, <2>2, <2>4, <2>5 DEF Promise!Counted
<1>5. k = 0 => Promise!End(c, how, FALSE)
  BY SMTT(30), <1>1, <1>3, <1>4, PhaseOfReturned, ConfigKept DEF Promise!End
<1>6. k = 1 => Promise!End(c, how, TRUE)
  BY SMTT(30), <1>2, <1>3, <1>4, PhaseOfReturned, ConfigKept DEF Promise!End, Execute
<1> QED BY <1>5, <1>6 DEF Promise!Next

\* Every step of the client is a step of its promise, or does not show.
LEMMA StepKeepsPromise == ExecInv /\ [ExecNext]_execVars => [Promise!Next]_Promise!vars
<1> SUFFICES ASSUME ExecInv, [ExecNext]_execVars PROVE [Promise!Next]_Promise!vars
  OBVIOUS
<1>1. ASSUME NEW c \in Calls, LookUp(c) PROVE UNCHANGED Promise!vars
  BY <1>1, PhaseKept, ConfigKept DEF LookUp, Promise!vars
<1>2. ASSUME NEW c \in Calls, Create(c) PROVE UNCHANGED Promise!vars
  BY <1>2, PhaseKept, ConfigKept DEF Create, Promise!vars
<1>3. ASSUME NEW c \in Calls, Acquire(c) PROVE Promise!Begin(c)
  <2>1. [d \in Calls |-> Phase(d)]' = [[d \in Calls |-> Phase(d)] EXCEPT ![c] = "active"]
    BY <1>3 DEF ExecInv, ExecTypes, Phase, Goto, Acquire
  <2>2. c \in OverSSH => Cardinality(UnderWay) < MaxConcurrentSSH
    BY <1>3, OneSemaphore, UnderWayIsSem DEF Acquire, Limited, OverSSH
  <2>3. [d \in Calls |-> Phase(d)][c] = "waiting"
    BY <1>3 DEF Acquire, Phase
  <2>4. UNCHANGED <<config, executed, outcome>>
    BY <1>3 DEF Acquire, factory
  <2>5. Cardinality(UnderWay)' = Promise!Counted(c, 1)
    <3>1. UnderWay' = IF c \in OverSSH THEN UnderWay \cup {c} ELSE UnderWay
      BY SMTT(30), <1>3, <2>4 DEF UnderWay, OverSSH, Goto, ExecInv, ExecTypes, config, Acquire
    <3>2. c \notin UnderWay
      BY <1>3 DEF UnderWay, Acquire
    <3>3. IsFiniteSet(UnderWay)
      BY UnderWayIsSem DEF ExecInv
    <3>4. Cardinality(UnderWay \cup {c}) = Cardinality(UnderWay) + 1
      BY <3>2, <3>3, FS_AddElement
    <3> QED BY <3>1, <3>4 DEF Promise!Counted
  <2> QED BY <2>1, <2>2, <2>3, <2>4, <2>5, ConfigKept DEF Promise!Begin
<1>4. ASSUME NEW c \in Calls, AcquireCancelled(c) PROVE Promise!GiveUp(c)
  <2>1. UNCHANGED UnderWay
    BY <1>4 DEF AcquireCancelled, UnderWay, OverSSH, Goto, ExecInv, ExecTypes, config
  <2> QED BY <1>4, <2>1, PhaseOfReturned, ConfigKept
        DEF AcquireCancelled, Promise!GiveUp, Phase, Limited, OverSSH
<1>5. ASSUME NEW c \in Calls, RunCommand(c) PROVE [Promise!Next]_Promise!vars
  <2>1. CASE CommandSucceeds(c)
    BY <1>5, <2>1, ReturnKeepsPromise DEF RunCommand, CommandSucceeds, Return
  <2>2. CASE CommandFails(c)
    BY <1>5, <2>2, ReturnKeepsPromise DEF RunCommand, CommandFails, Return
  <2>3. CASE ConnectionBreaks(c)
    <3>1. PICK k \in {0, 1} :
            /\ Execute(c, k)
            /\ \/ /\ attempt[c] + 1 < MaxAttempts(c) /\ Goto(c, "backoff")
                  /\ UNCHANGED <<config, factory, sem, attempt, done, outcome>>
               \/ Return(c, "error")
      BY <2>3 DEF ConnectionBreaks
    <3>2. CASE Return(c, "error")
      BY <1>5, <3>1, <3>2, ReturnKeepsPromise DEF RunCommand, Return
    <3>3. CASE /\ attempt[c] + 1 < MaxAttempts(c) /\ Goto(c, "backoff")
               /\ UNCHANGED <<config, factory, sem, attempt, done, outcome>>
      <4>1. remote /\ kind[c] = "plain"
        BY SMTT(30), <3>3, OnceIsOnce DEF ExecInv, ExecTypes
      <4>2. CASE k = 1
        <5>1. Promise!ExecuteUnnoticed(c)
          BY <1>5, <3>1, <3>3, <4>1, <4>2, PhaseKept, ConfigKept
             DEF RunCommand, Promise!ExecuteUnnoticed, Execute, Phase
        <5> QED BY <5>1 DEF Promise!Next
      <4>3. CASE k = 0
        <5>1. executed' = executed
          BY SMTT(30), <3>1, <4>3 DEF Execute, ExecInv, ExecTypes
        <5> QED BY <1>5, <5>1, <3>3, PhaseKept, ConfigKept DEF RunCommand, Promise!vars
      <4> QED BY <4>2, <4>3
    <3> QED BY <3>1, <3>2, <3>3
  <2>4. CASE CommandKilled(c)
    BY <2>2, <2>4 DEF CommandKilled
  <2> QED BY <1>5, <2>1, <2>2, <2>3, <2>4 DEF RunCommand
<1>6. ASSUME NEW c \in Calls, Backoff(c) PROVE [Promise!Next]_Promise!vars
  <2>1. CASE Goto(c, "run") /\ UNCHANGED <<config, factory, sem, done, executed, outcome>>
    BY <1>6, <2>1, PhaseKept, ConfigKept DEF Backoff, Promise!vars
  <2>2. CASE UNCHANGED executed /\ Return(c, "cancelled")
    <3>1. Execute(c, 0)
      BY SMTT(30), <2>2 DEF Execute, ExecInv, ExecTypes
    <3>2. /\ pc[c] \in {"run", "backoff"} /\ UNCHANGED config /\ Goto(c, "returned")
          /\ outcome' = [outcome EXCEPT ![c] = "cancelled"]
      BY <1>6, <2>2 DEF Backoff, Return
    <3>3. 0 \in {0, 1} /\ ~(0 = 1) /\ "cancelled" \in {"nil", "error", "cancelled"} /\ ~("cancelled" = "nil")
      BY SMTT(30)
    <3>4. Promise!Next
      BY <3>1, <3>2, <3>3, ReturnKeepsPromise, Zenon
    <3> QED BY <3>4
  <2> QED BY <1>6, <2>1, <2>2 DEF Backoff
<1>7. ASSUME UNCHANGED <<config, pc, executed, outcome>> PROVE UNCHANGED Promise!vars
  BY <1>7, ConfigKept DEF Promise!vars, Phase, UnderWay
<1> QED BY <1>1, <1>2, <1>3, <1>4, <1>5, <1>6, <1>7
        DEF ExecNext, Call, Finished, Cancel, ProbeExpires, execVars, Promise!Next

\* The factory, the semaphore and the retries implement the promise of the client, for
\* any number of calls, any limit and any number of retries.
THEOREM ClientKeepsPromise == ExecSpec => KeepsPromise
<1>1. ExecInit => Promise!Init
  <2> SUFFICES ASSUME ExecInit PROVE Promise!Init
    OBVIOUS
  <2>1. UnderWay = {} /\ OverSSH \in SUBSET Calls
    BY DEF ExecInit, UnderWay, OverSSH
  <2>2. Cardinality(UnderWay) = 0
    BY <2>1, FS_EmptySet
  <2> QED BY <2>1, <2>2 DEF ExecInit, Promise!Init, Phase
<1> QED BY <1>1, StepKeepsPromise, ExecInvInductive, PTL DEF ExecSpec, KeepsPromise, Promise!Spec
=============================================================================
