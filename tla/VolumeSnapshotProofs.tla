------------------------ MODULE VolumeSnapshotProofs ------------------------
(***************************************************************************)
(* Snapshot and restore for any files, contents, containers and archives.  *)
(* Each property has its own part of the inductive invariant, which says   *)
(* what the steps before have established for the steps that follow.       *)
(***************************************************************************)
EXTENDS VolumeSnapshot, SequenceTheorems, TLAPS

\* A leaf goes to Zenon unless it names another prover.
USE ZenonT(60)

\* Results belong to the end of a command, sidecars to archives, and a failure to stop or
\* to start ends the command.
Control ==
  /\ pc \notin {"idle", "restart"} => result = "none"
  /\ pc # "idle" => faults \cap {"stop", "start", "crash"} = {}
  /\ pc \in {"stream", "meta"} => base \in Snapshots /\ json[JsonPath(base)] = NoFile
  /\ pc = "meta" => archive[base].whole /\ unread = {}
  /\ \A b \in Snapshots : archive[b] = NoFile => json[JsonPath(b)] = NoFile

\* Restore writes only to a volume that ls showed as empty or that --force gave up.
Overwriting ==
  /\ pc \in {"users", "stop"} => seen.empty \/ flags.force
  /\ pc = "clear" => flags.force
  /\ "write" \notin disturbed =>
       /\ pc \in {"validate", "empty", "users", "stop", "clear"} => vol = before.vol
       /\ pc \in {"users", "stop"} /\ seen.empty => vol = Empty \/ "ls" \in faults
       /\ pc = "extract" => \A f \in Files : Cleared(f)
       /\ pc \in {"users", "stop", "extract"} /\ ~flags.force => before.vol = Empty \/ "ls" \in faults

\* The containers that ran are known before they are stopped, and stay stopped until the
\* restart.
Stopping ==
  /\ pc \in {"stop", "clear", "extract", "restart"} => seen.all = Containers
  /\ faults \cap {"stop", "start", "crash"} = {} /\ "containers" \notin disturbed =>
       /\ pc \notin {"clear", "extract", "restart"} => running = before.running
       /\ pc \in {"clear", "extract", "restart"} => running = {}
       /\ pc \in {"stop", "clear", "extract", "restart"} => seen.run = before.running

\* The part of the archive written so far has the files of the volume.
Streaming ==
  pc \in {"stream", "meta"} /\ "write" \notin disturbed =>
    /\ vol = before.vol
    /\ \A f \in Files \ unread : archive[base].data[f] = vol[f]

Inv ==
  /\ TypeOK /\ Control /\ Overwriting /\ Stopping /\ Streaming
  /\ RestoreGivesTheArchive /\ SidecarMeansComplete /\ SnapshotIsFaithful

-----------------------------------------------------------------------------
(***************************************************************************)
(* File names                                                              *)
(***************************************************************************)
\* Cutting the last part of a name of three and adding another.
LEMMA LastReplaced ==
  ASSUME NEW x, NEW y, NEW z, NEW w
  PROVE  SubSeq(<<x, y, z>>, 1, 2) \o <<w>> = <<x, y, w>>
<1> DEFINE S == {x, y, w}
           t == <<x, y, z>>
           u == SubSeq(t, 1, 2)
           v == <<w>>
<1>1. \A i \in 1..2 : t[i] \in S
  BY SMTT(30)
<1>2. u \in Seq(S) /\ Len(u) = 2 /\ \A i \in 1..2 : u[i] = t[1 + i - 1]
  BY SMTT(30), <1>1, SubSeqProperties
<1>3. v \in Seq(S) /\ Len(v) = 1 /\ v[1] = w
  BY SMTT(30)
<1>4. t[1] = x /\ t[2] = y /\ <<x, y, w>> \in Seq(S)
  BY SMTT(30)
<1> HIDE DEF S, t, u, v
<1>5. /\ u \o v \in Seq(S) /\ Len(u \o v) = 3
      /\ \A i \in 1..3 : (u \o v)[i] = IF i <= 2 THEN u[i] ELSE v[i - 2]
  BY SMTT(30), <1>2, <1>3, ConcatProperties
<1>6. \A i \in 1..3 : (u \o v)[i] = <<x, y, w>>[i]
  BY SMTT(30), <1>2, <1>3, <1>4, <1>5
<1>7. u \o v = <<x, y, w>>
  BY <1>4, <1>5, <1>6, SeqEqual
<1> QED BY <1>7 DEF t, u, v

\* Sidecars of different snapshots have different names, and the name under which
\* restore looks for one is none of them.
LEMMA Names ==
  /\ \A b, c \in Bases : JsonPath(b) = JsonPath(c) => b = c
  /\ \A b \in Bases : JsonPath(b) \in JsonPaths
  /\ \A b \in Snapshots : Sidecar(TarPath(b)) = <<b, "tar", "json">>
  /\ \A b \in Snapshots : Sidecar(TarPath(b)) \in JsonPaths
  /\ \A b \in Snapshots, c \in Bases : Sidecar(TarPath(b)) # JsonPath(c)
<1>1. \A b, c \in Bases : JsonPath(b) = JsonPath(c) => b = c
  BY DEF JsonPath
<1>2. \A b \in Bases : JsonPath(b) \in JsonPaths
  BY DEF JsonPaths
<1>3. ASSUME NEW b \in Snapshots PROVE Sidecar(TarPath(b)) = <<b, "tar", "json">>
  <2>1. TarPath(b) = <<b, "tar", "zst">>
    BY SnapshotAssumption DEF TarPath
  <2>2. SubSeq(<<b, "tar", "zst">>, 1, 2) \o <<"json">> = <<b, "tar", "json">>
    BY LastReplaced
  <2> QED BY SMTT(30), <2>1, <2>2 DEF Sidecar
<1>4. \A b \in Snapshots : Sidecar(TarPath(b)) \in JsonPaths
  BY <1>3 DEF JsonPaths, Bases
<1>5. \A b \in Snapshots, c \in Bases : <<b, "tar", "json">> # JsonPath(c)
  BY DEF JsonPath
<1> QED BY <1>1, <1>2, <1>3, <1>4, <1>5

\* Failures are counted within their bound.
LEMMA FailsType ==
  ASSUME TypeOK
  PROVE  /\ \A kind \in FaultKinds : Fails(kind) => faults' \subseteq FaultKinds /\ bound' \in Bounds
         /\ Succeeds => faults' \subseteq FaultKinds /\ bound' \in Bounds
         /\ \A S : AllSucceed(S) => faults' \subseteq FaultKinds /\ bound' \in Bounds
<1>1. \A kind \in FaultKinds : Fails(kind) => bound' \in Bounds
  BY SMTT(30), SnapshotAssumption DEF TypeOK, Fails, Bounds
<1>2. \A kind \in FaultKinds : Fails(kind) => faults' \subseteq FaultKinds
  BY DEF TypeOK, Fails
<1> QED BY <1>1, <1>2 DEF TypeOK, Succeeds, AllSucceed

\* Trees and archives that the commands make are trees and archives.
LEMMA Contained ==
  ASSUME TypeOK
  PROVE  /\ \A S : Keep(S) \in Trees
         /\ \A d \in Trees : Extracted(d) \in Trees /\ PartOf(d) \subseteq Trees
         /\ Empty \in Trees
         /\ \A w \in BOOLEAN, d \in Trees : Archive(w, d) \in Archives
         /\ \A b \in Bases : archive[b] # NoFile => archive[b] \in Archives /\ archive[b].data \in Trees
         /\ \A a \in Archives : a # NoFile
<1>1. vol \in Trees /\ archive \in [Bases -> Archives \cup {NoFile}]
  BY DEF TypeOK
<1>2. \A S : Keep(S) \in Trees
  BY <1>1 DEF Trees, Keep
<1>3. \A d \in Trees : Extracted(d) \in Trees
  BY <1>1 DEF Trees, Extracted
<1>4. \A d \in Trees : PartOf(d) \subseteq Trees
  BY DEF Trees, PartOf
<1>5. Empty \in Trees
  BY DEF Trees, Empty
<1>6. \A w \in BOOLEAN, d \in Trees : Archive(w, d) \in Archives
  BY DEF Archive, Archives
<1>7. \A b \in Bases : archive[b] # NoFile => archive[b] \in Archives /\ archive[b].data \in Trees
  BY <1>1 DEF Archives
<1>8. \A a \in Archives : a # NoFile
  BY SnapshotAssumption
<1> QED BY <1>2, <1>3, <1>4, <1>5, <1>6, <1>7, <1>8

ReadOnly == Validate \/ IsVolumeEmpty \/ ListUsers

\* The volume keeps its type.
LEMMA VolumeType ==
  ASSUME TypeOK, [Next]_vars
  PROVE  vol' \in Trees /\ running' \subseteq Containers
<1>0. vol \in Trees /\ running \subseteq Containers /\ archive[base].data \in Trees
      /\ seen.run \subseteq Containers
  BY Contained DEF TypeOK
<1>1. CASE Stop
  BY <1>0, <1>1 DEF Stop
<1>2. CASE ClearVolume
  BY <1>0, <1>2, Contained DEF ClearVolume
<1>3. CASE Extract
  BY <1>0, <1>3, Contained DEF Extract
<1>4. CASE Restart
  BY <1>0, <1>4 DEF Restart, ToStart
<1>5. CASE ContainerWrites
  BY <1>0, <1>5 DEF ContainerWrites, Trees
<1>6. CASE OthersChange
  BY <1>0, <1>6 DEF OthersChange
<1>7. CASE UNCHANGED volume
  BY <1>0, <1>7 DEF volume
<1>8. Snapshot \/ BeginRestore \/ ReadOnly \/ Crash \/ Cancel \/ CopySidecar \/ UNCHANGED vars => UNCHANGED volume
  BY DEF Snapshot, BeginSnapshot, StreamFile, StreamEnds, WriteMeta, BeginRestore, ReadOnly,
     Validate, IsVolumeEmpty, Found, ListUsers, Refused, Crash, Cancel, CopySidecar, vars, volume
<1> QED BY <1>1, <1>2, <1>3, <1>4, <1>5, <1>6, <1>7, <1>8 DEF Next, Restore, Finished, ReadOnly

\* The snapshots on disk keep their types.
LEMMA DiskType ==
  ASSUME TypeOK, [Next]_vars
  PROVE  /\ archive' \in [Bases -> Archives \cup {NoFile}]
         /\ json' \in [JsonPaths -> Archives \cup {NoFile, Garbled}]
         /\ damaged' \subseteq Bases /\ base' \in Bases /\ archive'[base'] # NoFile
<1>0. /\ archive \in [Bases -> Archives \cup {NoFile}]
      /\ json \in [JsonPaths -> Archives \cup {NoFile, Garbled}]
      /\ damaged \subseteq Bases /\ base \in Bases /\ archive[base] # NoFile
      /\ archive[base] \in Archives
  BY Contained DEF TypeOK
<1>1. CASE BeginSnapshot
  <2>1. Archive(FALSE, Empty) \in Archives /\ Archive(FALSE, Empty) # NoFile
    BY Contained
  <2> QED BY <1>0, <1>1, <2>1 DEF BeginSnapshot, Bases
<1>2. CASE StreamFile
  <2>1. PICK f \in unread : archive' = [archive EXCEPT ![base].data[f] = vol[f]]
    BY <1>2 DEF StreamFile
  <2>2. archive' = [archive EXCEPT ![base] = [archive[base] EXCEPT !.data = [archive[base].data EXCEPT ![f] = vol[f]]]]
    BY <2>1, <1>0 DEF Archives
  <2>3. [archive[base] EXCEPT !.data = [archive[base].data EXCEPT ![f] = vol[f]]] \in Archives
    BY <1>0 DEF Archives, Trees, TypeOK
  <2>4. archive' \in [Bases -> Archives \cup {NoFile}] /\ archive'[base] # NoFile
    BY <1>0, <2>2, <2>3, Contained
  <2> QED BY <1>0, <1>2, <2>4 DEF StreamFile
<1>3. CASE StreamEnds
  <2>1. [archive[base] EXCEPT !.whole = TRUE] \in Archives
    BY <1>0 DEF Archives
  <2>2. ASSUME archive' = [archive EXCEPT ![base].whole = TRUE]
        PROVE  archive' \in [Bases -> Archives \cup {NoFile}] /\ archive'[base] # NoFile
    BY <1>0, <2>1, <2>2, Contained
  <2> QED BY <1>0, <1>3, <2>2 DEF StreamEnds, locals
<1>4. CASE WriteMeta
  BY <1>0, <1>4, Names DEF WriteMeta, MetaOf, Checksum, locals
<1>5. CASE BeginRestore
  BY <1>0, <1>5 DEF BeginRestore, Existing, disk
<1>6. CASE OthersChange
  <2>1. CASE UNCHANGED disk
    BY <1>0, <1>6, <2>1 DEF OthersChange, locals, disk
  <2>2. ASSUME NEW b \in Bases, archive[b] # NoFile, NEW d \in PartOf(archive[b].data),
               archive' = [archive EXCEPT ![b] = Archive(FALSE, d)], damaged' = damaged \cup {b}, UNCHANGED json
        PROVE  /\ archive' \in [Bases -> Archives \cup {NoFile}] /\ archive'[base] # NoFile
               /\ damaged' \subseteq Bases /\ json' = json
    <3>1. Archive(FALSE, d) \in Archives /\ Archive(FALSE, d) # NoFile
      BY <2>2, Contained
    <3> QED BY <1>0, <2>2, <3>1
  <2> QED BY <1>0, <1>6, <2>1, <2>2 DEF OthersChange, locals
<1>7. CASE CopySidecar
  BY <1>0, <1>7, Names DEF CopySidecar, locals, Bases
<1>8. CASE UNCHANGED <<archive, json, damaged, base>>
  BY <1>0, <1>8
<1>9. ReadOnly \/ Stop \/ ClearVolume \/ Extract \/ Restart \/ Crash \/ Cancel \/ ContainerWrites \/ UNCHANGED vars
        => UNCHANGED <<archive, json, damaged, base>>
  BY DEF ReadOnly, Validate, IsVolumeEmpty, Found, ListUsers, Refused, Stop, ClearVolume, Extract,
     Restart, Crash, Cancel, ContainerWrites, vars, disk, locals
<1> QED BY <1>1, <1>2, <1>3, <1>4, <1>5, <1>6, <1>7, <1>8, <1>9 DEF Next, Snapshot, Restore,
   Finished, ReadOnly

\* The locals of the command keep their types.
LEMMA LocalsType ==
  ASSUME TypeOK, [Next]_vars
  PROVE  /\ flags' \in [force : BOOLEAN, stop : BOOLEAN]
         /\ seen' \in [empty : BOOLEAN, all : SUBSET Containers, run : SUBSET Containers]
         /\ unread' \subseteq Files
         /\ before' \in [vol : Trees, running : SUBSET Containers]
<1>0. /\ flags \in [force : BOOLEAN, stop : BOOLEAN]
      /\ seen \in [empty : BOOLEAN, all : SUBSET Containers, run : SUBSET Containers]
      /\ unread \subseteq Files
      /\ before \in [vol : Trees, running : SUBSET Containers]
      /\ vol \in Trees /\ running \subseteq Containers
  BY DEF TypeOK
<1>1. CASE BeginSnapshot
  BY <1>0, <1>1 DEF BeginSnapshot, Begin
<1>2. CASE StreamFile
  BY <1>0, <1>2 DEF StreamFile
<1>3. CASE BeginRestore
  BY <1>0, <1>3 DEF BeginRestore, Begin
<1>4. CASE IsVolumeEmpty
  <2>1. \A e \in BOOLEAN :
          [seen EXCEPT !.empty = e] \in [empty : BOOLEAN, all : SUBSET Containers, run : SUBSET Containers]
    BY <1>0
  <2> QED BY <1>0, <1>4, <2>1 DEF IsVolumeEmpty, Found, Refused, locals
<1>5. CASE ListUsers
  <2>1. [seen EXCEPT !.all = Containers, !.run = running] \in [empty : BOOLEAN, all : SUBSET Containers, run : SUBSET Containers]
    BY <1>0
  <2> QED BY <1>0, <1>5, <2>1 DEF ListUsers, Refused, locals
<1>6. CASE UNCHANGED locals
  BY <1>0, <1>6 DEF locals
<1>7. StreamEnds \/ WriteMeta \/ Validate \/ Stop \/ ClearVolume \/ Extract \/ Restart \/ Crash \/ Cancel
        \/ ContainerWrites \/ OthersChange \/ CopySidecar \/ UNCHANGED vars
        => UNCHANGED locals
  BY DEF StreamEnds, WriteMeta, Validate, Refused, Stop, ClearVolume, Extract, Restart, Crash,
     Cancel, ContainerWrites, OthersChange, CopySidecar, vars, locals
<1> QED BY <1>1, <1>2, <1>3, <1>4, <1>5, <1>6, <1>7 DEF Next, Snapshot, Restore, Finished

\* The control of the command keeps its type.
LEMMA FlowType ==
  ASSUME TypeOK, [Next]_vars
  PROVE  /\ pc' \in {"idle", "stream", "meta", "validate", "empty", "users", "stop", "clear", "extract", "restart"}
         /\ cancelled' \in BOOLEAN
         /\ result' \in {"none", "snapshot", "restored", "error"}
         /\ disturbed' \subseteq {"write", "containers"}
<1>0. /\ pc \in {"idle", "stream", "meta", "validate", "empty", "users", "stop", "clear", "extract", "restart"}
      /\ result \in {"none", "snapshot", "restored", "error"}
      /\ disturbed \subseteq {"write", "containers"}
  BY DEF TypeOK
<1>1. cancelled' \in BOOLEAN
  <2>1. cancelled' \in {cancelled, TRUE, FALSE}
    BY DEF Next, Snapshot, Restore, Finished, BeginSnapshot, StreamFile, StreamEnds, WriteMeta,
       BeginRestore, Begin,
       Validate, IsVolumeEmpty, Found, ListUsers, Stop, ClearVolume, Extract, Restart, Crash, Cancel,
       ContainerWrites, OthersChange, CopySidecar, vars
  <2> QED BY <2>1, Zenon DEF TypeOK
<1>2. Snapshot => pc' \in {"idle", "stream", "meta"} /\ result' \in {result, "none", "snapshot", "error"}
                  /\ disturbed' \in {disturbed, {}}
  BY <1>0 DEF Snapshot, BeginSnapshot, Begin, StreamFile, StreamEnds, WriteMeta, End
<1>3. Restore => /\ pc' \in {"idle", "validate", "empty", "users", "stop", "clear", "extract", "restart"}
                 /\ result' \in {result, "none", "restored", "error"}
                 /\ disturbed' \in {disturbed, {}}
  BY DEF Restore, BeginRestore, Begin, Validate, IsVolumeEmpty, Found, ListUsers, Refused, Stop,
     ClearVolume, Extract, Restart, End
<1>4. Crash \/ Cancel \/ ContainerWrites \/ OthersChange \/ CopySidecar \/ UNCHANGED vars =>
        /\ pc' \in {pc, "idle"} /\ result' \in {result, "error"}
        /\ disturbed' \in {disturbed, disturbed \cup {"write"}, disturbed \cup {"containers"}}
  BY DEF Crash, Cancel, ContainerWrites, OthersChange, CopySidecar, End, vars
<1> QED BY <1>0, <1>1, <1>2, <1>3, <1>4 DEF Next, Finished

\* The counters keep their types.
LEMMA CountType ==
  ASSUME TypeOK, [Next]_vars
  PROVE  faults' \subseteq FaultKinds /\ bound' \in Bounds
<1>0. faults \subseteq FaultKinds /\ bound \in Bounds
  BY DEF TypeOK
<1>k. {"stream", "meta", "check", "ls", "stop", "rm", "clear", "zstd", "extract", "start", "crash"}
        \subseteq FaultKinds
  BY DEF FaultKinds
<1>1. Snapshot => faults' \subseteq FaultKinds /\ bound' \in Bounds
  BY <1>0, <1>k, FailsType DEF Snapshot, BeginSnapshot, Begin, StreamFile, StreamEnds, WriteMeta
<1>2. CASE BeginRestore
  BY SMTT(30), <1>0, <1>2, SnapshotAssumption DEF BeginRestore, Begin, Bounds
<1>3. ReadOnly => faults' \subseteq FaultKinds /\ bound' \in Bounds
  BY <1>k, FailsType DEF ReadOnly, Validate, IsVolumeEmpty, Found, ListUsers
<1>4. Stop \/ ClearVolume \/ Extract \/ Restart \/ Crash => faults' \subseteq FaultKinds /\ bound' \in Bounds
  BY <1>k, FailsType DEF Stop, ClearVolume, Extract, Restart, Crash
<1>5. CASE ContainerWrites
  BY SMTT(30), <1>0, <1>5, SnapshotAssumption DEF ContainerWrites, Bounds
<1>6. CASE OthersChange
  BY SMTT(30), <1>0, <1>6, SnapshotAssumption DEF OthersChange, Bounds
<1>7. Cancel \/ CopySidecar \/ UNCHANGED vars => UNCHANGED <<faults, bound>>
  BY DEF Cancel, CopySidecar, vars
<1> QED BY <1>0, <1>1, <1>2, <1>3, <1>4, <1>5, <1>6, <1>7 DEF Next, Restore, ReadOnly, Finished

\* Every step keeps the types.
LEMMA TypeInv == TypeOK /\ [Next]_vars => TypeOK'
BY VolumeType, DiskType, LocalsType, FlowType, CountType DEF TypeOK

(***************************************************************************)
(* Each part of the invariant is preserved: first the steps it is about,   *)
(* then those that leave it alone.                                         *)
(***************************************************************************)
\* Restore looks at the volume before it writes, and ContainerWrites is recorded.
LEMMA OverwritingInv ==
  ASSUME Inv, [Next]_vars
  PROVE  Overwriting'
<1>t. TypeOK /\ TypeOK'
  BY TypeInv DEF Inv
<1>1. CASE IsVolumeEmpty
  <2>1. ASSUME NEW e \in BOOLEAN, Found(e), e => vol = Empty \/ "ls" \in faults', faults \subseteq faults'
        PROVE  Overwriting'
    BY <1>t, <1>1, <2>1 DEF Inv, TypeOK, Overwriting, IsVolumeEmpty, Found, MustForce, Refused, End,
       volume
  <2>2. CASE Fails("check") /\ Refused
    BY <2>2 DEF Overwriting, Refused, End
  <2> QED BY <1>1, <2>1, <2>2 DEF IsVolumeEmpty, Succeeds, Fails
<1>2. CASE ListUsers
  <2>1. CASE Refused
    BY <2>1 DEF Overwriting, Refused, End
  <2>2. CASE Succeeds /\ ~Refused
    BY <1>t, <1>2, <2>2 DEF Inv, TypeOK, Overwriting, ListUsers, Succeeds, volume
  <2> QED BY <1>2, <2>1, <2>2 DEF ListUsers
<1>3. CASE Stop
  <2>1. CASE pc' = "idle"
    BY <2>1 DEF Overwriting
  <2>2. CASE AllSucceed(ToStop) /\ pc' = IF MustClear THEN "clear" ELSE "extract"
    <3>1. UNCHANGED <<vol, flags, seen, before, disturbed, faults>> /\ pc = "stop"
      BY <1>3, <2>2 DEF Stop, AllSucceed, locals
    <3>2. "write" \notin disturbed /\ ~MustClear => vol = Empty \/ ("ls" \in faults /\ vol = before.vol)
      BY <3>1 DEF Inv, Overwriting, MustClear
    <3>3. "write" \notin disturbed' /\ pc' = "extract" => \A f \in Files : Cleared(f)'
      BY <2>2, <3>1, <3>2 DEF Cleared, Empty
    <3>4. pc' = "clear" => flags'.force
      BY <2>2, <3>1 DEF MustClear
    <3> QED BY <2>2, <3>1, <3>3, <3>4 DEF Inv, Overwriting
  <2> QED BY <1>3, <2>1, <2>2 DEF Stop, End
<1>4. CASE ClearVolume
  <2>1. UNCHANGED <<flags, seen, before, disturbed>> /\ pc = "clear" /\ pc' \in {"extract", "restart"}
    BY <1>4 DEF ClearVolume, locals
  <2>2. pc' = "extract" => vol' = Empty \/ ("rm" \in faults' /\ \E S \in SUBSET Files : vol' = Keep(S))
    BY <1>4 DEF ClearVolume, Fails
  <2>3. "write" \notin disturbed => vol = before.vol
    BY <2>1 DEF Inv, Overwriting
  <2>4. "write" \notin disturbed' /\ pc' = "extract" => \A f \in Files : Cleared(f)'
    BY <2>1, <2>2, <2>3 DEF Cleared, Empty, Keep
  <2> QED BY <2>1, <2>4 DEF Inv, Overwriting
<1>5. CASE Extract
  BY <1>5 DEF Overwriting, Extract
<1>6. CASE ContainerWrites
  BY <1>t, <1>6 DEF Inv, TypeOK, Overwriting, ContainerWrites, locals
<1>7. CASE OthersChange
  BY <1>t, <1>7 DEF Inv, TypeOK, Overwriting, Cleared, OthersChange, locals
<1>8. CASE Snapshot \/ Restart \/ Crash \/ Cancel \/ CopySidecar \/ UNCHANGED vars
  <2>1. \/ pc' \in {"idle", "stream", "meta"}
        \/ UNCHANGED <<pc, vol, flags, seen, before, disturbed, faults>>
    BY <1>8 DEF Snapshot, BeginSnapshot, StreamFile, StreamEnds, WriteMeta, Restart, Crash, Cancel,
       CopySidecar, End, vars, volume, locals
  <2> QED BY <2>1 DEF Inv, Overwriting, Cleared
<1>9. CASE BeginRestore
  <2>1. pc' = "validate" /\ vol' = vol /\ before' = [vol |-> vol, running |-> running]
    BY <1>9 DEF BeginRestore, Begin, volume
  <2> QED BY <2>1 DEF Overwriting
<1>10. CASE Validate
  <2>1. pc' = "idle" \/ (pc = "validate" /\ pc' = "empty" /\ UNCHANGED <<vol, before, disturbed>>)
    BY <1>10 DEF Validate, Refused, End, volume, locals
  <2> QED BY <2>1 DEF Inv, Overwriting
<1> QED BY <1>1, <1>2, <1>3, <1>4, <1>5, <1>6, <1>7, <1>8, <1>9, <1>10 DEF Next, Restore, Finished

\* The containers are listed, stopped and started again.
LEMMA StoppingInv ==
  ASSUME Inv, [Next]_vars
  PROVE  Stopping'
<1>t. TypeOK /\ TypeOK'
  BY TypeInv DEF Inv
<1>1. CASE BeginSnapshot \/ BeginRestore
  <2>1. pc' \in {"stream", "validate"} /\ running' = running /\ before' = [vol |-> vol, running |-> running]
    BY <1>1 DEF BeginSnapshot, BeginRestore, Begin, volume
  <2> QED BY <2>1 DEF Stopping
<1>2. CASE ListUsers
  <2>1. CASE Refused
    BY <1>2, <2>1 DEF Inv, Stopping, ListUsers, Refused, End, Succeeds, Fails, volume, locals
  <2>2. CASE Succeeds /\ pc' = "stop" /\ seen' = [seen EXCEPT !.all = Containers, !.run = running]
             /\ UNCHANGED <<running, before>>
    <3>1. seen'.all = Containers /\ seen'.run = running
      BY <1>t, <2>2 DEF TypeOK
    <3> QED BY <1>2, <2>2, <3>1 DEF Inv, Stopping, ListUsers, Succeeds
  <2> QED BY <1>2, <2>1, <2>2 DEF ListUsers, volume
<1>3. CASE Stop
  BY <1>t, <1>3 DEF Inv, TypeOK, Stopping, Stop, ToStop, AllSucceed, Fails, MustClear, End, locals
<1>4. CASE ClearVolume \/ Extract
  <2>1. /\ pc \in {"clear", "extract"} /\ pc' \in {"extract", "restart"} /\ faults \subseteq faults'
        /\ UNCHANGED <<running, seen, before, disturbed>>
    BY <1>4 DEF ClearVolume, Extract, Succeeds, Fails, locals
  <2> QED BY <2>1 DEF Inv, Stopping
<1>5. CASE Restart
  <2>1. CASE AllSucceed(ToStart) /\ running' = running \cup ToStart
    BY <1>5, <2>1 DEF Inv, Stopping, Restart, AllSucceed, ToStart, locals
  <2>2. CASE Fails("start")
    BY <1>5, <2>2 DEF Stopping, Restart, Fails
  <2> QED BY <1>5, <2>1, <2>2 DEF Restart
<1>6. CASE Crash
  BY <1>6 DEF Stopping, Crash, Fails, End
<1>7. CASE OthersChange
  <2>1. \/ "containers" \in disturbed'
        \/ UNCHANGED <<running, disturbed>>
    BY <1>7 DEF OthersChange
  <2> QED BY <1>7, <2>1 DEF Inv, Stopping, OthersChange, locals
<1>8. CASE ContainerWrites
  BY <1>8 DEF Inv, Stopping, ContainerWrites, locals
<1>9. CASE StreamFile \/ StreamEnds \/ WriteMeta \/ Validate \/ IsVolumeEmpty
  <2>1. /\ pc \in {"stream", "meta", "validate", "empty"} /\ pc' \in {"idle", "stream", "meta", "empty", "users"}
        /\ faults \subseteq faults' /\ UNCHANGED <<running, before, disturbed>>
    BY <1>9 DEF StreamFile, StreamEnds, WriteMeta, Validate, IsVolumeEmpty, Found, Refused, End, Succeeds,
       Fails, volume, locals
  <2> QED BY <2>1 DEF Inv, Stopping
<1>10. CASE Cancel \/ CopySidecar \/ UNCHANGED vars
  BY <1>10 DEF Inv, Stopping, Cancel, CopySidecar, vars, volume, locals
<1> QED BY <1>1, <1>2, <1>3, <1>4, <1>5, <1>6, <1>7, <1>8, <1>9, <1>10 DEF Next, Snapshot, Restore,
   Finished

\* The archive follows the volume file by file.
LEMMA StreamingInv ==
  ASSUME Inv, [Next]_vars
  PROVE  Streaming'
<1>t. TypeOK /\ archive[base] \in Archives /\ archive[base].data \in Trees /\ base \in Bases
  BY Contained DEF Inv, TypeOK
<1>1. CASE BeginSnapshot
  BY <1>1 DEF Streaming, BeginSnapshot, Begin, volume
<1>2. CASE StreamFile
  <2>1. PICK f \in unread : archive' = [archive EXCEPT ![base].data[f] = vol[f]] /\ unread' = unread \ {f}
    BY <1>2 DEF StreamFile
  <2>2. archive'[base].data = [archive[base].data EXCEPT ![f] = vol[f]]
    BY <1>t, <2>1 DEF TypeOK, Archives
  <2>3. \A g \in Files : archive'[base].data[g] = IF g = f THEN vol[g] ELSE archive[base].data[g]
    BY <1>t, <2>2 DEF Trees
  <2> QED BY <1>2, <2>1, <2>3 DEF Inv, Streaming, StreamFile, volume
<1>3. CASE StreamEnds
  <2>1. archive' = [archive EXCEPT ![base].whole = TRUE] => archive'[base].data = archive[base].data
    BY SMTT(30), <1>t DEF TypeOK, Archives
  <2> QED BY <1>3, <2>1 DEF Inv, Streaming, StreamEnds, End, volume, locals
<1>4. CASE ContainerWrites
  BY <1>4 DEF Streaming, ContainerWrites
<1>5. CASE WriteMeta \/ Restore \/ Crash \/ Cancel \/ OthersChange \/ CopySidecar \/ UNCHANGED vars
  <2>1. \/ pc' \notin {"stream", "meta"}
        \/ UNCHANGED <<pc, vol, before, disturbed, archive, base, unread>>
        \/ UNCHANGED <<pc, vol, before, archive, base, unread>> /\ disturbed \subseteq disturbed'
    BY <1>5 DEF WriteMeta, Restore, BeginRestore, Validate, IsVolumeEmpty, Found, ListUsers, Refused,
       Stop, ClearVolume, Extract,
       Restart, Crash, Cancel, OthersChange, CopySidecar, End, vars, volume, disk, locals
  <2> QED BY <2>1 DEF Inv, Streaming
<1> QED BY <1>1, <1>2, <1>3, <1>4, <1>5 DEF Next, Snapshot, Finished

\* Commands begin and end, and a sidecar is written once, for the archive just completed.
LEMMA ControlInv ==
  ASSUME Inv, [Next]_vars
  PROVE  Control'
<1>t. /\ TypeOK /\ archive[base] \in Archives /\ base \in Bases /\ archive[base] # NoFile
      /\ Snapshots \subseteq Bases
      /\ json \in [JsonPaths -> Archives \cup {NoFile, Garbled}]
      /\ archive \in [Bases -> Archives \cup {NoFile}]
  BY Contained DEF Inv, TypeOK, Bases
<1>1. CASE BeginSnapshot
  <2>1. PICK b \in Snapshots : /\ archive[b] = NoFile /\ base' = b
                               /\ archive' = [archive EXCEPT ![b] = Archive(FALSE, Empty)]
    BY <1>1 DEF BeginSnapshot
  <2>2. \A c \in Snapshots : archive'[c] = NoFile => archive[c] = NoFile
    BY <1>t, <2>1
  <2> QED BY <1>1, <2>1, <2>2 DEF Inv, Control, BeginSnapshot, Begin
<1>2. CASE StreamFile
  <2>1. \A c \in Bases : archive'[c] = NoFile => archive[c] = NoFile
    <3>1. archive'[base] # NoFile
      BY <1>2, DiskType DEF Inv, StreamFile
    <3> QED BY <1>t, <1>2, <3>1 DEF StreamFile
  <2> QED BY <1>t, <1>2, <2>1 DEF Inv, Control, StreamFile, Succeeds
<1>3. CASE StreamEnds
  <2>1. \A c \in Bases : archive'[c] = NoFile => archive[c] = NoFile
    <3>1. archive'[base] # NoFile
      BY <1>3, DiskType DEF Inv, StreamEnds, locals
    <3> QED BY <1>t, <1>3, <3>1 DEF StreamEnds
  <2>2. archive' = [archive EXCEPT ![base].whole = TRUE] => archive'[base].whole
    BY <1>t DEF Archives
  <2> QED BY <1>t, <1>3, <2>1, <2>2 DEF Inv, Control, StreamEnds, AtTheEnd, Succeeds, End, locals
<1>4. CASE WriteMeta
  <2>1. \A c \in Bases : c # base => json'[JsonPath(c)] = json[JsonPath(c)]
    BY <1>t, <1>4, Names DEF WriteMeta
  <2> QED BY <1>t, <1>4, <2>1 DEF Inv, Control, WriteMeta, End
<1>5. CASE OthersChange
  <2>1. \A c \in Bases : archive'[c] = NoFile => archive[c] = NoFile
    <3>1. ASSUME NEW b \in Bases, archive[b] # NoFile, NEW d \in PartOf(archive[b].data),
                 archive' = [archive EXCEPT ![b] = Archive(FALSE, d)]
          PROVE  \A c \in Bases : archive'[c] = NoFile => archive[c] = NoFile
      <4>1. Archive(FALSE, d) # NoFile
        BY <1>t, <3>1, Contained
      <4> QED BY <1>t, <3>1, <4>1
    <3> QED BY <1>5, <3>1 DEF OthersChange, disk
  <2>2. pc' = "idle" \/ UNCHANGED <<archive, json>>
    BY <1>5 DEF OthersChange, disk
  <2>3. json' = json
    BY <1>5 DEF OthersChange, disk
  <2> QED BY <1>t, <1>5, <2>1, <2>2, <2>3 DEF Inv, Control, OthersChange, locals
<1>6. CASE CopySidecar
  <2>1. \A c \in Bases : json'[JsonPath(c)] = json[JsonPath(c)]
    BY <1>t, <1>6, Names DEF CopySidecar
  <2> QED BY <1>t, <1>6, <2>1 DEF Inv, Control, CopySidecar, locals
<1>7. CASE Restore \/ Crash
  <2>1. /\ pc' \notin {"stream", "meta"} /\ UNCHANGED <<archive, json>>
        /\ pc' \notin {"idle", "restart"} => result' \in {result, "none"} /\ pc # "restart"
        /\ pc' # "idle" => faults' \subseteq faults \cup {"check", "ls", "rm", "clear", "zstd", "extract"}
        /\ pc = "idle" /\ pc' # "idle" => result' = "none" /\ faults' = {}
    BY <1>7 DEF Restore, BeginRestore, Begin, Validate, IsVolumeEmpty, Found, ListUsers, Refused, Stop,
       ClearVolume, Extract, Restart, Crash, Succeeds, AllSucceed, Fails, End, disk
  <2> QED BY <2>1 DEF Inv, Control
<1>8. CASE Cancel \/ ContainerWrites \/ UNCHANGED vars
  BY <1>8 DEF Inv, Control, Cancel, ContainerWrites, vars, disk, locals
<1> QED BY <1>1, <1>2, <1>3, <1>4, <1>5, <1>6, <1>7, <1>8 DEF Next, Snapshot, Finished

\* Extracting into an empty volume gives the archive.
LEMMA RestoredInv ==
  ASSUME Inv, [Next]_vars
  PROVE  RestoreGivesTheArchive'
<1>t. /\ TypeOK /\ archive \in [Bases -> Archives \cup {NoFile}] /\ base \in Bases
      /\ archive[base].data \in Trees
  BY Contained DEF Inv, TypeOK
<1>1. CASE Extract
  <2>1. /\ UNCHANGED <<archive, base, before, disturbed>> /\ pc = "extract"
        /\ faults \subseteq faults'
    BY <1>1 DEF Extract, Succeeds, Fails, disk, locals
  <2> SUFFICES ASSUME result' = "restored", "write" \notin disturbed, NEW f \in Files
        PROVE  \/ vol'[f] = archive[base].data[f]
               \/ (archive[base].data[f] = Absent \/ "zstd" \in faults') /\ Cleared(f)'
    BY <2>1 DEF RestoreGivesTheArchive
  <2>2. Cleared(f) /\ (vol'[f] = vol[f] => Cleared(f)')
    BY <2>1 DEF Inv, Overwriting, Cleared
  <2>3. CASE vol' = Extracted(archive[base].data)
    BY <2>2, <2>3 DEF Extracted
  <2>4. CASE "zstd" \in faults' /\ \E d \in PartOf(archive[base].data) : vol' = Extracted(d)
    BY <2>2, <2>4 DEF Extracted, PartOf
  <2> QED BY <1>1, <2>3, <2>4 DEF Extract, Fails
<1>2. CASE OthersChange
  <2>1. ASSUME NEW b \in Bases, NEW d, archive' = [archive EXCEPT ![b] = Archive(FALSE, d)], archive'[base].whole
        PROVE  archive'[base] = archive[base]
    BY <1>t, <2>1 DEF Archive
  <2>2. archive'[base].whole => archive'[base] = archive[base]
    BY <1>2, <2>1 DEF OthersChange, disk
  <2>3. "write" \in disturbed => "write" \in disturbed'
    BY <1>2 DEF OthersChange
  <2> QED BY <1>2, <2>2, <2>3 DEF Inv, RestoreGivesTheArchive, Cleared, OthersChange, locals
<1>3. CASE ContainerWrites
  BY <1>3 DEF RestoreGivesTheArchive, ContainerWrites
<1>4. CASE Restart \/ Cancel \/ CopySidecar \/ UNCHANGED vars
  <2>1. UNCHANGED <<vol, archive, base, before, result, disturbed>> /\ faults \subseteq faults'
    BY <1>4 DEF Restart, AllSucceed, Fails, Cancel, CopySidecar, vars, volume, disk, locals
  <2> QED BY <2>1 DEF Inv, RestoreGivesTheArchive, Cleared
<1>5. CASE Snapshot \/ BeginRestore \/ ReadOnly \/ Stop \/ ClearVolume \/ Crash
  <2>1. result' # "restored"
    BY <1>5 DEF Inv, Control, Snapshot, BeginSnapshot, Begin, StreamFile, StreamEnds, WriteMeta,
       BeginRestore, ReadOnly,
       Validate, IsVolumeEmpty, Found, ListUsers, Refused, Stop, ClearVolume, Crash, End
  <2> QED BY <2>1 DEF RestoreGivesTheArchive
<1> QED BY <1>1, <1>2, <1>3, <1>4, <1>5 DEF Next, Restore, ReadOnly, Finished

\* A sidecar is written for a complete archive, which then only damage changes.
LEMMA SidecarInv ==
  ASSUME Inv, [Next]_vars
  PROVE  SidecarMeansComplete'
<1>t. /\ base \in Bases /\ Snapshots \subseteq Bases /\ archive[base] \in Archives
      /\ json \in [JsonPaths -> Archives \cup {NoFile, Garbled}]
      /\ archive \in [Bases -> Archives \cup {NoFile}]
  BY Contained DEF Inv, TypeOK, Bases
<1> SUFFICES ASSUME NEW b \in Snapshots, b \notin damaged', json'[JsonPath(b)] \notin {NoFile, Garbled}
             PROVE  archive'[b].whole /\ json'[JsonPath(b)] = archive'[b]
  BY DEF SidecarMeansComplete, Checksum
<1>i. b \notin damaged /\ json[JsonPath(b)] \notin {NoFile, Garbled} => archive[b].whole /\ json[JsonPath(b)] = archive[b]
  BY DEF Inv, SidecarMeansComplete, Checksum
<1>1. CASE BeginSnapshot
  <2>1. \A c \in Bases : archive[c] # NoFile => archive'[c] = archive[c]
    BY <1>t, <1>1 DEF BeginSnapshot
  <2> QED BY <1>t, <1>i, <1>1, <2>1 DEF Inv, Control, BeginSnapshot
<1>2. CASE StreamFile \/ StreamEnds
  <2>1. json' = json /\ damaged' = damaged /\ pc = "stream"
    BY <1>2 DEF StreamFile, StreamEnds
  <2>2. b # base
    BY <2>1 DEF Inv, Control
  <2>3. archive'[b] = archive[b]
    BY <1>t, <1>2, <2>2 DEF StreamFile, StreamEnds
  <2> QED BY <1>i, <2>1, <2>3
<1>3. CASE WriteMeta
  <2>1. CASE b = base
    <3>1. json'[JsonPath(b)] = archive[base]
      BY <1>t, <1>3, <2>1, Names DEF WriteMeta, MetaOf, Checksum
    <3> QED BY <1>3, <2>1, <3>1 DEF Inv, Control, WriteMeta
  <2>2. CASE b # base
    <3>1. json'[JsonPath(b)] = json[JsonPath(b)]
      BY <1>t, <1>3, <2>2, Names DEF WriteMeta
    <3> QED BY <1>3, <1>i, <3>1 DEF WriteMeta
  <2> QED BY <2>1, <2>2
<1>4. CASE OthersChange
  <2>1. json' = json /\ b \notin damaged /\ archive'[b] = archive[b]
    BY <1>t, <1>4 DEF OthersChange, disk
  <2> QED BY <1>i, <2>1
<1>5. CASE CopySidecar
  <2>1. json'[JsonPath(b)] = json[JsonPath(b)]
    BY <1>t, <1>5, Names DEF CopySidecar
  <2> QED BY <1>5, <1>i, <2>1 DEF CopySidecar
<1>6. CASE Restore \/ Crash \/ Cancel \/ ContainerWrites \/ UNCHANGED vars
  <2>1. UNCHANGED disk
    BY <1>6 DEF Restore, BeginRestore, Validate, IsVolumeEmpty, Found, ListUsers, Refused, Stop,
       ClearVolume, Extract, Restart, Crash, Cancel, ContainerWrites, vars
  <2> QED BY <1>i, <2>1 DEF disk
<1> QED BY <1>1, <1>2, <1>3, <1>4, <1>5, <1>6 DEF Next, Snapshot, Finished

\* A snapshot is reported when the last file is in the archive.
LEMMA FaithfulInv ==
  ASSUME Inv, [Next]_vars
  PROVE  SnapshotIsFaithful'
<1>t. /\ base \in Bases /\ archive \in [Bases -> Archives \cup {NoFile}]
      /\ archive[base].data \in Trees /\ vol \in Trees
  BY Contained DEF Inv, TypeOK
<1>1. CASE WriteMeta
  <2>1. pc = "meta" /\ unread = {}
    BY <1>1 DEF Inv, Control, WriteMeta
  <2>2. (\A f \in Files : archive[base].data[f] = vol[f]) => archive[base].data = vol
    BY SMTT(30), <1>t DEF Trees
  <2> QED BY <1>1, <2>1, <2>2 DEF Inv, Streaming, SnapshotIsFaithful, WriteMeta, locals
<1>2. CASE OthersChange
  <2>1. base \notin damaged' => archive'[base] = archive[base] /\ base \notin damaged
    BY <1>t, <1>2 DEF OthersChange, disk
  <2>2. disturbed \subseteq disturbed'
    BY <1>2 DEF OthersChange
  <2> QED BY <1>2, <2>1, <2>2 DEF Inv, SnapshotIsFaithful, OthersChange, locals
<1>3. CASE Restart \/ Cancel \/ CopySidecar \/ ContainerWrites \/ UNCHANGED vars
  <2>1. UNCHANGED <<archive, base, before, result, damaged>> /\ disturbed \subseteq disturbed'
    BY <1>3 DEF Restart, Cancel, CopySidecar, ContainerWrites, vars, disk, locals
  <2> QED BY <2>1 DEF Inv, SnapshotIsFaithful
<1>4. CASE BeginSnapshot \/ StreamFile \/ StreamEnds \/ BeginRestore \/ ReadOnly \/ Stop \/ ClearVolume \/ Extract \/ Crash
  <2>1. result' # "snapshot"
    BY <1>4 DEF Inv, Control, BeginSnapshot, Begin, StreamFile, StreamEnds, BeginRestore, ReadOnly,
       Validate, IsVolumeEmpty, Found, ListUsers, Refused, Stop, ClearVolume, Extract, Crash, End
  <2> QED BY <2>1 DEF SnapshotIsFaithful
<1> QED BY <1>1, <1>2, <1>3, <1>4 DEF Next, Snapshot, Restore, ReadOnly, Finished

\* The initial states satisfy the invariant.
LEMMA InitInv == Init => Inv
<1> SUFFICES ASSUME Init PROVE Inv
  OBVIOUS
<1> USE SnapshotAssumption DEF Init
<1>1. PICK t \in Trees : archive = [b \in Bases |-> IF b = UserTar THEN Archive(TRUE, t) ELSE NoFile]
  OBVIOUS
<1>2. Archive(TRUE, t) \in Archives
  BY DEF Archive, Archives
<1>3. archive \in [Bases -> Archives \cup {NoFile}] /\ UserTar \in Bases /\ archive[UserTar] # NoFile
  BY <1>1, <1>2 DEF Bases
<1>4. cancelled \in BOOLEAN
  OBVIOUS
<1>5. bound \in Bounds
  BY SMTT(30) DEF Bounds
<1>6. TypeOK
  BY <1>3, <1>4, <1>5 DEF TypeOK
<1>7. \A b \in Bases : json[JsonPath(b)] = NoFile
  BY Names
<1>8. Snapshots \subseteq Bases
  BY DEF Bases
<1>9. Control /\ Overwriting /\ Stopping /\ Streaming
  BY <1>7, <1>8 DEF Control, Overwriting, Stopping, Streaming
<1>10. RestoreGivesTheArchive /\ SidecarMeansComplete /\ SnapshotIsFaithful
  BY <1>7, <1>8 DEF RestoreGivesTheArchive, SidecarMeansComplete, SnapshotIsFaithful
<1> QED BY <1>6, <1>9, <1>10 DEF Inv

\* The inductive invariant holds in every reachable state.
LEMMA InvInductive == Spec => []Inv
<1>1. Inv /\ [Next]_vars => Inv'
  BY TypeInv, ControlInv, OverwritingInv, StoppingInv, StreamingInv, RestoredInv,
     SidecarInv, FaithfulInv DEF Inv
<1> QED BY <1>1, InitInv, PTL DEF Spec

-----------------------------------------------------------------------------
(***************************************************************************)
(* Theorems                                                                *)
(***************************************************************************)
\* The type invariant: restore reads only archives that exist.
THEOREM SnapshotTypeOK == Spec => []TypeOK
<1>1. Inv => TypeOK BY DEF Inv
<1> QED BY <1>1, InvInductive, PTL

\* A successful restore leaves the files of the archive and no others, up to what failures of
\* ls, rm and zstd hide.
THEOREM RestoreCorrect == Spec => []RestoreGivesTheArchive
<1>1. Inv => RestoreGivesTheArchive BY DEF Inv
<1> QED BY <1>1, InvInductive, PTL

\* Without --force no file is removed, and none changed in a volume that held files.
THEOREM RestoreRespectsFiles == Spec => UntouchedWithoutForce
<1> DEFINE A == ~flags.force /\ vol' # vol /\ UNCHANGED bound.writes =>
                  /\ \A f \in Files : vol[f] # Absent => vol'[f] # Absent
                  /\ before.vol = Empty \/ "ls" \in faults \/ "write" \in disturbed
<1>1. Inv /\ [Next]_vars => [A]_vars
  <2> SUFFICES ASSUME Inv, [Next]_vars, ~flags.force, vol' # vol, UNCHANGED bound.writes
               PROVE  A
    OBVIOUS
  <2>1. CASE Extract
    <3>1. PICK d : vol' = Extracted(d)
      BY <2>1 DEF Extract
    <3>2. \A f \in Files : vol[f] # Absent => vol'[f] # Absent
      BY <3>1 DEF Extracted
    <3>3. before.vol = Empty \/ "ls" \in faults \/ "write" \in disturbed
      BY <2>1 DEF Inv, Overwriting, Extract
    <3> QED BY <3>2, <3>3
  <2>2. ~ClearVolume
    BY DEF Inv, Overwriting, ClearVolume
  <2>3. ~ContainerWrites
    BY SMTT(30) DEF Inv, TypeOK, Bounds, ContainerWrites
  <2> QED BY <2>1, <2>2, <2>3 DEF Next, Snapshot, BeginSnapshot, StreamFile, StreamEnds, WriteMeta,
      Restore, BeginRestore, Validate, IsVolumeEmpty, Found, ListUsers, Refused, Stop, Restart,
      Crash, Cancel, OthersChange, CopySidecar, Finished, vars, volume
<1> QED BY <1>1, InvInductive, PTL DEF Spec, UntouchedWithoutForce

\* Restore writes to the volume only while every container that mounts it is stopped.
THEOREM RestoreIsQuiet == Spec => []QuietWhileWriting
<1>1. Inv => QuietWhileWriting
  BY DEF Inv, Stopping, Control, QuietWhileWriting
<1> QED BY <1>1, InvInductive, PTL

\* Restore starts what it stopped.
THEOREM RestoreRestarts == Spec => []ContainersComeBack
<1>1. Inv => ContainersComeBack
  BY DEF Inv, Stopping, Control, ContainersComeBack
<1> QED BY <1>1, InvInductive, PTL

\* Containers are paused for the time of the restore, and only then.
THEOREM RestorePauses == Spec => []RestorePausesContainers
BY RestoreIsQuiet, RestoreRestarts, PTL DEF RestorePausesContainers

\* A sidecar is the sign of a complete archive with that checksum.
THEOREM SidecarCorrect == Spec => []SidecarMeansComplete
<1>1. Inv => SidecarMeansComplete BY DEF Inv
<1> QED BY <1>1, InvInductive, PTL

\* A snapshot of a quiet volume holds its files.
THEOREM SnapshotCorrect == Spec => []SnapshotIsFaithful
<1>1. Inv => SnapshotIsFaithful BY DEF Inv
<1> QED BY <1>1, InvInductive, PTL

\* Archives and sidecars can be relied on, whatever was interrupted.
THEOREM SnapshotReliable == Spec => []SnapshotIsReliable
BY SnapshotCorrect, SidecarCorrect, PTL DEF SnapshotIsReliable
=============================================================================
