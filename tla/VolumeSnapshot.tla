--------------------------- MODULE VolumeSnapshot ---------------------------
(***************************************************************************)
(* `dockform volume snapshot` and `dockform volume restore` on one Docker  *)
(* volume (src/internal/cli/volumecmd/new.go and the helper commands of    *)
(* src/internal/dockercli/volumes.go).                                     *)
(*                                                                         *)
(* A snapshot is an archive and a JSON sidecar with its checksum, two      *)
(* files of the snapshot directory named after the same base.  A file name *)
(* is the sequence of its parts between dots, since restore derives the    *)
(* name of the sidecar from that of the archive.  Containers that mount    *)
(* the volume write to it whenever they run, and every docker command may  *)
(* fail half-way.                                                          *)
(***************************************************************************)
EXTENDS Naturals, Sequences

CONSTANTS
  Files,       \* names of files in the volume
  Contents,    \* their contents
  Absent,      \* no such file in the volume
  Containers,  \* the containers that mount the volume
  Snapshots,   \* base names that the snapshots of this volume get, by time and spec hash
  UserTar,     \* base name of a plain .tar archive of the user
  NoFile,      \* no such file in the snapshot directory
  Garbled,     \* a sidecar that does not parse
  MaxFaults,   \* bound on failing commands and kills
  MaxWrites,   \* bound on writes by containers
  MaxRestores, \* bound on restores
  MaxOthers    \* bound on damaged archives and on containers started or stopped by others

Trees == [Files -> Contents \cup {Absent}]
Empty == [f \in Files |-> Absent]
Bases == Snapshots \cup {UserTar}

\* An archive: its readable files, and whether it has its end.
Archives == [whole : BOOLEAN, data : Trees]
Archive(w, d) == [whole |-> w, data |-> d]

ASSUME SnapshotAssumption ==
  /\ Absent \notin Contents
  /\ UserTar \notin Snapshots
  /\ NoFile \notin Archives \cup {Garbled}
  /\ Garbled \notin Archives
  /\ MaxFaults \in Nat /\ MaxWrites \in Nat /\ MaxRestores \in Nat /\ MaxOthers \in Nat

VARIABLES
  vol,        \* the files of the volume
  running,    \* the running containers
  archive,    \* the archive of each base name
  json,       \* the JSON files of the snapshot directory: the checksum they hold
  pc,         \* the next step of the command
  base,       \* the base name of the archive written or read
  flags,      \* force and stopContainers
  seen,       \* what restore found: empty, allUsers, runningUsers
  unread,     \* files that the archive being written does not hold yet
  cancelled,  \* Ctrl-C: every further docker command fails
  result,     \* how the last command ended
  before,     \* history: the volume and the running containers when the command began
  disturbed,  \* history: what containers and others did since the command began
  faults,     \* history: what failed since the command began
  damaged,    \* history: archives damaged after they were written
  bound       \* how often each bounded event has happened

FaultKinds ==
  {"stream", "meta", "check", "ls", "stop", "rm", "clear", "zstd", "extract", "start", "crash"}
Bounds == [faults : 0..MaxFaults, writes : 0..MaxWrites, restores : 0..MaxRestores, others : 0..MaxOthers]

volume == <<vol, running>>
disk == <<archive, json, damaged>>
locals == <<base, flags, seen, unread, before>>
vars == <<volume, disk, pc, locals, cancelled, result, disturbed, faults, bound>>

(***************************************************************************)
(* File names                                                              *)
(***************************************************************************)
TarPath(b) == IF b = UserTar THEN <<b, "tar">> ELSE <<b, "tar", "zst">>
JsonPath(b) == <<b, "json">>
JsonPaths == {JsonPath(b) : b \in Bases} \cup {<<b, "tar", "json">> : b \in Bases}

\* strings.TrimSuffix(snapPath, filepath.Ext(snapPath)) + ".json"
Sidecar(path) == SubSeq(path, 1, Len(path) - 1) \o <<"json">>

IsZst(path) == path[Len(path)] = "zst"

\* sha256 of the archive file: equal for equal archives only.
Checksum(b) == archive[b]

-----------------------------------------------------------------------------
Init ==
  /\ vol \in Trees
  /\ running \in SUBSET Containers
  /\ \E t \in Trees : archive = [b \in Bases |-> IF b = UserTar THEN Archive(TRUE, t)
                                                ELSE NoFile]
  /\ json = [p \in JsonPaths |-> NoFile]
  /\ pc = "idle"
  /\ base = UserTar
  /\ flags = [force |-> FALSE, stop |-> FALSE]
  /\ seen = [empty |-> TRUE, all |-> {}, run |-> {}]
  /\ unread = {}
  /\ cancelled = FALSE
  /\ result = "none"
  /\ before = [vol |-> vol, running |-> running]
  /\ disturbed = {}
  /\ faults = {}
  /\ damaged = {}
  /\ bound = [faults |-> 0, writes |-> 0, restores |-> 0, others |-> 0]

End(how) == pc' = "idle" /\ result' = how

Succeeds == ~cancelled /\ UNCHANGED <<faults, bound>>

\* One command for each container in S: with none to run, nothing can fail.
AllSucceed(S) == (S # {} => ~cancelled) /\ UNCHANGED <<faults, bound>>

\* A command fails by itself or because the context is done.
Fails(kind) ==
  /\ faults' = faults \cup {kind}
  /\ \/ cancelled /\ UNCHANGED bound
     \/ bound.faults < MaxFaults /\ bound' = [bound EXCEPT !.faults = @ + 1]

\* A read-only command fails: the run ends and nothing is changed.
Refused == End("error") /\ UNCHANGED <<volume, disk, locals>>

\* A new command starts: the history refers to it.
Begin ==
  /\ pc = "idle"
  /\ cancelled' = FALSE
  /\ before' = [vol |-> vol, running |-> running]
  /\ disturbed' = {}
  /\ faults' = {}
  /\ result' = "none"

(***************************************************************************)
(* snapshot                                                                *)
(***************************************************************************)
\* InspectVolume, then os.Create: the archive exists and is empty.
BeginSnapshot ==
  /\ Begin
  /\ \E b \in Snapshots :
       /\ archive[b] = NoFile
       /\ archive' = [archive EXCEPT ![b] = Archive(FALSE, Empty)]
       /\ base' = b
  /\ pc' = "stream"
  /\ unread' = Files
  /\ UNCHANGED <<volume, json, damaged, flags, seen, bound>>

\* StreamTarZstdFromVolume reads one file after the other.
StreamFile ==
  /\ pc = "stream"
  /\ Succeeds
  /\ \E f \in unread :
       /\ archive' = [archive EXCEPT ![base].data[f] = vol[f]]
       /\ unread' = unread \ {f}
  /\ UNCHANGED <<volume, json, damaged, pc, base, flags, seen, before, cancelled, result, disturbed>>

AtTheEnd == unread = {}

StreamEnds ==
  /\ pc = "stream"
  /\ \/ /\ AtTheEnd
        /\ Succeeds
        /\ archive' = [archive EXCEPT ![base].whole = TRUE]
        /\ pc' = "meta"
        /\ UNCHANGED result
     \/ /\ Fails("stream")
        /\ End("error")
        /\ UNCHANGED archive
  /\ UNCHANGED <<volume, json, damaged, locals, cancelled, disturbed>>

ChecksumWhenCreated(b) == Archive(FALSE, Empty)

MetaOf(b) == Checksum(b)

\* TarStatsFromVolume (whose failure is ignored), Sha256FileHex, then os.WriteFile.
WriteMeta ==
  /\ pc = "meta"
  /\ \/ /\ json' = [json EXCEPT ![JsonPath(base)] = MetaOf(base)]
        /\ End("snapshot")
        /\ UNCHANGED <<faults, bound>>
     \/ /\ Fails("meta")
        /\ \E j \in {NoFile, Garbled} : json' = [json EXCEPT ![JsonPath(base)] = j]
        /\ End("error")
  /\ UNCHANGED <<volume, archive, damaged, locals, cancelled, disturbed>>

(***************************************************************************)
(* restore                                                                 *)
(***************************************************************************)
\* os.Stat(snapPath): a name for which there is no file is refused at once.
Existing == {b \in Bases : archive[b] # NoFile}

BeginRestore ==
  /\ Begin
  /\ bound.restores < MaxRestores
  /\ bound' = [bound EXCEPT !.restores = @ + 1]
  /\ base' \in Existing
  /\ flags' \in [force : BOOLEAN, stop : BOOLEAN]
  /\ pc' = "validate"
  /\ UNCHANGED <<volume, disk, seen, unread>>

\* The sidecar is read if it exists; one that does not parse is ignored.
Mismatch ==
  LET sidecar == Sidecar(TarPath(base))
  IN /\ IsZst(TarPath(base))
     /\ json[sidecar] \notin {NoFile, Garbled, Checksum(base)}

\* The manifest, the volume, the extension and the archive are checked first.
Validate ==
  /\ pc = "validate"
  /\ \/ Succeeds /\ Mismatch /\ Refused
     \/ Succeeds /\ ~Mismatch /\ pc' = "empty" /\ UNCHANGED <<volume, disk, locals, result>>
     \/ Fails("check") /\ Refused
  /\ UNCHANGED <<cancelled, disturbed>>

NeverMustForce(empty) == FALSE

MustForce(empty) == ~empty /\ ~flags.force

Found(empty) ==
  IF MustForce(empty)
  THEN Refused
  ELSE /\ seen' = [seen EXCEPT !.empty = empty]
       /\ pc' = "users"
       /\ UNCHANGED <<volume, disk, base, flags, unread, before, result>>

\* The errors of ls are dropped: a volume that it cannot read counts as empty.
IsVolumeEmpty ==
  /\ pc = "empty"
  /\ \/ Succeeds /\ Found(vol = Empty)
     \/ Fails("ls") /\ ~cancelled /\ Found(TRUE)
     \/ Fails("check") /\ Refused
  /\ UNCHANGED <<cancelled, disturbed>>

\* ListContainersUsingVolume and ListRunningContainersUsingVolume
ListUsers ==
  /\ pc = "users"
  /\ \/ /\ Succeeds
        /\ IF Containers # {} /\ ~flags.stop
           THEN Refused
           ELSE /\ seen' = [seen EXCEPT !.all = Containers, !.run = running]
                /\ pc' = "stop"
                /\ UNCHANGED <<volume, disk, base, flags, unread, before, result>>
     \/ Fails("check") /\ Refused
  /\ UNCHANGED <<cancelled, disturbed>>

NeverClear == FALSE

MustClear == ~seen.empty /\ flags.force

ToStop == seen.all

\* Containers are stopped one by one; a failure returns before the restart is deferred.
Stop ==
  /\ pc = "stop"
  /\ \/ /\ AllSucceed(ToStop)
        /\ running' = running \ ToStop
        /\ pc' = IF MustClear THEN "clear" ELSE "extract"
        /\ UNCHANGED result
     \/ /\ ToStop # {}
        /\ Fails("stop")
        /\ \E S \in SUBSET ToStop : running' = running \ S
        /\ End("error")
  /\ UNCHANGED <<vol, disk, locals, cancelled, disturbed>>

Keep(S) == [f \in Files |-> IF f \in S THEN vol[f] ELSE Absent]

\* ClearVolume: the script ends in "|| true", so that a failing rm is not seen.
ClearVolume ==
  /\ pc = "clear"
  /\ \/ Succeeds /\ vol' = Empty /\ pc' = "extract" /\ UNCHANGED result
     \/ Fails("rm") /\ ~cancelled /\ (\E S \in SUBSET Files : vol' = Keep(S))
          /\ pc' = "extract" /\ UNCHANGED result
     \/ Fails("clear") /\ (\E S \in SUBSET Files : vol' = Keep(S))
          /\ pc' = "restart" /\ result' = "error"
  /\ UNCHANGED <<running, disk, locals, cancelled, disturbed>>

Extracted(d) == [f \in Files |-> IF d[f] # Absent THEN d[f] ELSE vol[f]]
PartOf(d) == {[f \in Files |-> IF f \in S THEN d[f] ELSE Absent] : S \in SUBSET Files}

\* An archive without its end fails or, cut between two files, passes for a complete one; so
\* does the output of a zstd that fails or could not be installed, since only the exit code of
\* tar counts.
Extract ==
  /\ pc = "extract"
  /\ pc' = "restart"
  /\ \/ /\ Succeeds
        /\ vol' = Extracted(archive[base].data)
        /\ result' \in IF archive[base].whole THEN {"restored"} ELSE {"restored", "error"}
     \/ /\ IsZst(TarPath(base))
        /\ Fails("zstd") /\ ~cancelled
        /\ \E d \in PartOf(archive[base].data) : vol' = Extracted(d)
        /\ result' \in {"restored", "error"}
     \/ /\ Fails("extract")
        /\ \E d \in PartOf(archive[base].data) : vol' = Extracted(d)
        /\ result' = "error"
  /\ UNCHANGED <<running, disk, locals, cancelled, disturbed>>

EveryUser == seen.all

ToStart == seen.run

\* The deferred StartContainers: its error is dropped.
Restart ==
  /\ pc = "restart"
  /\ pc' = "idle"
  /\ \/ AllSucceed(ToStart) /\ running' = running \cup ToStart
     \/ ToStart # {} /\ Fails("start") /\ \E S \in SUBSET ToStart : running' = running \cup S
  /\ UNCHANGED <<vol, disk, locals, cancelled, result, disturbed>>

(***************************************************************************)
(* The environment                                                         *)
(***************************************************************************)
\* The process is killed: nothing is restarted.
Crash ==
  /\ pc # "idle"
  /\ ~cancelled
  /\ Fails("crash")
  /\ End("error")
  /\ UNCHANGED <<volume, disk, locals, cancelled, disturbed>>

Cancel ==
  /\ pc # "idle"
  /\ ~cancelled
  /\ cancelled' = TRUE
  /\ UNCHANGED <<volume, disk, pc, locals, result, disturbed, faults, bound>>

\* A running container writes or removes a file of the volume.
ContainerWrites ==
  /\ running # {}
  /\ bound.writes < MaxWrites
  /\ bound' = [bound EXCEPT !.writes = @ + 1]
  /\ \E f \in Files : \E c \in (Contents \cup {Absent}) \ {vol[f]} : vol' = [vol EXCEPT ![f] = c]
  /\ disturbed' = disturbed \cup {"write"}
  /\ UNCHANGED <<running, disk, pc, locals, cancelled, result, faults>>

\* Others start or stop a container, or damage an archive that no command is using.
OthersChange ==
  /\ bound.others < MaxOthers
  /\ bound' = [bound EXCEPT !.others = @ + 1]
  /\ \/ /\ \E c \in Containers :
             running' = IF c \in running THEN running \ {c} ELSE running \cup {c}
        /\ disturbed' = disturbed \cup {"containers"}
        /\ UNCHANGED disk
     \/ /\ pc = "idle"
        /\ \E b \in Bases \ damaged : archive[b] # NoFile /\ \E d \in PartOf(archive[b].data) :
             /\ archive' = [archive EXCEPT ![b] = Archive(FALSE, d)]
             /\ damaged' = damaged \cup {b}
        /\ UNCHANGED <<running, disturbed, json>>
  /\ UNCHANGED <<vol, pc, locals, cancelled, result, faults>>

\* The user copies a sidecar to the name under which restore looks for it.
CopySidecar ==
  /\ pc = "idle"
  /\ \E b \in Snapshots :
       /\ json[JsonPath(b)] # NoFile
       /\ json[Sidecar(TarPath(b))] = NoFile
       /\ json' = [json EXCEPT ![Sidecar(TarPath(b))] = json[JsonPath(b)]]
  /\ UNCHANGED <<volume, archive, damaged, pc, locals, cancelled, result, disturbed, faults, bound>>

Snapshot == BeginSnapshot \/ StreamFile \/ StreamEnds \/ WriteMeta
Restore ==
  \/ BeginRestore \/ Validate \/ IsVolumeEmpty \/ ListUsers
  \/ Stop \/ ClearVolume \/ Extract \/ Restart

Finished == pc = "idle" /\ UNCHANGED vars

Next ==
  \/ Snapshot \/ Restore \/ Crash \/ Cancel
  \/ ContainerWrites \/ OthersChange \/ CopySidecar
  \/ Finished

Spec == Init /\ [][Next]_vars

-----------------------------------------------------------------------------
(***************************************************************************)
(* Properties                                                              *)
(***************************************************************************)
\* The variables keep their types: a sidecar holds the checksum of some archive, and
\* restore reads only archives that exist.
TypeOK ==
  /\ vol \in Trees
  /\ running \subseteq Containers
  /\ archive \in [Bases -> Archives \cup {NoFile}]
  /\ json \in [JsonPaths -> Archives \cup {NoFile, Garbled}]
  /\ pc \in {"idle", "stream", "meta", "validate", "empty", "users", "stop", "clear",
             "extract", "restart"}
  /\ base \in Bases
  /\ archive[base] # NoFile
  /\ flags \in [force : BOOLEAN, stop : BOOLEAN]
  /\ seen \in [empty : BOOLEAN, all : SUBSET Containers, run : SUBSET Containers]
  /\ unread \subseteq Files
  /\ cancelled \in BOOLEAN
  /\ result \in {"none", "snapshot", "restored", "error"}
  /\ before \in [vol : Trees, running : SUBSET Containers]
  /\ disturbed \subseteq {"write", "containers"}
  /\ faults \subseteq FaultKinds
  /\ damaged \subseteq Bases
  /\ bound \in Bounds

\* What was in the volume is gone, unless ls or rm failed unseen (IsVolumeEmpty, ClearVolume).
Cleared(f) == vol[f] = Absent \/ (vol[f] = before.vol[f] /\ faults \cap {"ls", "rm"} # {})

\* A restore that reports success leaves the files of a complete archive and no others, also
\* where the volume was in use before, unless a container wrote meanwhile.  The failures that
\* the helper commands hide do no more than this: with ls or rm files of the old volume that
\* the archive does not have remain, with zstd files of the archive are missing.
RestoreGivesTheArchive ==
  result = "restored" /\ archive[base].whole /\ "write" \notin disturbed =>
    \A f \in Files :
      \/ vol[f] = archive[base].data[f]
      \/ (archive[base].data[f] = Absent \/ "zstd" \in faults) /\ Cleared(f)

\* Without --force restore removes no file, and changes a volume only if it was empty when
\* the command began, or the ls failed that tells whether it is, or a container has written
\* since (MustForce, IsVolumeEmpty).
UntouchedWithoutForce ==
  [][~flags.force /\ vol' # vol /\ UNCHANGED bound.writes =>
       /\ \A f \in Files : vol[f] # Absent => vol'[f] # Absent
       /\ before.vol = Empty \/ "ls" \in faults \/ "write" \in disturbed]_vars

\* The containers that were running, and no others, run again after a restore however
\* it ended, unless a stop or a start failed (as they do after Ctrl-C) or it was killed.
ContainersComeBack ==
  /\ pc = "idle"
  /\ faults \cap {"stop", "start", "crash"} = {} /\ "containers" \notin disturbed
  => running = before.running

\* "requires stopped containers": files are only cleared and extracted while no
\* container that mounts the volume is running.
QuietWhileWriting ==
  pc \in {"clear", "extract"} /\ "containers" \notin disturbed => running = {}

\* A restore pauses the containers of the volume: none of them runs while it is written, and
\* those that ran before run afterwards (restore in volumecmd, StopContainers, the deferred
\* StartContainers).
RestorePausesContainers == QuietWhileWriting /\ ContainersComeBack

\* An interrupted snapshot is never taken for a complete one: an archive that has its
\* sidecar is complete and has the checksum the sidecar says, until it is damaged.
SidecarMeansComplete ==
  \A b \in Snapshots \ damaged :
    json[JsonPath(b)] \notin {NoFile, Garbled} => archive[b].whole /\ json[JsonPath(b)] = Checksum(b)

\* A snapshot of a volume that nobody writes to holds the files of the volume.
SnapshotIsFaithful ==
  result = "snapshot" /\ "write" \notin disturbed /\ base \notin damaged
    => archive[base].data = before.vol

\* What a snapshot leaves on disk can be relied on: the archive of a successful one holds the
\* volume, and one beside its sidecar is complete whatever was interrupted since.
SnapshotIsReliable == SnapshotIsFaithful /\ SidecarMeansComplete

\* "Validate checksum and spec hash if sidecar exists (before stopping containers)":
\* nothing is done with an archive whose sidecar has another checksum.
ChecksumIsVerified ==
  pc \in {"stop", "clear", "extract"} => json[JsonPath(base)] \in {NoFile, Garbled, Checksum(base)}
=============================================================================
