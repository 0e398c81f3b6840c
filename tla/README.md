# A TLA+ verification of dockform

dockform keeps Docker resources (compose stacks, volumes, networks, and "filesets": directories
copied into volumes) on one or several Docker hosts in line with a manifest. This directory holds
TLA+ models of the parts of it where order, failure and concurrency matter, the TLC
configurations that check them, and TLAPS proofs of the properties that matter most.

- `X.tla` models a component, `MCX.tla` gives it a small instance, `X.cfg` is its TLC run,
  `X_Property.cfg` a run that shows a disagreement between code and documentation, and
  `XProofs.tla` holds its theorems. Those of `Orchestrate` are in `ReconcileProofs`, those of
  `DockerExec` in `FilesetSyncProofs` and those of `Dashboard` in `TerminalProofs`; the specifications
  of these three are named `OrchestrateSpec`, `ExecSpec` and `DashboardSpec`, their parts accordingly.
- `PROJECT.json` maps every definition to the lines it models and lists the runs, hazards,
  findings and theorems.

To check: `tlc -config X.cfg MCX` (or `X` where there is no `MCX`) and `tlapm XProofs.tla`.

## 1. The system: parts, state, operations

Paths are relative to `src/internal/`.

| Part | Code | State | Operations | Module |
| --- | --- | --- | --- | --- |
| Orchestrator | `planner/orchestrate.go` | errors, first failure, run context | launch, record, cancel siblings, classify | `Orchestrate` |
| Fileset sync | `filesets/index.go`, `planner/build_plan_filesets.go`, `apply_filesets.go`, `apply_ownership.go`, `util/tar.go` | source tree, files and index in the volume | index, diff, extract, delete, write index, ownership | `FilesetSync` |
| Services of filesets | `planner/apply_filesets.go`, `apply_restarts.go`, `apply.go` | running containers, stopped list, restart queue | stop, start, recover, restart | `ApplyServices` |
| Plan, apply, prune | `planner/build_plan*.go`, `apply*.go`, `prune.go`, `service_state.go`, `cli/applycmd` | labelled volumes, networks, containers; the plan | plan, confirm, create, compose up, prune | `Reconcile` |
| Destroy | `planner/destroy.go`, `cli/destroycmd` | the same, per context | plan, confirm, tear down concurrently | `Destroy` |
| Docker commands | `dockercli/exec.go`, `factory.go`, `cli/common/reachability.go` | client cache, SSH slots, attempts | get client, acquire, run, retry, probe | `DockerExec` |
| Volume snapshots | `cli/volumecmd/new.go`, `dockercli/volumes.go` | volume, archives and sidecars, containers | snapshot, restore | `VolumeSnapshot` |
| Manifest, targets | `manifest/`, `cli/common/config_loader.go`, `targets.go` | maps of stacks and filesets, written while they are visited | locate, discover, validate, merge, normalise, select | `Manifest` |
| Registry client | `registry/` | token cache | request with cached, without and with a fetched token; pages of tags | `Registry` |
| Images | `images/`, `cli/imagescmd/` | compose files, running and stored digests | check concurrently, upgrade, pull, recreate | `Images` |
| Terminal | `ui/spinner.go`, `rollinglog.go`, `confirm.go`, `cli/common/`, `cli/root.go` | event loop, monitor, worker, animation; exit code | start, stop, hand over Ctrl-C, print, confirm, return | `Terminal` |
| Dashboard | `cli/dashboardcmd/` | selection, log streams, statuses | messages of the event loop, palette | `Dashboard` |
| Secrets, SSH multiplexing, compose config cache, doctor, validation, rendering, logging | `secrets/`, `sshmux/`, `dockercli/lru_cache.go`, `cli/doctorcmd/`, `validator/`, `ui/ui.go`, `logger/` | see section 7 | | not modelled |

**How they interact.** `apply` builds a plan per context, shows it, asks, and then lets the
orchestrator run `applyContext` on every context. Within a context volumes and networks are
created, filesets synced (stopping "cold" services around the sync), stacks brought up, "hot"
services restarted, and unmanaged resources pruned. `destroy` lists, shows, asks, lists again and
removes. Everything reaches a Docker daemon through `DockerExec`; every step may fail on its own,
be interrupted by Ctrl-C (which makes every later command fail) or by the death of the process,
and other people use the same daemon. dockform keeps no state of its own: what survives a run
are labels on resources and the index file in each fileset volume.

`Reconcile` models one context with the fileset sync left out; `ApplyServices` models the
containers around the syncs, with one sync as a step; `FilesetSync` models what that step does
in the volume; `Orchestrate` abstracts all of it to "succeeds, fails or is killed". The interface
between two of them is thus the outcome of a step, and each model lets that outcome be any.
`Terminal` is the frame around them: it abstracts a phase (validate, plan, apply) to operations that
end well, fail or are cancelled. `Manifest` yields what `Reconcile` and `Destroy` take as an input.
`Images` is composed with `Registry`: every check of an image is a sequence of requests of
the one client that all checks share. `RemoteCalls` is the docker client as its callers may think of it,
and `DockerExec` is shown to implement it.

## 2. The modules

### Orchestrate

One action per step of the calling goroutine (`Launch`, `WaitDone`, `Classify`, `SeqCall`, ...)
and of each context's goroutine (`FnEnds`, `RecordError` under the mutex, `Signal`, which calls
`cancel()` after the unlock). `CtxDone` is the run context: in fail-fast mode a child of the
caller's, in run-to-completion mode the caller's own.

- `ReturnIsExact`: nil means that all succeeded, an error names every failure; none is lost between goroutines.
- `AbortedHasAGenuineCause`: a context is called "aborted" only if another one really failed first.
- `SiblingFailureNeverKills`: in a mutating run no context dies because of another.
- `CancellationReturns`: a failure (in fail-fast mode) and Ctrl-C end the run.

### FilesetSync

The source directory, the volume and the index file over repeated runs. The plan keeps the two
indexes it compared; the sync works from those and not from the present contents, except that
`SyncFilesetFiles` reads the files as they are when it archives them. Each docker command either
works, or has part of its effect and fails; `Crash` may strike at any step; `Edit`, `RemoveVolume` and
`AppWrite` are the environment. Two commands also fail unseen: the helper that deletes files drops the errors of
rm (`left` remembers the files that stay), and the ownership script drops those of chown and chmod.
`ownership` says which files the script reaches (all of them, or with `preserve_existing` those just written), whether
it skips an unknown user, and whether the target path is refused.

- `VolumeMatchesIndex`: the index describes the files, up to trees of unfinished syncs and files that rm left behind.
- `SuccessIsComplete`: success means that the volume has the planned tree, with at most files that rm left behind
  beside it, and, if no command failed, that the files written have the configured ownership.
- `ForeignFilesSurvive`: files the application made outside of the fileset are never touched.
- `EventuallyIndexed`: repeated applies catch up once edits and faults end.

### ApplyServices

Filesets in order, "cold" or "hot", the containers that were stopped for the current fileset, and the
queue of services to restart after the stacks. The code looks at the first container of a service
only (`IsFirst`).

- `NoServiceLeftDown`: a failing sync never leaves a container down that ran before.
- `ColdSyncFindsServicesStopped`: the first container of a cold service is down during the sync.
- `SuccessRestartsServices`: after a clean run no first container runs with old files.

### Reconcile

Volumes, networks and containers with or without the label, plan, confirmation, `EnsureVolumes`
(lists again) and `EnsureNetworks` (uses the plan's list), `ApplyStack`, and the three parts of
prune, which collect errors. Each part of prune is a list (`victims`), for networks a second list of those of compose, and then
one removal per step. `OthersChange` changes anything at any time, also between a list and its removals (`tampered`),
`EditManifest` between runs. `faults` names what has failed, hidden failures included: a compose ps that makes services look
missing (`ps`), config hashes that hide a drift (`hash`), a labelled overlay that cannot be built (`overlay`), a
list of containers that hides deletions (`planList`).

- `OnlyOrphansAreRemoved`: no step destroys what is wanted, or what is not labelled, unless others took the label away between
  the list and the removal.
- `PruneStaysWithinPlan`: a targeted run removes nothing, any other only what was shown and confirmed, and
  networks of stacks are spared, unless a list failed or others changed the daemon.
- `CleanRunSettles`: after a successful run, from whatever state it started, the next plan is empty. A failing compose ps
  does not change that; without the overlay the containers of the stack have the label and may be brought up again.

### Destroy

Contexts torn down concurrently, one action per part (`DestroyContainers`, `DestroyNetworks`,
`DestroyVolumes`), each of which lists what is in scope again. `Busy` is what Docker refuses to remove.

- `StrictSuccessMeansGone`: with `--strict`, success means that nothing in scope is left.
- `FailuresAreIsolated`: a context is torn down whatever happens to the others.
- `TargetedSparesTheRest`, `RemovedWasShownUnlessTouched`: destroy stays in scope and within what it showed.

### VolumeSnapshot

One volume, its containers and the snapshot directory. A snapshot streams file by file while
containers may write; a restore validates, checks for emptiness, lists, stops, clears, extracts and
restarts (the deferred start). File names are sequences of parts, because the name of the sidecar is derived
from the name of the archive.

Three helper commands hide failures: the ls that tells whether the volume is empty, the rm that clears it, and zstd in
front of tar (no pipefail).

- `RestoreGivesTheArchive`: after a success each file is as in the archive. With ls or rm failed, files that the archive does
  not have may remain; with zstd failed, files of the archive may be missing.
- `UntouchedWithoutForce`: without `--force` no step removes a file, and files are added only to a volume that was empty
  (or could not be listed, or was written to since).
- `RestorePausesContainers`: nothing runs while the volume is written, and what ran before runs again.
- `SnapshotIsReliable`: a snapshot of a quiet volume holds its files, and an interrupted one is never
  taken for a complete one.

### DockerExec

The double-checked client cache, the semaphore of a remote client, attempts with backoff (only for
commands without stdin and stream), the probes that bypass both, and cancellation at each wait. A
broken connection may have executed the command.

- `KeepsPromise`: the refinement of `RemoteCalls`. A call waits, is under way, returns; over all clients of a
  remote context at most `MaxConcurrentSSH` calls are under way; success means executed; only plain
  commands over SSH are executed more than once, and a cancelled wait is no execution. The mapping takes
  `pc` to waiting, active or returned and counts the active calls over SSH, the backoff included.
- `CallsReturn`: no slot is lost, and probes never wait behind hanging commands.

### RemoteCalls

The abstract specification: one step per call that begins, gives up, is executed unnoticed (its
answer is lost and another attempt follows) or ends. There is no factory, no semaphore and no
attempt in it.

### Manifest

Locating the file, discovery in the directory tree, validation, the loops over Go maps (in any order, one
action per visited key) that merge discovered with declared stacks and write the result back to the map
that `GetAllStacks` merges again, filesets, and `ResolveTargets`. Paths are sequences of names with steps
up; a directory tree, a decoded manifest and the flags are inputs. The keys and names that the regular expressions accept
are the constants `ContextKeys` and `StackNames`, a host of blanks only is `doc.blankHosts`, and `tree.binds` says which compose
files have bind mounts (every file of a stack is looked at). The reference definitions (`MeantFiles`,
`MeantSecrets`, `Acceptable`, ...) say without any loop or map what a stack should be.

- `StacksAreAsMeant`: a command sees each stack as tree and manifest mean it, in whatever order maps are visited.
- `AcceptedIffValid`: loading succeeds exactly for valid inputs.
- `FilesetsFollowTheirStacks`: a command gets the filesets of the stacks it gets.

### Registry and Images

`Registry` is `doWithAuth`: cached token, no token, fetched token, for every job at the same time over
one cache, against a registry whose tokens expire, whose tags are pushed again, and which may never answer.
`Images` adds the commands: inputs from compose, digests of what runs, one check per
service, and the rewriting of files or the pull with its recreation. Tags are sequences of characters,
because `rewriteImageInFile` replaces text.

- `UpgradeIsExact`: lines are old or new at all times, and success rewrites and reports exactly the outdated
  ones, where no reference is a prefix of another one.
- `UnlistedMeansCurrent`: a service that is not listed has no newer tag and runs what the registry has.
- `RecreateRunsWhatWasSeen`: after pull with `--recreate` containers run what the check saw.
- `StaleTokenNeverFails`: an expired token in the cache never fails a check.
- `CancelReturns`: Ctrl-C ends the command even if the registry never answers.

### Terminal

The calling goroutine with its operations and spinner, the animation goroutine, the Bubble Tea program
(which may fail at any time), the monitor of Ctrl-C, and the channels between them: `Program.Send`
waits for the event loop, `Stop` waits for the animation, the event loop never waits for the monitor. That stdin and
that stdout are terminals are two inputs. The plan of destroy is fail-fast: after a failure the other contexts are cancelled, and
the error that is returned may be their cancellation (`FailFast`).

- `OneWriter`: no animation while the rolling log or the prompt owns the terminal.
- `AppliedAsReviewed`: nothing is applied that was not planned, printed and confirmed.
- `ExitTellsTheWork`: the exit code agrees with how the work ended, whichever goroutine was first; 130 is an interrupt
  or a context cancelled because another one failed.
- `CommandReturns`: no goroutine waits for ever for another one, whenever Ctrl-C is pressed.

### Dashboard

Cursor moves send delayed requests that arrive in any order; each accepted one starts a stream whose reader
puts lines into one bounded channel; a tick drains it, another one refreshes the statuses; the palette acts on
the container of the selected item, by a docker call that ends some time later. The dashboard talks to the daemon of the first
context only, while its list has the stacks of all: `Owners` are what may run there, a service of the list, one of a stack that left the
manifest, or a container without labels. `MayRun` says which of them may take a name, and names change hands at any time
(`World`). The channel holds 1 line in the run (256 in the code), so that it is full all the time.

- `LastMoveIsShown`: the log shown is that of the last move.
- `ActionsHitTheService`: a container that the palette removes has the container_name or the service label of the item under the
  cursor, unless no status had arrived (then the name of the service is used) or the name changed hands since `docker ps`.
- `LinesAreDrained`, `StatusesKeepComing`: neither tick chain ever breaks.

## 3. The runs

| Run | Instance | What it shows |
| --- | --- | --- |
| `orchestrate` | up to 3 contexts, both modes, parallel and sequential | the four properties above, liveness included |
| `fileset_sync` | 2 paths, 2 contents, 2 edits, 1 fault, 1 removal, 1 application write | the four properties, liveness included |
| `apply_services` | 2 filesets, 2 services, one of them scaled to 2 containers, 2 runs, 1 fault | the three properties |
| `reconcile` | 1 volume, 1 context and 1 compose network, 1 stack of 2 services, 2 runs, 1 fault, 1 change | the three properties |
| `destroy` | 2 contexts, 1 project and containers of none, 1 network, 2 volumes, 1 fault, 1 change | the four properties |
| `volume_snapshot` | 2 files, 2 containers, 1 snapshot and 1 plain tar, one event of each kind | the four properties |
| `docker_exec` | 3 calls over 1 slot, 1 retry, two mixes of commands | the refinement of `RemoteCalls`, and that calls return |
| `images` | 3 services in 2 stacks, 3 files, tags 1, 10 and 2 (1 is a prefix of 10), 1 expiry, 1 push, 13 scenarios of the three commands | the five properties, liveness included |
| `manifest` | 2 contexts, 2 discovered and 1 declared stack, 12 trees, 20 documents, 9 selections | the three properties |
| `terminal` | 3 commands, with and without terminal at stdin and stdout, `--verbose` and `--skip-confirmation`; 2 presses of Ctrl-C, 1 failure of the display, log of 1 line | the four properties, liveness included |
| `dashboard` | 2 services of 2 contexts, one with a container_name, 3 owners of names on the daemon, 3 requests, 1 command under way, a channel of 1 line | the four properties, liveness included |
| `volume_checksum` | no fault, one damaged archive | the sidecar of a snapshot is never found, nothing is verified |

The type invariants are not part of the runs: they are proved (section 5), and the invariants of the proofs
were checked with TLC before.

**Why the bounds are enough.** Failures interact with at most one later run (nothing but labels and the
index survives a run), so two runs and one fault reach each failure followed by each reaction to
it. Three contexts give a first failure, a victim and a bystander. Two paths give a file that
changes beside one that does not; two contents give an update; a scaled service needs two containers; a
semaphore needs one call more than slots, and a third call for a probe. In `volume_snapshot`
two files are needed for a partial archive, two containers for one that ran and one that did not.
One expiry is enough to make every cached token stale at every point of every request; two presses of Ctrl-C
give one that is taken and one that finds nobody listening; three requests give a stale one between
two others. In `manifest` each document and tree is there for a branch of the code, and all orders of all
loops are explored. The safety properties of all passing runs are moreover proved for all values of the
constants.

**Bounds.** Every `Max...` constant bounds an event of the environment or the number of runs and
appears in the guard of that event. `sshMaxRetries`, `MaxConcurrentSSH`, `MaxLog` and `ChanCap` are
constants of the code, with smaller values.

**Deadlock** is checked everywhere. A system that may stop has an explicit `Finished`, `Orchestrated`
or `Terminated` step in the states where it may.

**Symmetry** is used in `volume_snapshot` only, over files and containers, which no definition tells
apart; the run has no temporal property.

## 4. Fairness

- `Orchestrate`: the goroutines of the orchestrator are scheduled, and a command whose context is done
  ends (`exec.CommandContext` kills it). An operation that is not killed need not return:
  a docker command on an unreachable host may hang.
- `FilesetSync`: someone keeps running `apply`, a running sync goes on, and a plan that is made
  again and again is confirmed at some time (strong fairness, because `Abandon` may come
  first each time). Crashes and faults are bounded.
- `DockerExec`: goroutines are scheduled, timers fire and killed commands end. A command in
  `hangs` never ends by itself, and nobody has to press Ctrl-C.
- `Images`: the process goes on by itself, but no answer of the registry is fair: `http.DefaultClient` has no
  timeout, and only a cancelled request is sure to end.
- `Terminal`: goroutines are scheduled, operations end (that they do is the business of `Orchestrate` and
  `DockerExec`), and the question is answered. Ctrl-C, signals and failures of the display need not happen.
- `Dashboard`: ticks fire, `FetchAll` ends (it has a limit of 3 s), and messages are handled. Containers
  need not write, and a stream need not start.

Liveness is checked under `FairSpec` (`ExecFairSpec` in `DockerExec`), or under the specification itself where it
states fairness (`Images`, `Terminal`, `Dashboard`).

## 5. Proofs

Each `XProofs` module proves the invariance of a strengthened invariant and derives the properties
of the runs from it, for any number of contexts, files, resources, calls, services and items and all bounds.
The assumptions are those named in the modules, and TLC evaluates them in the runs:

- Bounds are naturals, special values are not ordinary ones, and functions have their types (`NAssumption`,
  `ContentsAssumption`, `BoundsAssumption`, `ConfigurationAssumption`, `ReconcileAssumption`,
  `DestroyAssumption`, `SnapshotAssumption`, `ExecAssumption`, `TerminalAssumption`, `TagsAssumption`).
- `StacksAssumption`: services have an order and no file of a stack is given twice. `ScenariosAssumption`: an
  image command finds containers that run what the registry has or had, and a daemon in which a tag names nothing older
  than what runs of it.
- `ManifestAssumption`: keys are sequences of names, secrets are paths, variables are entries of a key and a value, and a decoded stack has no resolved
  secrets, since its field is not decoded (`yaml:"-"`).
- `DashboardAssumption`: the list is not empty, no container or owner has the empty name, and a service of the list that runs on the daemon carries
  its own label and, where its compose file has a container_name, runs under that name.

| Module | Theorems | Why the invariant is needed |
| --- | --- | --- |
| `ReconcileProofs`, for `Orchestrate` | `OrchestrateTypeOK`, `ReturnedIsExact` (from `NilIsSound`, `ErrorIsComplete`), `AbortedIsJustified`, `RunToCompletionIsolates` | The result is computed from `errs` long after fn ended. `GoroutineInv` ties the two together; `CancelInv` says that the first failure is recorded before anything is cancelled because of it, so it is never a victim. |
| `ReconcileProofs` | `ReconcileTypeOK`, `ReconcileOrphans`, `ReconcilePrune` (from `ReconcileTargeted`, `ReconcileShown`, `ReconcileCompose`), `ReconcileSettles` | `Shown`: every orphan was one for the plan, since no step of apply makes an orphan (`OrphansShrink`). `Condemned`: what is about to be removed was an orphan when it was listed and still is one, unless others changed it. `Progress`: how far a run has come whose only failures are those that it survives (`Hidden`), step by step. |
| `FilesetSyncProofs` | `TypeCorrect`, `IndexIsTruthful`, `SuccessIsWhole` (from `SuccessIsSound`, `OwnershipIsApplied`), `ForeignFilesAreSafe` | The index is written last. `SyncInv` says what has reached the volume at each phase, `PlanInv` that the index is still the planned one; that the diff mentions every path that differs (`DiffIsComplete`) closes the gap. `OwnedInv` follows the files from the archive to chown. |
| `FilesetSyncProofs`, for `DockerExec` | `ExecTypeOK`, `ExecSSHLimit`, `ExecReportsTruth`, `ClientKeepsPromise` | There is one client, so its slots are all slots; the holders are the active limited calls; attempts bound executions. The refinement needs all three: a call begins only below the limit because the holders are the calls under way, and a command that is not retried was not executed before. |
| `ApplyServicesProofs` | `TypeCorrect`, `ColdServicesComeBack`, `ColdSyncIsCold`, `HotServicesAreRestarted` | `DownInv`: what ran before runs or is in the stopped list. `QueueInv`: what became stale is queued, or about to be. |
| `DestroyProofs` | `DestroyTypeOK`, `DestroyStrict`, `DestroyIsolation`, `DestroyShown`, `DestroyTargeted` | `GoneBehind` and `FreeBehind`: what is gone in a context at each step, with and without errors; `ShownInScope` as in Reconcile. |
| `VolumeSnapshotProofs` | `SnapshotTypeOK`, `RestoreCorrect`, `RestoreRespectsFiles`, `RestorePauses` (from `RestoreIsQuiet`, `RestoreRestarts`), `SnapshotReliable` (from `SidecarCorrect`, `SnapshotCorrect`) | `Overwriting`: restore writes only to an empty or a given-up volume. `Stopping`: the list to restart is what ran. `Streaming`: the part read so far equals the volume. |
| `TerminalProofs` | `TerminalTypeOK`, `TerminalHasOneWriter`, `ReviewedBeforeApplied`, `ExitIsTruthful` | `ScreenInv`: which goroutines can exist at each place of the command, and that a spinner is created only while no program is active. `WorkInv`: what has been planned, printed and answered. `ErrorInv`: where the error at hand comes from. |
| `TerminalProofs`, for `Dashboard` | `LastMoveWins`, `CommandsHitTheirService` | `DebounceInv`: until the pending selection is shown, a request for it is on its way. `NamesInv`: names in the list, those that `FetchAll` has read and those of commands under way are the container_name of the item, or were seen on a container with its service label. |
| `ImagesProofs` | `RequestsInvariance`, `ExpiredTokensAreHarmless`, `UnlistedIsCurrent` (from `ChecksInvariance`), `RecreateIsCurrent`, `UpgradesAreExact` (both from `ImagesInvariance`) | Three invariants, one on top of the other. `RequestsInv`: a request belongs to a check under way, and only a token fetched for it is refused for good. `ChecksInv`: a digest that was read is one that the tag had, and no place of the list of tags is skipped from page to page although tags are pushed in between. `ImagesInv`: stacks behind the one being pulled run what was seen; each line is the old one until its own rewriting and the expected one after it. |
| `ManifestProofs` | `LoadingIsExact`, `FilesetsComeWithStacks`, `StacksComeAsMeant` (from `StacksComeResolved`), all from `LoadInvariance` | `LoadInv` says what each map holds while it is visited, in terms of tree and document alone: `StacksInv` (found, declared, normalised), `FilesetsInv` (filed and checked) and `StagesInv` (what has been validated). The order of the loops does not appear in it. `StacksComeAsMeant` moreover rests on what `DedupInline` and `ResolveAll` compute. |

`ClientKeepsPromise` is a step simulation: the initial states map to initial states, each action maps
to one abstract step or a stutter (looking up and creating a client, the backoff), given the invariant.

Two proofs need induction over data, which is done with a least counterexample (`LeastNatural`, from
`WellFoundedInduction`) instead of an induction theorem. In `ImagesProofs` a nonempty listing has a greatest element
(`GreatestExists`): the newest tag, and the last compose file that gives a service its image. In `ManifestProofs`,
`DedupInline` is a recursive function from the end of the list to its start. `LoopEnds` shows that the function
exists, `LoopKeepsLasting` that at each place it holds the entries that no later one overrides, in their order;
`Downwards` carries both from the last place to the first. `StacksAreAsMeant` compares the result with `MeantInline`,
which selects those entries without a loop, and the resolved secrets with `MeantSecrets`, which says where each
path leads, absolute paths and steps up included.

**Only model-checked**:

- The liveness properties (`CancellationReturns`, `EventuallyIndexed`, `CallsReturn`, `CancelReturns`,
  `CommandReturns`, `LinesAreDrained`, `StatusesKeepComing`), which need fairness and are out of the prover's reach.

## 6. Where code and documentation disagree, and limits of the code

The run `volume_checksum` shows that `volume restore` looks for `<base>.tar.json` while snapshot writes
`<base>.json`, so the checksum is never verified (`cli/volumecmd/new.go:314`; `findings` in `PROJECT.json`
quotes the lines).

The following formulas state what a comment or a message says and do not hold of the code. They are kept in the
modules, each with a comment, and TLC finds a counterexample when a copy of the run's cfg checks the formula
as its only invariant:

| Formula | With | What the code does |
| --- | --- | --- |
| `FilesetSync!NoopMeansInSync` | `FilesetSync.cfg` | A failed sync followed by a revert of the source is reported as "No changes" (`planner/apply_filesets.go:93`). |
| `Reconcile!ComposeNetworksSurvive` | `Reconcile.cfg` | Prune removes networks of stacks when it cannot list them (`planner/prune.go:141`). |
| `Reconcile!NoOrphanContainerLeft` | `Stacks <- MCTwoStacks`, `Services <- MCServices` | Orphans are found by service name over all stacks (`planner/prune.go:95`). |
| `Destroy!TargetedRemovesOwnVolumes` | `Projects <- MCTwoProjects` | A targeted destroy selects volumes by name over all contexts (`planner/destroy.go:329`). |
| `Images!StaleIsNeverHidden` | `Images.cfg` | When containers cannot be listed, the digest of the stored image counts, and a service that was pulled but not recreated looks current (`cli/imagescmd/check.go:265`). |
| `Manifest!OverridesTakeEffect` | `Manifest.cfg` | `GetAllStacks` leaves out the filesets declared for a discovered stack, so that their overrides are lost (`manifest/validation.go:214`, `types.go:279`). |
| `Terminal!InterruptedMeansStopped` | `Terminal.cfg` | Ctrl-C after the last check of the context shows "Interrupted by user", and with `--skip-confirmation` apply goes on (`ui/rollinglog.go:59`). |
| `Terminal!InterruptedByUser` | `Terminal.cfg` | When a context fails in the plan of destroy and another one is cancelled because of it, the command ends with 130 and no message, as if the user had interrupted it (`cli/root.go:46`). |
| `Dashboard!StatusIsOwn` | `Dashboard.cfg` | Rows of `docker ps` are looked up by the name of the service alone and on the daemon of the first context, so that a service shows the container of another stack (`dashboardcmd/data/status.go:97`). |

The conditions in the properties name further limits, which the code does not claim to exclude:

- The index is written before ownership is applied (`apply_filesets.go:176`, `181`): when only the
  ownership fails, no later run repeats it. The script is also refused for the target path "/" (`apply_ownership.go:101`), which
  the loader gives to every discovered fileset (`manifest/loader.go:218`), and it skips users it does not know.
- The helper that deletes files of a fileset ignores the errors of rm, and the index then no longer lists them
  (`dockercli/dockercli.go:440`).
- A file of the fileset that is excluded later is deleted from the volume.
- Config hashes that cannot be computed count as no drift (`service_state.go:185`, `265`).
- Only the first container of a service is stopped and restarted (`apply_filesets.go:129`).
- The restart queue lives in memory: a failing stack or a kill between sync and restart loses it, and the next
  run finds the fileset in sync (`apply.go:120-132`).
- A plan that cannot list containers shows no deletions of containers, and prune lists them again (`build_plan.go:210`).
- Destroy lists again after the confirmation and removes what it finds then (`destroy.go:236`).
- Labelled containers without a compose project are dropped when containers are listed, so that the code for
  them in `destroy.go:250-264` is never reached (`dockercli/dockercli.go:247`), and networks and
  volumes they use stay.
- The comment at `orchestrate.go:170` takes every error after the first for an induced one; a context may also
  have failed by itself at the same time, and is then reported as aborted.
- Restore: the deferred start uses a context that Ctrl-C has cancelled, and its error is dropped (`volumecmd/new.go:374`);
  a partly failed stop returns before the start is deferred (`363`); emptiness is checked before the containers
  are stopped; the errors of the rm in `ClearVolume` are hidden; extraction through zstd has no
  pipefail.
- A command whose connection breaks is tried again although the daemon may have executed it, and keeps its
  slot while it waits (`dockercli/exec.go`).
- Rekeying secrets writes the plain text before it encrypts it again (`cli/secretcmd/new.go:157`; not modelled).
- A fileset that is declared for an explicit stack is filed under the whole key of the stack (`manifest/validation.go:240`),
  so that `--stack` drops it; contexts given together with stacks do not restrict them (`cli/common/targets.go`).
- An upgrade replaces text: a reference that is a prefix of another one changes that one too, and two services
  with the same reference in one file are rewritten at once, the second being reported as not found
  (`images/upgrade.go:78`). The file is truncated before it is written (`84`).
- After Ctrl-C `Check` still returns its results, and upgrade goes on with them; "All images are current" is also
  printed when every check failed (`cli/imagescmd/pull.go:105`).
- Ctrl-C in the rolling log is lost when the monitor is not at its select (`ui/rollinglog.go:299`); the
  prompt without a terminal cannot be cancelled; Ctrl-C at the prompt exits with 0.
- `Spinner.Start` twice starts two goroutines, although its comment says that this is safe (`ui/spinner.go:66`);
  no command does so, and in `Terminal` every spinner is started once.
- A log stream whose `logStreamStartedMsg` arrives after the next request was accepted is never cancelled by that
  request, and its lines mix with those of the selected service (`dashboardcmd/update.go:107`).

## 7. Abstractions, and what is not modelled

- Data is abstract: a file's contents, a label and a name are values that can be told apart; sizes, hashes, JSON and
  tar formats are not represented, except for the file names of snapshots. Equal hashes mean equal contents.
- Docker is modelled from how the code uses it: `volume create` keeps the labels of an existing volume,
  `network create` fails for an existing one, a resource in use is not removed, compose up creates
  the network of a project. A failing command may have had any part of its effect.
- Stacks are brought up, and resources removed, in any order: no property depends on the order of names.
- A version is a rank, a tag a sequence of characters, an HTTP exchange its meaning (accepted, refused, failed,
  never answered). A page of tags ends anywhere.
- Bubble Tea is modelled from how the code uses it: one message at a time, `Send` blocks until the loop takes the
  message or is over, commands run in goroutines of their own, and the program may fail at any time.
- The confirmation is a choice of the user; a tree and a decoded manifest are inputs of `Manifest`, and its result
  is an input of `Reconcile` and `Destroy`.

Not modelled:

- **Secrets** (`secrets/`, `cli/secretcmd/`): a sequence of calls of sops and age on one file after another, with
  no state beyond the files; what a failing tool leaves in a file is not decided by this code.
- **SSH multiplexing** (`sshmux/`): set up once at the start and removed at the end of a process; the sharing of connections
  is done by ssh.
- **Compose config cache** (`dockercli/lru_cache.go`): every operation holds one mutex, and the cached value is the
  output of a command on unchanged files; eviction only costs time.
- **Doctor and validator**: read-only checks of the environment, one after another.
- **Rendering, pager, selection list, logging, errors' wording**: output only.
- **YAML decoding, environment interpolation, parsing of docker's output**: pure conversions whose result is an input or a
  model value here.
- **Panes of the dashboard** that show volumes, networks and system data: they are filled once and not acted upon.

## 8. Possible extensions

Refinements of `FilesetSync` (a volume that is at an old or at a new tree) and of `Reconcile` without failures (a context
that settles in one step); a rekey of several secrets once the behaviour of sops on failure is fixed.
