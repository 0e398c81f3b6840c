------------------------------- MODULE Destroy -------------------------------
(***************************************************************************)
(* `dockform destroy` (src/internal/planner/destroy.go,                    *)
(* src/internal/cli/destroycmd/new.go, src/internal/cli/common/targets.go):*)
(* the labelled resources of every context are listed and shown, the user  *)
(* confirms, and the contexts are then torn down concurrently, each from a *)
(* fresh list: containers, then networks, then volumes.  Errors are        *)
(* collected and nothing stops at one.                                     *)
(*                                                                         *)
(* Only resources with dockform's label are modelled: no command of        *)
(* destroy lists another.  One container stands for those of a project.    *)
(***************************************************************************)
EXTENDS Naturals

CONSTANTS
  Contexts, Projects, Networks, Volumes,
  NoProject,     \* the owner of a labelled container outside of compose
  Owns,          \* the fileset volumes <stack>_<name> of a stack, in any context
  Mounts, Joins, \* the volumes and networks that a project's container uses
  MaxFaults,     \* bound on failing docker commands
  MaxChanges     \* bound on changes made by others

Owners == Projects \cup {NoProject}

ASSUME DestroyAssumption ==
  /\ NoProject \notin Projects
  /\ Owns \in [Projects -> SUBSET Volumes]
  /\ Mounts \in [Owners -> SUBSET Volumes]
  /\ Joins \in [Owners -> SUBSET Networks]
  /\ MaxFaults \in Nat
  /\ MaxChanges \in Nat

VARIABLES
  targeted,   \* --stack, --context or --deployment was given
  inRun,      \* the contexts of the filtered configuration
  stacks,     \* its stacks: pairs of a context and a project
  strict,     \* --strict
  ctr, net, vol,  \* per context, what exists
  pc,         \* "start", "planned", "destroying" or "done"
  at,         \* per context, the next step of destroyContext
  plan,       \* what the user was shown
  cancelled,  \* Ctrl-C: every later docker command fails
  errs,       \* contexts whose destroyContext collected an error
  result,
  removed,    \* history: what destroy removed, per context
  touched,    \* history: others changed the daemon since the plan
  failed,     \* history: contexts with a docker command that failed by itself
  bound

config == <<targeted, inRun, stacks, strict>>
daemon == <<ctr, net, vol>>
vars == <<config, daemon, pc, at, plan, cancelled, errs, result, removed, touched, failed, bound>>

-----------------------------------------------------------------------------
(***************************************************************************)
(* Scope                                                                   *)
(***************************************************************************)
AllowsProjectAnywhere(x, o) == targeted => \E y \in Contexts : <<y, o>> \in stacks

AllowsStack(x, o) == targeted => <<x, o>> \in stacks

\* volumeToFileset: the target volumes of all filesets, by name.
VolumeToFileset == UNION {Owns[s[2]] : s \in stacks}

\* The list leaves out what has no compose project or service, so that destroy's branch for
\* a container without a project is never taken.
ListComposeContainersAll(x) == ctr[x] \ {NoProject}

ContainersInScope(x) == {o \in ListComposeContainersAll(x) : AllowsStack(x, o)}
NetworksInScope(x) == IF targeted THEN {} ELSE net[x]

\* The volumes that the plan lists, under their filesets or by themselves, and the ones that
\* destroyContext selects.
PlannedVolumes(x) == {v \in vol[x] : v \in VolumeToFileset \/ ~targeted}

EveryVolume(x) == vol[x]

VolumesInScope(x) == IF targeted THEN vol[x] \cap VolumeToFileset ELSE vol[x]

\* What docker refuses to remove because a container uses it.
Busy(x, Uses) == UNION {Uses[o] : o \in ctr[x]}

InRun(x, S) == IF x \in inRun THEN S ELSE {}

Nothing == [x \in Contexts |-> {}]
NothingAtAll == [ctrs |-> Nothing, nets |-> Nothing, vols |-> Nothing]

-----------------------------------------------------------------------------
Init ==
  /\ targeted \in BOOLEAN
  /\ inRun \in SUBSET Contexts \ {{}}
  /\ ~targeted => inRun = Contexts
  /\ stacks \in SUBSET (inRun \X Projects)
  /\ strict \in BOOLEAN
  /\ ctr \in [Contexts -> SUBSET Owners]
  /\ net = [x \in Contexts |-> UNION {Joins[o] : o \in ctr[x]}]
  /\ vol = [x \in Contexts |-> Volumes]
  /\ pc = "start"
  /\ at = [x \in Contexts |-> "done"]
  /\ plan = NothingAtAll
  /\ cancelled = FALSE
  /\ errs = {}
  /\ result = "none"
  /\ removed = NothingAtAll
  /\ touched = FALSE
  /\ failed = {}
  /\ bound = [faults |-> 0, changes |-> 0]

End(how) == pc' = "done" /\ result' = how

\* BuildDestroyPlan: any failing list fails the command.
BuildDestroyPlan ==
  /\ pc = "start"
  /\ \/ /\ plan' = [ctrs |-> [x \in Contexts |-> InRun(x, ContainersInScope(x))],
                    nets |-> [x \in Contexts |-> InRun(x, NetworksInScope(x))],
                    vols |-> [x \in Contexts |-> InRun(x, PlannedVolumes(x))]]
        /\ IF plan' = NothingAtAll THEN End("ok") ELSE pc' = "planned" /\ UNCHANGED result
        /\ ~cancelled
     \/ End("error") /\ UNCHANGED plan
  /\ touched' = FALSE
  /\ UNCHANGED <<config, daemon, at, cancelled, errs, removed, failed, bound>>

\* GetDestroyConfirmation
Confirm ==
  /\ pc = "planned"
  /\ \/ /\ pc' = "destroying"
        /\ at' = [x \in Contexts |-> IF x \in inRun THEN "containers" ELSE "done"]
        /\ UNCHANGED result
     \/ End("declined") /\ UNCHANGED at
  /\ UNCHANGED <<config, daemon, plan, cancelled, errs, removed, touched, failed, bound>>

(***************************************************************************)
(* destroyContext                                                          *)
(***************************************************************************)
CtxDoneAfterAnyError == cancelled \/ errs # {}

\* RunToCompletion: only the caller's cancellation reaches a context's commands.
CtxDone == cancelled

\* One step of destroyContext(x) removes S out of the resources in scope, of which `free`
\* can be removed.  A list that fails yields nothing, a removal that fails leaves its
\* resource; both are collected and the next step follows.
Removal(x, inScope, free, S, next) ==
  /\ \/ /\ ~CtxDone /\ S = free
        /\ errs' = IF free = inScope THEN errs ELSE errs \cup {x}
        /\ UNCHANGED <<failed, bound>>
     \/ /\ ~CtxDone /\ S \subseteq free
        /\ bound.faults < MaxFaults
        /\ bound' = [bound EXCEPT !.faults = @ + 1]
        /\ errs' = errs \cup {x} /\ failed' = failed \cup {x}
     \/ /\ CtxDone /\ S = {}
        /\ errs' = errs \cup {x}
        /\ UNCHANGED <<failed, bound>>
  /\ at' = [at EXCEPT ![x] = next]
  /\ UNCHANGED <<config, pc, plan, cancelled, result, touched>>

DestroyContainers(x) ==
  /\ at[x] = "containers"
  /\ \E S \in SUBSET ContainersInScope(x) :
       /\ Removal(x, ContainersInScope(x), ContainersInScope(x), S, "networks")
       /\ ctr' = [ctr EXCEPT ![x] = @ \ S]
       /\ removed' = [removed EXCEPT !.ctrs[x] = S]
  /\ UNCHANGED <<net, vol>>

DestroyNetworks(x) ==
  /\ at[x] = "networks"
  /\ ~targeted
  /\ \E S \in SUBSET net[x] :
       /\ Removal(x, net[x], net[x] \ Busy(x, Joins), S, "volumes")
       /\ net' = [net EXCEPT ![x] = @ \ S]
       /\ removed' = [removed EXCEPT !.nets[x] = S]
  /\ UNCHANGED <<ctr, vol>>

\* "a scoped (targeted) destroy never removes them"
KeepNetworks(x) ==
  /\ at[x] = "networks"
  /\ targeted
  /\ at' = [at EXCEPT ![x] = "volumes"]
  /\ UNCHANGED <<config, daemon, pc, plan, cancelled, errs, result, removed, touched, failed, bound>>

DestroyVolumes(x) ==
  /\ at[x] = "volumes"
  /\ \E S \in SUBSET VolumesInScope(x) :
       /\ Removal(x, VolumesInScope(x), VolumesInScope(x) \ Busy(x, Mounts), S, "done")
       /\ vol' = [vol EXCEPT ![x] = @ \ S]
       /\ removed' = [removed EXCEPT !.vols[x] = S]
  /\ UNCHANGED <<ctr, net>>

AnyErrorIgnored == FALSE

AnyError == errs # {}

\* DestroyWithOptions returns once every context is done; handleCleanupError.
Return ==
  /\ pc = "destroying"
  /\ \A x \in Contexts : at[x] = "done"
  /\ End(IF strict /\ AnyError THEN "error" ELSE "ok")
  /\ UNCHANGED <<config, daemon, at, plan, cancelled, errs, removed, touched, failed, bound>>

(***************************************************************************)
(* The environment                                                         *)
(***************************************************************************)
Cancel ==
  /\ pc \in {"start", "destroying"}
  /\ ~cancelled
  /\ cancelled' = TRUE
  /\ UNCHANGED <<config, daemon, pc, at, plan, errs, result, removed, touched, failed, bound>>

\* Another dockform with the same identifier, or another user of the daemon, brings up
\* or removes a labelled resource.
OthersChange(x) ==
  /\ pc \in {"planned", "destroying"}
  /\ bound.changes < MaxChanges
  /\ bound' = [bound EXCEPT !.changes = @ + 1]
  /\ touched' = TRUE
  /\ \/ /\ \E o \in Owners : ctr' = [ctr EXCEPT ![x] = (@ \cup {o}) \ (@ \cap {o})]
        /\ UNCHANGED <<net, vol>>
     \/ /\ \E n \in Networks : net' = [net EXCEPT ![x] = (@ \cup {n}) \ (@ \cap {n})]
        /\ UNCHANGED <<ctr, vol>>
     \/ /\ \E v \in Volumes : vol' = [vol EXCEPT ![x] = (@ \cup {v}) \ (@ \cap {v})]
        /\ UNCHANGED <<ctr, net>>
  /\ UNCHANGED <<config, pc, at, plan, cancelled, errs, result, removed, failed>>

Finished == pc = "done" /\ UNCHANGED vars

DestroyContext(x) ==
  DestroyContainers(x) \/ DestroyNetworks(x) \/ KeepNetworks(x) \/ DestroyVolumes(x)

Next ==
  \/ BuildDestroyPlan
  \/ Confirm
  \/ \E x \in Contexts : DestroyContext(x)
  \/ Return
  \/ Cancel
  \/ \E x \in Contexts : OthersChange(x)
  \/ Finished

Spec == Init /\ [][Next]_vars

-----------------------------------------------------------------------------
(***************************************************************************)
(* Properties                                                              *)
(***************************************************************************)
Parts == [ctrs : [Contexts -> SUBSET Owners], nets : [Contexts -> SUBSET Networks],
          vols : [Contexts -> SUBSET Volumes]]

\* The variables keep their types.
TypeOK ==
  /\ targeted \in BOOLEAN
  /\ inRun \subseteq Contexts
  /\ stacks \subseteq inRun \X Projects
  /\ strict \in BOOLEAN
  /\ ctr \in [Contexts -> SUBSET Owners]
  /\ net \in [Contexts -> SUBSET Networks]
  /\ vol \in [Contexts -> SUBSET Volumes]
  /\ pc \in {"start", "planned", "destroying", "done"}
  /\ at \in [Contexts -> {"containers", "networks", "volumes", "done"}]
  /\ plan \in Parts
  /\ cancelled \in BOOLEAN
  /\ errs \subseteq inRun
  /\ result \in {"none", "ok", "error", "declined"}
  /\ removed \in Parts
  /\ touched \in BOOLEAN
  /\ failed \subseteq inRun
  /\ bound \in [faults : 0..MaxFaults, changes : 0..MaxChanges]

\* With --strict, "ok" means that nothing in scope is left in any context, whatever failed or
\* was interrupted on the way (unless others changed the daemon meanwhile).
StrictSuccessMeansGone ==
  pc = "done" /\ result = "ok" /\ strict /\ ~touched =>
    \A x \in inRun :
      ContainersInScope(x) = {} /\ NetworksInScope(x) = {} /\ VolumesInScope(x) = {}

\* "a failure on one host must never cancel in-flight teardown work on another host": a
\* context without a failure of its own is torn down, up to what a container out of scope
\* uses.
FailuresAreIsolated ==
  \A x \in inRun :
    pc = "destroying" /\ at[x] = "done" /\ x \notin failed /\ ~cancelled /\ ~touched =>
      /\ ContainersInScope(x) = {}
      /\ NetworksInScope(x) \subseteq Busy(x, Joins)
      /\ VolumesInScope(x) \subseteq Busy(x, Mounts)

\* A scoped destroy removes containers of targeted stacks and volumes that are named like
\* their fileset volumes, in contexts of the run; it removes no network.
TargetedSparesTheRest ==
  [][targeted /\ bound'.changes = bound.changes =>
       /\ net' = net
       /\ \A x \in Contexts :
            /\ \A o \in ctr[x] \ ctr'[x] : <<x, o>> \in stacks
            /\ vol[x] \ vol'[x] # {} => x \in inRun /\ vol[x] \ vol'[x] \subseteq VolumeToFileset]_vars

\* Destroy lists everything again after the confirmation; what it removes is what the user
\* was shown, unless others changed the daemon in between.
RemovedWasShownUnlessTouched ==
  ~touched => \A x \in Contexts :
    /\ removed.ctrs[x] \subseteq plan.ctrs[x]
    /\ removed.nets[x] \subseteq plan.nets[x]
    /\ removed.vols[x] \subseteq plan.vols[x]

\* "only the targeted stacks' services and their own fileset volumes are removed".
\* It does not hold: volumes are selected by their names over the stacks of all contexts.
TargetedRemovesOwnVolumes ==
  targeted => \A x \in Contexts : \A v \in removed.vols[x] :
    \E p \in Projects : <<x, p>> \in stacks /\ v \in Owns[p]
=============================================================================
