------------------------------ MODULE Reconcile ------------------------------
(***************************************************************************)
(* One context of `dockform apply`: the plan is built and shown, the user  *)
(* confirms, volumes, networks and stacks are brought up from what the plan *)
(* recorded, then unmanaged resources are pruned (src/internal/planner/    *)
(* build_plan*.go, apply.go, apply_resources.go, prune.go,                 *)
(* service_state.go, src/internal/cli/applycmd/new.go).                    *)
(*                                                                         *)
(* Volumes, networks and containers exist with or without dockform's       *)
(* identifier label; other users of the daemon may change them between any *)
(* two steps.  Filesets are left to FilesetSync and ApplyServices.         *)
(***************************************************************************)
EXTENDS Naturals, FiniteSets

CONSTANTS
  Volumes, Networks, Stacks, Services,
  ComposeNet,    \* the network compose creates for each stack
  MaxRuns,       \* bound on runs of apply
  MaxFaults,     \* bound on failing docker commands
  MaxChanges     \* bound on changes of the daemon made by others

ASSUME ReconcileAssumption ==
  /\ ComposeNet \in [Stacks -> Networks]
  /\ MaxRuns \in Nat
  /\ MaxFaults \in Nat
  /\ MaxChanges \in Nat

Containers == Stacks \X Services

ComposeNets == {ComposeNet[s] : s \in Stacks}

\* The networks of the context's configuration are not those of its stacks.
ContextNets == Networks \ ComposeNets

VolStates == {"none", "ours", "foreign"}
CtrStates == {"none", "ours", "outdated", "foreign"}
NetStates(n) == IF n \in ComposeNets THEN {"none", "compose", "foreign"} ELSE {"none", "ours", "foreign"}

VARIABLES
  wantVols,   \* volumes of the filesets and of the context's configuration
  wantNets,   \* networks of the context's configuration
  defines,    \* services of each stack; {} if the stack is not configured
  targeted,   \* --stack or --context was given
  strict,     \* --strict-prune
  vol,        \* volumes: "none", "ours" (labelled) or "foreign"
  net,        \* networks: "none", "ours", "compose" (labelled, of a stack) or "foreign"
  ctr,        \* containers: "none", "ours" (running, up to date), "outdated" (labelled, with
              \* another configuration or not running) or "foreign" (no or another label)
  pc,
  plan,       \* the plan and its execution context
  todo,       \* stacks that applyStackChanges still has to bring up
  victims,    \* resources that prune listed and still has to remove
  result,
  faults,     \* history: kinds of failures of this run
  touched,    \* history: the daemon or the manifest changed since the plan
  removed,    \* history: what prune removed in this run
  tampered,   \* history: victims that others changed since they were listed
  bound

manifest == <<wantVols, wantNets, defines, targeted, strict>>
daemon == <<vol, net, ctr>>
pruning == <<victims, tampered>>
vars == <<manifest, daemon, pc, plan, todo, pruning, result, faults, touched, removed, bound>>

FaultKinds == {"plan", "ps", "hash", "planList", "apply", "overlay", "list", "composeList", "remove"}

(***************************************************************************)
(* What the docker commands list: only what carries the identifier label,  *)
(* except that compose ps sees every running container of the project.     *)
(***************************************************************************)
ListVolumes == {v \in Volumes : vol[v] = "ours"}
ListNetworks == {n \in Networks : net[n] \in {"ours", "compose"}}
ListComposeNetworks == {n \in Networks : net[n] = "compose"}
ListComposeContainersAll == {c \in Containers : ctr[c] \in {"ours", "outdated"}}

\* Services by name, of all stacks: the plan and prune collect them separately.
DesiredServices == UNION {defines[s] : s \in Stacks}

DesiredOfChangedStacks == UNION {defines[s] : s \in plan.needs}

DesiredAtPrune == UNION {defines[s] : s \in Stacks}

\* NeedsApply of the states detected for a stack: a service that is missing, drifted
\* or without our label.
NeedsApply(s) == \E x \in defines[s] : ctr[<<s, x>>] # "ours"

OrphanNetworks(composeOwned) == (ListNetworks \ wantNets) \ composeOwned

OrphanContainers(desired) == {c \in ListComposeContainersAll : c[2] \notin desired}

OrphanVolumes == ListVolumes \ wantVols

VolumesOfThePlan == plan.deleteVols

\* Prune lists the volumes again.
VolumesToPrune == OrphanVolumes

\* The plan; `needs` are the stacks to bring up, `listed` is FALSE if the list of
\* containers failed, an error the plan ignores.
PlanOf(needs, listed) ==
  [nets |-> ListNetworks,
   needs |-> needs,
   createVols |-> wantVols \ ListVolumes,
   createNets |-> wantNets \ ListNetworks,
   deleteVols |-> IF targeted THEN {} ELSE OrphanVolumes,
   deleteNets |-> IF targeted THEN {} ELSE OrphanNetworks(ListComposeNetworks),
   deleteCtrs |-> IF targeted \/ ~listed THEN {} ELSE OrphanContainers(DesiredServices)]

NothingRemoved == [vols |-> {}, nets |-> {}, ctrs |-> {}, compose |-> {}]

NoActions(p) ==
  /\ p.needs = {}
  /\ p.createVols = {} /\ p.createNets = {}
  /\ p.deleteVols = {} /\ p.deleteNets = {} /\ p.deleteCtrs = {}

-----------------------------------------------------------------------------
Init ==
  /\ wantVols \in SUBSET Volumes
  /\ wantNets \in SUBSET ContextNets
  /\ defines \in [Stacks -> SUBSET Services]
  /\ targeted \in BOOLEAN
  /\ strict \in BOOLEAN
  /\ vol \in [Volumes -> {"none", "foreign"}]
  /\ net \in {f \in [Networks -> {"none", "foreign"}] : \A n \in ComposeNets : f[n] = "none"}
  /\ ctr = [c \in Containers |-> "none"]
  /\ pc = "idle"
  /\ plan = PlanOf({}, TRUE)
  /\ todo = {}
  /\ victims = {}
  /\ tampered = {}
  /\ result = "none"
  /\ faults = {}
  /\ touched = FALSE
  /\ removed = NothingRemoved
  /\ bound = [runs |-> 0, faults |-> 0, changes |-> 0]

End(how) == pc' = "idle" /\ result' = how

Fails(kind) ==
  /\ bound.faults < MaxFaults
  /\ bound' = [bound EXCEPT !.faults = @ + 1]
  /\ faults' = faults \cup {kind}

NoFault == UNCHANGED <<faults, bound>>

\* Without the hash of its configuration a service that has drifted counts as running.
MayLookCurrent(s) == \A x \in defines[s] : ctr[<<s, x>>] \in {"ours", "outdated"}

\* BuildPlan.  A failing compose ps makes the services of its stack look missing, failing
\* config hashes hide the drift of a stack, a failing list of containers hides the deletions
\* of containers, other failures fail the plan.
BuildPlan ==
  /\ pc = "idle"
  /\ bound.runs < MaxRuns
  /\ LET counted == [bound EXCEPT !.runs = @ + 1]
         faulty == [counted EXCEPT !.faults = @ + 1]
         needs == {s \in Stacks : NeedsApply(s)}
     IN \/ /\ plan' = PlanOf(needs, TRUE)
           /\ faults' = {} /\ bound' = counted
           /\ pc' = "planned" /\ result' = "none"
        \/ /\ bound.faults < MaxFaults
           /\ bound' = faulty
           /\ \/ /\ \E s \in {s \in Stacks : defines[s] # {}} : plan' = PlanOf(needs \cup {s}, TRUE)
                 /\ faults' = {"ps"} /\ pc' = "planned" /\ result' = "none"
              \/ /\ \E s \in {s \in needs : MayLookCurrent(s)} : plan' = PlanOf(needs \ {s}, TRUE)
                 /\ faults' = {"hash"} /\ pc' = "planned" /\ result' = "none"
              \/ /\ plan' = PlanOf(needs, FALSE)
                 /\ faults' = {"planList"} /\ pc' = "planned" /\ result' = "none"
              \/ faults' = {"plan"} /\ UNCHANGED plan /\ End("error")
  /\ touched' = FALSE
  /\ removed' = NothingRemoved
  /\ todo' = {}
  /\ UNCHANGED <<manifest, daemon, pruning>>

\* "Nothing to apply. Exiting."
NothingToApply ==
  /\ pc = "planned"
  /\ NoActions(plan)
  /\ End("ok")
  /\ UNCHANGED <<manifest, daemon, plan, todo, pruning, faults, touched, removed, bound>>

\* The user is asked to confirm the plan.
Confirm ==
  /\ pc = "planned"
  /\ ~NoActions(plan)
  /\ \/ pc' = "volumes" /\ UNCHANGED result
     \/ End("declined")
  /\ UNCHANGED <<manifest, daemon, plan, todo, pruning, faults, touched, removed, bound>>

(***************************************************************************)
(* applyContext                                                            *)
(***************************************************************************)
\* docker volume create: a name that exists keeps the labels it has.
VolumesCreated(S) == vol' = [v \in Volumes |-> IF v \in S /\ vol[v] = "none" THEN "ours" ELSE vol[v]]

\* EnsureVolumesExistForContext lists the volumes again.
EnsureVolumes ==
  /\ pc = "volumes"
  /\ \/ /\ VolumesCreated(wantVols \ ListVolumes)
        /\ pc' = "networks"
        /\ NoFault /\ UNCHANGED result
     \/ /\ \E S \in SUBSET (wantVols \ ListVolumes) : VolumesCreated(S)
        /\ Fails("apply")
        /\ End("error")
  /\ UNCHANGED <<manifest, net, ctr, plan, todo, pruning, touched, removed>>

\* docker network create, with the identifier label.
NetworksCreated(S) == net' = [n \in Networks |-> IF n \in S THEN "ours" ELSE net[n]]

\* EnsureNetworksExistForContext relies on the networks that the plan saw.
MissingNetworks == wantNets \ plan.nets

\* To create a network that exists is an error.
EnsureNetworks ==
  /\ pc = "networks"
  /\ LET free == {n \in MissingNetworks : net[n] = "none"}
     IN \/ /\ free = MissingNetworks
           /\ NetworksCreated(free)
           /\ pc' = "stacks"
           /\ todo' = {s \in plan.needs : defines[s] # {}}
           /\ NoFault /\ UNCHANGED result
        \/ /\ free # MissingNetworks
           /\ \E S \in SUBSET free : NetworksCreated(S)
           /\ End("error")
           /\ NoFault /\ UNCHANGED todo
        \/ /\ \E S \in SUBSET free : NetworksCreated(S)
           /\ Fails("apply")
           /\ End("error")
           /\ UNCHANGED todo
  /\ UNCHANGED <<manifest, vol, ctr, plan, pruning, touched, removed>>

\* docker compose up: the services X of stack s run, in state c, and the network of the
\* stack exists, in state n if it is new.
BroughtUp(s, X, c, n) ==
  /\ ctr' = [d \in Containers |-> IF d[1] = s /\ d[2] \in X THEN c ELSE ctr[d]]
  /\ net' = [m \in Networks |-> IF m = ComposeNet[s] /\ net[m] = "none" THEN n ELSE net[m]]

BringUpMissing(s) == BroughtUp(s, {x \in defines[s] : ctr[<<s, x>>] = "none"}, "ours", "compose")

\* With the labelled project: the current configuration and our label.
BringUp(s) == BroughtUp(s, defines[s], "ours", "compose")

\* The stacks are brought up in the order of their names, which no property depends on:
\* any order is allowed.
ApplyStack(s) ==
  /\ pc = "stacks"
  /\ s \in todo
  /\ \/ /\ BringUp(s)
        /\ todo' = todo \ {s}
        /\ NoFault /\ UNCHANGED <<pc, result>>
     \/ \* the labelled project cannot be built: ComposeUp goes on without it, and the
        \* containers get the label afterwards
        /\ BroughtUp(s, defines[s], "outdated", "foreign")
        /\ todo' = todo \ {s}
        /\ Fails("overlay") /\ UNCHANGED <<pc, result>>
     \/ \* compose up or the labelling fails
        /\ \E X \in SUBSET defines[s], c \in {"ours", "outdated", "foreign"}, n \in {"compose", "foreign"} :
             BroughtUp(s, X, c, n)
        /\ Fails("apply")
        /\ End("error")
        /\ UNCHANGED todo
  /\ UNCHANGED <<manifest, vol, plan, pruning, touched, removed>>

\* PruneWithPlanOptions does nothing in a targeted run.
PruneEnabled == ~targeted

StacksDone ==
  /\ pc = "stacks"
  /\ todo = {}
  /\ IF PruneEnabled THEN pc' = "pruneContainers" /\ UNCHANGED result ELSE End("ok")
  /\ UNCHANGED <<manifest, daemon, plan, todo, pruning, faults, touched, removed, bound>>

(***************************************************************************)
(* pruneContext: containers, volumes and networks are listed and removed   *)
(* one by one.  Errors are collected, every part is attempted.             *)
(***************************************************************************)
\* The victims S of a part; with none left the next part follows.
Victims(S, part, next) ==
  /\ victims' = S
  /\ tampered' = tampered \cap S
  /\ pc' = IF S = {} THEN next ELSE part

ListContainers ==
  /\ pc = "pruneContainers"
  /\ \/ NoFault /\ Victims(OrphanContainers(DesiredAtPrune), "removeContainers", "pruneVolumes")
     \/ Fails("list") /\ Victims({}, "removeContainers", "pruneVolumes")
  /\ UNCHANGED <<manifest, daemon, plan, todo, result, touched, removed>>

\* docker refuses to remove what is in use; for what is gone it depends on its version.
RemovalFails(gone, inUse) ==
  \/ gone /\ faults' \in {faults, faults \cup {"remove"}} /\ UNCHANGED bound
  \/ inUse /\ faults' = faults \cup {"remove"} /\ UNCHANGED bound
  \/ ~gone /\ Fails("remove")

RemoveContainer(c) ==
  /\ pc = "removeContainers" /\ c \in victims
  /\ Victims(victims \ {c}, "removeContainers", "pruneVolumes")
  /\ \/ /\ ctr[c] # "none" /\ NoFault
        /\ ctr' = [ctr EXCEPT ![c] = "none"]
        /\ removed' = [removed EXCEPT !.ctrs = @ \cup {c}]
     \/ RemovalFails(ctr[c] = "none", FALSE) /\ UNCHANGED <<ctr, removed>>
  /\ UNCHANGED <<manifest, vol, net, plan, todo, result, touched>>

PruneListVolumes ==
  /\ pc = "pruneVolumes"
  /\ \/ NoFault /\ Victims(VolumesToPrune, "removeVolumes", "pruneNetworks")
     \/ Fails("list") /\ Victims({}, "removeVolumes", "pruneNetworks")
  /\ UNCHANGED <<manifest, daemon, plan, todo, result, touched, removed>>

RemoveVolume(v) ==
  /\ pc = "removeVolumes" /\ v \in victims
  /\ Victims(victims \ {v}, "removeVolumes", "pruneNetworks")
  /\ \/ /\ vol[v] # "none" /\ NoFault
        /\ vol' = [vol EXCEPT ![v] = "none"]
        /\ removed' = [removed EXCEPT !.vols = @ \cup {v}]
     \/ RemovalFails(vol[v] = "none", FALSE) /\ UNCHANGED <<vol, removed>>
  /\ UNCHANGED <<manifest, net, ctr, plan, todo, result, touched>>

PruneListNetworks ==
  /\ pc = "pruneNetworks"
  /\ \/ NoFault /\ Victims(ListNetworks \ wantNets, "composeNetworks", "composeNetworks")
     \/ Fails("list") /\ Victims({}, "composeNetworks", "report")
  /\ UNCHANGED <<manifest, daemon, plan, todo, result, touched, removed>>

\* getComposeOwnedNetworks: when it fails, the removal goes on with none known.
SpareComposeNetworks ==
  /\ pc = "composeNetworks"
  /\ \/ NoFault /\ Victims(victims \ ListComposeNetworks, "removeNetworks", "report")
     \/ Fails("composeList") /\ Victims(victims, "removeNetworks", "report")
  /\ UNCHANGED <<manifest, daemon, plan, todo, result, touched, removed>>

\* Networks with running containers
InUse == {n \in Networks : \E c \in Containers : ctr[c] = "ours" /\ ComposeNet[c[1]] = n}

RemoveNetwork(n) ==
  /\ pc = "removeNetworks" /\ n \in victims
  /\ Victims(victims \ {n}, "removeNetworks", "report")
  /\ \/ /\ net[n] # "none" /\ n \notin InUse /\ NoFault
        /\ net' = [net EXCEPT ![n] = "none"]
        /\ removed' = [removed EXCEPT !.nets = @ \cup {n},
                                      !.compose = @ \cup ({n} \cap ListComposeNetworks)]
     \/ RemovalFails(net[n] = "none", n \in InUse) /\ UNCHANGED <<net, removed>>
  /\ UNCHANGED <<manifest, vol, ctr, plan, todo, result, touched>>

Prune ==
  \/ ListContainers \/ PruneListVolumes \/ PruneListNetworks \/ SpareComposeNetworks
  \/ \E c \in Containers : RemoveContainer(c)
  \/ \E v \in Volumes : RemoveVolume(v)
  \/ \E n \in Networks : RemoveNetwork(n)

\* handleCleanupError
Report ==
  /\ pc = "report"
  /\ End(IF strict /\ faults \cap {"list", "composeList", "remove"} # {} THEN "error" ELSE "ok")
  /\ UNCHANGED <<manifest, daemon, plan, todo, pruning, faults, touched, removed, bound>>

(***************************************************************************)
(* The environment                                                         *)
(***************************************************************************)
\* The resource x changes while prune has it, perhaps, among its victims.
Tampered(x, parts) ==
  tampered' = IF pc \in parts /\ x \in victims THEN tampered \cup {x} ELSE tampered

\* Another user of the daemon, or another dockform with the same identifier, changes a
\* resource.
OthersChange ==
  /\ bound.changes < MaxChanges
  /\ bound' = [bound EXCEPT !.changes = @ + 1]
  /\ touched' = TRUE
  /\ \/ /\ \E v \in Volumes : /\ \E st \in VolStates : vol' = [vol EXCEPT ![v] = st]
                              /\ Tampered(v, {"removeVolumes"})
        /\ UNCHANGED <<net, ctr>>
     \/ /\ \E n \in Networks : /\ \E st \in NetStates(n) : net' = [net EXCEPT ![n] = st]
                               /\ Tampered(n, {"composeNetworks", "removeNetworks"})
        /\ UNCHANGED <<vol, ctr>>
     \/ /\ \E c \in Containers : /\ \E st \in CtrStates : ctr' = [ctr EXCEPT ![c] = st]
                                 /\ Tampered(c, {"removeContainers"})
        /\ UNCHANGED <<vol, net>>
  /\ UNCHANGED <<manifest, pc, plan, todo, victims, result, faults, removed>>

\* Between two runs the user edits the manifest or targets another part of it; containers
\* of a stack whose compose file changed are outdated.
EditManifest ==
  /\ pc = "idle"
  /\ bound.runs < MaxRuns
  /\ touched' = TRUE
  /\ \/ /\ wantVols' \in SUBSET Volumes
        /\ UNCHANGED <<wantNets, defines, targeted, ctr>>
     \/ /\ wantNets' \in SUBSET ContextNets
        /\ UNCHANGED <<wantVols, defines, targeted, ctr>>
     \/ /\ \E s \in Stacks, X \in SUBSET Services : defines' = [defines EXCEPT ![s] = X]
        /\ UNCHANGED <<wantVols, wantNets, targeted, ctr>>
     \/ /\ \E s \in Stacks :
             ctr' = [c \in Containers |-> IF c[1] = s /\ ctr[c] = "ours" THEN "outdated" ELSE ctr[c]]
        /\ UNCHANGED <<wantVols, wantNets, defines, targeted>>
     \/ /\ targeted' \in BOOLEAN
        /\ UNCHANGED <<wantVols, wantNets, defines, ctr>>
  /\ UNCHANGED <<strict, vol, net, pc, plan, todo, pruning, result, faults, removed, bound>>

\* No further run within the bound.
Finished == pc = "idle" /\ bound.runs = MaxRuns /\ UNCHANGED vars

Run ==
  \/ BuildPlan
  \/ NothingToApply
  \/ Confirm
  \/ EnsureVolumes
  \/ EnsureNetworks
  \/ \E s \in Stacks : ApplyStack(s)
  \/ StacksDone
  \/ Prune
  \/ Report

Next == Run \/ OthersChange \/ EditManifest \/ Finished

Spec == Init /\ [][Next]_vars

-----------------------------------------------------------------------------
(***************************************************************************)
(* Properties                                                              *)
(***************************************************************************)
\* The variables keep their types.
TypeOK ==
  /\ wantVols \subseteq Volumes
  /\ wantNets \subseteq ContextNets
  /\ defines \in [Stacks -> SUBSET Services]
  /\ targeted \in BOOLEAN
  /\ strict \in BOOLEAN
  /\ vol \in [Volumes -> VolStates]
  /\ net \in [Networks -> {"none", "ours", "compose", "foreign"}]
  /\ \A n \in Networks : net[n] \in NetStates(n)
  /\ ctr \in [Containers -> CtrStates]
  /\ pc \in {"idle", "planned", "volumes", "networks", "stacks", "pruneContainers",
             "removeContainers", "pruneVolumes", "removeVolumes", "pruneNetworks",
             "composeNetworks", "removeNetworks", "report"}
  /\ plan \in [nets : SUBSET Networks, needs : SUBSET Stacks,
               createVols : SUBSET Volumes, createNets : SUBSET Networks,
               deleteVols : SUBSET Volumes, deleteNets : SUBSET Networks,
               deleteCtrs : SUBSET Containers]
  /\ todo \subseteq Stacks
  /\ pc = "removeContainers" => victims \subseteq Containers
  /\ pc = "removeVolumes" => victims \subseteq Volumes
  /\ pc \in {"composeNetworks", "removeNetworks"} => victims \subseteq Networks
  /\ pc \notin {"removeContainers", "removeVolumes", "composeNetworks", "removeNetworks"} => victims = {}
  /\ tampered \subseteq victims
  /\ result \in {"none", "ok", "error", "declined"}
  /\ faults \subseteq FaultKinds
  /\ touched \in BOOLEAN
  /\ removed \in [vols : SUBSET Volumes, nets : SUBSET Networks, ctrs : SUBSET Containers,
                  compose : SUBSET Networks]
  /\ bound \in [runs : 0..MaxRuns, faults : 0..MaxFaults, changes : 0..MaxChanges]

\* A step of dockform (not of another user) never destroys a resource that the manifest
\* wants, or that does not carry its label, unless others took the label away in the moment
\* between the list and the removal: what the plan had seen, however long ago, never counts
\* (pruneContext lists again).
OnlyOrphansAreRemoved ==
  [][bound'.changes = bound.changes =>
       /\ \A v \in Volumes : vol[v] # "none" /\ vol'[v] = "none" =>
            v \notin wantVols /\ (vol[v] = "ours" \/ v \in tampered)
       /\ \A w \in Networks : net[w] # "none" /\ net'[w] = "none" =>
            w \notin wantNets /\ (net[w] \in {"ours", "compose"} \/ w \in tampered)
       /\ \A c \in Containers : ctr[c] # "none" /\ ctr'[c] = "none" =>
            c[2] \notin defines[c[1]] /\ (ctr[c] # "foreign" \/ c \in tampered)]_vars

\* "Skip pruning when targeting specific stacks": a targeted run removes nothing.
TargetedRemovesNothing ==
  pc # "idle" /\ targeted => removed = NothingRemoved

\* What prune removes is what the user was shown and confirmed, unless the daemon changed
\* after the plan, the plan could not list the containers, or prune could not list the
\* compose networks.
RemovalsWereShownUnlessChanged ==
  pc # "idle" /\ ~touched =>
    /\ removed.vols \subseteq plan.deleteVols
    /\ "composeList" \notin faults => removed.nets \subseteq plan.deleteNets
    /\ "planList" \notin faults => removed.ctrs \subseteq plan.deleteCtrs

\* Prune removes the network of a stack only when it could not list compose's networks, or
\* others changed it meanwhile.
ComposeNetworksSurviveUnlessUnlisted ==
  removed.compose # {} => "composeList" \in faults \/ touched

\* Prune stays within what the user was shown and confirmed: nothing in a targeted run, only
\* deletions of the plan, and no network of a stack, but for what it does after a list failed
\* or the daemon changed (pruneContext).
PruneStaysWithinPlan ==
  TargetedRemovesNothing /\ RemovalsWereShownUnlessChanged /\ ComposeNetworksSurviveUnlessUnlisted

\* The services of a stack run with their configuration or, when the labelled project could
\* not be built, at least with the label.
Applied(s) ==
  \A x \in defines[s] : ctr[<<s, x>>] = "ours" \/ ("overlay" \in faults /\ ctr[<<s, x>>] = "outdated")

\* A run settles the context from whatever state earlier runs, edits and others left: if it
\* succeeds and nobody interferes, the next plan has nothing to create, to delete or to
\* apply, unless a wanted volume exists without dockform's label.  A compose ps that failed
\* unseen only makes it do more, a labelled project that failed unseen leaves containers
\* that have the label and are brought up again (BuildPlan, applyContext, pruneContext).
CleanRunSettles ==
  /\ pc = "idle" /\ result = "ok" /\ faults \subseteq {"ps", "overlay"} /\ ~touched
  /\ \A v \in wantVols : vol[v] # "foreign"
  => NoActions(PlanOf({s \in Stacks : ~Applied(s)}, TRUE))

\* "they must not be pruned as orphans": prune never removes the network of a stack.
\* It does not hold when the compose networks cannot be listed.
ComposeNetworksSurvive == removed.compose = {}

\* "removes unmanaged resources": after a run in which nothing failed or changed, every
\* labelled container is of a service that its own stack defines.  It does not hold: a service
\* of the same name in another stack counts.
NoOrphanContainerLeft ==
  pc = "idle" /\ result = "ok" /\ faults = {} /\ ~touched /\ ~targeted =>
    \A c \in ListComposeContainersAll : c[2] \in defines[c[1]]
=============================================================================
