---------------------------- MODULE DestroyProofs ----------------------------
(***************************************************************************)
(* Destroy for any contexts, projects, networks and volumes.  The argument *)
(* follows each context through the steps of destroyContext: behind it is  *)
(* gone what it could remove, ahead of it lies nothing that was not shown. *)
(***************************************************************************)
EXTENDS Destroy, TLAPS

\* A leaf goes to Zenon unless it names another prover.
USE ZenonT(60)

\* Only a destroying run has contexts under way, and only those of the run.
Control ==
  /\ \A x \in Contexts : at[x] # "done" => pc = "destroying" /\ x \in inRun
  /\ pc \in {"start", "planned"} => removed = NothingAtAll /\ errs = {}
  /\ pc \in {"start", "planned", "destroying"} => result = "none"
  /\ pc = "done" /\ result = "ok" /\ strict => errs = {}

\* What is in scope now was in scope when the plan was made.
ShownInScope ==
  pc \in {"planned", "destroying"} /\ ~touched =>
    \A x \in inRun :
      /\ ContainersInScope(x) \subseteq plan.ctrs[x]
      /\ NetworksInScope(x) \subseteq plan.nets[x]
      /\ VolumesInScope(x) \subseteq plan.vols[x]

\* A context without an error has nothing left in scope behind the step it is at.
GoneBehind ==
  (pc = "destroying" \/ (pc = "done" /\ result = "ok")) /\ ~touched =>
    \A x \in inRun \ errs :
      /\ at[x] # "containers" => ContainersInScope(x) = {}
      /\ at[x] \in {"volumes", "done"} => NetworksInScope(x) = {}
      /\ at[x] = "done" => VolumesInScope(x) = {}

\* A context whose own commands did not fail has nothing left but what is in use.
FreeBehind ==
  pc = "destroying" /\ ~touched /\ ~cancelled =>
    \A x \in inRun \ failed :
      /\ at[x] # "containers" => ContainersInScope(x) = {}
      /\ at[x] \in {"volumes", "done"} => NetworksInScope(x) \subseteq Busy(x, Joins)
      /\ at[x] = "done" => VolumesInScope(x) \subseteq Busy(x, Mounts)

Inv == TypeOK /\ Control /\ ShownInScope /\ RemovedWasShownUnlessTouched /\ GoneBehind /\ FreeBehind

\* The scope of a context depends on the selection and on that context only.
LEMMA ScopeOf ==
  ASSUME UNCHANGED config, NEW x \in Contexts
  PROVE  /\ ctr'[x] \subseteq ctr[x] => ContainersInScope(x)' \subseteq ContainersInScope(x)
         /\ ctr'[x] = ctr[x] => /\ ContainersInScope(x)' = ContainersInScope(x)
                                /\ Busy(x, Joins)' = Busy(x, Joins)
                                /\ Busy(x, Mounts)' = Busy(x, Mounts)
         /\ net'[x] \subseteq net[x] => NetworksInScope(x)' \subseteq NetworksInScope(x)
         /\ net'[x] = net[x] => NetworksInScope(x)' = NetworksInScope(x)
         /\ vol'[x] \subseteq vol[x] => VolumesInScope(x)' \subseteq VolumesInScope(x)
         /\ vol'[x] = vol[x] => VolumesInScope(x)' = VolumesInScope(x)
<1>1. VolumeToFileset' = VolumeToFileset
  BY DEF config, VolumeToFileset
<1>2. \A o : AllowsStack(x, o)' <=> AllowsStack(x, o)
  BY DEF config, AllowsStack
<1> QED BY <1>1, <1>2 DEF config, ContainersInScope, ListComposeContainersAll, NetworksInScope,
   VolumesInScope, Busy

\* Steps that leave the daemon and the contexts' progress alone: Return, Cancel, stuttering.
LEMMA QuietSteps ==
  ASSUME Inv, UNCHANGED <<config, daemon, at, plan, removed, touched, errs, failed, bound>>,
         \/ UNCHANGED <<pc, result>> /\ cancelled' \in BOOLEAN /\ (cancelled => cancelled')
         \/ Return
  PROVE  Inv'
<1>1. \A x \in Contexts : /\ ContainersInScope(x)' = ContainersInScope(x)
                          /\ NetworksInScope(x)' = NetworksInScope(x)
                          /\ VolumesInScope(x)' = VolumesInScope(x)
                          /\ Busy(x, Joins)' = Busy(x, Joins)
                          /\ Busy(x, Mounts)' = Busy(x, Mounts)
  BY ScopeOf DEF daemon
<1>2. inRun \subseteq Contexts
  BY DEF Inv, TypeOK
<1>3. /\ pc' \in {"start", "planned", "destroying", "done"}
      /\ result' \in {"none", "ok", "error", "declined"}
  BY DEF Inv, TypeOK, Return, End
<1>4. cancelled' \in BOOLEAN
  BY DEF Inv, TypeOK, Return
<1>5. TypeOK'
  BY <1>3, <1>4 DEF Inv, TypeOK, config, daemon
<1>6. Control'
  BY DEF Inv, Control, TypeOK, Return, End, AnyError, config
<1>7. ShownInScope' /\ RemovedWasShownUnlessTouched'
  BY <1>1, <1>2 DEF Inv, ShownInScope, RemovedWasShownUnlessTouched, Return, End, config
<1>8. GoneBehind'
  BY <1>1, <1>2 DEF Inv, GoneBehind, Return, End, config
<1>9. FreeBehind'
  BY SMTT(30), <1>1, <1>2 DEF Inv, FreeBehind, Return, End, config
<1> QED BY <1>5, <1>6, <1>7, <1>8, <1>9 DEF Inv

\* The initial states satisfy the invariant.
LEMMA InitInv == Init => Inv
<1> SUFFICES ASSUME Init PROVE Inv
  OBVIOUS
<1> USE DestroyAssumption DEF Init
<1>1. targeted \in BOOLEAN /\ strict \in BOOLEAN /\ cancelled \in BOOLEAN /\ touched \in BOOLEAN
  OBVIOUS
<1>2. NothingAtAll \in Parts
  BY DEF NothingAtAll, Nothing, Parts
<1>3. net \in [Contexts -> SUBSET Networks]
  BY SMTT(30) DEF Owners
<1>4. TypeOK
  BY SMTT(30), <1>1, <1>2, <1>3 DEF TypeOK
<1>5. Control /\ ShownInScope /\ GoneBehind /\ FreeBehind
  BY DEF Control, ShownInScope, GoneBehind, FreeBehind
<1>6. RemovedWasShownUnlessTouched
  BY DEF RemovedWasShownUnlessTouched, NothingAtAll, Nothing
<1> QED BY <1>4, <1>5, <1>6 DEF Inv

\* The plan shows only what is in scope.
LEMMA PlanInv == Inv /\ BuildDestroyPlan => Inv'
<1> SUFFICES ASSUME Inv, BuildDestroyPlan PROVE Inv'
  OBVIOUS
<1> USE DEF BuildDestroyPlan
<1>t. TypeOK /\ Control /\ UNCHANGED <<config, daemon, at, cancelled, errs, removed, failed, bound>> /\ touched' = FALSE
  BY DEF Inv
<1>s. \A x \in Contexts : /\ ContainersInScope(x)' = ContainersInScope(x)
                          /\ NetworksInScope(x)' = NetworksInScope(x)
                          /\ VolumesInScope(x)' = VolumesInScope(x)
  BY <1>t, ScopeOf DEF daemon
<1>v. \A x \in Contexts : PlannedVolumes(x) = VolumesInScope(x)
  BY DEF PlannedVolumes, VolumesInScope
<1>e. removed' = NothingAtAll
  BY <1>t DEF Control
<1>p. plan' \in Parts
  <2>1. CASE UNCHANGED plan
    BY <1>t, <2>1 DEF TypeOK
  <2>2. CASE plan' = [ctrs |-> [x \in Contexts |-> InRun(x, ContainersInScope(x))],
                      nets |-> [x \in Contexts |-> InRun(x, NetworksInScope(x))],
                      vols |-> [x \in Contexts |-> InRun(x, PlannedVolumes(x))]]
    <3>1. \A x \in Contexts : /\ InRun(x, ContainersInScope(x)) \in SUBSET Owners
                              /\ InRun(x, NetworksInScope(x)) \in SUBSET Networks
                              /\ InRun(x, PlannedVolumes(x)) \in SUBSET Volumes
      BY <1>t DEF TypeOK, InRun, ContainersInScope, ListComposeContainersAll, NetworksInScope,
         PlannedVolumes
    <3> QED BY <2>2, <3>1 DEF Parts
  <2> QED BY <2>1, <2>2
<1>1. TypeOK'
  <2>1. touched' \in BOOLEAN OBVIOUS
  <2>2. cancelled' \in BOOLEAN BY <1>t, Zenon DEF TypeOK
  <2> QED BY <1>t, <1>p, <2>1, <2>2 DEF TypeOK, config, daemon, End
<1>2. Control'
  BY <1>t, <1>e DEF Control, End, TypeOK, config
<1>3. RemovedWasShownUnlessTouched'
  <2>1. \A x \in Contexts : removed'.ctrs[x] = {} /\ removed'.nets[x] = {} /\ removed'.vols[x] = {}
    BY SMTT(30), <1>e DEF NothingAtAll, Nothing
  <2> QED BY <2>1 DEF RemovedWasShownUnlessTouched
<1>4. inRun' = inRun /\ inRun \subseteq Contexts
  BY <1>t DEF config, TypeOK
<1>5. pc' = "planned" \/ (pc' = "done" /\ result' = "ok") =>
        \A x \in inRun : /\ plan'.ctrs[x] = ContainersInScope(x)
                         /\ plan'.nets[x] = NetworksInScope(x)
                         /\ plan'.vols[x] = VolumesInScope(x)
  BY SMTT(30), <1>t, <1>4, <1>v DEF End, InRun
<1>6. ShownInScope'
  BY <1>t, <1>4, <1>5, <1>s DEF ShownInScope, End
<1>7. GoneBehind'
  <2>1. pc' = "done" /\ result' = "ok" => plan' = NothingAtAll
    BY DEF End
  <2>2. pc' # "destroying"
    BY DEF End
  <2>3. ASSUME pc' = "done" /\ result' = "ok", NEW x \in inRun
        PROVE  ContainersInScope(x) = {} /\ NetworksInScope(x) = {} /\ VolumesInScope(x) = {}
    BY SMTT(30), <2>1, <2>3, <1>4, <1>5 DEF NothingAtAll, Nothing
  <2> QED BY <2>2, <2>3, <1>4, <1>s DEF GoneBehind
<1>8. FreeBehind'
  BY DEF FreeBehind, End
<1> QED BY <1>1, <1>2, <1>3, <1>6, <1>7, <1>8 DEF Inv

\* Confirm starts destroyContext in every context of the run.
LEMMA ConfirmInv == Inv /\ Confirm => Inv'
<1> SUFFICES ASSUME Inv, Confirm PROVE Inv'
  OBVIOUS
<1> USE DEF Confirm
<1>t. TypeOK /\ Control /\ UNCHANGED <<config, daemon, plan, cancelled, errs, removed, touched, failed, bound>>
  BY DEF Inv
<1>s. \A x \in Contexts : /\ ContainersInScope(x)' = ContainersInScope(x)
                          /\ NetworksInScope(x)' = NetworksInScope(x)
                          /\ VolumesInScope(x)' = VolumesInScope(x)
  BY <1>t, ScopeOf DEF daemon
<1>1. TypeOK'
  <2>1. touched' \in BOOLEAN /\ cancelled' \in BOOLEAN BY <1>t, Zenon DEF TypeOK
  <2> QED BY <1>t, <2>1 DEF TypeOK, config, daemon, End
<1>2. Control'
  BY <1>t DEF Control, End, TypeOK, config
<1>3. ShownInScope'
  BY SMTT(30), <1>t, <1>s DEF Inv, ShownInScope, End, TypeOK, config
<1>4. RemovedWasShownUnlessTouched'
  BY SMTT(30), <1>t DEF Inv, RemovedWasShownUnlessTouched
<1>5. GoneBehind' /\ FreeBehind'
  <2>1. pc' = "destroying" => \A x \in inRun : at'[x] = "containers"
    BY <1>t DEF End, TypeOK
  <2> QED BY <2>1, <1>t DEF GoneBehind, FreeBehind, End, config
<1> QED BY <1>1, <1>2, <1>3, <1>4, <1>5 DEF Inv

\* What one removal step of a context does to the control state.
Progress(x, inScope, free, S, next) ==
  /\ pc = "destroying" /\ x \in inRun
  /\ UNCHANGED <<config, pc, plan, cancelled, result, touched>>
  /\ at' = [at EXCEPT ![x] = next]
  /\ errs' \in {errs, errs \cup {x}} /\ failed' \in {failed, failed \cup {x}}
  /\ bound' \in [faults : 0..MaxFaults, changes : 0..MaxChanges]
  /\ bound'.changes = bound.changes
  /\ x \notin errs' => S = inScope
  /\ x \notin failed' /\ ~cancelled => S = free

\* What one removal of a context does to what exists and to the history.
LEMMA RemovalProgress ==
  ASSUME TypeOK, Control, NEW x \in Contexts, NEW inScope, NEW free, NEW S, NEW next,
         at[x] # "done", Removal(x, inScope, free, S, next)
  PROVE  Progress(x, inScope, free, S, next)
<1> USE DestroyAssumption DEF TypeOK, Control, Removal, CtxDone
<1>1. pc = "destroying" /\ x \in inRun /\ UNCHANGED <<config, pc, plan, cancelled, result, touched>>
  OBVIOUS
<1>2. errs' \in {errs, errs \cup {x}} /\ failed' \in {failed, failed \cup {x}}
  OBVIOUS
<1>3. bound' \in [faults : 0..MaxFaults, changes : 0..MaxChanges] /\ bound'.changes = bound.changes
  BY SMTT(30)
<1>4. (x \notin errs' => S = inScope) /\ (x \notin failed' /\ ~cancelled => S = free)
  OBVIOUS
<1> QED BY <1>1, <1>2, <1>3, <1>4 DEF Progress

\* A context of the run takes a step of destroyContext: everything but its own scope and
\* progress stays, the scope shrinks, and a step without error empties what it is about.
ContextStep(x) ==
  /\ UNCHANGED <<config, pc, plan, cancelled, result, touched>>
  /\ pc = "destroying" /\ x \in inRun
  /\ \A y \in Contexts \ {x} : /\ ctr'[y] = ctr[y] /\ net'[y] = net[y] /\ vol'[y] = vol[y]
                               /\ at'[y] = at[y]
                               /\ removed'.ctrs[y] = removed.ctrs[y]
                               /\ removed'.nets[y] = removed.nets[y]
                               /\ removed'.vols[y] = removed.vols[y]
  /\ ctr'[x] \subseteq ctr[x] /\ net'[x] \subseteq net[x] /\ vol'[x] \subseteq vol[x]
  /\ removed'.ctrs[x] = removed.ctrs[x] \/ removed'.ctrs[x] \subseteq ContainersInScope(x)
  /\ removed'.nets[x] = removed.nets[x] \/ removed'.nets[x] \subseteq NetworksInScope(x)
  /\ removed'.vols[x] = removed.vols[x] \/ removed'.vols[x] \subseteq VolumesInScope(x)
  /\ errs' \in {errs, errs \cup {x}} /\ failed' \in {failed, failed \cup {x}}
  /\ \/ /\ at[x] = "containers" /\ at'[x] = "networks"
        /\ x \notin errs' \/ (x \notin failed' /\ ~cancelled) => ContainersInScope(x)' = {}
     \/ /\ at[x] = "networks" /\ at'[x] = "volumes" /\ ctr'[x] = ctr[x]
        /\ x \notin errs' => NetworksInScope(x)' = {}
        /\ x \notin failed' /\ ~cancelled => NetworksInScope(x)' \subseteq Busy(x, Joins)
     \/ /\ at[x] = "volumes" /\ at'[x] = "done" /\ ctr'[x] = ctr[x]
        /\ x \notin errs' => VolumesInScope(x)' = {}
        /\ x \notin failed' /\ ~cancelled => VolumesInScope(x)' \subseteq Busy(x, Mounts)

\* What every step of destroyContext has in common preserves the invariant.
LEMMA ContextStepInv ==
  ASSUME Inv, NEW x \in Contexts, ContextStep(x), TypeOK'
  PROVE  Inv'
<1>t. TypeOK /\ inRun \subseteq Contexts /\ inRun' = inRun
  BY DEF Inv, TypeOK, ContextStep, config
<1>s. \A y \in Contexts :
        /\ ContainersInScope(y)' \subseteq ContainersInScope(y)
        /\ NetworksInScope(y)' \subseteq NetworksInScope(y)
        /\ VolumesInScope(y)' \subseteq VolumesInScope(y)
        /\ ctr'[y] = ctr[y] => Busy(y, Joins)' = Busy(y, Joins) /\ Busy(y, Mounts)' = Busy(y, Mounts)
  BY ScopeOf DEF ContextStep
<1>1. Control'
  <2>1. \A y \in Contexts : at'[y] # "done" => y \in inRun
    BY DEF Inv, Control, ContextStep
  <2> QED BY <1>t, <2>1 DEF Inv, Control, ContextStep
<1>2. ShownInScope'
  BY <1>t, <1>s DEF Inv, ShownInScope, ContextStep
<1>3. RemovedWasShownUnlessTouched'
  <2> SUFFICES ASSUME ~touched, NEW y \in Contexts
               PROVE  /\ removed'.ctrs[y] \subseteq plan.ctrs[y]
                      /\ removed'.nets[y] \subseteq plan.nets[y]
                      /\ removed'.vols[y] \subseteq plan.vols[y]
    BY DEF RemovedWasShownUnlessTouched, ContextStep
  <2>1. CASE y # x
    BY <2>1 DEF Inv, RemovedWasShownUnlessTouched, ContextStep
  <2>2. CASE y = x
    BY <2>2 DEF Inv, RemovedWasShownUnlessTouched, ShownInScope, ContextStep
  <2> QED BY <2>1, <2>2
<1>4. GoneBehind'
  <2> SUFFICES ASSUME ~touched, NEW y \in inRun, y \notin errs'
               PROVE  /\ at'[y] # "containers" => ContainersInScope(y)' = {}
                      /\ at'[y] \in {"volumes", "done"} => NetworksInScope(y)' = {}
                      /\ at'[y] = "done" => VolumesInScope(y)' = {}
    BY <1>t DEF GoneBehind, ContextStep
  <2>1. y \notin errs /\ y \in Contexts
    BY <1>t DEF ContextStep
  <2>2. /\ at[y] # "containers" => ContainersInScope(y) = {}
        /\ at[y] \in {"volumes", "done"} => NetworksInScope(y) = {}
        /\ at[y] = "done" => VolumesInScope(y) = {}
    BY <2>1 DEF Inv, GoneBehind, ContextStep
  <2>3. CASE y # x
    BY <2>1, <2>2, <2>3, <1>s DEF ContextStep
  <2>4. CASE y = x
    BY <2>1, <2>2, <2>4, <1>s DEF ContextStep
  <2> QED BY <2>3, <2>4
<1>5. FreeBehind'
  <2> SUFFICES ASSUME ~touched, ~cancelled, NEW y \in inRun, y \notin failed'
               PROVE  /\ at'[y] # "containers" => ContainersInScope(y)' = {}
                      /\ at'[y] \in {"volumes", "done"} => NetworksInScope(y)' \subseteq Busy(y, Joins)'
                      /\ at'[y] = "done" => VolumesInScope(y)' \subseteq Busy(y, Mounts)'
    BY <1>t DEF FreeBehind, ContextStep
  <2>1. y \notin failed /\ y \in Contexts
    BY <1>t DEF ContextStep
  <2>2. /\ at[y] # "containers" => ContainersInScope(y) = {}
        /\ at[y] \in {"volumes", "done"} => NetworksInScope(y) \subseteq Busy(y, Joins)
        /\ at[y] = "done" => VolumesInScope(y) \subseteq Busy(y, Mounts)
    BY <2>1 DEF Inv, FreeBehind, ContextStep
  <2>3. CASE y # x
    BY <2>1, <2>2, <2>3, <1>s DEF ContextStep
  <2>4. CASE y = x
    BY <2>1, <2>2, <2>4, <1>s DEF ContextStep
  <2> QED BY <2>3, <2>4
<1> QED BY <1>1, <1>2, <1>3, <1>4, <1>5 DEF Inv

\* The three removals are steps of their context.
LEMMA ContainersStep ==
  ASSUME Inv, NEW x \in Contexts, DestroyContainers(x)
  PROVE  ContextStep(x) /\ TypeOK'
<1>t. TypeOK /\ Control /\ removed \in Parts
  BY DEF Inv, TypeOK
<1>1. PICK S \in SUBSET ContainersInScope(x) :
        /\ Removal(x, ContainersInScope(x), ContainersInScope(x), S, "networks")
        /\ ctr' = [ctr EXCEPT ![x] = @ \ S]
        /\ removed' = [removed EXCEPT !.ctrs[x] = S]
  BY DEF DestroyContainers
<1>2. at[x] = "containers" /\ UNCHANGED <<net, vol>>
  BY DEF DestroyContainers
<1>3. Progress(x, ContainersInScope(x), ContainersInScope(x), S, "networks")
  BY <1>t, <1>1, <1>2, RemovalProgress
<1>4. removed' = [removed EXCEPT !.ctrs = [removed.ctrs EXCEPT ![x] = S]]
  BY <1>1, <1>t DEF Parts
<1>5. TypeOK'
  <2>1. S \subseteq Owners
    BY <1>t DEF TypeOK, ContainersInScope, ListComposeContainersAll
  <2>2. removed' \in Parts
    BY <2>1, <1>4, <1>t DEF Parts
  <2>3. cancelled' \in BOOLEAN /\ touched' \in BOOLEAN /\ targeted' \in BOOLEAN /\ strict' \in BOOLEAN
    BY <1>t, <1>3, Zenon DEF Progress, TypeOK, config
  <2> QED BY <1>t, <1>1, <1>2, <1>3, <2>2, <2>3 DEF TypeOK, Progress, config
<1>6. \A y \in Contexts \ {x} : /\ ctr'[y] = ctr[y] /\ net'[y] = net[y] /\ vol'[y] = vol[y]
                               /\ at'[y] = at[y]
                               /\ removed'.ctrs[y] = removed.ctrs[y]
                               /\ removed'.nets[y] = removed.nets[y]
                               /\ removed'.vols[y] = removed.vols[y]
  BY SMTT(30), <1>t, <1>1, <1>2, <1>3, <1>4 DEF TypeOK, Progress, Parts
<1>7. ContainersInScope(x)' = ContainersInScope(x) \ S
  <2>1. \A o : AllowsStack(x, o)' <=> AllowsStack(x, o)
    BY <1>3 DEF Progress, config, AllowsStack
  <2> QED BY <1>t, <1>1, <2>1 DEF TypeOK, ContainersInScope, ListComposeContainersAll
<1>8. /\ ctr'[x] \subseteq ctr[x] /\ net'[x] = net[x] /\ vol'[x] = vol[x]
      /\ removed'.ctrs[x] = S /\ removed'.nets[x] = removed.nets[x] /\ removed'.vols[x] = removed.vols[x]
      /\ at'[x] = "networks"
  BY SMTT(30), <1>t, <1>1, <1>2, <1>3, <1>4 DEF TypeOK, Progress, Parts
<1> QED BY <1>1, <1>2, <1>3, <1>5, <1>6, <1>7, <1>8 DEF Progress, ContextStep

\* destroyNetworks is such a step.
LEMMA NetworksStep ==
  ASSUME Inv, NEW x \in Contexts, DestroyNetworks(x)
  PROVE  ContextStep(x) /\ TypeOK'
<1>t. TypeOK /\ Control /\ removed \in Parts
  BY DEF Inv, TypeOK
<1>1. PICK S \in SUBSET net[x] :
        /\ Removal(x, net[x], net[x] \ Busy(x, Joins), S, "volumes")
        /\ net' = [net EXCEPT ![x] = @ \ S]
        /\ removed' = [removed EXCEPT !.nets[x] = S]
  BY DEF DestroyNetworks
<1>2. at[x] = "networks" /\ UNCHANGED <<ctr, vol>>
  BY DEF DestroyNetworks
<1>3. Progress(x, net[x], net[x] \ Busy(x, Joins), S, "volumes")
  BY <1>t, <1>1, <1>2, RemovalProgress
<1>4. removed' = [removed EXCEPT !.nets = [removed.nets EXCEPT ![x] = S]]
  BY <1>1, <1>t DEF Parts
<1>5. TypeOK'
  <2>1. S \subseteq Networks
    BY <1>t DEF TypeOK
  <2>2. removed' \in Parts
    BY <2>1, <1>4, <1>t DEF Parts
  <2>3. cancelled' \in BOOLEAN /\ touched' \in BOOLEAN /\ targeted' \in BOOLEAN /\ strict' \in BOOLEAN
    BY <1>t, <1>3, Zenon DEF Progress, TypeOK, config
  <2> QED BY <1>t, <1>1, <1>2, <1>3, <2>2, <2>3 DEF TypeOK, Progress, config
<1>6. \A y \in Contexts \ {x} : /\ ctr'[y] = ctr[y] /\ net'[y] = net[y] /\ vol'[y] = vol[y]
                               /\ at'[y] = at[y]
                               /\ removed'.ctrs[y] = removed.ctrs[y]
                               /\ removed'.nets[y] = removed.nets[y]
                               /\ removed'.vols[y] = removed.vols[y]
  BY SMTT(30), <1>t, <1>1, <1>2, <1>3, <1>4 DEF TypeOK, Progress, Parts
<1>7. NetworksInScope(x) = net[x] /\ NetworksInScope(x)' = net[x] \ S
  BY <1>t, <1>1, <1>3 DEF DestroyNetworks, TypeOK, NetworksInScope, Progress, config
<1>8. /\ net'[x] \subseteq net[x] /\ ctr'[x] = ctr[x] /\ vol'[x] = vol[x]
      /\ removed'.nets[x] = S /\ removed'.ctrs[x] = removed.ctrs[x] /\ removed'.vols[x] = removed.vols[x]
      /\ at'[x] = "volumes"
  BY SMTT(30), <1>t, <1>1, <1>2, <1>3, <1>4 DEF TypeOK, Progress, Parts
<1> QED BY SMTT(30), <1>1, <1>2, <1>3, <1>5, <1>6, <1>7, <1>8 DEF Progress, ContextStep

\* destroyVolumes is such a step.
LEMMA VolumesStep ==
  ASSUME Inv, NEW x \in Contexts, DestroyVolumes(x)
  PROVE  ContextStep(x) /\ TypeOK'
<1>t. TypeOK /\ Control /\ removed \in Parts
  BY DEF Inv, TypeOK
<1>1. PICK S \in SUBSET VolumesInScope(x) :
        /\ Removal(x, VolumesInScope(x), VolumesInScope(x) \ Busy(x, Mounts), S, "done")
        /\ vol' = [vol EXCEPT ![x] = @ \ S]
        /\ removed' = [removed EXCEPT !.vols[x] = S]
  BY DEF DestroyVolumes
<1>2. at[x] = "volumes" /\ UNCHANGED <<ctr, net>>
  BY DEF DestroyVolumes
<1>3. Progress(x, VolumesInScope(x), VolumesInScope(x) \ Busy(x, Mounts), S, "done")
  BY <1>t, <1>1, <1>2, RemovalProgress
<1>4. removed' = [removed EXCEPT !.vols = [removed.vols EXCEPT ![x] = S]]
  BY <1>1, <1>t DEF Parts
<1>5. TypeOK'
  <2>1. S \subseteq Volumes
    BY <1>t DEF TypeOK, VolumesInScope
  <2>2. removed' \in Parts
    BY <2>1, <1>4, <1>t DEF Parts
  <2>3. cancelled' \in BOOLEAN /\ touched' \in BOOLEAN /\ targeted' \in BOOLEAN /\ strict' \in BOOLEAN
    BY <1>t, <1>3, Zenon DEF Progress, TypeOK, config
  <2> QED BY <1>t, <1>1, <1>2, <1>3, <2>2, <2>3 DEF TypeOK, Progress, config
<1>6. \A y \in Contexts \ {x} : /\ ctr'[y] = ctr[y] /\ net'[y] = net[y] /\ vol'[y] = vol[y]
                               /\ at'[y] = at[y]
                               /\ removed'.ctrs[y] = removed.ctrs[y]
                               /\ removed'.nets[y] = removed.nets[y]
                               /\ removed'.vols[y] = removed.vols[y]
  BY SMTT(30), <1>t, <1>1, <1>2, <1>3, <1>4 DEF TypeOK, Progress, Parts
<1>7. VolumesInScope(x)' = VolumesInScope(x) \ S
  <2>1. VolumeToFileset' = VolumeToFileset
    BY <1>3 DEF Progress, config, VolumeToFileset
  <2> QED BY <1>t, <1>1, <1>3, <2>1 DEF TypeOK, VolumesInScope, Progress, config
<1>8. /\ vol'[x] \subseteq vol[x] /\ ctr'[x] = ctr[x] /\ net'[x] = net[x]
      /\ removed'.vols[x] = S /\ removed'.ctrs[x] = removed.ctrs[x] /\ removed'.nets[x] = removed.nets[x]
      /\ at'[x] = "done"
  BY SMTT(30), <1>t, <1>1, <1>2, <1>3, <1>4 DEF TypeOK, Progress, Parts
<1> QED BY <1>1, <1>2, <1>3, <1>5, <1>6, <1>7, <1>8 DEF Progress, ContextStep

\* A scoped destroy passes over the networks.
LEMMA KeepNetworksStep ==
  ASSUME Inv, NEW x \in Contexts, KeepNetworks(x)
  PROVE  ContextStep(x) /\ TypeOK'
<1>t. TypeOK /\ Control
  BY DEF Inv
<1>1. /\ at[x] = "networks" /\ targeted /\ at' = [at EXCEPT ![x] = "volumes"]
      /\ UNCHANGED <<config, daemon, pc, plan, cancelled, errs, result, removed, touched, failed, bound>>
  BY DEF KeepNetworks
<1>2. pc = "destroying" /\ x \in inRun
  BY <1>t, <1>1 DEF Control
<1>3. NetworksInScope(x)' = {}
  BY <1>1 DEF NetworksInScope, config
<1>4. TypeOK'
  <2>1. cancelled' \in BOOLEAN /\ touched' \in BOOLEAN /\ targeted' \in BOOLEAN /\ strict' \in BOOLEAN
    BY <1>t, <1>1, Zenon DEF TypeOK, config
  <2> QED BY <1>t, <1>1, <2>1 DEF TypeOK, config, daemon
<1>5. at'[x] = "volumes" /\ \A y \in Contexts \ {x} : at'[y] = at[y]
  BY <1>t, <1>1 DEF TypeOK
<1> QED BY <1>1, <1>2, <1>3, <1>4, <1>5 DEF ContextStep, daemon

\* Changes made by others void what depends on the plan.
LEMMA OthersInv ==
  ASSUME Inv, NEW x \in Contexts, OthersChange(x)
  PROVE  Inv'
<1>t. TypeOK /\ Control
  BY DEF Inv
<1>1. /\ touched' = TRUE
      /\ UNCHANGED <<config, pc, at, plan, cancelled, errs, result, removed, failed>>
  BY DEF OthersChange
<1>2. /\ ctr' \in [Contexts -> SUBSET Owners]
      /\ net' \in [Contexts -> SUBSET Networks]
      /\ vol' \in [Contexts -> SUBSET Volumes]
  BY SMTT(30), <1>t DEF OthersChange, TypeOK
<1>3. bound' \in [faults : 0..MaxFaults, changes : 0..MaxChanges]
  BY SMTT(30), <1>t, DestroyAssumption DEF OthersChange, TypeOK
<1>4. cancelled' \in BOOLEAN /\ touched' \in BOOLEAN /\ targeted' \in BOOLEAN /\ strict' \in BOOLEAN
  BY <1>t, <1>1, Zenon DEF TypeOK, config
<1>5. TypeOK'
  BY <1>t, <1>1, <1>2, <1>3, <1>4 DEF TypeOK, config
<1>6. Control'
  BY <1>t, <1>1 DEF Control, config
<1>7. ShownInScope' /\ RemovedWasShownUnlessTouched' /\ GoneBehind' /\ FreeBehind'
  BY <1>1 DEF ShownInScope, RemovedWasShownUnlessTouched, GoneBehind, FreeBehind
<1> QED BY <1>5, <1>6, <1>7 DEF Inv

\* The inductive invariant holds in every reachable state.
LEMMA InvInductive == Spec => []Inv
<1>1. Inv /\ [Next]_vars => Inv'
  <2> SUFFICES ASSUME Inv, [Next]_vars PROVE Inv'
    OBVIOUS
  <2>1. ASSUME NEW x \in Contexts, DestroyContext(x) PROVE Inv'
    BY <2>1, ContainersStep, NetworksStep, KeepNetworksStep, VolumesStep, ContextStepInv
       DEF DestroyContext
  <2>2. CASE Cancel
    <3>1. cancelled' \in BOOLEAN BY <2>2, Zenon DEF Cancel
    <3> QED BY <2>2, <3>1, QuietSteps DEF Cancel
  <2>3. CASE Return
    BY <2>3, QuietSteps DEF Return
  <2>4. CASE UNCHANGED vars
    <3>1. cancelled' \in BOOLEAN BY <2>4, Zenon DEF vars, Inv, TypeOK
    <3> QED BY <2>4, <3>1, QuietSteps DEF vars
  <2> QED BY <2>1, <2>2, <2>3, <2>4, PlanInv, ConfirmInv, OthersInv DEF Next, Finished
<1> QED BY <1>1, InitInv, PTL DEF Spec

\* The type invariant of destroy.
THEOREM DestroyTypeOK == Spec => []TypeOK
<1>1. Inv => TypeOK BY DEF Inv
<1> QED BY <1>1, InvInductive, PTL

\* With --strict, success means that nothing in scope is left.
THEOREM DestroyStrict == Spec => []StrictSuccessMeansGone
<1>1. Inv => StrictSuccessMeansGone
  <2> SUFFICES ASSUME Inv, pc = "done", result = "ok", strict, ~touched, NEW x \in inRun
               PROVE  ContainersInScope(x) = {} /\ NetworksInScope(x) = {} /\ VolumesInScope(x) = {}
    BY DEF StrictSuccessMeansGone
  <2>1. errs = {} /\ at[x] = "done"
    BY DEF Inv, Control, TypeOK
  <2> QED BY <2>1 DEF Inv, GoneBehind
<1> QED BY <1>1, InvInductive, PTL

\* A failure in one context never keeps another from being torn down.
THEOREM DestroyIsolation == Spec => []FailuresAreIsolated
<1>1. Inv => FailuresAreIsolated
  BY DEF Inv, FreeBehind, FailuresAreIsolated
<1> QED BY <1>1, InvInductive, PTL

\* What is removed was shown before the confirmation, unless others interfere.
THEOREM DestroyShown == Spec => []RemovedWasShownUnlessTouched
<1>1. Inv => RemovedWasShownUnlessTouched
  BY DEF Inv
<1> QED BY <1>1, InvInductive, PTL

\* A scoped destroy stays within the stacks and the fileset volumes of its scope.
THEOREM DestroyTargeted == Spec => TargetedSparesTheRest
<1> DEFINE Spares(x) == /\ \A o \in ctr[x] \ ctr'[x] : <<x, o>> \in stacks
                        /\ vol[x] \ vol'[x] # {} => x \in inRun /\ vol[x] \ vol'[x] \subseteq VolumeToFileset
<1>1. Inv /\ [Next]_vars => [targeted /\ bound'.changes = bound.changes =>
        /\ net' = net
        /\ \A x \in Contexts : Spares(x)]_vars
  <2> SUFFICES ASSUME Inv, Next, targeted, bound'.changes = bound.changes
               PROVE  net' = net /\ \A x \in Contexts : Spares(x)
    OBVIOUS
  <2>t. TypeOK /\ Control
    BY DEF Inv
  <2>1. CASE UNCHANGED daemon
    BY <2>1 DEF daemon
  <2>2. ASSUME NEW x \in Contexts, DestroyContainers(x) PROVE net' = net /\ \A y \in Contexts : Spares(y)
    <3>1. \A y \in Contexts : \A o \in ctr[y] \ ctr'[y] : y = x /\ o \in ContainersInScope(x)
      BY SMTT(30), <2>2, <2>t DEF DestroyContainers, TypeOK
    <3>2. \A o \in ContainersInScope(x) : <<x, o>> \in stacks
      BY DEF ContainersInScope, AllowsStack
    <3> QED BY <2>2, <3>1, <3>2 DEF DestroyContainers
  <2>3. ASSUME NEW x \in Contexts, DestroyVolumes(x) PROVE net' = net /\ \A y \in Contexts : Spares(y)
    <3>1. \A y \in Contexts : vol[y] \ vol'[y] # {} => y = x
      BY <2>3, <2>t DEF DestroyVolumes, TypeOK
    <3>2. vol[x] \ vol'[x] \subseteq VolumeToFileset
      BY SMTT(30), <2>3, <2>t DEF DestroyVolumes, TypeOK, VolumesInScope
    <3>3. x \in inRun
      BY <2>3, <2>t DEF DestroyVolumes, Control
    <3> QED BY <2>3, <3>1, <3>2, <3>3 DEF DestroyVolumes
  <2>4. ASSUME NEW x \in Contexts, OthersChange(x) PROVE FALSE
    BY SMTT(30), <2>4, <2>t DEF OthersChange, TypeOK
  <2>5. ASSUME NEW x \in Contexts, DestroyNetworks(x) PROVE FALSE
    BY <2>5 DEF DestroyNetworks
  <2>6. ASSUME BuildDestroyPlan \/ Confirm \/ Return \/ Cancel \/ Finished \/ \E x \in Contexts : KeepNetworks(x)
        PROVE UNCHANGED daemon
    BY <2>6 DEF BuildDestroyPlan, Confirm, Return, Cancel, Finished, KeepNetworks, vars
  <2> QED BY <2>1, <2>2, <2>3, <2>4, <2>5, <2>6 DEF Next, DestroyContext
<1> QED BY <1>1, InvInductive, PTL DEF Spec, TargetedSparesTheRest
=============================================================================
