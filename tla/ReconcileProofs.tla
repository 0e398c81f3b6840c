--------------------------- MODULE ReconcileProofs ---------------------------
(***************************************************************************)
(* The work across contexts and in one of them.                            *)
(*                                                                         *)
(* Orchestrate, for any number of contexts: what the call returns agrees   *)
(* with what happened to every context.  Reconcile, that is plan, apply    *)
(* and prune of one context, for any resources, stacks and bounds: what    *)
(* prune may remove, what the user was shown, and that a run without       *)
(* failures settles the context.                                           *)
(***************************************************************************)
EXTENDS Orchestrate, Reconcile, TLAPS

\* A leaf goes to Zenon unless it names another prover.
USE ZenonT(60)

(***************************************************************************)
(* Orchestrate                                                             *)
(***************************************************************************)
\* The inductive strengthening of the four safety invariants.
\* Where a goroutine is fixes how its fn ended and whether its error is in errs.
GoroutineInv ==
  \A c \in Names :
    /\ goroutine[c] \in {"idle", "running"} <=> outcome[c] = "none"
    /\ goroutine[c] \in {"failed", "recorded"} => outcome[c] \in {"genuine", "killed"}
    /\ c \in errs <=> (goroutine[c] = "recorded" \/ (goroutine[c] = "done" /\ outcome[c] # "ok"))
    /\ c > n => goroutine[c] = "idle"

\* What the calling goroutine knows at each of its positions.
MainInv ==
  /\ main = "start" => next = 1 /\ \A c \in Names : goroutine[c] = "idle"
  /\ main = "sequential" =>
       /\ next <= n + 1
       /\ errs = {}
       /\ \A c \in Names : /\ c < next => goroutine[c] = "done"
                           /\ c > next => goroutine[c] = "idle"
  /\ main = "launching" => \A c \in Names : c >= next => goroutine[c] = "idle"
  /\ main = "classifying" => errs # {} /\ \A c \in Used : goroutine[c] = "done"
  /\ main = "returned" => \A c \in Names : goroutine[c] \notin {"running", "recorded"}
  /\ main # "returned" => ret = NoResult

\* The first failure is remembered before anything is cancelled because of it, so
\* while the caller's context is alive it is never itself a victim.
CancelInv ==
  /\ cancelled <=> firstFailure # 0
  /\ cancelled => firstFailure \in errs
  /\ cancelFired => cancelled /\ mode = "FailFast"
  /\ mode = "FailFast" /\ errs # {} => cancelled
  /\ ~parentDone /\ ~cancelFired => \A c \in Names : outcome[c] # "killed"
  /\ ~parentDone /\ cancelled => outcome[firstFailure] = "genuine"

\* Conjunction used as the inductive invariant.
OrchestrateInv ==
  /\ OrchestrateTypes
  /\ GoroutineInv
  /\ MainInv
  /\ CancelInv
  /\ NilMeansAllSucceeded
  /\ ErrorNamesEveryFailure
  /\ AbortedHasAGenuineCause

-----------------------------------------------------------------------------
(***************************************************************************)
(* The inductive invariant holds initially and every step preserves it.    *)
(***************************************************************************)
\* Before the call starts every goroutine is idle and nothing is recorded.
LEMMA InitOrchestrates == OrchestrateInit => OrchestrateInv
<1> SUFFICES ASSUME OrchestrateInit PROVE OrchestrateInv
  OBVIOUS
<1> USE NAssumption DEF OrchestrateInit, Names, Modes, NoResult, Returned
<1>1. OrchestrateTypes
  <2>1. ret \in [kind : {"none", "nil", "ctxErr", "single", "aggregate"},
                    failed : SUBSET Names, aborted : SUBSET Names]
    OBVIOUS
  <2>2. goroutine \in [Names -> {"idle", "running", "failed", "recorded", "done"}]
        /\ outcome \in [Names -> {"none", "ok", "genuine", "killed"}]
    OBVIOUS
  <2>3. next \in 1..(N + 1) /\ firstFailure \in 0..N
    BY SMTT(30)
  <2> QED
    BY <2>1, <2>2, <2>3, Zenon DEF OrchestrateTypes
<1>2. GoroutineInv
  BY DEF GoroutineInv
<1>3. MainInv
  BY DEF MainInv
<1>4. CancelInv
  BY DEF CancelInv
<1>5. NilMeansAllSucceeded /\ ErrorNamesEveryFailure /\ AbortedHasAGenuineCause
  BY DEF NilMeansAllSucceeded, ErrorNamesEveryFailure, AbortedHasAGenuineCause
<1> QED
  BY <1>1, <1>2, <1>3, <1>4, <1>5 DEF OrchestrateInv

\* A step of the calling goroutine (the launching and the sequential loop, wg.Wait
\* and the classification) preserves the invariant.
LEMMA MainStepOrchestrates == OrchestrateInv /\ MainStep => OrchestrateInv'
<1> SUFFICES ASSUME OrchestrateInv, MainStep PROVE OrchestrateInv'
  OBVIOUS
<1> USE NAssumption DEF OrchestrateInv, Names, Used, call
<1>1. CASE ExecuteAcrossContextsMode
  <2>1. OrchestrateTypes'
    BY SMTT(30), <1>1 DEF ExecuteAcrossContextsMode, OrchestrateTypes, Returned, Modes, Aborted
  <2>2. GoroutineInv'
    BY <1>1 DEF ExecuteAcrossContextsMode, OrchestrateTypes, GoroutineInv, MainInv
  <2>3. MainInv'
    BY SMTT(30), <1>1 DEF ExecuteAcrossContextsMode, OrchestrateTypes, MainInv, NoErrors, GoroutineInv
  <2>4. CancelInv'
    BY <1>1 DEF ExecuteAcrossContextsMode, CancelInv
  <2>5. NilMeansAllSucceeded'
    BY SMTT(30), <1>1 DEF ExecuteAcrossContextsMode, OrchestrateTypes, NilMeansAllSucceeded, GoroutineInv, MainInv,
       Returned, NoResult, NoErrors
  <2>6. ErrorNamesEveryFailure'
    BY SMTT(30), <1>1 DEF ExecuteAcrossContextsMode, OrchestrateTypes, ErrorNamesEveryFailure, GoroutineInv,
       MainInv, Returned, NoResult, Aborted
  <2>7. AbortedHasAGenuineCause'
    BY SMTT(30), <1>1 DEF ExecuteAcrossContextsMode, OrchestrateTypes, AbortedHasAGenuineCause, CancelInv, MainInv,
       Returned, NoResult, Aborted, CtxDone
  <2> QED
    BY <2>1, <2>2, <2>3, <2>4, <2>5, <2>6, <2>7
<1>2. CASE SeqCall
  <2>1. OrchestrateTypes'
    BY SMTT(30), <1>2 DEF SeqCall, OrchestrateTypes, Returned, Modes, Aborted
  <2>2. GoroutineInv'
    BY SMTT(30), <1>2 DEF SeqCall, OrchestrateTypes, GoroutineInv, MainInv
  <2>3. MainInv'
    BY SMTT(30), <1>2 DEF SeqCall, OrchestrateTypes, MainInv, NoErrors, GoroutineInv
  <2>4. CancelInv'
    BY <1>2 DEF SeqCall, CancelInv
  <2>5. NilMeansAllSucceeded'
    BY SMTT(30), <1>2 DEF SeqCall, OrchestrateTypes, NilMeansAllSucceeded, GoroutineInv, MainInv, Returned,
       NoResult, NoErrors
  <2>6. ErrorNamesEveryFailure'
    BY SMTT(30), <1>2 DEF SeqCall, OrchestrateTypes, ErrorNamesEveryFailure, GoroutineInv, MainInv, Returned,
       NoResult, Aborted
  <2>7. AbortedHasAGenuineCause'
    BY SMTT(30), <1>2 DEF SeqCall, OrchestrateTypes, AbortedHasAGenuineCause, CancelInv, MainInv, Returned,
       NoResult, Aborted, CtxDone
  <2> QED
    BY <2>1, <2>2, <2>3, <2>4, <2>5, <2>6, <2>7
<1>3. CASE SeqReturn
  <2>1. OrchestrateTypes'
    BY SMTT(30), <1>3 DEF SeqReturn, OrchestrateTypes, Returned, Modes, Aborted
  <2>2. GoroutineInv'
    BY <1>3 DEF SeqReturn, OrchestrateTypes, GoroutineInv, MainInv
  <2>3. MainInv'
    BY SMTT(30), <1>3 DEF SeqReturn, OrchestrateTypes, MainInv, NoErrors, GoroutineInv
  <2>4. CancelInv'
    BY <1>3 DEF SeqReturn, CancelInv
  <2>5. NilMeansAllSucceeded'
    BY SMTT(30), <1>3 DEF SeqReturn, OrchestrateTypes, NilMeansAllSucceeded, GoroutineInv, MainInv, Returned,
       NoResult, NoErrors
  <2>6. ErrorNamesEveryFailure'
    BY SMTT(30), <1>3 DEF SeqReturn, OrchestrateTypes, ErrorNamesEveryFailure, GoroutineInv, MainInv, Returned,
       NoResult, Aborted
  <2>7. AbortedHasAGenuineCause'
    BY SMTT(30), <1>3 DEF SeqReturn, OrchestrateTypes, AbortedHasAGenuineCause, CancelInv, MainInv, Returned,
       NoResult, Aborted, CtxDone
  <2> QED
    BY <2>1, <2>2, <2>3, <2>4, <2>5, <2>6, <2>7
<1>4. CASE Launch
  <2>1. OrchestrateTypes'
    BY SMTT(30), <1>4 DEF Launch, OrchestrateTypes, Returned, Modes, Aborted
  <2>2. GoroutineInv'
    BY SMTT(30), <1>4 DEF Launch, OrchestrateTypes, GoroutineInv, MainInv
  <2>3. MainInv'
    BY SMTT(30), <1>4 DEF Launch, OrchestrateTypes, MainInv, NoErrors, GoroutineInv
  <2>4. CancelInv'
    BY <1>4 DEF Launch, CancelInv
  <2>5. NilMeansAllSucceeded'
    BY <1>4 DEF Launch, OrchestrateTypes, NilMeansAllSucceeded, GoroutineInv, MainInv, Returned,
       NoResult, NoErrors
  <2>6. ErrorNamesEveryFailure'
    BY <1>4 DEF Launch, OrchestrateTypes, ErrorNamesEveryFailure, GoroutineInv, MainInv, Returned,
       NoResult, Aborted
  <2>7. AbortedHasAGenuineCause'
    BY <1>4 DEF Launch, OrchestrateTypes, AbortedHasAGenuineCause, CancelInv, MainInv, Returned,
       NoResult, Aborted, CtxDone
  <2> QED
    BY <2>1, <2>2, <2>3, <2>4, <2>5, <2>6, <2>7
<1>5. CASE WaitDone
  <2>1. OrchestrateTypes'
    BY SMTT(30), <1>5 DEF WaitDone, OrchestrateTypes, Returned, Modes, Aborted
  <2>2. GoroutineInv'
    BY <1>5 DEF WaitDone, OrchestrateTypes, GoroutineInv, MainInv
  <2>3. MainInv'
    BY SMTT(30), <1>5 DEF WaitDone, OrchestrateTypes, MainInv, NoErrors, GoroutineInv
  <2>4. CancelInv'
    BY <1>5 DEF WaitDone, CancelInv
  <2>5. NilMeansAllSucceeded'
    BY <1>5 DEF WaitDone, OrchestrateTypes, NilMeansAllSucceeded, GoroutineInv, MainInv, Returned,
       NoResult, NoErrors
  <2>6. ErrorNamesEveryFailure'
    BY SMTT(30), <1>5 DEF WaitDone, OrchestrateTypes, ErrorNamesEveryFailure, GoroutineInv, MainInv, Returned,
       NoResult, Aborted
  <2>7. AbortedHasAGenuineCause'
    BY SMTT(30), <1>5 DEF WaitDone, OrchestrateTypes, AbortedHasAGenuineCause, CancelInv, MainInv, Returned,
       NoResult, Aborted, CtxDone
  <2> QED
    BY <2>1, <2>2, <2>3, <2>4, <2>5, <2>6, <2>7
<1>6. CASE Classify
  <2>1. OrchestrateTypes'
    BY <1>6 DEF Classify, OrchestrateTypes, Returned, Modes, Aborted
  <2>2. GoroutineInv'
    BY <1>6 DEF Classify, OrchestrateTypes, GoroutineInv, MainInv
  <2>3. MainInv'
    BY SMTT(30), <1>6 DEF Classify, OrchestrateTypes, MainInv, NoErrors, GoroutineInv
  <2>4. CancelInv'
    BY <1>6 DEF Classify, CancelInv
  <2>5. NilMeansAllSucceeded'
    BY <1>6 DEF Classify, OrchestrateTypes, NilMeansAllSucceeded, GoroutineInv, MainInv, Returned,
       NoResult, NoErrors
  <2>6. ErrorNamesEveryFailure'
    <3>1. errs = {c \in Used : outcome[c] \in {"genuine", "killed"}}
      <4>1. \A c \in Names : c \in errs <=> c <= n /\ outcome[c] \in {"genuine", "killed"}
        BY SMTT(30), <1>6 DEF Classify, OrchestrateTypes, GoroutineInv, MainInv
      <4> QED
        BY <4>1 DEF OrchestrateTypes
    <3>2. ret'.failed = errs \ Aborted /\ ret'.aborted = Aborted /\ Aborted \subseteq errs
      BY <1>6 DEF Classify, Returned, Aborted
    <3> QED
      BY <1>6, <3>1, <3>2 DEF Classify, ErrorNamesEveryFailure
  <2>7. AbortedHasAGenuineCause'
    BY <1>6 DEF Classify, OrchestrateTypes, AbortedHasAGenuineCause, CancelInv, MainInv, Returned,
       NoResult, Aborted, CtxDone
  <2> QED
    BY <2>1, <2>2, <2>3, <2>4, <2>5, <2>6, <2>7
<1> QED
  BY <1>1, <1>2, <1>3, <1>4, <1>5, <1>6 DEF MainStep

\* The end of fn in one goroutine, whatever the end is, preserves the invariant.
LEMMA FnEndsOrchestrates ==
  ASSUME NEW c \in Names, NEW how \in {"ok", "genuine", "killed"},
         OrchestrateInv, FnEnds(c, how), how = "killed" => CtxDone
  PROVE  OrchestrateInv'
<1> USE NAssumption DEF OrchestrateInv, Names, Used, call, FnEnds
<1>1. OrchestrateTypes'
  BY SMTT(30) DEF OrchestrateTypes
<1>2. GoroutineInv'
  BY DEF OrchestrateTypes, GoroutineInv
<1>3. MainInv'
  BY DEF OrchestrateTypes, GoroutineInv, MainInv
<1>4. CancelInv'
  BY DEF OrchestrateTypes, GoroutineInv, CancelInv, CtxDone
<1>5. NilMeansAllSucceeded'
  BY SMTT(30) DEF OrchestrateTypes, NilMeansAllSucceeded, MainInv, NoResult, Returned
<1>6. ErrorNamesEveryFailure'
  BY SMTT(30) DEF OrchestrateTypes, ErrorNamesEveryFailure, MainInv, NoResult, Returned
<1>7. AbortedHasAGenuineCause'
  BY SMTT(30) DEF OrchestrateTypes, AbortedHasAGenuineCause, MainInv, NoResult, Returned
<1> QED
  BY <1>1, <1>2, <1>3, <1>4, <1>5, <1>6, <1>7

\* The critical section in which a goroutine records its error, and the signal it
\* sends to its siblings after it, preserve the invariant.
LEMMA ReportOrchestrates ==
  ASSUME NEW c \in Names, OrchestrateInv, RecordError(c) \/ Signal(c)
  PROVE  OrchestrateInv'
<1> USE NAssumption DEF OrchestrateInv, Names, Used, call, ErrsWith, CancelsSiblings, RecordError, Signal
<1>1. OrchestrateTypes'
  <2>1. CASE RecordError(c)
    <3>1. errs' \subseteq Names /\ firstFailure' \in 0..N
      BY SMTT(30), <2>1 DEF OrchestrateTypes
    <3>2. cancelled' \in BOOLEAN
      BY <2>1, Zenon DEF OrchestrateTypes
    <3>3. goroutine' \in [Names -> {"idle", "running", "failed", "recorded", "done"}]
      BY <2>1 DEF OrchestrateTypes
    <3> QED
      BY <2>1, <3>1, <3>2, <3>3 DEF OrchestrateTypes
  <2>2. CASE Signal(c)
    <3>1. cancelFired' \in BOOLEAN
      BY <2>2, Zenon
    <3> QED
      BY <2>2, <3>1 DEF OrchestrateTypes
  <2> QED
    BY <2>1, <2>2
<1>2. GoroutineInv'
  BY SMTT(30) DEF OrchestrateTypes, GoroutineInv
<1>3. MainInv'
  BY SMTT(30) DEF OrchestrateTypes, GoroutineInv, MainInv
<1>4. CancelInv'
  BY SMTT(30) DEF OrchestrateTypes, GoroutineInv, CancelInv, Modes
<1>5. NilMeansAllSucceeded'
  BY DEF OrchestrateTypes, NilMeansAllSucceeded, MainInv, NoResult, Returned
<1>6. ErrorNamesEveryFailure'
  BY SMTT(30) DEF OrchestrateTypes, ErrorNamesEveryFailure, MainInv, NoResult, Returned
<1>7. AbortedHasAGenuineCause'
  BY SMTT(30) DEF OrchestrateTypes, AbortedHasAGenuineCause, MainInv, NoResult, Returned
<1> QED
  BY <1>1, <1>2, <1>3, <1>4, <1>5, <1>6, <1>7

\* Every step of the orchestration preserves the invariant.
LEMMA NextOrchestrates == OrchestrateInv /\ [OrchestrateNext]_orchestrateVars => OrchestrateInv'
<1> SUFFICES ASSUME OrchestrateInv, [OrchestrateNext]_orchestrateVars PROVE OrchestrateInv'
  OBVIOUS
<1> USE DEF OrchestrateInv, OrchestrateTypes, GoroutineInv, MainInv, CancelInv, NilMeansAllSucceeded,
            ErrorNamesEveryFailure, AbortedHasAGenuineCause, Used
<1>1. CASE MainStep
  BY <1>1, MainStepOrchestrates
<1>2. CASE \E c \in Names : FnSucceeds(c) \/ FnFails(c) \/ FnKilled(c)
  BY <1>2, FnEndsOrchestrates DEF FnSucceeds, FnFails, FnKilled
<1>3. CASE \E c \in Names : RecordError(c) \/ Signal(c)
  BY <1>3, ReportOrchestrates
<1>4. CASE ParentCancel
  BY SMTT(30), <1>4 DEF ParentCancel, call
<1>5. CASE UNCHANGED orchestrateVars
  BY SMTT(30), <1>5 DEF orchestrateVars, call
<1> QED
  BY <1>1, <1>2, <1>3, <1>4, <1>5 DEF OrchestrateNext, Orchestrated

-----------------------------------------------------------------------------
(***************************************************************************)
(* Theorems                                                                *)
(***************************************************************************)
\* The inductive invariant holds in every run of the orchestrator.
THEOREM OrchestrateInvariance == OrchestrateSpec => []OrchestrateInv
  BY InitOrchestrates, NextOrchestrates, PTL DEF OrchestrateSpec

\* Every run keeps the types of Orchestrate.
THEOREM OrchestrateTypeOK == OrchestrateSpec => []OrchestrateTypes
<1>1. OrchestrateInv => OrchestrateTypes
  BY DEF OrchestrateInv
<1> QED
  BY <1>1, OrchestrateInvariance, PTL

\* For any number of contexts, sequential or parallel and in either mode, a nil
\* error means that fn succeeded on every context.
THEOREM NilIsSound == OrchestrateSpec => []NilMeansAllSucceeded
<1>1. OrchestrateInv => NilMeansAllSucceeded
  BY DEF OrchestrateInv
<1> QED
  BY <1>1, OrchestrateInvariance, PTL

\* The returned error accounts for every context on which fn failed.
THEOREM ErrorIsComplete == OrchestrateSpec => []ErrorNamesEveryFailure
<1>1. OrchestrateInv => ErrorNamesEveryFailure
  BY DEF OrchestrateInv
<1> QED
  BY <1>1, OrchestrateInvariance, PTL

\* The caller learns exactly what happened, in either mode and for any number of contexts.
THEOREM ReturnedIsExact == OrchestrateSpec => []ReturnIsExact
  BY NilIsSound, ErrorIsComplete, PTL DEF ReturnIsExact

\* A context is only reported aborted next to a sibling that failed by itself.
THEOREM AbortedIsJustified == OrchestrateSpec => []AbortedHasAGenuineCause
<1>1. OrchestrateInv => AbortedHasAGenuineCause
  BY DEF OrchestrateInv
<1> QED
  BY <1>1, OrchestrateInvariance, PTL

\* In RunToCompletion mode no operation is cut short by a sibling's failure.
THEOREM RunToCompletionIsolates == OrchestrateSpec => []SiblingFailureNeverKills
<1>1. OrchestrateInv => SiblingFailureNeverKills
  BY DEF OrchestrateInv, CancelInv, SiblingFailureNeverKills
<1> QED
  BY <1>1, OrchestrateInvariance, PTL

(***************************************************************************)
(* Reconcile                                                               *)
(***************************************************************************)
NetworkPart == {"pruneNetworks", "composeNetworks", "removeNetworks", "report"}
VolumePart == {"pruneVolumes", "removeVolumes"} \cup NetworkPart
Pruning == {"pruneContainers", "removeContainers"} \cup VolumePart
Applying == {"volumes", "networks", "stacks"}

\* Only prune removes anything, and a targeted run does not prune.
Control ==
  /\ pc \in Pruning => ~targeted
  /\ pc \in {"planned"} \cup Applying => removed = NothingRemoved
  /\ pc = "pruneContainers" => removed = NothingRemoved

\* What is an orphan now was one for the plan.
Shown ==
  pc \in {"planned"} \cup Applying \cup Pruning /\ ~touched /\ ~targeted =>
    /\ OrphanVolumes \subseteq plan.deleteVols
    /\ OrphanNetworks(ListComposeNetworks) \subseteq plan.deleteNets
    /\ "planList" \notin faults => OrphanContainers(DesiredServices) \subseteq plan.deleteCtrs

\* What is about to be removed is an orphan, unless others changed it; a network of a stack
\* is among the victims only if compose's networks are not known, or if others changed it.
Condemned ==
  /\ tampered # {} => touched
  /\ pc = "removeContainers" => \A c \in victims :
       c[2] \notin DesiredServices /\ (ctr[c] \in {"ours", "outdated"} \/ c \in tampered)
  /\ pc = "removeVolumes" => \A v \in victims : v \notin wantVols /\ (vol[v] = "ours" \/ v \in tampered)
  /\ pc \in {"composeNetworks", "removeNetworks"} => \A w \in victims :
       w \notin wantNets /\ (net[w] \in {"ours", "compose"} \/ w \in tampered)
  /\ pc = "removeNetworks" => \A w \in victims : net[w] = "compose" => "composeList" \in faults \/ touched

Unsettled == {s \in Stacks : NeedsApply(s)}
Unapplied == {s \in Stacks : ~Applied(s)}

\* Failures that a run hides and that do not keep it from settling.
Hidden == {"ps", "overlay"}

\* How far a run without other failures has come.
Progress ==
  faults \subseteq Hidden /\ ~touched =>
    /\ pc \in {"planned", "volumes"} => plan = PlanOf(plan.needs, TRUE)
    /\ pc \in {"planned", "volumes", "networks"} => Unsettled \subseteq plan.needs
    /\ pc = "networks" => plan.nets = ListNetworks
    /\ pc \in {"networks", "stacks"} \cup Pruning => \A v \in wantVols : vol[v] # "none"
    /\ pc \in {"stacks"} \cup Pruning => wantNets \subseteq ListNetworks
    /\ pc = "stacks" => Unapplied \subseteq todo
    /\ pc \in Pruning => Unapplied = {}
    /\ pc = "removeContainers" => OrphanContainers(DesiredServices) \subseteq victims
    /\ pc \in VolumePart => OrphanContainers(DesiredServices) = {}
    /\ pc = "removeVolumes" => OrphanVolumes \subseteq victims
    /\ pc \in NetworkPart => OrphanVolumes = {}
    /\ pc \in {"composeNetworks", "removeNetworks"} => OrphanNetworks(ListComposeNetworks) \subseteq victims
    /\ pc = "report" => OrphanNetworks(ListComposeNetworks) = {}

Inv ==
  /\ TypeOK /\ Control /\ Shown /\ Condemned /\ Progress
  /\ RemovalsWereShownUnlessChanged /\ ComposeNetworksSurviveUnlessUnlisted /\ CleanRunSettles

-----------------------------------------------------------------------------
(***************************************************************************)
(* The steps of prune                                                      *)
(***************************************************************************)
Listing == ListContainers \/ PruneListVolumes \/ PruneListNetworks \/ SpareComposeNetworks
RemovesContainer == \E c \in Containers : RemoveContainer(c)
RemovesVolume == \E v \in Volumes : RemoveVolume(v)
RemovesNetwork == \E w \in Networks : RemoveNetwork(w)

\* A step of prune lists or removes; the removals differ in what they leave alone.
LEMMA PruneSteps ==
  /\ Prune => Listing \/ RemovesContainer \/ RemovesVolume \/ RemovesNetwork
  /\ Listing => UNCHANGED <<daemon, removed>>
  /\ RemovesContainer => UNCHANGED <<vol, net>>
  /\ RemovesVolume => UNCHANGED <<net, ctr>>
  /\ RemovesNetwork => UNCHANGED <<vol, ctr>>
BY DEF Prune, Listing, RemovesContainer, RemovesVolume, RemovesNetwork, ListContainers, PruneListVolumes,
   PruneListNetworks, SpareComposeNetworks, RemoveContainer, RemoveVolume, RemoveNetwork

\* A removal that may fail either way leaves its trace in faults.
Refused == faults' \in {faults, faults \cup {"remove"}} /\ UNCHANGED bound

\* What all steps of prune have in common.
LEMMA PruneFrame ==
  ASSUME Prune
  PROVE  /\ UNCHANGED <<manifest, plan, todo, result, touched>>
         /\ pc \in Pruning \ {"report"} /\ pc' \in Pruning \ {"pruneContainers"}
         /\ NoFault \/ Fails("list") \/ Fails("composeList") \/ Fails("remove") \/ Refused
<1>1. UNCHANGED <<manifest, plan, todo, result, touched>>
  BY DEF Prune, ListContainers, PruneListVolumes, PruneListNetworks, SpareComposeNetworks,
     RemoveContainer, RemoveVolume, RemoveNetwork
<1>2. pc \in Pruning \ {"report"} /\ pc' \in Pruning \ {"pruneContainers"}
  BY DEF Prune, ListContainers, PruneListVolumes, PruneListNetworks, SpareComposeNetworks,
     RemoveContainer, RemoveVolume, RemoveNetwork, Victims, Pruning, VolumePart, NetworkPart
<1>3. \A gone, inUse : RemovalFails(gone, inUse) => Refused \/ Fails("remove")
  BY DEF RemovalFails, Refused
<1>4. NoFault \/ Fails("list") \/ Fails("composeList") \/ Fails("remove") \/ Refused
  BY <1>3 DEF Prune, ListContainers, PruneListVolumes, PruneListNetworks, SpareComposeNetworks,
     RemoveContainer, RemoveVolume, RemoveNetwork
<1> QED BY <1>1, <1>2, <1>4

-----------------------------------------------------------------------------
(***************************************************************************)
(* Types                                                                   *)
(***************************************************************************)
Counts == [runs : 0..MaxRuns, faults : 0..MaxFaults, changes : 0..MaxChanges]

\* Failures are counted within their bound.
LEMMA FailsType ==
  ASSUME TypeOK
  PROVE  /\ \A kind \in FaultKinds : Fails(kind) => faults' \subseteq FaultKinds /\ bound' \in Counts
         /\ NoFault => faults' \subseteq FaultKinds /\ bound' \in Counts
<1>1. \A kind \in FaultKinds : Fails(kind) => bound' \in Counts
  BY SMTT(30), ReconcileAssumption DEF TypeOK, Fails, Counts
<1>2. \A kind \in FaultKinds : Fails(kind) => faults' \subseteq FaultKinds
  BY DEF TypeOK, Fails
<1> QED BY <1>1, <1>2 DEF TypeOK, NoFault, Counts

Plans == [nets : SUBSET Networks, needs : SUBSET Stacks,
          createVols : SUBSET Volumes, createNets : SUBSET Networks,
          deleteVols : SUBSET Volumes, deleteNets : SUBSET Networks,
          deleteCtrs : SUBSET Containers]

\* A plan names existing and wanted resources.
LEMMA PlanType ==
  ASSUME wantVols \subseteq Volumes, wantNets \subseteq ContextNets, NEW needs \in SUBSET Stacks, NEW listed
  PROVE  PlanOf(needs, listed) \in Plans
<1>1. wantVols \ ListVolumes \subseteq Volumes /\ OrphanVolumes \subseteq Volumes
  BY DEF OrphanVolumes, ListVolumes
<1>2. ListNetworks \subseteq Networks /\ wantNets \ ListNetworks \subseteq Networks
      /\ OrphanNetworks(ListComposeNetworks) \subseteq Networks
  BY DEF OrphanNetworks, ListNetworks, ContextNets
<1>3. OrphanContainers(DesiredServices) \subseteq Containers
  BY DEF OrphanContainers, ListComposeContainersAll
<1> QED BY <1>1, <1>2, <1>3 DEF PlanOf, Plans

\* Only the user changes the manifest, to another manifest.
LEMMA ManifestType ==
  ASSUME TypeOK, [Next]_vars
  PROVE  /\ wantVols' \subseteq Volumes /\ wantNets' \subseteq ContextNets /\ defines' \in [Stacks -> SUBSET Services]
         /\ targeted' \in BOOLEAN /\ strict' \in BOOLEAN
<1>1. Run \/ OthersChange \/ UNCHANGED vars => UNCHANGED manifest
  BY PruneFrame DEF Run, BuildPlan, NothingToApply, Confirm, EnsureVolumes, EnsureNetworks, ApplyStack,
     StacksDone, Report, OthersChange, vars
<1>2. CASE UNCHANGED manifest
  <2>1. targeted' \in BOOLEAN /\ strict' \in BOOLEAN
    BY <1>2, Zenon DEF manifest, TypeOK
  <2> QED BY <1>2, <2>1 DEF manifest, TypeOK
<1>3. CASE EditManifest
  <2>1. targeted' \in {targeted} \cup BOOLEAN /\ strict' = strict
    BY <1>3 DEF EditManifest
  <2>2. targeted' \in BOOLEAN /\ strict' \in BOOLEAN
    BY <2>1, Zenon DEF TypeOK
  <2>3. wantVols' \subseteq Volumes /\ wantNets' \subseteq ContextNets /\ defines' \in [Stacks -> SUBSET Services]
    BY SMTT(30), <1>3 DEF EditManifest, TypeOK
  <2> QED BY <2>2, <2>3
<1> QED BY <1>1, <1>2, <1>3 DEF Next, Finished

\* Volumes stay in their states.
LEMMA VolType ==
  ASSUME TypeOK, [Next]_vars
  PROVE  vol' \in [Volumes -> VolStates]
<1>0. vol \in [Volumes -> VolStates]
  BY DEF TypeOK
<1>1. CASE EnsureVolumes
  BY <1>0, <1>1 DEF EnsureVolumes, VolumesCreated, VolStates
<1>2. CASE RemovesVolume
  BY <1>0, <1>2 DEF RemovesVolume, RemoveVolume, VolStates
<1>3. CASE OthersChange
  BY <1>0, <1>3 DEF OthersChange
<1>4. CASE UNCHANGED vol
  BY <1>0, <1>4
<1>5. Next \/ UNCHANGED vars => EnsureVolumes \/ RemovesVolume \/ OthersChange \/ UNCHANGED vol
  BY PruneSteps DEF Next, Run, BuildPlan, NothingToApply, Confirm, EnsureNetworks, ApplyStack, StacksDone,
     Report, EditManifest, Finished, vars, daemon
<1> QED BY <1>1, <1>2, <1>3, <1>4, <1>5

\* Containers stay in their states.
LEMMA CtrType ==
  ASSUME TypeOK, [Next]_vars
  PROVE  ctr' \in [Containers -> CtrStates]
<1>0. ctr \in [Containers -> CtrStates]
  BY DEF TypeOK
<1>1. ASSUME NEW s \in Stacks, ApplyStack(s) PROVE ctr' \in [Containers -> CtrStates]
  <2>1. \A X, c, w : c \in CtrStates /\ BroughtUp(s, X, c, w) => ctr' \in [Containers -> CtrStates]
    BY <1>0 DEF BroughtUp
  <2>2. {"ours", "outdated", "foreign"} \subseteq CtrStates
    BY DEF CtrStates
  <2> QED BY <1>1, <2>1, <2>2 DEF ApplyStack, BringUp
<1>2. CASE RemovesContainer
  BY <1>0, <1>2 DEF RemovesContainer, RemoveContainer, CtrStates
<1>3. CASE OthersChange
  BY <1>0, <1>3 DEF OthersChange
<1>4. CASE EditManifest
  BY <1>0, <1>4 DEF EditManifest, CtrStates
<1>5. CASE UNCHANGED ctr
  BY <1>0, <1>5
<1>6. Next \/ UNCHANGED vars =>
        (\E s \in Stacks : ApplyStack(s)) \/ RemovesContainer \/ OthersChange \/ EditManifest \/ UNCHANGED ctr
  BY PruneSteps DEF Next, Run, BuildPlan, NothingToApply, Confirm, EnsureVolumes, EnsureNetworks, StacksDone,
     Report, Finished, vars, daemon
<1> QED BY <1>1, <1>2, <1>3, <1>4, <1>5, <1>6

\* Compose networks are in the states of compose networks, and the others of the others.
LEMMA NetType ==
  ASSUME TypeOK, [Next]_vars
  PROVE  net' \in [Networks -> {"none", "ours", "compose", "foreign"}] /\ \A w \in Networks : net'[w] \in NetStates(w)
<1>0. /\ net \in [Networks -> {"none", "ours", "compose", "foreign"}] /\ \A w \in Networks : net[w] \in NetStates(w)
      /\ \A w \in Networks : {"none", "foreign"} \subseteq NetStates(w)
      /\ \A w \in Networks : NetStates(w) \subseteq {"none", "ours", "compose", "foreign"}
  BY DEF TypeOK, NetStates
<1>1. CASE EnsureNetworks
  <2>1. \A w \in ContextNets : "ours" \in NetStates(w)
    BY DEF NetStates, ContextNets
  <2>2. MissingNetworks \subseteq ContextNets
    BY DEF MissingNetworks, TypeOK
  <2>3. \A S : S \subseteq ContextNets /\ NetworksCreated(S) =>
          net' \in [Networks -> {"none", "ours", "compose", "foreign"}] /\ \A w \in Networks : net'[w] \in NetStates(w)
    BY <1>0, <2>1 DEF NetworksCreated
  <2> QED BY <1>1, <2>2, <2>3 DEF EnsureNetworks
<1>2. ASSUME NEW s \in Stacks, ApplyStack(s)
      PROVE  net' \in [Networks -> {"none", "ours", "compose", "foreign"}] /\ \A w \in Networks : net'[w] \in NetStates(w)
  <2>1. {"compose", "foreign"} \subseteq NetStates(ComposeNet[s])
    BY DEF NetStates, ComposeNets
  <2>2. \A X, c : \A w \in {"compose", "foreign"} : BroughtUp(s, X, c, w) =>
          net' \in [Networks -> {"none", "ours", "compose", "foreign"}] /\ \A m \in Networks : net'[m] \in NetStates(m)
    BY <1>0, <2>1 DEF BroughtUp
  <2> QED BY <1>2, <2>2 DEF ApplyStack, BringUp
<1>3. CASE RemovesNetwork
  BY <1>0, <1>3 DEF RemovesNetwork, RemoveNetwork
<1>4. CASE OthersChange
  BY <1>0, <1>4 DEF OthersChange
<1>5. CASE UNCHANGED net
  BY <1>0, <1>5
<1>6. Next \/ UNCHANGED vars =>
        EnsureNetworks \/ (\E s \in Stacks : ApplyStack(s)) \/ RemovesNetwork \/ OthersChange \/ UNCHANGED net
  BY PruneSteps DEF Next, Run, BuildPlan, NothingToApply, Confirm, EnsureVolumes, StacksDone,
     Report, EditManifest, Finished, vars, daemon
<1> QED BY <1>1, <1>2, <1>3, <1>4, <1>5, <1>6

Steps == {"idle", "planned", "volumes", "networks", "stacks", "pruneContainers",
          "removeContainers", "pruneVolumes", "removeVolumes", "pruneNetworks",
          "composeNetworks", "removeNetworks", "report"}

\* The control of a run and its plan keep their types.
LEMMA FlowType ==
  ASSUME TypeOK, [Next]_vars
  PROVE  /\ pc' \in Steps /\ plan' \in Plans /\ todo' \subseteq Stacks
         /\ result' \in {"none", "ok", "error", "declined"} /\ touched' \in BOOLEAN
<1>0. /\ pc \in Steps /\ plan \in Plans /\ todo \subseteq Stacks /\ result \in {"none", "ok", "error", "declined"}
  BY DEF TypeOK, Steps, Plans
<1>1. touched' \in BOOLEAN
  <2>1. touched' \in {touched, TRUE, FALSE}
    BY PruneFrame DEF Next, Run, BuildPlan, NothingToApply, Confirm, EnsureVolumes, EnsureNetworks,
       ApplyStack, StacksDone, Report, OthersChange, EditManifest, Finished, vars
  <2> QED BY <2>1, Zenon DEF TypeOK
<1>2. CASE BuildPlan
  <2>1. \A needs \in SUBSET Stacks : PlanOf(needs, TRUE) \in Plans /\ PlanOf(needs, FALSE) \in Plans
    BY PlanType DEF TypeOK
  <2>2. /\ {s \in Stacks : NeedsApply(s)} \in SUBSET Stacks
        /\ \A s \in Stacks : {t \in Stacks : NeedsApply(t)} \cup {s} \in SUBSET Stacks
        /\ \A s : {t \in Stacks : NeedsApply(t)} \ {s} \in SUBSET Stacks
    OBVIOUS
  <2> QED BY <1>0, <1>1, <1>2, <2>1, <2>2 DEF BuildPlan, End, Steps
<1>3. ~BuildPlan => UNCHANGED plan
  BY PruneFrame DEF Next, Run, NothingToApply, Confirm, EnsureVolumes, EnsureNetworks, ApplyStack, StacksDone,
     Report, OthersChange, EditManifest, Finished, vars
<1>4. ~BuildPlan => todo' \subseteq todo \cup plan.needs
  BY PruneFrame DEF Next, Run, NothingToApply, Confirm, EnsureVolumes, EnsureNetworks, ApplyStack, StacksDone,
     Report, OthersChange, EditManifest, Finished, vars
<1>5. ~BuildPlan => pc' \in Steps /\ result' \in {"none", "ok", "error", "declined"}
  <2>1. CASE Prune
    BY <1>0, <2>1, PruneFrame DEF Pruning, VolumePart, NetworkPart, Steps
  <2> QED BY <1>0, <2>1 DEF Next, Run, NothingToApply, Confirm, EnsureVolumes, EnsureNetworks, ApplyStack,
     StacksDone, Report, OthersChange, EditManifest, Finished, vars, End, Steps
<1> QED BY <1>0, <1>1, <1>2, <1>3, <1>4, <1>5 DEF Plans

Removals == [vols : SUBSET Volumes, nets : SUBSET Networks, ctrs : SUBSET Containers, compose : SUBSET Networks]

\* The histories and the counters keep their types.
LEMMA HistoryType ==
  ASSUME TypeOK, [Next]_vars
  PROVE  faults' \subseteq FaultKinds /\ removed' \in Removals /\ bound' \in Counts
<1> DEFINE Counted == faults' \subseteq FaultKinds /\ bound' \in Counts
<1>0. removed \in Removals /\ faults \subseteq FaultKinds /\ bound \in Counts
  BY DEF TypeOK, Removals, Counts
<1>a. /\ NoFault \/ Refused => Counted
      /\ Fails("apply") \/ Fails("overlay") \/ Fails("remove") \/ Fails("list") \/ Fails("composeList") => Counted
  <2>1. {"apply", "overlay", "remove", "list", "composeList"} \subseteq FaultKinds
    BY DEF FaultKinds
  <2>2. Refused => Counted
    BY <1>0, <2>1 DEF Refused
  <2> QED BY FailsType, <2>1, <2>2 DEF Counts
<1> HIDE DEF Counted
<1>1. CASE BuildPlan
  <2>1. removed' \in Removals
    BY <1>1 DEF BuildPlan, NothingRemoved, Removals
  <2>2. faults' \subseteq FaultKinds
    BY <1>1 DEF BuildPlan, FaultKinds
  <2> DEFINE counted == [bound EXCEPT !.runs = @ + 1]
             faulty == [counted EXCEPT !.faults = @ + 1]
  <2>5. bound' = counted \/ (bound.faults < MaxFaults /\ bound' = faulty)
    BY <1>1 DEF BuildPlan
  <2>3. counted \in Counts /\ counted.faults = bound.faults
    BY SMTT(30), <1>0, <1>1, ReconcileAssumption DEF BuildPlan, Counts
  <2> HIDE DEF counted
  <2>4. bound.faults < MaxFaults => faulty \in Counts
    BY SMTT(30), <2>3, ReconcileAssumption DEF Counts
  <2> HIDE DEF faulty
  <2> QED BY <2>1, <2>2, <2>3, <2>4, <2>5
<1>2. CASE EnsureVolumes \/ EnsureNetworks \/ \E s \in Stacks : ApplyStack(s)
  <2>1. (NoFault \/ Fails("apply") \/ Fails("overlay")) /\ removed' = removed
    BY <1>2 DEF EnsureVolumes, EnsureNetworks, ApplyStack
  <2> QED BY <1>0, <1>a, <2>1 DEF Counted
<1>3. CASE Prune
  <2>1. Counted
    BY <1>3, <1>a, PruneFrame
  <2>2. ASSUME NEW c \in Containers, RemoveContainer(c) PROVE removed' \in Removals
    BY <1>0, <2>2 DEF RemoveContainer, Removals
  <2>3. ASSUME NEW v \in Volumes, RemoveVolume(v) PROVE removed' \in Removals
    BY <1>0, <2>3 DEF RemoveVolume, Removals
  <2>4. ASSUME NEW w \in Networks, RemoveNetwork(w) PROVE removed' \in Removals
    <3>1. {w} \cap ListComposeNetworks \in SUBSET Networks
      OBVIOUS
    <3>2. \A S, T \in SUBSET Networks : [removed EXCEPT !.nets = S, !.compose = T] \in Removals
      BY <1>0 DEF Removals
    <3>3. removed.nets \cup {w} \in SUBSET Networks
          /\ removed.compose \cup ({w} \cap ListComposeNetworks) \in SUBSET Networks
      BY <1>0, <3>1 DEF Removals
    <3> QED BY <1>0, <2>4, <3>2, <3>3 DEF RemoveNetwork
  <2> QED BY <1>0, <1>3, <2>1, <2>2, <2>3, <2>4, PruneSteps DEF Counted, RemovesContainer, RemovesVolume, RemovesNetwork
<1>6. CASE OthersChange
  <2>1. bound.changes < MaxChanges /\ bound' = [bound EXCEPT !.changes = @ + 1] /\ UNCHANGED <<faults, removed>>
    BY <1>6 DEF OthersChange
  <2>2. bound' \in Counts
    BY SMTT(30), <1>0, <2>1, ReconcileAssumption DEF Counts
  <2> QED BY <1>0, <2>1, <2>2
<1>7. NothingToApply \/ Confirm \/ StacksDone \/ Report \/ EditManifest \/ UNCHANGED vars
        => UNCHANGED <<faults, removed, bound>>
  BY DEF NothingToApply, Confirm, StacksDone, Report, EditManifest, vars
<1> QED BY <1>0, <1>1, <1>2, <1>3, <1>6, <1>7 DEF Next, Run, Finished

VictimsTyped ==
  /\ pc = "removeContainers" => victims \subseteq Containers
  /\ pc = "removeVolumes" => victims \subseteq Volumes
  /\ pc \in {"composeNetworks", "removeNetworks"} => victims \subseteq Networks
  /\ pc \notin {"removeContainers", "removeVolumes", "composeNetworks", "removeNetworks"} => victims = {}
  /\ tampered \subseteq victims

\* The victims of prune are resources of the kind it is at.
LEMMA VictimsType ==
  ASSUME TypeOK, [Next]_vars
  PROVE  VictimsTyped'
<1>0. VictimsTyped
  BY DEF TypeOK, VictimsTyped
<1>1. CASE ListContainers
  <2>1. OrphanContainers(DesiredAtPrune) \subseteq Containers
    BY DEF OrphanContainers, ListComposeContainersAll
  <2> QED BY <1>1, <2>1 DEF ListContainers, Victims, VictimsTyped
<1>2. CASE PruneListVolumes
  <2>1. VolumesToPrune \subseteq Volumes
    BY DEF VolumesToPrune, OrphanVolumes, ListVolumes
  <2> QED BY <1>2, <2>1 DEF PruneListVolumes, Victims, VictimsTyped
<1>3. CASE PruneListNetworks
  <2>1. ListNetworks \ wantNets \subseteq Networks
    BY DEF ListNetworks
  <2> QED BY <1>3, <2>1 DEF PruneListNetworks, Victims, VictimsTyped
<1>4. CASE SpareComposeNetworks
  <2>1. victims \subseteq Networks
    BY <1>0, <1>4 DEF SpareComposeNetworks, VictimsTyped
  <2> QED BY <1>4, <2>1 DEF SpareComposeNetworks, Victims, VictimsTyped
<1>5. ASSUME NEW c \in Containers, RemoveContainer(c) PROVE VictimsTyped'
  BY <1>0, <1>5 DEF RemoveContainer, Victims, VictimsTyped
<1>6. ASSUME NEW v \in Volumes, RemoveVolume(v) PROVE VictimsTyped'
  BY <1>0, <1>6 DEF RemoveVolume, Victims, VictimsTyped
<1>7. ASSUME NEW w \in Networks, RemoveNetwork(w) PROVE VictimsTyped'
  BY <1>0, <1>7 DEF RemoveNetwork, Victims, VictimsTyped
<1>8. CASE OthersChange
  <2>1. ASSUME NEW x, NEW parts, Tampered(x, parts) PROVE tampered' \subseteq victims
    BY <1>0, <2>1 DEF Tampered, VictimsTyped
  <2>2. tampered' \subseteq victims /\ UNCHANGED <<pc, victims>>
    BY <1>8, <2>1 DEF OthersChange
  <2> QED BY <1>0, <2>2 DEF VictimsTyped
<1>9. ASSUME \/ BuildPlan \/ NothingToApply \/ Confirm \/ EnsureVolumes \/ EnsureNetworks
             \/ (\E s \in Stacks : ApplyStack(s)) \/ StacksDone \/ Report
      PROVE  VictimsTyped'
  <2>1. pc \in {"idle", "planned", "report"} \cup Applying /\ UNCHANGED <<victims, tampered>>
    BY <1>9 DEF BuildPlan, NothingToApply, Confirm, EnsureVolumes, EnsureNetworks, ApplyStack, StacksDone,
       Report, pruning, Applying
  <2>2. victims' = {} /\ tampered' = {}
    BY <1>0, <2>1 DEF VictimsTyped, Applying
  <2> QED BY <2>2 DEF VictimsTyped
<1>10. CASE EditManifest \/ UNCHANGED vars
  BY <1>0, <1>10 DEF EditManifest, vars, pruning, VictimsTyped
<1> QED
  BY <1>1, <1>2, <1>3, <1>4, <1>5, <1>6, <1>7, <1>8, <1>9, <1>10 DEF Next, Run, Prune, Finished

\* Every step keeps the types.
LEMMA TypeInv == TypeOK /\ [Next]_vars => TypeOK'
BY ManifestType, VolType, CtrType, NetType, FlowType, VictimsType, HistoryType DEF TypeOK, Steps,
   Plans, VictimsTyped, Removals, Counts

-----------------------------------------------------------------------------
(***************************************************************************)
(* What a step does to the orphans and to the control                      *)
(***************************************************************************)
\* Faults only accumulate within a run.
LEMMA FaultsGrow ==
  /\ \A kind : Fails(kind) => faults' = faults \cup {kind}
  /\ NoFault => faults' = faults
BY DEF Fails, NoFault

\* After the plan, no step of dockform makes an orphan.
LEMMA OrphansShrink ==
  ASSUME TypeOK, Run, ~BuildPlan
  PROVE  /\ OrphanVolumes' \subseteq OrphanVolumes
         /\ OrphanNetworks(ListComposeNetworks)' \subseteq OrphanNetworks(ListComposeNetworks)
         /\ OrphanContainers(DesiredServices)' \subseteq OrphanContainers(DesiredServices)
         /\ UNCHANGED <<manifest, touched, plan>> /\ faults \subseteq faults'
<1>0. UNCHANGED <<wantVols, wantNets, defines, targeted, strict, touched, plan>> /\ faults \subseteq faults'
  <2>1. UNCHANGED <<wantVols, wantNets, defines, targeted, strict, touched, plan>>
    BY PruneFrame DEF Run, NothingToApply, Confirm, EnsureVolumes, EnsureNetworks, ApplyStack, StacksDone,
       Report, manifest
  <2>2. NoFault \/ (\E kind : Fails(kind)) \/ Refused \/ faults' = faults
    BY PruneFrame DEF Run, NothingToApply, Confirm, EnsureVolumes, EnsureNetworks, ApplyStack, StacksDone,
       Report
  <2> QED BY <2>1, <2>2, FaultsGrow DEF Refused
<1>1. OrphanVolumes' \subseteq OrphanVolumes
  <2>1. CASE EnsureVolumes
    <3>1. \A S \in SUBSET wantVols : VolumesCreated(S) => OrphanVolumes' \subseteq OrphanVolumes
      BY <1>0 DEF VolumesCreated, OrphanVolumes, ListVolumes
    <3> QED BY <2>1, <3>1 DEF EnsureVolumes
  <2>2. CASE RemovesVolume
    BY <1>0, <2>2 DEF RemovesVolume, RemoveVolume, OrphanVolumes, ListVolumes, TypeOK
  <2>3. ~EnsureVolumes /\ ~RemovesVolume => UNCHANGED vol
    BY PruneSteps DEF Run, NothingToApply, Confirm, EnsureNetworks, ApplyStack, StacksDone, Report, daemon
  <2>4. UNCHANGED vol => OrphanVolumes' \subseteq OrphanVolumes
    BY <1>0 DEF OrphanVolumes, ListVolumes
  <2> QED BY <2>1, <2>2, <2>3, <2>4
<1>2. OrphanNetworks(ListComposeNetworks)' \subseteq OrphanNetworks(ListComposeNetworks)
  <2>1. CASE EnsureNetworks
    <3>1. \A S \in SUBSET wantNets : NetworksCreated(S) =>
            OrphanNetworks(ListComposeNetworks)' \subseteq OrphanNetworks(ListComposeNetworks)
      BY <1>0 DEF NetworksCreated, OrphanNetworks, ListNetworks, ListComposeNetworks
    <3>2. \E S \in SUBSET wantNets : NetworksCreated(S)
      BY <2>1 DEF EnsureNetworks, MissingNetworks
    <3> QED BY <3>1, <3>2
  <2>2. ASSUME NEW s \in Stacks, ApplyStack(s)
        PROVE  OrphanNetworks(ListComposeNetworks)' \subseteq OrphanNetworks(ListComposeNetworks)
    <3>1. \A X, c : \A w \in {"compose", "foreign"} : BroughtUp(s, X, c, w) =>
            OrphanNetworks(ListComposeNetworks)' \subseteq OrphanNetworks(ListComposeNetworks)
      BY <1>0 DEF BroughtUp, OrphanNetworks, ListNetworks, ListComposeNetworks
    <3> QED BY <2>2, <3>1 DEF ApplyStack, BringUp
  <2>3. CASE RemovesNetwork
    BY <1>0, <2>3 DEF RemovesNetwork, RemoveNetwork, OrphanNetworks, ListNetworks, ListComposeNetworks, TypeOK
  <2>4. ~EnsureNetworks /\ ~RemovesNetwork /\ ~(\E s \in Stacks : ApplyStack(s)) => UNCHANGED net
    BY PruneSteps DEF Run, NothingToApply, Confirm, EnsureVolumes, StacksDone, Report, daemon
  <2>5. UNCHANGED net => OrphanNetworks(ListComposeNetworks)' \subseteq OrphanNetworks(ListComposeNetworks)
    BY <1>0 DEF OrphanNetworks, ListNetworks, ListComposeNetworks
  <2> QED BY <2>1, <2>2, <2>3, <2>4, <2>5
<1>3. OrphanContainers(DesiredServices)' \subseteq OrphanContainers(DesiredServices)
  <2>0. UNCHANGED DesiredServices
    BY <1>0 DEF DesiredServices
  <2>1. ASSUME NEW s \in Stacks, ApplyStack(s)
        PROVE  OrphanContainers(DesiredServices)' \subseteq OrphanContainers(DesiredServices)
    <3>1. defines[s] \subseteq DesiredServices
      BY DEF DesiredServices
    <3>2. \A X \in SUBSET defines[s] : \A c, w : BroughtUp(s, X, c, w) =>
            OrphanContainers(DesiredServices)' \subseteq OrphanContainers(DesiredServices)
      BY <2>0, <3>1 DEF BroughtUp, OrphanContainers, ListComposeContainersAll
    <3> QED BY <2>1, <3>2 DEF ApplyStack, BringUp
  <2>2. CASE RemovesContainer
    BY <2>0, <2>2 DEF RemovesContainer, RemoveContainer, OrphanContainers, ListComposeContainersAll, TypeOK
  <2>3. ~RemovesContainer /\ ~(\E s \in Stacks : ApplyStack(s)) => UNCHANGED ctr
    BY PruneSteps DEF Run, NothingToApply, Confirm, EnsureVolumes, EnsureNetworks, StacksDone, Report, daemon
  <2>4. UNCHANGED ctr => OrphanContainers(DesiredServices)' \subseteq OrphanContainers(DesiredServices)
    BY <2>0 DEF OrphanContainers, ListComposeContainersAll
  <2> QED BY <2>1, <2>2, <2>3, <2>4
<1> QED BY <1>0, <1>1, <1>2, <1>3 DEF manifest

Busy == {"planned"} \cup Applying \cup Pruning

\* A run starts with its plan; then only others touch the daemon, and only the user, when
\* no run is under way, the manifest.
LEMMA Outside ==
  ASSUME [Next]_vars, ~Run
  PROVE  touched' = TRUE \/ UNCHANGED vars
BY DEF Next, OthersChange, EditManifest, Finished

\* Every step keeps Control.
LEMMA ControlStep == TypeOK /\ Control /\ [Next]_vars => Control'
<1> SUFFICES ASSUME TypeOK, Control, [Next]_vars PROVE Control'
  OBVIOUS
<1>1. CASE BuildPlan
  BY <1>1 DEF BuildPlan, Control, Pruning, VolumePart, NetworkPart, Applying, End
<1>2. CASE NothingToApply \/ Confirm \/ EnsureVolumes \/ EnsureNetworks \/ \E s \in Stacks : ApplyStack(s)
  <2>1. pc \in {"planned"} \cup Applying /\ pc' \in {"idle"} \cup Applying /\ removed' = removed
    BY <1>2 DEF NothingToApply, Confirm, EnsureVolumes, EnsureNetworks, ApplyStack, Applying, End
  <2> QED BY <2>1 DEF Control, Pruning, VolumePart, NetworkPart, Applying, NothingRemoved
<1>3. CASE StacksDone
  BY <1>3 DEF StacksDone, PruneEnabled, Control, Pruning, VolumePart, NetworkPart, Applying, End, manifest, NothingRemoved
<1>4. CASE Prune \/ Report
  <2>1. pc \in Pruning /\ pc' \in {"idle"} \cup (Pruning \ {"pruneContainers"}) /\ targeted' = targeted
    BY <1>4, PruneFrame DEF Report, End, manifest, Pruning, VolumePart, NetworkPart
  <2> QED BY <2>1 DEF Control, Pruning, VolumePart, NetworkPart, Applying
<1>5. CASE OthersChange \/ UNCHANGED vars
  <2>1. UNCHANGED <<pc, targeted, removed>>
    BY <1>5 DEF OthersChange, vars, manifest
  <2> QED BY <2>1 DEF Control, NothingRemoved
<1>6. CASE EditManifest
  BY <1>6 DEF EditManifest, Control, Pruning, VolumePart, NetworkPart, Applying
<1> QED BY <1>1, <1>2, <1>3, <1>4, <1>5, <1>6 DEF Next, Run, Finished

\* The plan sets what is shown, and afterwards orphans only become fewer.
LEMMA ShownStep == TypeOK /\ Shown /\ [Next]_vars => Shown'
<1> SUFFICES ASSUME TypeOK, Shown, [Next]_vars, pc' \in Busy, ~touched', ~targeted'
             PROVE  /\ OrphanVolumes' \subseteq plan'.deleteVols
                    /\ OrphanNetworks(ListComposeNetworks)' \subseteq plan'.deleteNets
                    /\ "planList" \notin faults' => OrphanContainers(DesiredServices)' \subseteq plan'.deleteCtrs
  BY DEF Shown, Busy
<1>1. CASE BuildPlan
  <2>1. UNCHANGED <<wantVols, wantNets, defines, targeted, vol, net, ctr>>
    BY <1>1 DEF BuildPlan, manifest, daemon
  <2>2. /\ OrphanVolumes' = OrphanVolumes
        /\ OrphanNetworks(ListComposeNetworks)' = OrphanNetworks(ListComposeNetworks)
        /\ OrphanContainers(DesiredServices)' = OrphanContainers(DesiredServices)
    BY <2>1 DEF OrphanVolumes, OrphanNetworks, OrphanContainers, ListVolumes, ListNetworks,
       ListComposeNetworks, ListComposeContainersAll, DesiredServices
  <2>3. pc' # "idle"
    BY DEF Busy, Applying, Pruning, VolumePart, NetworkPart
  <2>4. \/ \E needs : plan' = PlanOf(needs, TRUE)
        \/ \E needs : plan' = PlanOf(needs, FALSE) /\ "planList" \in faults'
    BY <1>1, <2>3 DEF BuildPlan, End
  <2>5. \A needs : /\ PlanOf(needs, TRUE).deleteVols = OrphanVolumes
                   /\ PlanOf(needs, TRUE).deleteNets = OrphanNetworks(ListComposeNetworks)
                   /\ PlanOf(needs, TRUE).deleteCtrs = OrphanContainers(DesiredServices)
                   /\ PlanOf(needs, FALSE).deleteVols = OrphanVolumes
                   /\ PlanOf(needs, FALSE).deleteNets = OrphanNetworks(ListComposeNetworks)
    BY <2>1 DEF PlanOf
  <2> QED BY <2>2, <2>4, <2>5
<1>2. CASE Run /\ ~BuildPlan
  <2>1. pc \in Busy /\ ~targeted /\ ~touched
    <3>1. pc \in Busy
      BY <1>2, PruneFrame DEF Run, NothingToApply, Confirm, EnsureVolumes, EnsureNetworks, ApplyStack,
         StacksDone, Report, Busy, Applying, Pruning, VolumePart, NetworkPart
    <3> QED BY SMTT(30), <1>2, <3>1, OrphansShrink DEF manifest
  <2> QED BY <1>2, <2>1, OrphansShrink DEF Shown, Busy
<1>3. CASE UNCHANGED vars
  BY <1>3 DEF vars, manifest, daemon, Shown, Busy, OrphanVolumes, OrphanNetworks, OrphanContainers,
     ListVolumes, ListNetworks, ListComposeNetworks, ListComposeContainersAll, DesiredServices
<1> QED BY <1>1, <1>2, <1>3, Outside

\* The services that the plan and prune want are the same.
LEMMA SameServices == DesiredAtPrune = DesiredServices
BY DEF DesiredAtPrune, DesiredServices

\* Victims are orphans when they are listed, and later only others change them.
LEMMA CondemnedStep == TypeOK /\ Condemned /\ [Next]_vars => Condemned'
<1> SUFFICES ASSUME TypeOK, Condemned, [Next]_vars PROVE Condemned'
  OBVIOUS
<1>0. UNCHANGED defines => UNCHANGED DesiredServices
  BY DEF DesiredServices
<1>1. CASE Prune
  <2>0. UNCHANGED <<wantVols, wantNets, DesiredServices, touched>> /\ faults \subseteq faults'
    <3>1. faults \subseteq faults'
      BY <1>1, PruneFrame, FaultsGrow DEF Refused
    <3> QED BY <1>0, <1>1, <3>1, PruneFrame DEF manifest
  <2>1. CASE ListContainers
    <3>1. tampered = {} /\ UNCHANGED <<ctr, touched>>
      BY <2>1 DEF ListContainers, TypeOK, daemon
    <3>2. /\ tampered' = {} /\ pc' \in {"removeContainers", "pruneVolumes"}
          /\ victims' \subseteq OrphanContainers(DesiredServices)
      BY <2>1, <3>1, SameServices DEF ListContainers, Victims
    <3> QED BY <2>0, <3>1, <3>2 DEF Condemned, OrphanContainers, ListComposeContainersAll
  <2>2. CASE PruneListVolumes
    <3>1. tampered = {} /\ UNCHANGED <<vol, touched>>
      BY <2>2 DEF PruneListVolumes, TypeOK, daemon
    <3>2. tampered' = {} /\ pc' \in {"removeVolumes", "pruneNetworks"} /\ victims' \subseteq OrphanVolumes
      BY <2>2, <3>1 DEF PruneListVolumes, Victims, VolumesToPrune
    <3> QED BY <2>0, <3>1, <3>2 DEF Condemned, OrphanVolumes, ListVolumes
  <2>3. CASE PruneListNetworks
    <3>1. tampered = {} /\ UNCHANGED <<net, touched>>
      BY <2>3 DEF PruneListNetworks, TypeOK, daemon
    <3>2. tampered' = {} /\ pc' \in {"composeNetworks", "report"} /\ victims' \subseteq ListNetworks \ wantNets
      BY <2>3, <3>1 DEF PruneListNetworks, Victims
    <3> QED BY <2>0, <3>1, <3>2 DEF Condemned, ListNetworks
  <2>4. CASE SpareComposeNetworks
    <3>1. /\ pc = "composeNetworks" /\ pc' \in {"removeNetworks", "report"} /\ UNCHANGED <<net, touched>>
          /\ victims' \subseteq victims /\ tampered' = tampered \cap victims'
          /\ victims' \cap ListComposeNetworks = {} \/ "composeList" \in faults'
      BY <2>4 DEF SpareComposeNetworks, Victims, daemon, Fails
    <3>2. \A w \in victims' : net'[w] = "compose" => "composeList" \in faults' \/ touched'
      BY <3>1 DEF ListComposeNetworks, TypeOK
    <3>3. tampered' # {} => touched'
      BY <3>1 DEF Condemned
    <3>4. \A w \in victims' : w \notin wantNets' /\ (net'[w] \in {"ours", "compose"} \/ w \in tampered')
      BY <2>0, <3>1 DEF Condemned
    <3>5. pc' # "removeContainers" /\ pc' # "removeVolumes"
      BY <3>1
    <3> QED BY <3>2, <3>3, <3>4, <3>5 DEF Condemned
  <2>5. ASSUME NEW c \in Containers, RemoveContainer(c) PROVE Condemned'
    <3>1. /\ pc = "removeContainers" /\ pc' \in {"removeContainers", "pruneVolumes"}
          /\ victims' = victims \ {c} /\ tampered' = tampered \cap victims'
      BY <2>5 DEF RemoveContainer, Victims
    <3>2. \A d \in victims' : ctr'[d] = ctr[d]
      BY <2>5, <3>1 DEF RemoveContainer, TypeOK
    <3> QED BY <2>0, <3>1, <3>2 DEF Condemned
  <2>6. ASSUME NEW v \in Volumes, RemoveVolume(v) PROVE Condemned'
    <3>1. /\ pc = "removeVolumes" /\ pc' \in {"removeVolumes", "pruneNetworks"}
          /\ victims' = victims \ {v} /\ tampered' = tampered \cap victims'
      BY <2>6 DEF RemoveVolume, Victims
    <3>2. \A u \in victims' : vol'[u] = vol[u]
      BY <2>6, <3>1 DEF RemoveVolume, TypeOK
    <3> QED BY <2>0, <3>1, <3>2 DEF Condemned
  <2>7. ASSUME NEW w \in Networks, RemoveNetwork(w) PROVE Condemned'
    <3>1. /\ pc = "removeNetworks" /\ pc' \in {"removeNetworks", "report"}
          /\ victims' = victims \ {w} /\ tampered' = tampered \cap victims'
      BY <2>7 DEF RemoveNetwork, Victims
    <3>2. \A u \in victims' : net'[u] = net[u]
      BY <2>7, <3>1 DEF RemoveNetwork, TypeOK
    <3> QED BY <2>0, <3>1, <3>2 DEF Condemned
  <2> QED BY <1>1, <2>1, <2>2, <2>3, <2>4, <2>5, <2>6, <2>7 DEF Prune
<1>2. CASE OthersChange
  <2>0. UNCHANGED <<wantVols, wantNets, DesiredServices, pc, victims, faults>> /\ touched' = TRUE
    BY <1>0, <1>2 DEF OthersChange, manifest
  <2>1. ASSUME NEW x, NEW parts, Tampered(x, parts)
        PROVE  tampered \subseteq tampered' /\ (pc \in parts /\ x \in victims => x \in tampered')
    BY <2>1 DEF Tampered
  <2>2. tampered \subseteq tampered'
    BY <1>2, <2>1 DEF OthersChange
  <2>3. pc = "removeContainers" => \A c \in victims : ctr'[c] = ctr[c] \/ c \in tampered'
    BY <1>2, <2>1 DEF OthersChange, TypeOK
  <2>4. pc = "removeVolumes" => \A v \in victims : vol'[v] = vol[v] \/ v \in tampered'
    BY <1>2, <2>1 DEF OthersChange, TypeOK
  <2>5. ASSUME pc \in {"composeNetworks", "removeNetworks"}, NEW w \in victims
        PROVE  net'[w] = net[w] \/ w \in tampered'
    <3>1. CASE UNCHANGED net
      BY <3>1
    <3>2. ASSUME NEW u \in Networks, NEW st, net' = [net EXCEPT ![u] = st], Tampered(u, {"composeNetworks", "removeNetworks"})
          PROVE  net'[w] = net[w] \/ w \in tampered'
      BY <2>1, <2>5, <3>2 DEF TypeOK
    <3> QED BY <1>2, <3>1, <3>2 DEF OthersChange
  <2> QED BY <2>0, <2>2, <2>3, <2>4, <2>5 DEF Condemned
<1>3. ASSUME \/ BuildPlan \/ NothingToApply \/ Confirm \/ EnsureVolumes \/ EnsureNetworks
             \/ (\E s \in Stacks : ApplyStack(s)) \/ StacksDone \/ Report \/ EditManifest
      PROVE  Condemned'
  <2>1. pc \in {"idle", "planned", "report"} \cup Applying /\ UNCHANGED <<victims, tampered>>
    BY <1>3 DEF BuildPlan, NothingToApply, Confirm, EnsureVolumes, EnsureNetworks, ApplyStack, StacksDone,
       Report, EditManifest, pruning, Applying
  <2>2. victims' = {} /\ tampered' = {}
    BY <2>1 DEF TypeOK, Applying
  <2> QED BY <2>2 DEF Condemned
<1>4. CASE UNCHANGED vars
  BY <1>0, <1>4 DEF vars, manifest, daemon, pruning, Condemned
<1> QED BY <1>1, <1>2, <1>3, <1>4 DEF Next, Run, Finished

\* Of what prune removes, the plan had shown what nobody changed since.
LEMMA ShownRemovals ==
  TypeOK /\ Control /\ Shown /\ Condemned /\ RemovalsWereShownUnlessChanged /\ [Next]_vars
    => RemovalsWereShownUnlessChanged'
<1> SUFFICES ASSUME TypeOK, Control, Shown, Condemned, RemovalsWereShownUnlessChanged, [Next]_vars,
                    pc' # "idle", ~touched'
             PROVE  /\ removed'.vols \subseteq plan'.deleteVols
                    /\ "composeList" \notin faults' => removed'.nets \subseteq plan'.deleteNets
                    /\ "planList" \notin faults' => removed'.ctrs \subseteq plan'.deleteCtrs
  BY DEF RemovalsWereShownUnlessChanged
<1>0. removed \in Removals
  BY DEF TypeOK, Removals
<1>1. CASE BuildPlan
  BY <1>1 DEF BuildPlan, NothingRemoved
<1>2. ASSUME Run, ~BuildPlan
      PROVE  UNCHANGED <<plan, touched>> /\ faults \subseteq faults' /\ pc # "idle"
  BY <1>2, OrphansShrink, PruneFrame DEF Run, NothingToApply, Confirm, EnsureVolumes, EnsureNetworks,
     ApplyStack, StacksDone, Report, Pruning, VolumePart, NetworkPart
<1>3. ASSUME Prune
      PROVE  /\ UNCHANGED <<plan, touched>> /\ faults \subseteq faults'
             /\ ~targeted /\ ~touched /\ tampered = {} /\ pc # "idle"
             /\ OrphanVolumes \subseteq plan.deleteVols
             /\ OrphanNetworks(ListComposeNetworks) \subseteq plan.deleteNets
             /\ "planList" \notin faults' => OrphanContainers(DesiredServices) \subseteq plan.deleteCtrs
  <2>1. Run /\ ~BuildPlan /\ pc \in Pruning
    BY <1>3, PruneFrame DEF Run, BuildPlan, Pruning, VolumePart, NetworkPart
  <2>2. ~targeted
    BY <2>1 DEF Control
  <2>3. ~touched
    BY <1>2, <2>1
  <2> QED BY <1>2, <2>1, <2>2, <2>3 DEF Shown, Condemned
<1>4. ASSUME NEW c \in Containers, RemoveContainer(c)
      PROVE  /\ removed'.vols = removed.vols /\ removed'.nets = removed.nets
             /\ removed'.ctrs \subseteq removed.ctrs \cup OrphanContainers(DesiredServices)
  <2>1. Prune /\ pc = "removeContainers" /\ c \in victims
    BY <1>4 DEF Prune, RemoveContainer
  <2>2. c \in OrphanContainers(DesiredServices)
    BY <1>3, <2>1 DEF Condemned, OrphanContainers, ListComposeContainersAll
  <2> QED BY <1>0, <1>4, <2>2 DEF RemoveContainer, Removals
<1>5. ASSUME NEW v \in Volumes, RemoveVolume(v)
      PROVE  /\ removed'.ctrs = removed.ctrs /\ removed'.nets = removed.nets
             /\ removed'.vols \subseteq removed.vols \cup OrphanVolumes
  <2>1. Prune /\ pc = "removeVolumes" /\ v \in victims
    BY <1>5 DEF Prune, RemoveVolume
  <2>2. v \in OrphanVolumes
    BY <1>3, <2>1 DEF Condemned, OrphanVolumes, ListVolumes
  <2> QED BY <1>0, <1>5, <2>2 DEF RemoveVolume, Removals
<1>6. ASSUME NEW w \in Networks, RemoveNetwork(w)
      PROVE  /\ removed'.ctrs = removed.ctrs /\ removed'.vols = removed.vols
             /\ \/ removed'.nets \subseteq removed.nets \cup OrphanNetworks(ListComposeNetworks)
                \/ "composeList" \in faults'
  <2>1. Prune /\ pc = "removeNetworks" /\ w \in victims
    BY <1>6 DEF Prune, RemoveNetwork
  <2>2. w \in OrphanNetworks(ListComposeNetworks) \/ "composeList" \in faults'
    BY <1>3, <2>1 DEF Condemned, OrphanNetworks, ListNetworks, ListComposeNetworks
  <2> QED BY <1>0, <1>6, <2>2 DEF RemoveNetwork, Removals
<1>7. CASE Prune
  <2>1. CASE Listing
    BY <1>3, <1>7, <2>1, PruneSteps DEF RemovalsWereShownUnlessChanged
  <2>2. CASE RemovesContainer
    BY <1>3, <1>4, <1>7, <2>2 DEF RemovesContainer, RemovalsWereShownUnlessChanged
  <2>3. CASE RemovesVolume
    BY <1>3, <1>5, <1>7, <2>3 DEF RemovesVolume, RemovalsWereShownUnlessChanged
  <2>4. CASE RemovesNetwork
    BY <1>3, <1>6, <1>7, <2>4 DEF RemovesNetwork, RemovalsWereShownUnlessChanged
  <2> QED BY <1>7, <2>1, <2>2, <2>3, <2>4, PruneSteps
<1>8. CASE \/ NothingToApply \/ Confirm \/ EnsureVolumes \/ EnsureNetworks
           \/ (\E s \in Stacks : ApplyStack(s)) \/ StacksDone \/ Report
  <2>1. UNCHANGED removed /\ pc # "idle" /\ ~BuildPlan
    BY <1>8 DEF NothingToApply, Confirm, EnsureVolumes, EnsureNetworks, ApplyStack, StacksDone,
       Report, BuildPlan
  <2> QED BY <1>2, <1>8, <2>1 DEF Run, RemovalsWereShownUnlessChanged
<1>9. CASE UNCHANGED vars
  BY <1>9 DEF vars, RemovalsWereShownUnlessChanged
<1> QED BY <1>1, <1>7, <1>8, <1>9, Outside DEF Run

\* With the list of compose networks at hand, none of them is among the victims.
LEMMA ComposeRemovals ==
  TypeOK /\ Condemned /\ ComposeNetworksSurviveUnlessUnlisted /\ [Next]_vars => ComposeNetworksSurviveUnlessUnlisted'
<1> SUFFICES ASSUME TypeOK, Condemned, ComposeNetworksSurviveUnlessUnlisted, [Next]_vars
             PROVE  ComposeNetworksSurviveUnlessUnlisted'
  OBVIOUS
<1>0. removed \in Removals
  BY DEF TypeOK, Removals
<1>1. CASE BuildPlan
  BY <1>1 DEF BuildPlan, NothingRemoved, ComposeNetworksSurviveUnlessUnlisted
<1>2. ASSUME Run, ~BuildPlan PROVE faults \subseteq faults' /\ UNCHANGED touched
  BY <1>2, OrphansShrink
<1>3. ASSUME NEW w \in Networks, RemoveNetwork(w) PROVE ComposeNetworksSurviveUnlessUnlisted'
  <2>1. Run /\ ~BuildPlan /\ pc = "removeNetworks" /\ w \in victims
    BY <1>3 DEF Run, Prune, RemoveNetwork, BuildPlan
  <2>2. w \in ListComposeNetworks => "composeList" \in faults' \/ touched'
    BY <1>2, <2>1 DEF Condemned, ListComposeNetworks
  <2>3. removed'.compose = removed.compose \/ removed'.compose = removed.compose \cup ({w} \cap ListComposeNetworks)
    BY <1>0, <1>3 DEF RemoveNetwork, Removals
  <2> QED BY <1>2, <2>1, <2>2, <2>3 DEF ComposeNetworksSurviveUnlessUnlisted
<1>4. CASE Run /\ ~BuildPlan /\ ~RemovesNetwork
  <2>1. removed'.compose = removed.compose
    <3>1. Listing \/ ~Prune => UNCHANGED removed
      BY <1>4, PruneSteps DEF Run, NothingToApply, Confirm, EnsureVolumes, EnsureNetworks, ApplyStack,
         StacksDone, Report
    <3>2. RemovesContainer \/ RemovesVolume => removed'.compose = removed.compose
      BY <1>0 DEF RemovesContainer, RemovesVolume, RemoveContainer, RemoveVolume, Removals
    <3> QED BY <1>4, <3>1, <3>2, PruneSteps
  <2> QED BY <1>2, <1>4, <2>1 DEF ComposeNetworksSurviveUnlessUnlisted
<1>5. CASE OthersChange \/ EditManifest \/ UNCHANGED vars
  BY <1>5 DEF OthersChange, EditManifest, vars, ComposeNetworksSurviveUnlessUnlisted
<1> QED BY <1>1, <1>3, <1>4, <1>5 DEF Next, Finished, RemovesNetwork

-----------------------------------------------------------------------------
(***************************************************************************)
(* A run without failures                                                  *)
(***************************************************************************)
\* What the plan reads is a function of the daemon and the manifest.
LEMMA SamePlan ==
  ASSUME UNCHANGED <<manifest, daemon>>
  PROVE  /\ UNCHANGED <<ListVolumes, ListNetworks, ListComposeNetworks, Unsettled, DesiredServices,
                     OrphanVolumes, OrphanNetworks(ListComposeNetworks), OrphanContainers(DesiredServices)>>
         /\ \A needs : PlanOf(needs, TRUE)' = PlanOf(needs, TRUE)
         /\ UNCHANGED faults => UNCHANGED Unapplied
<1>1. UNCHANGED <<wantVols, wantNets, defines, targeted, vol, net, ctr>>
  BY DEF manifest, daemon
<1>2. UNCHANGED <<ListVolumes, ListNetworks, ListComposeNetworks, DesiredServices>>
  BY <1>1 DEF ListVolumes, ListNetworks, ListComposeNetworks, DesiredServices
<1>3. UNCHANGED <<OrphanVolumes, OrphanNetworks(ListComposeNetworks), OrphanContainers(DesiredServices)>>
  BY <1>1, <1>2 DEF OrphanVolumes, OrphanNetworks, OrphanContainers, ListComposeContainersAll
<1>4. UNCHANGED Unsettled
  BY <1>1 DEF Unsettled, NeedsApply
<1>5. UNCHANGED faults => UNCHANGED Unapplied
  BY <1>1 DEF Unapplied, Applied
<1> QED BY <1>1, <1>2, <1>3, <1>4, <1>5 DEF PlanOf

\* A stack that needs no apply is applied.
LEMMA SettledIsApplied == Unapplied \subseteq Unsettled
BY DEF Unapplied, Applied, Unsettled, NeedsApply

\* Each step of a run without failures does its part.
LEMMA ProgressStep == TypeOK /\ Condemned /\ Progress /\ [Next]_vars => Progress'
<1> SUFFICES ASSUME TypeOK, Condemned, Progress, [Next]_vars, faults' \subseteq Hidden, ~touched'
             PROVE  Progress'
  BY DEF Progress
<1>0. ~BuildPlan /\ Run => faults \subseteq Hidden /\ ~touched /\ UNCHANGED <<wantVols, wantNets, defines, targeted, strict, plan>>
  BY OrphansShrink DEF manifest
<1>a. \A kind : kind \notin Hidden => ~Fails(kind)
  BY FaultsGrow
<1>b. /\ ~Fails("apply") /\ ~Fails("list") /\ ~Fails("composeList") /\ ~Fails("remove")
      /\ "remove" \notin faults'
  BY <1>a DEF Hidden
<1>1. CASE BuildPlan
  <2>1. \/ pc' = "idle"
        \/ pc' = "planned" /\ \E needs : plan' = PlanOf(needs, TRUE) /\ Unsettled \subseteq needs
    BY <1>1 DEF BuildPlan, Unsettled, End, Hidden
  <2>2. UNCHANGED Unsettled /\ \A needs : PlanOf(needs, TRUE)' = PlanOf(needs, TRUE)
    BY <1>1, SamePlan DEF BuildPlan
  <2>3. \A needs : PlanOf(needs, TRUE).needs = needs
    BY DEF PlanOf
  <2>4. CASE pc' = "idle"
    BY <2>4 DEF Progress, Pruning, VolumePart, NetworkPart
  <2>5. CASE pc' = "planned"
    <3>1. PICK needs : plan' = PlanOf(needs, TRUE) /\ Unsettled \subseteq needs
      BY <2>1, <2>5
    <3>2. plan'.needs = needs /\ plan' = PlanOf(plan'.needs, TRUE)
      BY <2>3, <3>1
    <3> QED BY <2>2, <2>5, <3>1, <3>2 DEF Progress, Pruning, VolumePart, NetworkPart
  <2> QED BY <2>1, <2>4, <2>5
<1>2. CASE NothingToApply \/ Report
  BY <1>2 DEF NothingToApply, Report, End, Progress, Pruning, VolumePart, NetworkPart
<1>3. CASE Confirm
  <2>1. UNCHANGED Unsettled /\ \A needs : PlanOf(needs, TRUE)' = PlanOf(needs, TRUE)
    BY <1>3, SamePlan DEF Confirm
  <2>2. pc = "planned" /\ pc' \in {"volumes", "idle"} /\ UNCHANGED <<plan, faults, touched>>
    BY <1>3 DEF Confirm, End
  <2> QED BY <2>1, <2>2 DEF Progress, Pruning, VolumePart, NetworkPart
<1>4. CASE EnsureVolumes
  <2>0. Run /\ ~BuildPlan
    BY <1>4 DEF EnsureVolumes, BuildPlan, Run
  <2>1. VolumesCreated(wantVols \ ListVolumes) /\ pc = "volumes" /\ pc' = "networks" /\ UNCHANGED <<net, ctr>>
    BY <1>4, <1>b DEF EnsureVolumes
  <2>2. UNCHANGED <<ListNetworks, Unsettled>>
    BY <1>0, <2>0, <2>1 DEF ListNetworks, Unsettled, NeedsApply
  <2>3. plan.nets = ListNetworks /\ Unsettled \subseteq plan.needs
    <3>1. plan = PlanOf(plan.needs, TRUE) /\ Unsettled \subseteq plan.needs
      BY <1>0, <2>0, <2>1 DEF Progress
    <3> QED BY SMTT(30), <3>1 DEF PlanOf
  <2>4. \A v \in wantVols' : vol'[v] # "none"
    BY <1>0, <2>0, <2>1 DEF VolumesCreated, ListVolumes, TypeOK
  <2> QED BY <1>0, <2>0, <2>1, <2>2, <2>3, <2>4 DEF Progress, Pruning, VolumePart, NetworkPart
<1>5. CASE EnsureNetworks
  <2>0. Run /\ ~BuildPlan
    BY <1>5 DEF EnsureNetworks, BuildPlan, Run
  <2>1. CASE pc' = "idle"
    BY <2>1 DEF Progress, Pruning, VolumePart, NetworkPart
  <2>2. CASE pc' = "stacks"
    <3>1. /\ NetworksCreated(MissingNetworks) /\ UNCHANGED <<vol, ctr>> /\ pc = "networks"
          /\ todo' = {s \in plan.needs : defines[s] # {}}
      BY <1>5, <2>2 DEF EnsureNetworks, End
    <3>2. plan.nets = ListNetworks /\ Unsettled \subseteq plan.needs /\ \A v \in wantVols : vol[v] # "none"
      BY <1>0, <2>0, <3>1 DEF Progress
    <3>3. UNCHANGED Unsettled
      BY <1>0, <2>0, <3>1 DEF Unsettled, NeedsApply
    <3>4. Unapplied' \subseteq todo'
      <4>1. Unsettled \subseteq todo'
        BY <3>1, <3>2 DEF Unsettled, NeedsApply
      <4>2. Unapplied' \subseteq Unsettled'
        BY DEF Unapplied, Applied, Unsettled, NeedsApply
      <4> QED BY <3>3, <4>1, <4>2
    <3>5. wantNets \subseteq ListNetworks'
      BY <3>1, <3>2 DEF NetworksCreated, MissingNetworks, ListNetworks, TypeOK, ContextNets
    <3> QED BY <1>0, <2>0, <2>2, <3>1, <3>2, <3>3, <3>4, <3>5 DEF Progress, Pruning, VolumePart, NetworkPart
  <2> QED BY <1>5, <2>1, <2>2 DEF EnsureNetworks, End
<1>6. ASSUME NEW s \in Stacks, ApplyStack(s) PROVE Progress'
  <2>0. Run /\ ~BuildPlan
    BY <1>6 DEF ApplyStack, BuildPlan, Run
  <2>1. /\ \/ BroughtUp(s, defines[s], "ours", "compose")
           \/ BroughtUp(s, defines[s], "outdated", "foreign") /\ "overlay" \in faults'
        /\ UNCHANGED vol
        /\ pc = "stacks" /\ pc' = "stacks" /\ todo' = todo \ {s}
    BY <1>6, <1>b, FaultsGrow DEF ApplyStack, BringUp
  <2>2. Unapplied \subseteq todo /\ wantNets \subseteq ListNetworks /\ \A v \in wantVols : vol[v] # "none"
    BY <1>0, <2>0, <2>1 DEF Progress
  <2>3. wantNets \subseteq ListNetworks'
    BY <2>1, <2>2 DEF BroughtUp, ListNetworks
  <2>4. faults \subseteq faults'
    BY <2>0, OrphansShrink
  <2>5. ASSUME NEW r \in Stacks, ~Applied(r)' PROVE r \in todo \ {s}
    <3>1. PICK x \in defines[r] : ~(ctr'[<<r, x>>] = "ours" \/ ("overlay" \in faults' /\ ctr'[<<r, x>>] = "outdated"))
      BY <1>0, <2>0, <2>5 DEF Applied
    <3>2. <<r, x>> \in Containers
      BY DEF Containers, TypeOK
    <3>3. ~(r = s /\ x \in defines[s]) /\ ctr'[<<r, x>>] = ctr[<<r, x>>]
      BY <2>1, <3>1, <3>2 DEF BroughtUp
    <3>4. r # s /\ ~Applied(r)
      BY <2>4, <3>1, <3>3 DEF Applied
    <3> QED BY <2>2, <3>4 DEF Unapplied
  <2>6. Unapplied' \subseteq todo'
    BY <2>1, <2>5 DEF Unapplied
  <2> QED BY <1>0, <2>0, <2>1, <2>2, <2>3, <2>6 DEF Progress, Pruning, VolumePart, NetworkPart
<1>7. CASE StacksDone
  <2>0. Run /\ ~BuildPlan
    BY <1>7 DEF StacksDone, BuildPlan, Run
  <2>1. pc = "stacks" /\ todo = {} /\ pc' \in {"idle", "pruneContainers"} /\ UNCHANGED <<manifest, daemon, faults>>
    BY <1>7 DEF StacksDone, End
  <2>2. UNCHANGED <<ListNetworks, Unapplied, wantVols, wantNets, vol>>
    BY <2>1, SamePlan DEF manifest, daemon
  <2>3. Unapplied = {} /\ wantNets \subseteq ListNetworks /\ \A v \in wantVols : vol[v] # "none"
    BY <1>0, <2>0, <2>1 DEF Progress
  <2> QED BY <2>1, <2>2, <2>3 DEF Progress, Pruning, VolumePart, NetworkPart
<1>8. ASSUME Prune
      PROVE  /\ faults \subseteq Hidden /\ faults \subseteq faults' /\ ~touched /\ tampered = {}
             /\ UNCHANGED <<wantVols, wantNets, defines, DesiredServices>>
             /\ Unapplied = {} /\ wantNets \subseteq ListNetworks /\ \A v \in wantVols : vol[v] # "none"
             /\ pc \in VolumePart => OrphanContainers(DesiredServices) = {}
             /\ pc \in NetworkPart => OrphanVolumes = {}
  <2>1. Run /\ ~BuildPlan /\ pc \in Pruning
    BY <1>8, PruneFrame DEF Run, BuildPlan, Pruning, VolumePart, NetworkPart
  <2>2. UNCHANGED DesiredServices
    BY <1>0, <2>1 DEF DesiredServices
  <2>3. faults \subseteq faults'
    BY <2>1, OrphansShrink
  <2> QED BY <1>0, <2>1, <2>2, <2>3 DEF Progress, Condemned
<1>c. ASSUME Prune, UNCHANGED ctr PROVE Unapplied' = {}
  BY <1>8, <1>c DEF Unapplied, Applied
<1>9. ASSUME Listing, Prune PROVE Progress'
  <2>1. /\ UNCHANGED <<ListNetworks, ListComposeNetworks, vol, OrphanVolumes, OrphanNetworks(ListComposeNetworks),
                       OrphanContainers(DesiredServices)>>
        /\ Unapplied' = {}
    <3>1. UNCHANGED <<manifest, daemon>>
      BY <1>9, PruneSteps, PruneFrame
    <3> QED BY <1>9, <1>c, <3>1, SamePlan DEF daemon
  <2>2. CASE ListContainers
    <3>1. /\ victims' = OrphanContainers(DesiredServices)
          /\ pc' = IF victims' = {} THEN "pruneVolumes" ELSE "removeContainers"
      BY <1>b, <2>2, SameServices DEF ListContainers, Victims
    <3> QED BY <1>8, <1>9, <2>1, <3>1 DEF Progress, Pruning, VolumePart, NetworkPart
  <2>3. CASE PruneListVolumes
    <3>1. /\ victims' = OrphanVolumes /\ pc = "pruneVolumes"
          /\ pc' = IF victims' = {} THEN "pruneNetworks" ELSE "removeVolumes"
      BY <1>b, <2>3 DEF PruneListVolumes, Victims, VolumesToPrune
    <3> QED BY <1>8, <1>9, <2>1, <3>1 DEF Progress, Pruning, VolumePart, NetworkPart
  <2>4. CASE PruneListNetworks
    <3>1. victims' = ListNetworks \ wantNets /\ pc = "pruneNetworks" /\ pc' = "composeNetworks"
      BY <1>b, <2>4 DEF PruneListNetworks, Victims
    <3>2. OrphanNetworks(ListComposeNetworks) \subseteq victims'
      BY <3>1 DEF OrphanNetworks
    <3> QED BY <1>8, <1>9, <2>1, <3>1, <3>2 DEF Progress, Pruning, VolumePart, NetworkPart
  <2>5. CASE SpareComposeNetworks
    <3>1. /\ victims' = victims \ ListComposeNetworks /\ pc = "composeNetworks"
          /\ pc' = IF victims' = {} THEN "report" ELSE "removeNetworks"
      BY <1>b, <2>5 DEF SpareComposeNetworks, Victims
    <3>2. OrphanNetworks(ListComposeNetworks) \subseteq victims
      BY <1>8, <1>9, <3>1 DEF Progress
    <3>3. OrphanNetworks(ListComposeNetworks) \subseteq victims'
      BY <3>1, <3>2 DEF OrphanNetworks
    <3> QED BY <1>8, <1>9, <2>1, <3>1, <3>3 DEF Progress, Pruning, VolumePart, NetworkPart
  <2> QED BY <1>9, <2>2, <2>3, <2>4, <2>5 DEF Listing
<1>10. ASSUME NEW c \in Containers, RemoveContainer(c), Prune PROVE Progress'
  <2>1. /\ pc = "removeContainers" /\ c \in victims /\ victims' = victims \ {c} /\ UNCHANGED <<vol, net>>
        /\ pc' = IF victims' = {} THEN "pruneVolumes" ELSE "removeContainers"
    BY <1>10 DEF RemoveContainer, Victims
  <2>2. ctr'[c] = "none" /\ \A d \in Containers \ {c} : ctr'[d] = ctr[d]
    BY <1>10, <1>b DEF RemoveContainer, RemovalFails, TypeOK
  <2>3. OrphanContainers(DesiredServices) \subseteq victims
    BY <1>8, <1>10, <2>1 DEF Progress
  <2>4. OrphanContainers(DesiredServices)' \subseteq victims'
    BY <1>8, <1>10, <2>1, <2>2, <2>3 DEF OrphanContainers, ListComposeContainersAll
  <2>5. ASSUME NEW s \in Stacks, NEW x \in defines[s]
        PROVE  ctr'[<<s, x>>] = "ours" \/ ("overlay" \in faults' /\ ctr'[<<s, x>>] = "outdated")
    <3>1. /\ <<s, x>> \in Containers
          /\ ctr[<<s, x>>] = "ours" \/ ("overlay" \in faults' /\ ctr[<<s, x>>] = "outdated")
      BY <1>8, <1>10 DEF Containers, TypeOK, Unapplied, Applied
    <3>2. c[2] \notin DesiredServices
      BY <2>1 DEF Condemned
    <3>3. x \in DesiredServices
      BY DEF DesiredServices
    <3>4. <<s, x>> # c
      BY SMTT(30), <3>2, <3>3
    <3> QED BY <2>2, <3>1, <3>4
  <2>6. Unapplied' = {}
    BY <1>8, <1>10, <2>5 DEF Unapplied, Applied
  <2>7. UNCHANGED ListNetworks
    BY <2>1 DEF ListNetworks
  <2> QED BY <1>8, <1>10, <2>1, <2>4, <2>6, <2>7 DEF Progress, Pruning, VolumePart, NetworkPart
<1>11. ASSUME NEW v \in Volumes, RemoveVolume(v), Prune PROVE Progress'
  <2>1. /\ pc = "removeVolumes" /\ v \in victims /\ victims' = victims \ {v} /\ UNCHANGED <<ctr, net>>
        /\ pc' = IF victims' = {} THEN "pruneNetworks" ELSE "removeVolumes"
    BY <1>11 DEF RemoveVolume, Victims
  <2>2. vol'[v] = "none" /\ \A u \in Volumes \ {v} : vol'[u] = vol[u]
    BY <1>11, <1>b DEF RemoveVolume, RemovalFails, TypeOK
  <2>3. OrphanVolumes \subseteq victims
    BY <1>8, <1>11, <2>1 DEF Progress
  <2>4. OrphanVolumes' \subseteq victims'
    BY <1>8, <1>11, <2>1, <2>2, <2>3 DEF OrphanVolumes, ListVolumes
  <2>5. v \notin wantVols
    BY <2>1 DEF Condemned
  <2>6. \A u \in wantVols : vol'[u] # "none"
    BY <1>8, <1>11, <2>2, <2>5 DEF TypeOK
  <2>7. UNCHANGED <<ListNetworks, OrphanContainers(DesiredServices)>> /\ Unapplied' = {}
    BY <1>8, <1>11, <1>c, <2>1 DEF ListNetworks, OrphanContainers, ListComposeContainersAll
  <2> QED BY <1>8, <1>11, <2>1, <2>4, <2>6, <2>7 DEF Progress, Pruning, VolumePart, NetworkPart
<1>12. ASSUME NEW w \in Networks, RemoveNetwork(w), Prune PROVE Progress'
  <2>1. /\ pc = "removeNetworks" /\ w \in victims /\ victims' = victims \ {w} /\ UNCHANGED <<ctr, vol>>
        /\ pc' = IF victims' = {} THEN "report" ELSE "removeNetworks"
    BY <1>12 DEF RemoveNetwork, Victims
  <2>2. net'[w] = "none" /\ \A u \in Networks \ {w} : net'[u] = net[u]
    BY <1>12, <1>b DEF RemoveNetwork, RemovalFails, TypeOK
  <2>3. OrphanNetworks(ListComposeNetworks) \subseteq victims
    BY <1>8, <1>12, <2>1 DEF Progress
  <2>4. OrphanNetworks(ListComposeNetworks)' \subseteq victims'
    BY <1>8, <1>12, <2>1, <2>2, <2>3 DEF OrphanNetworks, ListNetworks, ListComposeNetworks
  <2>5. w \notin wantNets
    BY <2>1 DEF Condemned
  <2>6. wantNets \subseteq ListNetworks'
    BY <1>8, <1>12, <2>2, <2>5 DEF ListNetworks
  <2>7. UNCHANGED <<OrphanVolumes, OrphanContainers(DesiredServices)>> /\ Unapplied' = {}
    BY <1>8, <1>12, <1>c, <2>1 DEF OrphanVolumes, ListVolumes, OrphanContainers, ListComposeContainersAll
  <2> QED BY <1>8, <1>12, <2>1, <2>4, <2>6, <2>7 DEF Progress, Pruning, VolumePart, NetworkPart
<1>13. ASSUME Prune PROVE Progress'
  BY <1>9, <1>10, <1>11, <1>12, <1>13, PruneSteps DEF RemovesContainer, RemovesVolume, RemovesNetwork
<1>14. CASE UNCHANGED vars
  <2>1. UNCHANGED <<manifest, daemon, pc, plan, todo, victims, faults, touched, wantVols, wantNets, vol>>
    BY <1>14 DEF vars, manifest, daemon, pruning
  <2> QED BY <2>1, SamePlan DEF Progress
<1> QED BY <1>1, <1>2, <1>3, <1>4, <1>5, <1>6, <1>7, <1>13, <1>14, Outside DEF Run

\* The steps that end a run with "ok" find everything done.
LEMMA SettledStep == TypeOK /\ Control /\ Progress /\ CleanRunSettles /\ [Next]_vars => CleanRunSettles'
<1> SUFFICES ASSUME TypeOK, Control, Progress, CleanRunSettles, [Next]_vars,
                    pc' = "idle", result' = "ok", faults' \subseteq Hidden, ~touched', \A v \in wantVols' : vol'[v] # "foreign"
             PROVE  NoActions(PlanOf(Unapplied, TRUE))'
  BY DEF CleanRunSettles, Hidden, Unapplied
<1>1. CASE NothingToApply \/ StacksDone \/ Report
  <2>1. UNCHANGED <<manifest, daemon, plan, faults, touched>> /\ pc # "idle"
    BY <1>1 DEF NothingToApply, StacksDone, Report
  <2>2. UNCHANGED <<Unapplied, wantVols, vol>> /\ faults \subseteq Hidden /\ ~touched
    BY <2>1, SamePlan DEF manifest, daemon
  <2>a. UNCHANGED PlanOf(Unapplied, TRUE)
    <3>1. \A needs : PlanOf(needs, TRUE)' = PlanOf(needs, TRUE)
      BY <2>1, SamePlan
    <3> QED BY <2>2, <3>1 DEF PlanOf
  <2>3. SUFFICES NoActions(PlanOf(Unapplied, TRUE))
    BY <2>a DEF NoActions
  <2>4. CASE NothingToApply
    <3>1. plan = PlanOf(plan.needs, TRUE) /\ Unsettled \subseteq plan.needs /\ NoActions(plan)
      BY <2>2, <2>4 DEF NothingToApply, Progress
    <3>2. plan.needs = {} /\ Unapplied = {}
      BY <3>1, SettledIsApplied DEF NoActions
    <3> QED BY <3>1, <3>2
  <2>5. CASE StacksDone
    <3>1. targeted /\ pc = "stacks" /\ todo = {}
      BY <2>5 DEF StacksDone, PruneEnabled
    <3>2. Unapplied = {} /\ wantNets \subseteq ListNetworks /\ \A v \in wantVols : vol[v] # "none"
      BY <2>2, <3>1 DEF Progress
    <3>3. wantVols \subseteq ListVolumes
      BY <2>2, <3>2 DEF ListVolumes, TypeOK, VolStates
    <3> QED BY <3>1, <3>2, <3>3 DEF NoActions, PlanOf
  <2>6. CASE Report
    <3>1. pc = "report" /\ ~targeted
      BY <2>6 DEF Report, Control, Pruning, VolumePart, NetworkPart
    <3>2. /\ Unapplied = {} /\ wantNets \subseteq ListNetworks /\ \A v \in wantVols : vol[v] # "none"
          /\ OrphanContainers(DesiredServices) = {} /\ OrphanVolumes = {} /\ OrphanNetworks(ListComposeNetworks) = {}
      BY <2>2, <3>1 DEF Progress, Pruning, VolumePart, NetworkPart
    <3>3. wantVols \subseteq ListVolumes
      BY <2>2, <3>2 DEF ListVolumes, TypeOK, VolStates
    <3> QED BY <3>1, <3>2, <3>3 DEF NoActions, PlanOf
  <2> QED BY <1>1, <2>4, <2>5, <2>6
<1>2. CASE UNCHANGED vars
  <2>1. UNCHANGED <<manifest, daemon, pc, result, faults, touched, wantVols, vol>>
    BY <1>2 DEF vars, manifest, daemon
  <2>2. UNCHANGED Unapplied /\ \A needs : PlanOf(needs, TRUE)' = PlanOf(needs, TRUE)
    BY <2>1, SamePlan
  <2>3. NoActions(PlanOf(Unapplied, TRUE))
    BY <2>1 DEF CleanRunSettles, Hidden, Unapplied
  <2>4. UNCHANGED PlanOf(Unapplied, TRUE)
    BY <2>2 DEF PlanOf
  <2> QED BY <2>3, <2>4 DEF NoActions
<1>3. BuildPlan \/ Confirm \/ EnsureVolumes \/ EnsureNetworks \/ (\E s \in Stacks : ApplyStack(s)) => result' # "ok"
  BY DEF BuildPlan, Confirm, EnsureVolumes, EnsureNetworks, ApplyStack, End
<1>4. ~Prune
  BY PruneFrame DEF Pruning, VolumePart, NetworkPart
<1> QED BY <1>1, <1>2, <1>3, <1>4, Outside DEF Run

-----------------------------------------------------------------------------
(***************************************************************************)
(* The theorems                                                            *)
(***************************************************************************)
\* The initial states satisfy the invariant.
LEMMA InitInv == Init => Inv
<1> SUFFICES ASSUME Init PROVE Inv
  OBVIOUS
<1>1. TypeOK
  <2>1. targeted \in BOOLEAN /\ strict \in BOOLEAN /\ touched \in BOOLEAN
    BY DEF Init
  <2>2. plan \in Plans
    <3>1. PlanOf({}, TRUE) \in Plans
      BY PlanType DEF Init
    <3> QED BY <3>1 DEF Init
  <2>3. vol \in [Volumes -> VolStates] /\ ctr \in [Containers -> CtrStates]
    BY DEF Init, VolStates, CtrStates
  <2>4. net \in [Networks -> {"none", "ours", "compose", "foreign"}] /\ \A w \in Networks : net[w] \in NetStates(w)
    BY DEF Init, NetStates
  <2>5. bound \in Counts /\ removed \in Removals
    BY SMTT(30), ReconcileAssumption DEF Init, Counts, Removals, NothingRemoved
  <2> QED BY <2>1, <2>2, <2>3, <2>4, <2>5 DEF Init, TypeOK, Plans, Counts, Removals
<1>2. pc = "idle" /\ result = "none" /\ removed = NothingRemoved /\ tampered = {}
  BY DEF Init
<1>3. Control /\ Shown /\ Condemned /\ Progress /\ RemovalsWereShownUnlessChanged
  BY <1>2 DEF Control, Shown, Condemned, Progress, RemovalsWereShownUnlessChanged, Pruning, VolumePart,
     NetworkPart, Applying
<1>4. ComposeNetworksSurviveUnlessUnlisted /\ CleanRunSettles
  BY <1>2 DEF ComposeNetworksSurviveUnlessUnlisted, CleanRunSettles, NothingRemoved
<1> QED BY <1>1, <1>3, <1>4 DEF Inv

\* Every step keeps the invariant.
LEMMA NextInv == Inv /\ [Next]_vars => Inv'
BY TypeInv, ControlStep, ShownStep, CondemnedStep, ProgressStep, ShownRemovals, ComposeRemovals, SettledStep
   DEF Inv

\* The inductive invariant holds in every reachable state.
LEMMA Invariance == Spec => []Inv
BY InitInv, NextInv, PTL DEF Spec

\* The state of the daemon, the plan and the run keep their types.
THEOREM ReconcileTypeOK == Spec => []TypeOK
BY Invariance, PTL DEF Inv

\* A targeted run prunes nothing.
THEOREM ReconcileTargeted == Spec => []TargetedRemovesNothing
<1>1. Inv => TargetedRemovesNothing
  <2> SUFFICES ASSUME Inv, pc # "idle", targeted PROVE removed = NothingRemoved
    BY DEF TargetedRemovesNothing
  <2>1. pc \in {"planned"} \cup Applying \cup Pruning
    BY DEF Inv, TypeOK, Applying, Pruning, VolumePart, NetworkPart
  <2> QED BY <2>1 DEF Inv, Control
<1> QED BY <1>1, Invariance, PTL

\* Without changes by others and failing lists prune removes only deletions of the plan.
THEOREM ReconcileShown == Spec => []RemovalsWereShownUnlessChanged
BY Invariance, PTL DEF Inv

\* pruneContext removes the network of a stack only when it could not list compose's networks
\* or others changed the daemon.
THEOREM ReconcileCompose == Spec => []ComposeNetworksSurviveUnlessUnlisted
BY Invariance, PTL DEF Inv

\* Prune stays within what the user was shown and confirmed, for any manifest and daemon.
THEOREM ReconcilePrune == Spec => []PruneStaysWithinPlan
BY ReconcileTargeted, ReconcileShown, ReconcileCompose, PTL DEF PruneStaysWithinPlan

\* A run without failures or interference leaves nothing for the next plan.
THEOREM ReconcileSettles == Spec => []CleanRunSettles
BY Invariance, PTL DEF Inv

\* Every step of dockform destroys only resources that the manifest does not want and that
\* carry its label, or lost it to others between the list of pruneContext and the removal.
THEOREM ReconcileOrphans == Spec => OnlyOrphansAreRemoved
<1> DEFINE VolSafe(v) == vol[v] # "none" /\ vol'[v] = "none" =>
             v \notin wantVols /\ (vol[v] = "ours" \/ v \in tampered)
           NetSafe(w) == net[w] # "none" /\ net'[w] = "none" =>
             w \notin wantNets /\ (net[w] \in {"ours", "compose"} \/ w \in tampered)
           CtrSafe(c) == ctr[c] # "none" /\ ctr'[c] = "none" =>
             c[2] \notin defines[c[1]] /\ (ctr[c] # "foreign" \/ c \in tampered)
           Safe == bound'.changes = bound.changes =>
             /\ \A v \in Volumes : VolSafe(v)
             /\ \A w \in Networks : NetSafe(w)
             /\ \A c \in Containers : CtrSafe(c)
<1>1. Inv /\ [Next]_vars => [Safe]_vars
  <2> SUFFICES ASSUME TypeOK, Condemned, [Next]_vars, bound'.changes = bound.changes
               PROVE  /\ \A v \in Volumes : VolSafe(v)
                      /\ \A w \in Networks : NetSafe(w)
                      /\ \A c \in Containers : CtrSafe(c)
    BY DEF Inv
  <2>0. ~OthersChange
    BY SMTT(30) DEF OthersChange, TypeOK
  <2>1. ASSUME NEW v \in Volumes, vol[v] # "none", vol'[v] = "none"
        PROVE  v \notin wantVols /\ (vol[v] = "ours" \/ v \in tampered)
    <3>1. ~EnsureVolumes
      BY <2>1 DEF EnsureVolumes, VolumesCreated
    <3>2. ASSUME NEW u \in Volumes, RemoveVolume(u) PROVE v \in victims /\ pc = "removeVolumes"
      BY <2>1, <3>2 DEF RemoveVolume, TypeOK
    <3>3. Next \/ UNCHANGED vars => EnsureVolumes \/ RemovesVolume \/ UNCHANGED vol
      BY <2>0, PruneSteps DEF Next, Run, BuildPlan, NothingToApply, Confirm, EnsureNetworks, ApplyStack,
         StacksDone, Report, EditManifest, Finished, vars, daemon
    <3>4. v \in victims /\ pc = "removeVolumes"
      BY <2>1, <3>1, <3>2, <3>3 DEF RemovesVolume
    <3> QED BY <3>4 DEF Condemned
  <2>2. ASSUME NEW w \in Networks, net[w] # "none", net'[w] = "none"
        PROVE  w \notin wantNets /\ (net[w] \in {"ours", "compose"} \/ w \in tampered)
    <3>1. \A S : NetworksCreated(S) => net'[w] \in {"ours", net[w]}
      BY DEF NetworksCreated
    <3>2. ~EnsureNetworks
      BY <2>2, <3>1 DEF EnsureNetworks
    <3>3. \A s \in Stacks : ~ApplyStack(s)
      <4>1. \A s, X, c, m : BroughtUp(s, X, c, m) => net'[w] = net[w]
        BY <2>2 DEF BroughtUp
      <4> QED BY <2>2, <4>1 DEF ApplyStack, BringUp
    <3>4. ASSUME NEW u \in Networks, RemoveNetwork(u) PROVE w \in victims /\ pc = "removeNetworks"
      BY <2>2, <3>4 DEF RemoveNetwork, TypeOK
    <3>5. Next \/ UNCHANGED vars =>
            EnsureNetworks \/ (\E s \in Stacks : ApplyStack(s)) \/ RemovesNetwork \/ UNCHANGED net
      BY <2>0, PruneSteps DEF Next, Run, BuildPlan, NothingToApply, Confirm, EnsureVolumes, StacksDone,
         Report, EditManifest, Finished, vars, daemon
    <3>6. w \in victims /\ pc = "removeNetworks"
      BY <2>2, <3>2, <3>3, <3>4, <3>5 DEF RemovesNetwork
    <3> QED BY <3>6 DEF Condemned
  <2>3. ASSUME NEW c \in Containers, ctr[c] # "none", ctr'[c] = "none"
        PROVE  c[2] \notin defines[c[1]] /\ (ctr[c] # "foreign" \/ c \in tampered)
    <3>1. \A s \in Stacks : ~ApplyStack(s)
      <4>1. \A s, X, m : \A d \in {"ours", "outdated", "foreign"} : BroughtUp(s, X, d, m) => ctr'[c] # "none"
        BY <2>3 DEF BroughtUp
      <4> QED BY <2>3, <4>1 DEF ApplyStack, BringUp
    <3>2. ASSUME NEW d \in Containers, RemoveContainer(d) PROVE c \in victims /\ pc = "removeContainers"
      BY <2>3, <3>2 DEF RemoveContainer, TypeOK
    <3>3. ~EditManifest
      BY <2>3 DEF EditManifest
    <3>4. Next \/ UNCHANGED vars => (\E s \in Stacks : ApplyStack(s)) \/ RemovesContainer \/ EditManifest \/ UNCHANGED ctr
      BY <2>0, PruneSteps DEF Next, Run, BuildPlan, NothingToApply, Confirm, EnsureVolumes, EnsureNetworks,
         StacksDone, Report, Finished, vars, daemon
    <3>5. c \in victims /\ pc = "removeContainers"
      BY <2>3, <3>1, <3>2, <3>3, <3>4 DEF RemovesContainer
    <3>6. c[1] \in Stacks
      BY DEF Containers
    <3>7. c[2] \notin DesiredServices /\ (ctr[c] \in {"ours", "outdated"} \/ c \in tampered)
      BY <3>5 DEF Condemned
    <3>8. defines[c[1]] \subseteq DesiredServices
      BY <3>6 DEF DesiredServices
    <3> QED BY <3>7, <3>8
  <2> QED BY <2>1, <2>2, <2>3
<1> QED BY <1>1, Invariance, PTL DEF Spec, OnlyOrphansAreRemoved
=============================================================================
