---------------------------- MODULE Orchestrate ----------------------------
(***************************************************************************)
(* How the planner runs one operation (apply, prune, destroy, discovery)   *)
(* on every Docker context of the manifest: src/internal/planner/          *)
(* orchestrate.go.  A context is named by its rank in the sorted list of   *)
(* names.  The operation itself (fn) is abstracted to how it ends: it      *)
(* succeeds, it fails for a reason of its own, or it ends because the Go   *)
(* context it was given is done.                                           *)
(***************************************************************************)
EXTENDS Naturals, FiniteSets

CONSTANT N  \* bound on the number of contexts in a manifest

ASSUME NAssumption == N \in Nat

Names == 1..N

VARIABLES
  mode,             \* ExecutionMode
  parallel,         \* the planner's parallel flag
  n,                \* len(contextNames)
  main,             \* where the calling goroutine is
  next,             \* next name of the (launching or sequential) loop
  goroutine,        \* goroutine[c]: where the goroutine (or the call) of context c is
  outcome,          \* outcome[c]: how fn ended for c
  errs,             \* the contexts whose error was appended to errs
  cancelled,        \* the flag guarded by mu
  firstFailure,     \* the context that set it; 0 stands for ""
  cancelFired,      \* cancel() of the fail-fast run context was called
  parentDone,       \* the caller's context is done (Ctrl-C, deadline)
  ret               \* what the call returned

call == <<mode, parallel, n>>
orchestrateVars == <<call, main, next, goroutine, outcome, errs, cancelled, firstFailure,
                     cancelFired, parentDone, ret>>

Modes == {"FailFast", "RunToCompletion"}

Used == {c \in Names : c <= n}

\* The returned error: nil, the caller's ctx.Err(), one child's error as it is,
\* or the aggregate, which tells the failed contexts from the aborted ones.
Returned(kind, failed, aborted) ==
  [kind |-> kind, failed |-> failed, aborted |-> aborted]

NoResult == Returned("none", {}, {})

OrchestrateInit ==
  /\ mode \in Modes
  /\ parallel \in BOOLEAN
  /\ n \in 0..N
  /\ main = "start"
  /\ next = 1
  /\ goroutine = [c \in Names |-> "idle"]
  /\ outcome = [c \in Names |-> "none"]
  /\ errs = {}
  /\ cancelled = FALSE
  /\ firstFailure = 0
  /\ cancelFired = FALSE
  /\ parentDone = FALSE
  /\ ret = NoResult

(***************************************************************************)
(* ExecuteAcrossContextsMode                                               *)
(***************************************************************************)
ExecuteAcrossContextsMode ==
  /\ main = "start"
  /\ \/ /\ n = 0
        /\ main' = "returned"
        /\ ret' = Returned("nil", {}, {})
     \/ /\ n # 0
        /\ main' = IF ~parallel \/ n = 1 THEN "sequential" ELSE "launching"
        /\ UNCHANGED ret
  /\ UNCHANGED <<call, next, goroutine, outcome, errs, cancelled, firstFailure,
                 cancelFired, parentDone>>

(***************************************************************************)
(* fn: the context it receives is done when the caller's is, or, for the   *)
(* derived run context of FailFast, when cancel() was called.              *)
(***************************************************************************)
CtxDoneDetachedFromParent == cancelFired

CtxDone == parentDone \/ cancelFired

\* The ways fn can end for c.
FnEnds(c, how) ==
  /\ goroutine[c] = "running"
  /\ outcome' = [outcome EXCEPT ![c] = how]
  /\ goroutine' = [goroutine EXCEPT ![c] = IF how = "ok" THEN "done" ELSE "failed"]
  /\ UNCHANGED <<call, main, next, errs, cancelled, firstFailure,
                 cancelFired, parentDone, ret>>

FnSucceeds(c) == FnEnds(c, "ok")

FnFails(c) == FnEnds(c, "genuine")

FnKilled(c) == CtxDone /\ FnEnds(c, "killed")

(***************************************************************************)
(* executeSequential                                                       *)
(***************************************************************************)
SeqCall ==
  /\ main = "sequential"
  /\ next \in Used
  /\ goroutine[next] = "idle"
  /\ \/ /\ parentDone
        /\ main' = "returned"
        /\ ret' = Returned("ctxErr", {}, {})
        /\ UNCHANGED goroutine
     \/ /\ ~parentDone
        /\ goroutine' = [goroutine EXCEPT ![next] = "running"]
        /\ UNCHANGED <<main, ret>>
  /\ UNCHANGED <<call, next, outcome, errs, cancelled, firstFailure,
                 cancelFired, parentDone>>

SeqReturn ==
  /\ main = "sequential"
  /\ \/ /\ next \in Used
        /\ goroutine[next] = "failed"
        /\ main' = "returned"
        /\ ret' = Returned("single", {next}, {})
        /\ UNCHANGED next
     \/ /\ next \in Used
        /\ goroutine[next] = "done"
        /\ next' = next + 1
        /\ UNCHANGED <<main, ret>>
     \/ /\ next = n + 1
        /\ main' = "returned"
        /\ ret' = Returned("nil", {}, {})
        /\ UNCHANGED next
  /\ UNCHANGED <<call, goroutine, outcome, errs, cancelled, firstFailure,
                 cancelFired, parentDone>>

(***************************************************************************)
(* executeParallel                                                         *)
(***************************************************************************)
\* One round of the loop that starts the goroutines.
Launch ==
  /\ main = "launching"
  /\ next \in Used
  /\ goroutine' = [goroutine EXCEPT ![next] = "running"]
  /\ next' = next + 1
  /\ main' = IF next = n THEN "waiting" ELSE "launching"
  /\ UNCHANGED <<call, outcome, errs, cancelled, firstFailure, cancelFired,
                 parentDone, ret>>

\* errs = append(errs, ...) for the goroutine of c.
ErrsWithFirstOnly(c) == IF cancelled THEN errs ELSE errs \cup {c}

ErrsWith(c) == errs \cup {c}

\* The critical section of mu: append the error, remember the first one.
RecordError(c) ==
  /\ main \in {"launching", "waiting"}
  /\ goroutine[c] = "failed"
  /\ goroutine' = [goroutine EXCEPT ![c] = "recorded"]
  /\ errs' = ErrsWith(c)
  /\ IF mode = "FailFast" /\ ~cancelled
     THEN cancelled' = TRUE /\ firstFailure' = c
     ELSE UNCHANGED <<cancelled, firstFailure>>
  /\ UNCHANGED <<call, main, next, outcome, cancelFired, parentDone, ret>>

CancelsInEveryMode == TRUE

CancelsSiblings == mode = "FailFast"

\* After the unlock: cancel() the siblings, then wg.Done().
Signal(c) ==
  /\ goroutine[c] = "recorded"
  /\ goroutine' = [goroutine EXCEPT ![c] = "done"]
  /\ cancelFired' = (cancelFired \/ CancelsSiblings)
  /\ UNCHANGED <<call, main, next, outcome, errs, cancelled, firstFailure,
                 parentDone, ret>>

NoErrors == errs = {}

\* wg.Wait() returns; no error at all is a nil result.
WaitDone ==
  /\ main = "waiting"
  /\ \A c \in Used : goroutine[c] = "done"
  /\ IF NoErrors
     THEN main' = "returned" /\ ret' = Returned("nil", {}, {})
     ELSE main' = "classifying" /\ UNCHANGED ret
  /\ UNCHANGED <<call, next, goroutine, outcome, errs, cancelled, firstFailure,
                 cancelFired, parentDone>>

\* classifyAborted and its gate: all errors but the first one are rewritten, and
\* only when the cancellation was the orchestrator's own.
AbortedEvenOnCtrlC ==
  IF mode = "FailFast" /\ CtxDone THEN errs \ {firstFailure} ELSE {}

Aborted ==
  IF mode = "FailFast" /\ ~parentDone /\ CtxDone THEN errs \ {firstFailure} ELSE {}

Classify ==
  /\ main = "classifying"
  /\ main' = "returned"
  /\ ret' = Returned(IF Cardinality(errs) = 1 THEN "single" ELSE "aggregate",
                     errs \ Aborted, Aborted)
  /\ UNCHANGED <<call, next, goroutine, outcome, errs, cancelled, firstFailure,
                 cancelFired, parentDone>>

\* The user presses Ctrl-C, or an upstream deadline passes.
ParentCancel ==
  /\ ~parentDone
  /\ main # "returned"
  /\ parentDone' = TRUE
  /\ UNCHANGED <<call, main, next, goroutine, outcome, errs, cancelled,
                 firstFailure, cancelFired, ret>>

\* The call has returned: nothing more happens.
Orchestrated == main = "returned" /\ UNCHANGED orchestrateVars

MainStep ==
  \/ ExecuteAcrossContextsMode
  \/ SeqCall
  \/ SeqReturn
  \/ Launch
  \/ WaitDone
  \/ Classify

OrchestrateNext ==
  \/ MainStep
  \/ \E c \in Names : FnSucceeds(c) \/ FnFails(c) \/ FnKilled(c)
  \/ \E c \in Names : RecordError(c) \/ Signal(c)
  \/ ParentCancel
  \/ Orchestrated

OrchestrateSpec == OrchestrateInit /\ [][OrchestrateNext]_orchestrateVars

\* The Go scheduler runs every runnable goroutine, and exec.CommandContext kills
\* the command of a done context, so fn then returns.  Nothing else obliges
\* fn to return: a docker command on an unreachable host may hang for ever.
Fairness ==
  /\ WF_orchestrateVars(MainStep)
  /\ \A c \in Names : /\ WF_orchestrateVars(RecordError(c)) /\ WF_orchestrateVars(Signal(c))
                      /\ WF_orchestrateVars(FnKilled(c))

FairSpec == OrchestrateSpec /\ Fairness

-----------------------------------------------------------------------------
(***************************************************************************)
(* Properties                                                              *)
(***************************************************************************)
\* The variables keep their types; in particular only names of the manifest are
\* ever recorded as failed (each goroutine reports the name it was started with).
OrchestrateTypes ==
  /\ mode \in Modes
  /\ parallel \in BOOLEAN
  /\ n \in 0..N
  /\ main \in {"start", "sequential", "launching", "waiting", "classifying", "returned"}
  /\ next \in 1..(N + 1)
  /\ goroutine \in [Names -> {"idle", "running", "failed", "recorded", "done"}]
  /\ outcome \in [Names -> {"none", "ok", "genuine", "killed"}]
  /\ errs \subseteq Names
  /\ cancelled \in BOOLEAN
  /\ firstFailure \in 0..N
  /\ cancelFired \in BOOLEAN
  /\ parentDone \in BOOLEAN
  /\ ret \in [kind : {"none", "nil", "ctxErr", "single", "aggregate"},
                 failed : SUBSET Names, aborted : SUBSET Names]

\* A nil result means the operation succeeded on every context, in every mode:
\* no error is lost between a goroutine and the caller.
NilMeansAllSucceeded ==
  ret.kind = "nil" => \A c \in Used : outcome[c] = "ok"

\* The error a parallel run returns names exactly the contexts on which fn failed,
\* each once, as failed or as aborted.
ErrorNamesEveryFailure ==
  ret.kind \in {"single", "aggregate"} =>
    /\ ret.failed \cap ret.aborted = {}
    /\ ret.failed \cup ret.aborted
         = {c \in Used : outcome[c] \in {"genuine", "killed"}}

\* The caller learns exactly what happened: nil stands for success everywhere, and an
\* error for all failures (executeSequential, executeParallel, aggregate).
ReturnIsExact == NilMeansAllSucceeded /\ ErrorNamesEveryFailure

\* "aborted: another context failed" is only ever said when another context really
\* failed first, for a reason of its own, and that one is reported as the failure:
\* a Ctrl-C alone never produces it (the gate before classifyAborted).
AbortedHasAGenuineCause ==
  ret.aborted # {} =>
    /\ mode = "FailFast"
    /\ firstFailure \in ret.failed
    /\ outcome[firstFailure] = "genuine"

\* In RunToCompletion mode a failure on one context never ends the operation on
\* another: a call is only cut short when the caller's own context is done.
SiblingFailureNeverKills ==
  mode = "RunToCompletion" /\ ~parentDone => \A c \in Names : outcome[c] # "killed"

\* A failure in fail-fast mode, and a Ctrl-C in every mode, ends the whole operation, even
\* if the command on every other context would hang.
CancellationReturns ==
  parentDone \/ (mode = "FailFast" /\ errs # {}) ~> main = "returned"
=============================================================================
