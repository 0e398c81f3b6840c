------------------------------ MODULE Terminal ------------------------------
(***************************************************************************)
(* The frame of plan, apply and destroy around the planner: the spinner,   *)
(* the rolling log, the confirmation and the exit code                     *)
(* (src/internal/ui/spinner.go, rollinglog.go, confirm.go, ui.go,          *)
(* src/internal/cli/common/spinner.go, confirmation.go, context.go,        *)
(* src/internal/cli/plancmd, applycmd, destroycmd, root.go).               *)
(*                                                                         *)
(* A command goes through the phases validate, plan and apply (which for   *)
(* destroy is the removal).  A phase runs one or more operations under a   *)
(* spinner, and at a terminal most phases run inside RunWithRollingLog     *)
(* beside three goroutines: the Bubble Tea program, the monitor of Ctrl-C, *)
(* and, outside of it, the animation of the spinner.  Program.Send waits   *)
(* until the event loop takes the message or the program is over.          *)
(***************************************************************************)
EXTENDS Naturals, Sequences

CONSTANTS
  Runs,       \* commands with their flags and the terminal they run at
  MaxLog,     \* maxLogLines
  MaxLines,   \* bound on the log lines of a phase
  MaxKeys,    \* bound on the presses of Ctrl-C
  MaxFaults   \* bound on the failures of the Bubble Tea program

ASSUME TerminalAssumption ==
  MaxLog \in Nat /\ MaxLines \in Nat /\ MaxKeys \in Nat /\ MaxFaults \in Nat

Phases == {"validate", "plan", "apply"}

VARIABLES
  run,       \* command, in and out (terminals), verbose, skip (--skip-confirmation)
  pc, phase,
  ops,       \* operations left in this phase
  err,       \* the error at hand
  work,      \* how the operations of each phase ended
  printed,   \* the plan is on the screen
  answer,
  exit,
  tuiActive, \* DOCKFORM_TUI_ACTIVE, and activeProgram is set
  root,      \* the context of the command is cancelled
  ctx,       \* the context of each phase is cancelled
  mon,       \* the monitor goroutine of each phase
  ui,        \* the Bubble Tea program
  quit,      \* a quit message is on its way to the event loop
  shown,     \* the final report of the program of each phase
  label, lines, sent,
  runErr,
  anim,      \* the goroutine of the spinner
  stop,      \* stopCh is closed
  keys, faults

command == <<run, pc, phase, ops, err, work, printed, answer, exit>>
context == <<root, ctx, mon>>
screen == <<ui, quit, shown, label, lines, sent, runErr>>
spinner == <<anim, stop>>
bounds == <<keys, faults>>
vars == <<command, tuiActive, context, screen, spinner, bounds>>

Init ==
  /\ run \in Runs
  /\ pc = "begin" /\ phase = "validate" /\ ops = 0 /\ err = "nil"
  /\ work = [p \in Phases |-> "none"]
  /\ printed = FALSE /\ answer = "none" /\ exit = "none"
  /\ tuiActive = FALSE
  /\ root = FALSE /\ ctx = [p \in Phases |-> FALSE] /\ mon = [p \in Phases |-> "none"]
  /\ ui = "none" /\ quit = FALSE /\ shown = [p \in Phases |-> "none"]
  /\ label = FALSE /\ lines = <<>> /\ sent = 0 /\ runErr = FALSE
  /\ anim = "none" /\ stop = FALSE
  /\ keys = 0 /\ faults = 0

(***************************************************************************)
(* RunWithRollingOrDirect and RunWithRollingLog, up to the call of fn      *)
(***************************************************************************)
\* destroy looks for its resources outside of the rolling log.
Rolled ==
  /\ run.out /\ ~run.verbose
  /\ phase = "apply" \/ (phase = "plan" /\ run.command # "destroy")

\* apply runs a second operation, the pruning.
Operations == IF phase = "apply" /\ run.command = "apply" THEN 2 ELSE 1

Begin ==
  /\ pc = "begin"
  /\ pc' = "start" /\ ops' = Operations
  /\ ctx' = [ctx EXCEPT ![phase] = root]
  /\ IF Rolled
     THEN /\ tuiActive' = TRUE
          /\ mon' = [mon EXCEPT ![phase] = "starting"]
          /\ ui' = "starting" /\ quit' = FALSE /\ label' = FALSE /\ lines' = <<>> /\ sent' = 0
     ELSE UNCHANGED <<tuiActive, mon, ui, quit, label, lines, sent>>
  /\ UNCHANGED <<run, phase, err, work, printed, answer, exit, root, shown, runErr, spinner, bounds>>

(***************************************************************************)
(* SpinnerOperation: NewSpinner, Start, the operation, Stop                *)
(***************************************************************************)
enabled == run.out /\ ~tuiActive

\* The event loop runs, or the program is over and messages are dropped.
Takes == ui \in {"loop", "over"}

SendLabel(on) == Takes /\ label' = (IF ui = "loop" THEN on ELSE label)

Start ==
  /\ pc = "start" /\ pc' = "run"
  /\ \/ enabled /\ anim' = "ticking" /\ stop' = FALSE /\ UNCHANGED label
     \/ tuiActive /\ SendLabel(TRUE) /\ UNCHANGED spinner
     \/ ~enabled /\ ~tuiActive /\ UNCHANGED <<label, spinner>>
  /\ UNCHANGED <<run, phase, ops, err, work, printed, answer, exit, tuiActive, context,
                 ui, quit, shown, lines, sent, runErr, bounds>>

\* The last MaxLog lines are kept.
appendLog(l) ==
  LET all == Append(lines, l) IN
  IF Len(all) > MaxLog THEN SubSeq(all, Len(all) - MaxLog + 1, Len(all)) ELSE all

\* The planner logs a line and sets the label.
Emit ==
  /\ pc = "run" /\ tuiActive /\ sent < MaxLines
  /\ SendLabel(TRUE)
  /\ lines' = (IF ui = "loop" THEN appendLog(sent) ELSE lines)
  /\ sent' = sent + 1
  /\ UNCHANGED <<command, tuiActive, context, ui, quit, shown, runErr, spinner, bounds>>

\* The plan of destroy cancels the other contexts when one fails, and the error it returns
\* wraps theirs, which may be context.Canceled (executeParallel).
FailFast == run.command = "destroy" /\ phase = "plan"

\* An operation whose context is cancelled may still succeed, or fail in another way.
OperationEnds ==
  /\ pc = "run" /\ pc' = "stop"
  /\ err' \in {"nil", "error"} \cup (IF ctx[phase] \/ FailFast THEN {"canceled"} ELSE {})
  /\ UNCHANGED <<run, phase, ops, work, printed, answer, exit, tuiActive, context, screen, spinner, bounds>>

StopWithoutWaiting == TRUE

\* <-s.doneCh
StopWaits == anim = "over"

Stop ==
  /\ \/ pc = "stop" /\ enabled /\ stop' = TRUE /\ pc' = "stopping" /\ UNCHANGED label
     \/ pc = "stopping" /\ StopWaits /\ pc' = "ended" /\ UNCHANGED <<stop, label>>
     \/ pc = "stop" /\ tuiActive /\ SendLabel(FALSE) /\ pc' = "ended" /\ UNCHANGED stop
     \/ pc = "stop" /\ ~enabled /\ ~tuiActive /\ pc' = "ended" /\ UNCHANGED <<stop, label>>
  /\ UNCHANGED <<run, phase, ops, err, work, printed, answer, exit, tuiActive, context,
                 ui, quit, shown, lines, sent, runErr, anim, bounds>>

\* The goroutine of the spinner sees stopCh, clears the line and closes doneCh.
AnimationEnds ==
  /\ anim = "ticking" /\ stop /\ anim' = "over"
  /\ UNCHANGED <<command, tuiActive, context, screen, stop, bounds>>

OperationDone ==
  /\ pc = "ended"
  /\ IF err = "nil" /\ ops > 1
     THEN ops' = ops - 1 /\ pc' = "start" /\ UNCHANGED work
     ELSE /\ work' = [work EXCEPT ![phase] = IF err = "nil" THEN "ok" ELSE "failed"]
          /\ pc' = IF tuiActive THEN "check" ELSE "returned"
          /\ UNCHANGED ops
  /\ UNCHANGED <<run, phase, err, printed, answer, exit, tuiActive, context, screen, spinner, bounds>>

(***************************************************************************)
(* RunWithRollingLog after the call of fn                                  *)
(***************************************************************************)
CheckContext ==
  /\ pc = "check"
  /\ IF ctx[phase] THEN err' = "canceled" /\ pc' = "wait" ELSE pc' = "send" /\ UNCHANGED err
  /\ UNCHANGED <<run, phase, ops, work, printed, answer, exit, tuiActive, context, screen, spinner, bounds>>

\* Update turns the message into the final report and asks to quit.
Final(report) ==
  IF ui = "loop" THEN shown' = [shown EXCEPT ![phase] = report] /\ quit' = TRUE
  ELSE UNCHANGED <<shown, quit>>

SendDone ==
  /\ pc = "send" /\ Takes /\ pc' = "wait"
  /\ Final("report")
  /\ UNCHANGED <<run, phase, ops, err, work, printed, answer, exit, tuiActive, context,
                 ui, label, lines, sent, runErr, spinner, bounds>>

UIErrorFirst == IF runErr THEN "nil" ELSE err

\* The error of the program counts when fn has none.
JobErrorFirst == IF runErr /\ err = "nil" THEN "error" ELSE err

TUIStaysActive == UNCHANGED tuiActive

\* os.Unsetenv and setActiveProgram(nil)
TUIEnds == tuiActive' = FALSE

\* <-doneCh, and the deferred calls.
WaitDone ==
  /\ pc = "wait" /\ ui = "over" /\ pc' = "returned"
  /\ err' = JobErrorFirst
  /\ TUIEnds
  /\ ctx' = [ctx EXCEPT ![phase] = TRUE]
  /\ UNCHANGED <<run, phase, ops, work, printed, answer, exit, root, mon, screen, spinner, bounds>>

(***************************************************************************)
(* The monitor goroutine of a phase                                        *)
(***************************************************************************)
ToMonitor(p, s) == mon' = [mon EXCEPT ![p] = s]

MonitorStarts(p) ==
  /\ mon[p] = "starting" /\ ToMonitor(p, "select")
  /\ UNCHANGED <<command, tuiActive, root, ctx, screen, spinner, bounds>>

MonitorSeesCancel(p) ==
  /\ mon[p] = "select" /\ ctx[p] /\ ToMonitor(p, "sending")
  /\ UNCHANGED <<command, tuiActive, root, ctx, screen, spinner, bounds>>

MonitorCancels(p) ==
  /\ mon[p] = "cancelling" /\ ToMonitor(p, "sending")
  /\ ctx' = [ctx EXCEPT ![p] = TRUE]
  /\ UNCHANGED <<command, tuiActive, root, screen, spinner, bounds>>

MonitorSends(p) ==
  /\ mon[p] = "sending" /\ ToMonitor(p, "over")
  /\ IF p = phase THEN Takes /\ Final("interrupted") ELSE UNCHANGED <<shown, quit>>
  /\ UNCHANGED <<command, tuiActive, root, ctx, ui, label, lines, sent, runErr, spinner, bounds>>

Monitor(p) == MonitorStarts(p) \/ MonitorSeesCancel(p) \/ MonitorCancels(p) \/ MonitorSends(p)

(***************************************************************************)
(* The Bubble Tea program                                                  *)
(***************************************************************************)
UIStarts ==
  /\ ui = "starting" /\ ui' = "loop"
  /\ UNCHANGED <<command, tuiActive, context, quit, shown, label, lines, sent, runErr, spinner, bounds>>

UIQuits ==
  /\ ui = "loop" /\ quit /\ ui' = "over"
  /\ UNCHANGED <<command, tuiActive, context, quit, shown, label, lines, sent, runErr, spinner, bounds>>

UIFails ==
  /\ ui \in {"starting", "loop"} /\ faults < MaxFaults
  /\ ui' = "over" /\ runErr' = TRUE /\ faults' = faults + 1
  /\ UNCHANGED <<command, tuiActive, context, quit, shown, label, lines, sent, spinner, keys>>

CtrlCBlocks ==
  IF mon[phase] = "select" THEN ToMonitor(phase, "cancelling") /\ UNCHANGED ui
  ELSE ui' = "blocked" /\ UNCHANGED mon

\* A send on cancelCh that does not wait: it is lost unless the monitor is at its select.
KeyCtrlC ==
  IF mon[phase] = "select" THEN ToMonitor(phase, "cancelling") /\ UNCHANGED ui
  ELSE UNCHANGED <<mon, ui>>

CtrlC ==
  /\ ui = "loop" /\ keys < MaxKeys
  /\ keys' = keys + 1
  /\ KeyCtrlC
  /\ UNCHANGED <<command, tuiActive, root, ctx, quit, shown, label, lines, sent, runErr, spinner, faults>>

\* SIGINT or SIGTERM: main cancels the context of the command, once, and a program quits.
Signal ==
  /\ ~root /\ pc # "done"
  /\ root' = TRUE
  /\ ctx' = [p \in Phases |-> ctx[p] \/ p = phase]
  /\ quit' = (quit \/ ui = "loop")
  /\ UNCHANGED <<command, tuiActive, mon, ui, shown, label, lines, sent, runErr, spinner, bounds>>

(***************************************************************************)
(* The commands                                                            *)
(***************************************************************************)
Finish(e) == pc' = "exit" /\ err' = e

\* StdPrinter.Plain prints nothing while the program owns the terminal.
Plain == printed' = (printed \/ ~tuiActive)

NextPhase(p) == phase' = p /\ pc' = "begin" /\ UNCHANGED err

Returned ==
  /\ pc = "returned"
  /\ \/ err # "nil" /\ Finish(err) /\ UNCHANGED <<phase, printed>>
     \/ err = "nil" /\ phase = "validate" /\ NextPhase("plan") /\ UNCHANGED printed
     \/ err = "nil" /\ phase = "plan" /\ run.command # "plan" /\ Plain /\ pc' = "confirm"
        /\ UNCHANGED <<phase, err>>
     \* The plan command, and a plan without changes.
     \/ err = "nil" /\ phase = "plan" /\ Plain /\ Finish("nil") /\ UNCHANGED phase
     \/ err = "nil" /\ phase = "apply" /\ Finish("nil") /\ UNCHANGED <<phase, printed>>
  /\ UNCHANGED <<run, ops, work, answer, exit, tuiActive, context, screen, spinner, bounds>>

\* A line of input, or at a terminal the prompt, which Ctrl-C and Esc end, and a signal that
\* comes while it is shown.  Neither looks at the context of the command.
Answers == {"yes", "other"} \cup (IF run.in /\ run.out THEN {"quit", "error"} ELSE {})

GetConfirmation ==
  /\ pc = "confirm"
  /\ \/ run.skip /\ NextPhase("apply") /\ UNCHANGED answer
     \/ ~run.skip /\ answer' \in Answers
        /\ \/ answer' = "yes" /\ NextPhase("apply")
           \/ answer' \in {"other", "quit"} /\ Finish("nil") /\ UNCHANGED phase
           \/ answer' = "error" /\ Finish("error") /\ UNCHANGED phase
  /\ UNCHANGED <<run, ops, work, printed, exit, tuiActive, context, screen, spinner, bounds>>

ExitCode ==
  CASE err = "canceled" -> "130"
    [] err = "error" -> "failure"
    [] OTHER -> IF root THEN "130" ELSE "0"

Execute ==
  /\ pc = "exit" /\ pc' = "done"
  /\ exit' = ExitCode
  /\ UNCHANGED <<run, phase, ops, err, work, printed, answer, tuiActive, context, screen, spinner, bounds>>

Main ==
  \/ Begin \/ Start \/ OperationEnds \/ Stop \/ OperationDone
  \/ CheckContext \/ SendDone \/ WaitDone \/ Returned \/ GetConfirmation \/ Execute

Terminated == pc = "done" /\ UNCHANGED vars

Next ==
  \/ Main \/ Emit \/ AnimationEnds \/ UIStarts \/ UIQuits
  \/ \E p \in Phases : Monitor(p)
  \/ CtrlC \/ Signal \/ UIFails
  \/ Terminated

\* The goroutines run, operations end and the question is answered.
Fairness ==
  /\ WF_vars(Main) /\ WF_vars(AnimationEnds) /\ WF_vars(UIStarts) /\ WF_vars(UIQuits)
  /\ \A p \in Phases : WF_vars(Monitor(p))

Spec == Init /\ [][Next]_vars /\ Fairness

(***************************************************************************)
(* Properties                                                              *)
(***************************************************************************)
\* The variables keep their types, and the rolling log its length.
TypeOK ==
  /\ run \in Runs
  /\ pc \in {"begin", "start", "run", "stop", "stopping", "ended", "check", "send", "wait",
             "returned", "confirm", "exit", "done"}
  /\ phase \in Phases /\ ops \in 0..2 /\ err \in {"nil", "error", "canceled"}
  /\ work \in [Phases -> {"none", "ok", "failed"}]
  /\ printed \in BOOLEAN /\ answer \in {"none", "yes", "other", "quit", "error"}
  /\ exit \in {"none", "0", "130", "failure"}
  /\ tuiActive \in BOOLEAN /\ root \in BOOLEAN /\ ctx \in [Phases -> BOOLEAN]
  /\ mon \in [Phases -> {"none", "starting", "select", "cancelling", "sending", "over"}]
  /\ ui \in {"none", "starting", "loop", "over"} /\ quit \in BOOLEAN
  /\ shown \in [Phases -> {"none", "report", "interrupted"}]
  /\ label \in BOOLEAN /\ lines \in Seq(Nat) /\ Len(lines) <= MaxLog /\ sent \in 0..MaxLines
  /\ runErr \in BOOLEAN
  /\ anim \in {"none", "ticking", "over"} /\ stop \in BOOLEAN
  /\ keys \in 0..MaxKeys /\ faults \in 0..MaxFaults

\* The animation of a spinner never writes while a Bubble Tea program, the rolling log or
\* the prompt, owns the terminal (NewSpinner, Spinner.Stop, RunWithRollingLog).
OneWriter == anim = "ticking" => ui \in {"none", "over"} /\ pc # "confirm"

\* Nothing is applied before a complete plan has been printed and, unless
\* --skip-confirmation is given, confirmed (applycmd, destroycmd, StdPrinter.Plain).
AppliedAsReviewed ==
  phase = "apply" => work["plan"] = "ok" /\ printed /\ (run.skip \/ answer = "yes")

\* The exit code tells how the work ended: success only after every phase that was begun
\* succeeded; 130 only after an interrupt, or in destroy after a failure of the plan, where a
\* context that was cancelled because of another one looks the same; and any other code only
\* after a failure of an operation, of the prompt or of the display (RunWithRollingLog,
\* executeParallel, Execute).
ExitTellsTheWork ==
  pc = "done" =>
    /\ exit = "0" => (\A p \in Phases : work[p] # "failed") /\ (phase = "apply" => work["apply"] = "ok")
    /\ exit = "130" => root \/ keys > 0 \/ (run.command = "destroy" /\ work["plan"] = "failed")
    /\ exit = "failure" => runErr \/ answer = "error" \/ \E p \in Phases : work[p] = "failed"

\* Whatever the user presses and whichever goroutine is slow, the command returns and the
\* goroutines it started end (RunWithRollingLog, model.Update, Spinner.Stop).
CommandReturns ==
  <>(pc = "done" /\ anim # "ticking" /\ \A p \in Phases : mon[p] \in {"none", "over"})

\* "Check if the error is a context cancellation (user interrupted)" (root.go:46).  It does not
\* hold: when one context fails in the plan of destroy, a context that is cancelled because of it
\* makes the command end with 130 and no message.
InterruptedByUser == exit = "130" => root \/ keys > 0

\* "Create a cancellable context so we can stop the work when Ctrl+C is pressed"
\* (rollinglog.go:59).  It does not hold: Ctrl-C after the check of the context makes the
\* program of the plan say "Interrupted by user", and with --skip-confirmation apply goes on.
InterruptedMeansStopped == shown["plan"] = "interrupted" => phase # "apply"
=============================================================================
