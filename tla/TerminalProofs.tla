--------------------------- MODULE TerminalProofs ---------------------------
(***************************************************************************)
(* The command at the terminal, and at the end the dashboard.              *)
(*                                                                         *)
(* For any flags and terminal, any number of key presses, log lines and    *)
(* failures of the display: one writer at the terminal at a time, nothing  *)
(* is applied that was not reviewed, and the exit code tells the work.     *)
(*                                                                         *)
(* None of the three is inductive.  Who may write follows from how the     *)
(* flag of the rolling log, its program and the spinner change together    *)
(* (ScreenInv); what was reviewed from the results of the operations that  *)
(* each place of the command implies (WorkInv); and the exit code from     *)
(* where an error can come from (ErrorInv).                                *)
(***************************************************************************)
EXTENDS Terminal, Dashboard, TLAPS

\* A leaf goes to Zenon unless it names another prover.
USE ZenonT(60)

Working == {"start", "run", "stop", "stopping", "ended"}
Closing == {"check", "send", "wait"}

\* The program runs only inside of RunWithRollingLog, the animation only outside of it and
\* only around an operation.
ScreenInv ==
  /\ ui \in {"starting", "loop"} => tuiActive
  /\ tuiActive => pc \in Working \cup Closing
  /\ anim = "ticking" => ~tuiActive /\ run.out /\ pc \in {"run", "stop", "stopping"}

\* What has been done when the command is where it is.
WorkInv ==
  /\ pc \in Working \/ err = "nil" => \A q \in Phases : work[q] # "failed"
  /\ pc \in Closing \cup {"returned"} /\ err = "nil" => work[phase] = "ok"
  /\ pc \in {"begin", "start", "run", "confirm"} => err = "nil"
  /\ pc = "confirm" => phase = "plan" /\ work["plan"] = "ok" /\ printed
  /\ phase = "apply" => work["plan"] = "ok" /\ printed /\ (run.skip \/ answer = "yes")
  /\ phase = "apply" /\ pc \in {"exit", "done"} /\ err = "nil" => work["apply"] = "ok"

\* Someone interrupted the command.
Interrupted == root \/ keys > 0

\* The error of a plan of destroy that failed, before and after it is recorded.
FailedFast ==
  /\ run.command = "destroy"
  /\ work["plan"] = "failed" \/ (phase = "plan" /\ pc \in {"stop", "stopping", "ended"})

\* Where an error comes from.
ErrorInv ==
  /\ \A p \in Phases : mon[p] = "cancelling" => keys > 0
  /\ pc \in Working \cup Closing /\ ctx[phase] => Interrupted
  /\ err = "canceled" => Interrupted \/ FailedFast
  /\ pc \in Closing \cup {"returned", "exit", "done"} /\ err = "error" =>
       runErr \/ answer = "error" \/ \E p \in Phases : work[p] = "failed"
  /\ pc = "done" =>
       /\ exit = "0" => err = "nil"
       /\ exit = "130" => Interrupted \/ FailedFast
       /\ exit = "failure" => err = "error"

\* The inductive invariant.
IInv == TypeOK /\ ScreenInv /\ WorkInv /\ ErrorInv

\* The parts of the type invariant: places and results, flags, contexts and the log.
PlaceTypes ==
  /\ run \in Runs
  /\ pc \in {"begin", "start", "run", "stop", "stopping", "ended", "check", "send", "wait",
             "returned", "confirm", "exit", "done"}
  /\ phase \in Phases /\ ops \in 0..2 /\ err \in {"nil", "error", "canceled"}
  /\ work \in [Phases -> {"none", "ok", "failed"}]
  /\ answer \in {"none", "yes", "other", "quit", "error"}
  /\ exit \in {"none", "0", "130", "failure"}
  /\ mon \in [Phases -> {"none", "starting", "select", "cancelling", "sending", "over"}]
  /\ ui \in {"none", "starting", "loop", "over"}
  /\ shown \in [Phases -> {"none", "report", "interrupted"}]
  /\ sent \in 0..MaxLines /\ anim \in {"none", "ticking", "over"}
  /\ keys \in 0..MaxKeys /\ faults \in 0..MaxFaults

FlagTypes ==
  /\ printed \in BOOLEAN /\ tuiActive \in BOOLEAN /\ root \in BOOLEAN /\ quit \in BOOLEAN
  /\ label \in BOOLEAN /\ runErr \in BOOLEAN /\ stop \in BOOLEAN

ContextTypes == ctx \in [Phases -> BOOLEAN]

LogTypes == lines \in Seq(Nat) /\ Len(lines) <= MaxLog

\* Places and results keep their types.
LEMMA PlaceTypesKept == PlaceTypes /\ [Next]_vars => PlaceTypes'
<1> SUFFICES ASSUME PlaceTypes, [Next]_vars PROVE PlaceTypes'
  OBVIOUS
<1> USE TerminalAssumption DEF PlaceTypes, Phases, command, context, screen, spinner, bounds
<1>1. CASE Begin
  BY SMTT(30), <1>1 DEF Begin, Operations
<1>2. CASE Start
  <2>1. anim' \in {anim, "ticking"}
    BY <1>2 DEF Start
  <2>2. pc' = "run" /\ UNCHANGED <<run, phase, ops, err, work, answer, exit, mon, ui, shown, sent, keys, faults>>
    BY <1>2 DEF Start
  <2> QED BY SMTT(30), <2>1, <2>2
<1>3. CASE Emit
  BY SMTT(30), <1>3 DEF Emit, SendLabel
<1>4. CASE OperationEnds
  BY SMTT(30), <1>4 DEF OperationEnds
<1>5. CASE Stop
  <2>1. pc' \in {"stopping", "ended"}
    BY <1>5 DEF Stop
  <2>2. UNCHANGED <<run, phase, ops, err, work, answer, exit, mon, ui, shown, sent, keys, faults>> /\ UNCHANGED anim
    BY <1>5 DEF Stop
  <2> QED BY SMTT(30), <2>1, <2>2
<1>6. CASE OperationDone
  BY SMTT(30), <1>6 DEF OperationDone
<1>7. CASE CheckContext
  BY <1>7 DEF CheckContext
<1>8. CASE SendDone
  BY SMTT(30), <1>8 DEF SendDone, Final
<1>9. CASE WaitDone
  BY <1>9 DEF WaitDone, JobErrorFirst, TUIEnds
<1>10. CASE Returned
  BY SMTT(30), <1>10 DEF Returned, Finish, Plain, NextPhase
<1>11. CASE GetConfirmation
  BY <1>11 DEF GetConfirmation, Finish, NextPhase, Answers
<1>12. CASE Execute
  BY <1>12 DEF Execute, ExitCode
<1>13. CASE AnimationEnds
  BY SMTT(30), <1>13 DEF AnimationEnds
<1>14. CASE UIStarts
  BY SMTT(30), <1>14 DEF UIStarts
<1>15. CASE UIQuits
  BY SMTT(30), <1>15 DEF UIQuits
<1>16. CASE UIFails
  BY SMTT(30), <1>16 DEF UIFails
<1>17. CASE CtrlC
  BY SMTT(30), <1>17 DEF CtrlC, KeyCtrlC, ToMonitor
<1>18. CASE Signal
  BY SMTT(30), <1>18 DEF Signal
<1>19. ASSUME NEW p \in Phases, Monitor(p) PROVE PlaceTypes'
  BY SMTT(30), <1>19 DEF Monitor, MonitorStarts, MonitorSeesCancel, MonitorCancels, MonitorSends,
     ToMonitor, Final
<1>20. CASE UNCHANGED vars
  BY SMTT(30), <1>20 DEF vars
<1> QED BY <1>1, <1>2, <1>3, <1>4, <1>5, <1>6, <1>7, <1>8, <1>9, <1>10, <1>11, <1>12, <1>13, <1>14,
           <1>15, <1>16, <1>17, <1>18, <1>19, <1>20 DEF Next, Main, Terminated

\* Flags keep their types.
LEMMA FlagTypesKept == FlagTypes /\ [Next]_vars => FlagTypes'
<1> SUFFICES ASSUME FlagTypes, [Next]_vars PROVE FlagTypes'
  OBVIOUS
<1> USE DEF FlagTypes, command, context, screen, spinner, bounds
<1>1. CASE Begin
  BY <1>1 DEF Begin, Operations
<1>2. CASE Start
  BY <1>2 DEF Start, SendLabel, enabled
<1>3. CASE Emit
  BY <1>3 DEF Emit, SendLabel
<1>4. CASE OperationEnds
  BY <1>4 DEF OperationEnds
<1>5. CASE Stop
  BY <1>5 DEF Stop, SendLabel, StopWaits, enabled
<1>6. CASE OperationDone
  BY <1>6 DEF OperationDone
<1>7. CASE CheckContext
  BY <1>7 DEF CheckContext
<1>8. CASE SendDone
  BY <1>8 DEF SendDone, Final
<1>9. CASE WaitDone
  BY <1>9 DEF WaitDone, JobErrorFirst, TUIEnds
<1>10. CASE Returned
  BY <1>10 DEF Returned, Finish, Plain, NextPhase
<1>11. CASE GetConfirmation
  BY <1>11 DEF GetConfirmation, Finish, NextPhase, Answers
<1>12. CASE Execute
  BY <1>12 DEF Execute, ExitCode
<1>13. CASE AnimationEnds
  BY <1>13 DEF AnimationEnds
<1>14. CASE UIStarts
  BY <1>14 DEF UIStarts
<1>15. CASE UIQuits
  BY <1>15 DEF UIQuits
<1>16. CASE UIFails
  BY <1>16 DEF UIFails
<1>17. CASE CtrlC
  BY <1>17 DEF CtrlC, KeyCtrlC, ToMonitor
<1>18. CASE Signal
  BY <1>18 DEF Signal
<1>19. ASSUME NEW p \in Phases, Monitor(p) PROVE FlagTypes'
  BY <1>19 DEF Monitor, MonitorStarts, MonitorSeesCancel, MonitorCancels, MonitorSends, ToMonitor, Final
<1>20. CASE UNCHANGED vars
  BY <1>20 DEF vars
<1> QED BY <1>1, <1>2, <1>3, <1>4, <1>5, <1>6, <1>7, <1>8, <1>9, <1>10, <1>11, <1>12, <1>13, <1>14,
           <1>15, <1>16, <1>17, <1>18, <1>19, <1>20 DEF Next, Main, Terminated

\* Contexts keep their types.
LEMMA ContextTypesKept == FlagTypes /\ ContextTypes /\ [Next]_vars => ContextTypes'
<1> SUFFICES ASSUME FlagTypes, ContextTypes, [Next]_vars PROVE ContextTypes'
  OBVIOUS
<1> USE DEF FlagTypes, ContextTypes, command, context, screen, spinner, bounds
<1>1. CASE Begin
  BY <1>1 DEF Begin, Operations
<1>2. CASE Start
  BY <1>2 DEF Start, SendLabel, enabled
<1>3. CASE Emit
  BY <1>3 DEF Emit, SendLabel
<1>4. CASE OperationEnds
  BY <1>4 DEF OperationEnds
<1>5. CASE Stop
  BY <1>5 DEF Stop, SendLabel, StopWaits, enabled
<1>6. CASE OperationDone
  BY <1>6 DEF OperationDone
<1>7. CASE CheckContext
  BY <1>7 DEF CheckContext
<1>8. CASE SendDone
  BY <1>8 DEF SendDone, Final
<1>9. CASE WaitDone
  BY <1>9 DEF WaitDone, JobErrorFirst, TUIEnds
<1>10. CASE Returned
  BY <1>10 DEF Returned, Finish, Plain, NextPhase
<1>11. CASE GetConfirmation
  BY <1>11 DEF GetConfirmation, Finish, NextPhase, Answers
<1>12. CASE Execute
  BY <1>12 DEF Execute, ExitCode
<1>13. CASE AnimationEnds
  BY <1>13 DEF AnimationEnds
<1>14. CASE UIStarts
  BY <1>14 DEF UIStarts
<1>15. CASE UIQuits
  BY <1>15 DEF UIQuits
<1>16. CASE UIFails
  BY <1>16 DEF UIFails
<1>17. CASE CtrlC
  BY <1>17 DEF CtrlC, KeyCtrlC, ToMonitor
<1>18. CASE Signal
  BY <1>18 DEF Signal
<1>19. ASSUME NEW p \in Phases, Monitor(p) PROVE ContextTypes'
  BY <1>19 DEF Monitor, MonitorStarts, MonitorSeesCancel, MonitorCancels, MonitorSends, ToMonitor, Final
<1>20. CASE UNCHANGED vars
  BY <1>20 DEF vars
<1> QED BY <1>1, <1>2, <1>3, <1>4, <1>5, <1>6, <1>7, <1>8, <1>9, <1>10, <1>11, <1>12, <1>13, <1>14,
           <1>15, <1>16, <1>17, <1>18, <1>19, <1>20 DEF Next, Main, Terminated

\* The log keeps its length.
LEMMA LogTypesKept == PlaceTypes /\ LogTypes /\ [Next]_vars => LogTypes'
<1> SUFFICES ASSUME PlaceTypes, LogTypes, [Next]_vars PROVE LogTypes'
  OBVIOUS
<1> USE DEF LogTypes, command, context, screen, spinner, bounds
<1>1. CASE Begin
  <2> DEFINE none == <<>>
  <2>1. lines' = none \/ lines' = lines
    BY <1>1 DEF Begin
  <2>2. none \in Seq(Nat) /\ Len(none) = 0
    BY SMTT(30)
  <2> HIDE DEF none
  <2>3. CASE lines' = lines
    BY <2>3
  <2>4. CASE lines' = none
    <3>1. lines' \in Seq(Nat) /\ Len(lines') = 0
      BY <2>2, <2>4, Zenon
    <3> QED BY SMTT(30), <3>1, TerminalAssumption
  <2> QED BY <2>1, <2>3, <2>4
<1>2. CASE Start
  BY <1>2 DEF Start, SendLabel, enabled
<1>3. CASE Emit
  <2>1. sent \in Nat
    BY SMTT(30), TerminalAssumption DEF PlaceTypes
  <2> DEFINE all == Append(lines, sent)
  <2>2. all \in Seq(Nat) /\ Len(all) = Len(lines) + 1
    BY SMTT(30), <2>1
  <2>3. Len(all) \in Nat /\ \A i \in 1..Len(all) : all[i] \in Nat
    BY SMTT(30), <2>2
  <2> HIDE DEF all
  <2> DEFINE kept == SubSeq(all, Len(all) - MaxLog + 1, Len(all))
  <2>4. Len(all) > MaxLog => kept \in Seq(Nat) /\ Len(kept) <= MaxLog
    BY SMTT(30), <2>2, <2>3, TerminalAssumption
  <2>5. appendLog(sent) = IF Len(all) > MaxLog THEN kept ELSE all
    BY DEF appendLog, all
  <2> HIDE DEF kept
  <2>6. lines' = appendLog(sent) \/ lines' = lines
    BY <1>3 DEF Emit
  <2> QED BY SMTT(30), <2>2, <2>3, <2>4, <2>5, <2>6, TerminalAssumption
<1>4. CASE OperationEnds
  BY <1>4 DEF OperationEnds
<1>5. CASE Stop
  BY <1>5 DEF Stop, SendLabel, StopWaits, enabled
<1>6. CASE OperationDone
  BY <1>6 DEF OperationDone
<1>7. CASE CheckContext
  BY <1>7 DEF CheckContext
<1>8. CASE SendDone
  BY <1>8 DEF SendDone, Final
<1>9. CASE WaitDone
  BY <1>9 DEF WaitDone, JobErrorFirst, TUIEnds
<1>10. CASE Returned
  BY <1>10 DEF Returned, Finish, Plain, NextPhase
<1>11. CASE GetConfirmation
  BY <1>11 DEF GetConfirmation, Finish, NextPhase, Answers
<1>12. CASE Execute
  BY <1>12 DEF Execute, ExitCode
<1>13. CASE AnimationEnds
  BY <1>13 DEF AnimationEnds
<1>14. CASE UIStarts
  BY <1>14 DEF UIStarts
<1>15. CASE UIQuits
  BY <1>15 DEF UIQuits
<1>16. CASE UIFails
  BY <1>16 DEF UIFails
<1>17. CASE CtrlC
  BY <1>17 DEF CtrlC, KeyCtrlC, ToMonitor
<1>18. CASE Signal
  BY <1>18 DEF Signal
<1>19. ASSUME NEW p \in Phases, Monitor(p) PROVE LogTypes'
  BY <1>19 DEF Monitor, MonitorStarts, MonitorSeesCancel, MonitorCancels, MonitorSends, ToMonitor, Final
<1>20. CASE UNCHANGED vars
  BY <1>20 DEF vars
<1> QED BY <1>1, <1>2, <1>3, <1>4, <1>5, <1>6, <1>7, <1>8, <1>9, <1>10, <1>11, <1>12, <1>13, <1>14,
           <1>15, <1>16, <1>17, <1>18, <1>19, <1>20 DEF Next, Main, Terminated

\* Every step keeps the terminal to one owner.
LEMMA ScreenInductive == TypeOK /\ ScreenInv /\ [Next]_vars => ScreenInv'
<1> SUFFICES ASSUME TypeOK, ScreenInv, [Next]_vars PROVE ScreenInv'
  OBVIOUS
<1> USE DEF TypeOK, ScreenInv, Working, Closing, enabled, command, context, screen, spinner, bounds
<1>1. CASE Begin
  BY <1>1 DEF Begin
<1>2. CASE Start
  BY <1>2 DEF Start, SendLabel
<1>3. CASE Emit
  BY <1>3 DEF Emit, SendLabel
<1>4. CASE OperationEnds
  BY <1>4 DEF OperationEnds
<1>5. CASE Stop
  BY <1>5 DEF Stop, SendLabel, StopWaits
<1>6. CASE OperationDone
  BY <1>6 DEF OperationDone
<1>7. CASE CheckContext
  BY <1>7 DEF CheckContext
<1>8. CASE SendDone
  BY <1>8 DEF SendDone, Final
<1>9. CASE WaitDone
  BY <1>9 DEF WaitDone, JobErrorFirst, TUIEnds
<1>10. CASE Returned
  BY <1>10 DEF Returned, Finish, Plain, NextPhase
<1>11. CASE GetConfirmation
  BY <1>11 DEF GetConfirmation, Finish, NextPhase, Answers
<1>12. CASE Execute
  BY <1>12 DEF Execute, ExitCode
<1>13. CASE AnimationEnds
  BY <1>13 DEF AnimationEnds
<1>14. CASE UIStarts
  BY <1>14 DEF UIStarts
<1>15. CASE UIQuits
  BY <1>15 DEF UIQuits
<1>16. CASE UIFails
  BY <1>16 DEF UIFails
<1>17. CASE CtrlC
  BY <1>17 DEF CtrlC, KeyCtrlC, ToMonitor
<1>18. CASE Signal
  BY <1>18 DEF Signal
<1>19. ASSUME NEW p \in Phases, Monitor(p) PROVE ScreenInv'
  BY SMTT(30), <1>19 DEF Monitor, MonitorStarts, MonitorSeesCancel, MonitorCancels, MonitorSends,
     ToMonitor, Final
<1>20. CASE UNCHANGED vars
  BY <1>20 DEF vars
<1> QED BY <1>1, <1>2, <1>3, <1>4, <1>5, <1>6, <1>7, <1>8, <1>9, <1>10, <1>11, <1>12, <1>13, <1>14,
           <1>15, <1>16, <1>17, <1>18, <1>19, <1>20 DEF Next, Main, Terminated

\* Every step keeps the account of what has been done.
LEMMA WorkInductive == TypeOK /\ ScreenInv /\ WorkInv /\ [Next]_vars => WorkInv'
<1> SUFFICES ASSUME TypeOK, ScreenInv, WorkInv, [Next]_vars PROVE WorkInv'
  OBVIOUS
<1> USE DEF TypeOK, ScreenInv, WorkInv, Working, Closing, Phases, command, context, screen, spinner, bounds
<1>1. CASE Begin
  BY <1>1 DEF Begin
<1>2. CASE Start
  BY <1>2 DEF Start, SendLabel
<1>3. CASE Emit
  BY <1>3 DEF Emit, SendLabel
<1>4. CASE OperationEnds
  BY <1>4 DEF OperationEnds
<1>5. CASE Stop
  BY <1>5 DEF Stop, SendLabel, StopWaits
<1>6. CASE OperationDone
  BY SMTT(30), <1>6 DEF OperationDone
<1>7. CASE CheckContext
  BY <1>7 DEF CheckContext
<1>8. CASE SendDone
  BY <1>8 DEF SendDone, Final
<1>9. CASE WaitDone
  BY <1>9 DEF WaitDone, JobErrorFirst, TUIEnds
<1>10. CASE Returned
  BY <1>10 DEF Returned, Finish, Plain, NextPhase
<1>11. CASE GetConfirmation
  BY <1>11 DEF GetConfirmation, Finish, NextPhase, Answers
<1>12. CASE Execute
  BY <1>12 DEF Execute, ExitCode
<1>13. CASE AnimationEnds
  BY <1>13 DEF AnimationEnds
<1>14. CASE UIStarts
  BY <1>14 DEF UIStarts
<1>15. CASE UIQuits
  BY <1>15 DEF UIQuits
<1>16. CASE UIFails
  BY <1>16 DEF UIFails
<1>17. CASE CtrlC
  BY <1>17 DEF CtrlC, KeyCtrlC, ToMonitor
<1>18. CASE Signal
  BY <1>18 DEF Signal
<1>19. ASSUME NEW p \in Phases, Monitor(p) PROVE WorkInv'
  BY SMTT(30), <1>19 DEF Monitor, MonitorStarts, MonitorSeesCancel, MonitorCancels, MonitorSends,
     ToMonitor, Final
<1>20. CASE UNCHANGED vars
  BY <1>20 DEF vars
<1> QED BY <1>1, <1>2, <1>3, <1>4, <1>5, <1>6, <1>7, <1>8, <1>9, <1>10, <1>11, <1>12, <1>13, <1>14,
           <1>15, <1>16, <1>17, <1>18, <1>19, <1>20 DEF Next, Main, Terminated

\* Every step keeps the account of errors.
LEMMA ErrorInductive == TypeOK /\ WorkInv /\ ErrorInv /\ [Next]_vars => ErrorInv'
<1> SUFFICES ASSUME TypeOK, WorkInv, ErrorInv, [Next]_vars PROVE ErrorInv'
  OBVIOUS
<1> USE DEF TypeOK, WorkInv, ErrorInv, Working, Closing, Interrupted, FailedFast, command, context, screen, spinner, bounds
<1>1. CASE Begin
  BY <1>1 DEF Begin
<1>2. CASE Start
  BY <1>2 DEF Start, SendLabel
<1>3. CASE Emit
  BY <1>3 DEF Emit, SendLabel
<1>4. CASE OperationEnds
  BY <1>4 DEF OperationEnds, FailFast
<1>5. CASE Stop
  BY <1>5 DEF Stop, SendLabel, StopWaits
<1>6. CASE OperationDone
  BY SMTT(30), <1>6 DEF OperationDone, Phases
<1>7. CASE CheckContext
  BY <1>7 DEF CheckContext
<1>8. CASE SendDone
  BY <1>8 DEF SendDone, Final
<1>9. CASE WaitDone
  BY <1>9 DEF WaitDone, JobErrorFirst, TUIEnds
<1>10. CASE Returned
  BY <1>10 DEF Returned, Finish, Plain, NextPhase
<1>11. CASE GetConfirmation
  BY <1>11 DEF GetConfirmation, Finish, NextPhase, Answers
<1>12. CASE Execute
  BY <1>12 DEF Execute, ExitCode
<1>13. CASE AnimationEnds
  BY <1>13 DEF AnimationEnds
<1>14. CASE UIStarts
  BY <1>14 DEF UIStarts
<1>15. CASE UIQuits
  BY <1>15 DEF UIQuits
<1>16. CASE UIFails
  BY <1>16 DEF UIFails
<1>17. CASE CtrlC
  BY SMTT(30), <1>17 DEF CtrlC, KeyCtrlC, ToMonitor
<1>18. CASE Signal
  BY <1>18 DEF Signal
<1>19. ASSUME NEW p \in Phases, Monitor(p) PROVE ErrorInv'
  BY SMTT(30), <1>19 DEF Monitor, MonitorStarts, MonitorSeesCancel, MonitorCancels, MonitorSends,
     ToMonitor, Final
<1>20. CASE UNCHANGED vars
  BY <1>20 DEF vars
<1> QED BY <1>1, <1>2, <1>3, <1>4, <1>5, <1>6, <1>7, <1>8, <1>9, <1>10, <1>11, <1>12, <1>13, <1>14,
           <1>15, <1>16, <1>17, <1>18, <1>19, <1>20 DEF Next, Main, Terminated

\* The type invariant is the conjunction of its parts.
LEMMA TypeParts == TypeOK <=> PlaceTypes /\ FlagTypes /\ ContextTypes /\ LogTypes
BY DEF TypeOK, PlaceTypes, FlagTypes, ContextTypes, LogTypes

\* The inductive invariant holds at the start.
LEMMA InitEstablishes == Init => IInv
<1> SUFFICES ASSUME Init PROVE IInv
  OBVIOUS
<1> DEFINE none == <<>>
<1>1. PlaceTypes
  BY SMTT(30), TerminalAssumption DEF Init, PlaceTypes, Phases
<1>2. FlagTypes
  BY DEF Init, FlagTypes
<1>3. ContextTypes
  BY DEF Init, ContextTypes
<1>4. LogTypes
  <2>1. lines = none /\ none \in Seq(Nat) /\ Len(none) = 0
    BY SMTT(30) DEF Init
  <2> HIDE DEF none
  <2> QED BY SMTT(30), <2>1, TerminalAssumption DEF LogTypes
<1>5. ScreenInv /\ WorkInv /\ ErrorInv
  BY DEF Init, ScreenInv, WorkInv, ErrorInv, Working, Closing, FailedFast
<1> QED BY <1>1, <1>2, <1>3, <1>4, <1>5, TypeParts DEF IInv

\* The inductive invariant holds in every reachable state.
THEOREM Invariance == Spec => []IInv
<1>1. TypeOK /\ [Next]_vars => TypeOK'
  BY TypeParts, PlaceTypesKept, FlagTypesKept, ContextTypesKept, LogTypesKept
     DEF PlaceTypes, FlagTypes, ContextTypes, LogTypes, TypeOK
<1>2. IInv /\ [Next]_vars => IInv'
  BY <1>1, ScreenInductive, WorkInductive, ErrorInductive DEF IInv
<1> QED BY InitEstablishes, <1>2, PTL DEF Spec

\* The variables keep their types; the rolling log never holds more than maxLogLines lines.
THEOREM TerminalTypeOK == Spec => []TypeOK
BY Invariance, PTL DEF IInv

\* The animation never writes while a Bubble Tea program or the prompt owns the terminal.
THEOREM TerminalHasOneWriter == Spec => []OneWriter
<1>1. IInv => OneWriter
  BY DEF IInv, ScreenInv, TypeOK, OneWriter
<1> QED BY <1>1, Invariance, PTL

\* Nothing is applied before a complete plan was printed and confirmed.
THEOREM ReviewedBeforeApplied == Spec => []AppliedAsReviewed
<1>1. IInv => AppliedAsReviewed
  BY DEF IInv, WorkInv, AppliedAsReviewed
<1> QED BY <1>1, Invariance, PTL

\* The exit code tells how the work ended.
THEOREM ExitIsTruthful == Spec => []ExitTellsTheWork
<1>1. IInv => ExitTellsTheWork
  BY DEF IInv, TypeOK, WorkInv, ErrorInv, Interrupted, FailedFast, ExitTellsTheWork
<1> QED BY <1>1, Invariance, PTL

(***************************************************************************)
(* The dashboard: whatever the order in which the delayed requests, the    *)
(* statuses and the keys are handled, the log of the last move is the one  *)
(* that stays, and a command of the palette goes to a container of the     *)
(* service under the cursor.                                               *)
(***************************************************************************)
\* The debounce: as long as the pending selection is not shown, a request for it is on its
\* way.
DebounceInv == pending # NoName => selected = pending \/ \E m \in starts : m[2] = pending

\* What a row of docker ps tells of an item: its container_name, or an owner with its label.
RowOf(i, c, o) ==
  IF NameOf[i] # NoName THEN c = NameOf[i] ELSE o # NoName /\ Label[o] = ServiceOf[i]

\* The list, the statuses on their way and the commands under way hold such rows; where there
\* has been none, the list has no name and a command has the name of the service.
NamesInv ==
  /\ idx \in Items /\ DOMAIN name = Items /\ DOMAIN seen = Items
  /\ \A i \in Items : \/ RowOf(i, name[i], seen[i])
                      \/ NameOf[i] = NoName /\ name[i] = NoName /\ seen[i] = NoName
  /\ \A i \in Items : i \in DOMAIN fetched => RowOf(i, fetched[i][1], fetched[i][2])
  /\ \A m \in commands : \/ RowOf(m.item, m.name, m.seen)
                         \/ NameOf[m.item] = NoName /\ m.name = ServiceOf[m.item] /\ m.seen = NoName

\* No step loses the request for the pending selection.
LEMMA DebounceInductive == DebounceInv /\ [DashboardNext]_dashboardVars => DebounceInv'
<1> SUFFICES ASSUME DebounceInv, [DashboardNext]_dashboardVars PROVE DebounceInv'
  OBVIOUS
<1>1. ASSUME NEW i \in Items, Move(i) PROVE DebounceInv'
  <2>1. pending' = name[i] /\ <<count + 1, name[i]>> \in starts'
    BY <1>1 DEF Move, Requests
  <2> QED BY <2>1 DEF DebounceInv
<1>2. CASE Select
  BY <1>2 DEF Select, Requests, list, DebounceInv
<1>3. ASSUME NEW m \in starts, StartLogs(m) PROVE DebounceInv'
  BY <1>3 DEF StartLogs, Wanted, DebounceInv
<1>4. CASE UNCHANGED <<pending, selected, starts>>
  BY <1>4 DEF DebounceInv
<1>5. CyclePane \/ TogglePalette \/ ExecuteCommand \/ Quit \/ withFlushedLogs \/ StatusTick
        \/ FetchAll \/ Statuses \/ Closed \/ UNCHANGED dashboardVars
        => UNCHANGED <<pending, selected, starts>>
  BY DEF CyclePane, TogglePalette, ExecuteCommand, Quit, withFlushedLogs, StatusTick, FetchAll,
         Statuses, Closed, dashboardVars, list, logs
<1>6. ASSUME NEW k, LogStreamStarted(k) \/ CommandEnds(k) \/ WriteLine(k) \/ World(k)
      PROVE UNCHANGED <<pending, selected, starts>>
  BY <1>6 DEF LogStreamStarted, CommandEnds, WriteLine, World, list, logs
<1> QED BY <1>1, <1>2, <1>3, <1>4, <1>5, <1>6 DEF DashboardNext, Keys, Messages, Outside

\* No step puts a container of another service into the list or into a command.
LEMMA NamesInductive == NamesInv /\ [DashboardNext]_dashboardVars => NamesInv'
<1> SUFFICES ASSUME NamesInv, [DashboardNext]_dashboardVars PROVE NamesInv'
  OBVIOUS
<1>1. ASSUME NEW i \in Items, Move(i) PROVE NamesInv'
  BY <1>1 DEF Move, ticks, NamesInv, RowOf
<1>2. CASE FetchAll
  <2>1. UNCHANGED <<idx, name, seen, commands>>
    BY <1>2 DEF FetchAll, list
  <2>2. ASSUME NEW i \in Items, i \in DOMAIN fetched' PROVE RowOf(i, fetched'[i][1], fetched'[i][2])
    <3>1. CASE fetched' = <<>>
      BY SMTT(30), <2>2, <3>1
    <3>2. CASE fetched' # <<>>
      <4>1. PICK row \in [{j \in Items : Candidates(j) # {}} -> Rows] :
              /\ \A j \in DOMAIN row : row[j] \in Candidates(j)
              /\ fetched' = [j \in DOMAIN row |-> <<row[j], up[row[j]]>>]
        BY <1>2, <3>2 DEF FetchAll
      <4>2. row[i] \in Candidates(i) /\ fetched'[i][1] = row[i] /\ fetched'[i][2] = up[row[i]]
        BY SMTT(30), <2>2, <4>1
      <4> QED BY <4>2 DEF Candidates, SameService, Rows, RowOf
    <3> QED BY <3>1, <3>2
  <2> QED BY <2>1, <2>2 DEF NamesInv, RowOf
<1>3. CASE Statuses
  <2>1. idx' = idx /\ commands' = commands
    BY <1>3 DEF Statuses
  <2>2. /\ name' = [i \in Items |-> IF i \in DOMAIN fetched THEN fetched[i][1] ELSE name[i]]
        /\ seen' = [i \in Items |-> IF i \in DOMAIN fetched THEN fetched[i][2] ELSE seen[i]]
    BY <1>3 DEF Statuses
  <2>3. DOMAIN fetched' = {}
    BY SMTT(30), <1>3 DEF Statuses
  <2> QED BY <2>1, <2>2, <2>3 DEF NamesInv, RowOf
<1>4. CASE ExecuteCommand
  <2>1. UNCHANGED <<idx, name, seen, fetched>>
    BY <1>4 DEF ExecuteCommand, list, ticks
  <2>2. ASSUME NEW m \in commands', m \notin commands
        PROVE m.item = idx /\ m.name = selectedContainerName /\ m.seen = seen[idx]
    <3>1. m = [name |-> selectedContainerName, item |-> idx, seen |-> seen[idx]]
      BY <1>4, <2>2 DEF ExecuteCommand
    <3> QED BY SMTT(30), <3>1
  <2>3. \/ RowOf(idx, selectedContainerName, seen[idx])
        \/ NameOf[idx] = NoName /\ selectedContainerName = ServiceOf[idx] /\ seen[idx] = NoName
    BY DEF NamesInv, RowOf, selectedContainerName
  <2> QED BY <2>1, <2>2, <2>3 DEF NamesInv, RowOf
<1>5. CASE Quit
  <2>1. DOMAIN fetched' = {} /\ commands' = {} /\ UNCHANGED <<idx, name, seen>>
    BY SMTT(30), <1>5 DEF Quit, list
  <2> QED BY <2>1 DEF NamesInv, RowOf
<1>6. ASSUME NEW m, CommandEnds(m) PROVE NamesInv'
  BY <1>6 DEF CommandEnds, list, ticks, NamesInv, RowOf
<1>7. CASE UNCHANGED <<idx, name, seen, fetched, commands>>
  BY <1>7 DEF NamesInv, RowOf
<1>8. Select \/ CyclePane \/ TogglePalette \/ withFlushedLogs \/ StatusTick \/ Closed
        \/ UNCHANGED dashboardVars => UNCHANGED <<idx, name, seen, fetched, commands>>
  BY DEF Select, CyclePane, TogglePalette, withFlushedLogs, StatusTick, Closed, dashboardVars,
         list, ticks
<1>9. ASSUME NEW k, StartLogs(k) \/ LogStreamStarted(k) \/ WriteLine(k) \/ World(k)
      PROVE UNCHANGED <<idx, name, seen, fetched, commands>>
  BY <1>9 DEF StartLogs, LogStreamStarted, WriteLine, World, list, ticks
<1> QED BY <1>1, <1>2, <1>3, <1>4, <1>5, <1>6, <1>7, <1>8, <1>9
        DEF DashboardNext, Keys, Messages, Outside

\* Once the requests are handled, the log shown is that of the last move.
THEOREM LastMoveWins == DashboardSpec => []LastMoveIsShown
<1>1. DashboardInit => DebounceInv
  BY DEF DashboardInit, DebounceInv
<1>2. DebounceInv => LastMoveIsShown
  BY DEF DebounceInv, LastMoveIsShown
<1> QED BY <1>1, <1>2, DebounceInductive, PTL DEF DashboardSpec

\* A container that a command of the palette removes has the container_name or the service
\* label of the item under the cursor, but for the names no status has come for and those that
\* changed hands since.
THEOREM CommandsHitTheirService == DashboardSpec => ActionsHitTheService
<1>1. DashboardInit => NamesInv
  <2> SUFFICES ASSUME DashboardInit PROVE NamesInv
    OBVIOUS
  <2>1. DOMAIN fetched = {} /\ commands = {}
    BY SMTT(30) DEF DashboardInit
  <2>2. idx \in Items /\ DOMAIN name = Items /\ name = NameOf /\ seen = [i \in Items |-> NoName]
    BY DashboardAssumption DEF DashboardInit
  <2> QED BY <2>1, <2>2 DEF NamesInv, RowOf
<1>2. NamesInv /\ [DashboardNext]_dashboardVars =>
        [\A m \in commands : m \notin commands' /\ ~quitting' /\ up' # up =>
           \/ m.name = NameOf[m.item]
           \/ /\ NameOf[m.item] = NoName
              /\ \/ Label[up[m.name]] = ServiceOf[m.item]
                 \/ m.seen = NoName /\ m.name = ServiceOf[m.item]
                 \/ m.seen # NoName /\ up[m.name] # m.seen]_dashboardVars
  BY DEF NamesInv, RowOf
<1> QED BY <1>1, <1>2, NamesInductive, PTL DEF DashboardSpec, ActionsHitTheService
=============================================================================
