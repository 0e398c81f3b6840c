---------------------------- MODULE RemoteCalls ----------------------------
(***************************************************************************)
(* What the docker client promises to the goroutines that call it, with no *)
(* word about client factories, semaphores, attempts or backoff            *)
(* (src/internal/dockercli/exec.go): a call waits, is under way, and       *)
(* returns; only so many of the calls that need a connection are under way *)
(* at a time; and a call is executed as often as its kind allows.          *)
(* DockerExec is shown to implement this specification.                    *)
(***************************************************************************)
EXTENDS Integers

CONSTANTS
  Calls,  \* docker commands for one context
  Limit   \* how many of those that need a connection may be under way

VARIABLES
  limited,      \* the calls that need a connection
  connections,  \* how many of them are under way
  once,         \* the calls that must not be executed twice
  state,        \* waiting, active or returned
  runs,         \* how often the daemon executed each call
  result        \* what each call returned

vars == <<limited, connections, once, state, runs, result>>

Init ==
  /\ limited \in SUBSET Calls
  /\ connections = 0
  /\ once \in SUBSET Calls
  /\ state = [c \in Calls |-> "waiting"]
  /\ runs = [c \in Calls |-> 0]
  /\ result = [c \in Calls |-> "none"]

\* The connections in use when c starts (+1) or stops (-1) using one.
Counted(c, change) == IF c \in limited THEN connections + change ELSE connections

Begin(c) ==
  /\ state[c] = "waiting"
  /\ c \in limited => connections < Limit
  /\ connections' = Counted(c, 1)
  /\ state' = [state EXCEPT ![c] = "active"]
  /\ UNCHANGED <<limited, once, runs, result>>

\* The caller's context is done before the call had its turn.
GiveUp(c) ==
  /\ state[c] = "waiting"
  /\ c \in limited
  /\ state' = [state EXCEPT ![c] = "returned"]
  /\ result' = [result EXCEPT ![c] = "cancelled"]
  /\ UNCHANGED <<limited, connections, once, runs>>

\* The daemon executes the call, and the caller cannot know: there is another attempt.
ExecuteUnnoticed(c) ==
  /\ state[c] = "active"
  /\ c \notin once
  /\ runs' = [runs EXCEPT ![c] = @ + 1]
  /\ UNCHANGED <<limited, connections, once, state, result>>

\* The call returns; executedNow says whether its last attempt reached the daemon.
End(c, how, executedNow) ==
  /\ state[c] = "active"
  /\ how = "nil" => executedNow
  /\ how = "cancelled" => ~executedNow
  /\ executedNow /\ c \in once => runs[c] = 0
  /\ runs' = IF executedNow THEN [runs EXCEPT ![c] = @ + 1] ELSE runs
  /\ connections' = Counted(c, -1)
  /\ state' = [state EXCEPT ![c] = "returned"]
  /\ result' = [result EXCEPT ![c] = how]
  /\ UNCHANGED <<limited, once>>

Next ==
  \E c \in Calls :
    \/ Begin(c) \/ GiveUp(c) \/ ExecuteUnnoticed(c)
    \/ \E how \in {"nil", "error", "cancelled"}, executedNow \in BOOLEAN : End(c, how, executedNow)

Spec == Init /\ [][Next]_vars
=============================================================================
