----------------------------- MODULE DockerExec -----------------------------
(***************************************************************************)
(* How docker commands of concurrent goroutines reach one Docker context:  *)
(* the client factory with its double-checked cache, the semaphore that    *)
(* limits the SSH connections of a client, the retries with backoff, the   *)
(* probes that bypass both, and cancellation                               *)
(* (src/internal/dockercli/exec.go, factory.go, dockercli.go,              *)
(* src/internal/cli/common/reachability.go).                               *)
(*                                                                         *)
(* A call is one docker command run by one goroutine.  A connection that   *)
(* breaks may have done so before or after the daemon executed the         *)
(* command: executed counts how often it really did.                       *)
(***************************************************************************)
EXTENDS Naturals, FiniteSets

CONSTANTS
  Calls,             \* docker commands for this context
  Workloads,         \* what they do: functions from Calls to Kinds
  MaxConcurrentSSH,  \* commands at a time over one client
  sshMaxRetries      \* retries after a broken connection

\* A command with arguments only, one that reads stdin, one that streams its output to
\* a writer, and a reachability probe.
Kinds == {"plain", "stdin", "stream", "probe"}

ASSUME ExecAssumption ==
  /\ Workloads \subseteq [Calls -> Kinds]
  /\ MaxConcurrentSSH \in Nat \ {0}
  /\ sshMaxRetries \in Nat

NoClient == 0

VARIABLES
  remote,    \* the context is reached over SSH: its clients have a semaphore
  kind,      \* what each call does
  hangs,     \* calls whose command never ends by itself
  clients,   \* the factory's cached client for the context
  created,   \* number of clients created
  client,    \* the client that each call got
  pc,        \* where each call is
  sem,       \* the calls that hold a slot of their client's semaphore
  attempt,   \* the current attempt of each call, from 0
  done,      \* calls whose context is done: cancelled, or a probe past its deadline
  executed,  \* history: how often the daemon executed the command of each call
  outcome    \* what each call returned

config == <<remote, kind, hangs>>
factory == <<clients, created, client>>
execVars == <<config, factory, pc, sem, attempt, done, executed, outcome>>

ExecInit ==
  /\ remote \in BOOLEAN
  /\ kind \in Workloads
  /\ hangs \in SUBSET Calls
  /\ clients = NoClient
  /\ created = 0
  /\ client = [c \in Calls |-> NoClient]
  /\ pc = [c \in Calls |-> "start"]
  /\ sem = {}
  /\ attempt = [c \in Calls |-> 0]
  /\ done = {}
  /\ executed = [c \in Calls |-> 0]
  /\ outcome = [c \in Calls |-> "none"]

Goto(c, where) == pc' = [pc EXCEPT ![c] = where]

(***************************************************************************)
(* GetClient                                                               *)
(***************************************************************************)
\* Under the read lock.
LookUp(c) ==
  /\ pc[c] = "start"
  /\ client' = [client EXCEPT ![c] = clients]
  /\ Goto(c, IF clients = NoClient THEN "create" ELSE "acquire")
  /\ UNCHANGED <<config, clients, created, sem, attempt, done, executed, outcome>>

CachedNotRechecked == FALSE

Cached == clients # NoClient

\* Under the write lock, with the second check.
Create(c) ==
  /\ pc[c] = "create"
  /\ IF Cached
     THEN UNCHANGED <<clients, created>>
     ELSE created' = created + 1 /\ clients' = created'
  /\ client' = [client EXCEPT ![c] = clients']
  /\ Goto(c, "acquire")
  /\ UNCHANGED <<config, sem, attempt, done, executed, outcome>>

(***************************************************************************)
(* RunDetailed                                                             *)
(***************************************************************************)
Limited(c) == remote /\ kind[c] # "probe"

Holders(k) == {c \in sem : client[c] = k}

Acquire(c) ==
  /\ pc[c] = "acquire"
  /\ Limited(c) => Cardinality(Holders(client[c])) < MaxConcurrentSSH
  /\ sem' = IF Limited(c) THEN sem \cup {c} ELSE sem
  /\ Goto(c, "run")
  /\ UNCHANGED <<config, factory, attempt, done, executed, outcome>>

\* The call gives up waiting for a slot.
AcquireCancelled(c) ==
  /\ pc[c] = "acquire"
  /\ Limited(c)
  /\ c \in done
  /\ outcome' = [outcome EXCEPT ![c] = "cancelled"]
  /\ Goto(c, "returned")
  /\ UNCHANGED <<config, factory, sem, attempt, done, executed>>

CanRetry(c) == remote /\ kind[c] = "plain"

MaxAttempts(c) == IF CanRetry(c) THEN sshMaxRetries + 1 ELSE 1

LeakedOnError(c, how) == IF how = "nil" THEN sem \ {c} ELSE sem

\* The deferred release of the slot, on every way out.
Released(c, how) == sem \ {c}

Return(c, how) ==
  /\ outcome' = [outcome EXCEPT ![c] = how]
  /\ sem' = Released(c, how)
  /\ Goto(c, "returned")
  /\ UNCHANGED <<config, factory, attempt, done>>

Execute(c, n) == executed' = [executed EXCEPT ![c] = @ + n]

CommandSucceeds(c) == Execute(c, 1) /\ Return(c, "nil")

CommandFails(c) == \E n \in {0, 1} : Execute(c, n) /\ Return(c, "error")

\* isSSHConnectionError: the loop goes on while there are attempts left.
ConnectionBreaks(c) ==
  \E n \in {0, 1} :
    /\ Execute(c, n)
    /\ IF attempt[c] + 1 < MaxAttempts(c)
       THEN /\ Goto(c, "backoff")
            /\ UNCHANGED <<config, factory, sem, attempt, done, outcome>>
       ELSE Return(c, "error")

\* exec.CommandContext kills the process when the context is done.
CommandKilled(c) == c \in done /\ CommandFails(c)

RunCommand(c) ==
  /\ pc[c] = "run"
  /\ \/ c \notin hangs /\ (CommandSucceeds(c) \/ CommandFails(c) \/ ConnectionBreaks(c))
     \/ CommandKilled(c)

\* The delay between two attempts; the slot is kept.
Backoff(c) ==
  /\ pc[c] = "backoff"
  /\ \/ /\ attempt' = [attempt EXCEPT ![c] = @ + 1]
        /\ Goto(c, "run")
        /\ UNCHANGED <<config, factory, sem, done, executed, outcome>>
     \/ /\ c \in done
        /\ UNCHANGED executed
        /\ Return(c, "cancelled")

Call(c) ==
  \/ LookUp(c) \/ Create(c) \/ Acquire(c) \/ AcquireCancelled(c) \/ RunCommand(c) \/ Backoff(c)

\* probeContext gives every probe a deadline.
ProbeExpires(c) ==
  /\ kind[c] = "probe"
  /\ c \notin done
  /\ done' = done \cup {c}
  /\ UNCHANGED <<config, factory, pc, sem, attempt, executed, outcome>>

\* Ctrl-C cancels the context of every call.
Cancel ==
  /\ done # Calls
  /\ done' = Calls
  /\ UNCHANGED <<config, factory, pc, sem, attempt, executed, outcome>>

Finished == (\A c \in Calls : pc[c] = "returned") /\ UNCHANGED execVars

ExecNext == (\E c \in Calls : Call(c) \/ ProbeExpires(c)) \/ Cancel \/ Finished

ExecSpec == ExecInit /\ [][ExecNext]_execVars

\* Goroutines are scheduled, timers fire, killed commands end, and so do the commands
\* that do not hang; nobody has to press Ctrl-C.
ExecFairSpec == ExecSpec /\ \A c \in Calls : WF_execVars(Call(c)) /\ WF_execVars(ProbeExpires(c))

-----------------------------------------------------------------------------
(***************************************************************************)
(* Properties                                                              *)
(***************************************************************************)
\* The variables keep their types; the factory only hands out the client it caches.
ExecTypes ==
  /\ remote \in BOOLEAN
  /\ kind \in [Calls -> Kinds]
  /\ hangs \subseteq Calls
  /\ clients \in 0..1
  /\ created \in 0..1
  /\ client \in [Calls -> 0..1]
  /\ pc \in [Calls -> {"start", "create", "acquire", "run", "backoff", "returned"}]
  /\ sem \subseteq Calls
  /\ attempt \in [Calls -> 0..sshMaxRetries]
  /\ done \subseteq Calls
  /\ executed \in [Calls -> 0..(sshMaxRetries + 1)]
  /\ outcome \in [Calls -> {"none", "nil", "error", "cancelled"}]

\* What a call returns agrees with what happened: success means that the daemon executed
\* the command, and a command whose stdin is consumed, whose output is already passed
\* on, or that probes, is never executed twice.  (An error says nothing.)
ExecutedAsReported ==
  \A c \in Calls :
    /\ outcome[c] = "nil" => executed[c] >= 1
    /\ kind[c] # "plain" => executed[c] <= 1

\* Every call returns if no command hangs, or once the run is cancelled: no slot is lost
\* on the way out of a call, and a call that waits for a slot notices the cancellation.
\* "a down host must not be serialized behind other calls": a probe runs its command and
\* returns in any case, even when commands that never end hold all slots.
CallsReturn ==
  \A c \in Calls :
    /\ hangs = {} \/ done = Calls ~> pc[c] = "returned"
    /\ kind[c] = "probe" ~> outcome[c] \in {"nil", "error"}

(***************************************************************************)
(* The client as its callers see it.                                       *)
(***************************************************************************)
Phase(c) ==
  IF pc[c] \in {"start", "create", "acquire"} THEN "waiting"
  ELSE IF pc[c] \in {"run", "backoff"} THEN "active"
  ELSE "returned"

OverSSH == {c \in Calls : remote /\ kind[c] # "probe"}

UnderWay == {c \in OverSSH : pc[c] \in {"run", "backoff"}}

Promise == INSTANCE RemoteCalls WITH
  Limit       <- MaxConcurrentSSH,
  limited     <- OverSSH,
  connections <- Cardinality(UnderWay),
  once        <- {c \in Calls : ~(remote /\ kind[c] = "plain")},
  state       <- [c \in Calls |-> Phase(c)],
  runs        <- executed,
  result      <- outcome

\* "the maximum number of concurrent docker CLI invocations allowed against a single
\* remote (SSH-based) Docker context": over all clients of the context, probes apart.
SSHLimit == Cardinality(UnderWay) <= MaxConcurrentSSH

\* Factory, semaphore and retry loop together implement the client's promise: over all
\* clients of a remote context at most MaxConcurrentSSH calls are under way, probes
\* apart; success means that the last attempt was executed; a call that reads stdin,
\* streams, probes or runs on a local context is executed at most once; and a call that
\* was cancelled while it waited was not executed at all.
KeepsPromise == Promise!Spec
=============================================================================
