----------------------------- MODULE Dashboard -----------------------------
(***************************************************************************)
(* The dashboard (src/internal/cli/dashboardcmd/update.go, model.go,       *)
(* logs.go, command_actions.go, data/status.go, data/loader.go,            *)
(* src/internal/dockercli/logs.go): the list of services, the log of the   *)
(* selected one, the refresh of the statuses and the command palette.      *)
(*                                                                         *)
(* Update handles one message at a time, and every command it returns runs *)
(* in a goroutine of its own: the messages that the commands return arrive *)
(* in any order.  A log stream is a docker process and a goroutine that    *)
(* puts its lines into the one channel that all streams share.             *)
(*                                                                         *)
(* The list has the stacks of all contexts, but the one docker client of   *)
(* the dashboard is that of the first context.                             *)
(***************************************************************************)
EXTENDS Naturals, FiniteSets

CONSTANTS
  Items,       \* the services of the list, of all contexts
  First,       \* the item selected at the start
  ServiceOf,   \* the name of the service of an item, without its stack
  NameOf,      \* container_name of the item's compose file
  Names,       \* the names of containers on the daemon of the first context
  Owners,      \* what runs there: items of the first context, stacks not in the list, others
  Label,       \* the service label of an owner that carries the identifier
  RunsAs,      \* the names an owner's containers may have
  ChanCap,     \* capacity of logLines
  MaxStarts,   \* bound on the requests for a log
  MaxCommands  \* bound on the commands under way

\* No name, no label, nobody: the empty string of the code.
NoName == "none"

\* The list is not empty; an item of the first context has its label and its name.
ASSUME DashboardAssumption ==
  /\ First \in Items /\ NoName \notin Names \cup Owners
  /\ NameOf \in [Items -> Names \cup {NoName}] /\ RunsAs \in [Owners -> SUBSET Names]
  /\ \A i \in Items \cap Owners :
       Label[i] = ServiceOf[i] /\ (NameOf[i] # NoName => RunsAs[i] = {NameOf[i]})

VARIABLES
  up,          \* the owner of each name, NoName if there is no such container
  idx,         \* the selected item
  name,        \* ContainerName of each item of the list
  seen,        \* history: the owner of that container when its row was read
  pending,     \* pendingSelName
  selected,    \* selectedName
  starts,      \* startLogsFor messages on their way
  streams,     \* the log streams that are not cancelled: request and container
  started,     \* logStreamStartedMsg on their way
  logCancel,   \* the stream it cancels, 0 for nil
  logLines,    \* the number of lines in the channel
  pane, palette,
  tick,        \* the chain of statusTickMsg, FetchAll and statusesMsg
  fetched,     \* the statuses on their way: name and, as history, owner
  flushTick,   \* logsTickMsg is on its way
  commands,    \* docker commands of the palette under way
  quitting,
  count        \* the requests so far

list == <<idx, name, seen, pending, selected>>
logs == <<starts, streams, started, logCancel, logLines>>
panes == <<pane, palette>>
ticks == <<tick, fetched, flushTick>>
dashboardVars == <<up, list, logs, panes, ticks, commands, quitting, count>>

\* An owner that may have a container of that name
MayRun(c) == {o \in Owners : c \in RunsAs[o]}

DashboardInit ==
  /\ up \in [Names -> Owners \cup {NoName}]
  /\ \A c \in Names : up[c] \in MayRun(c) \cup {NoName}
  /\ idx = First /\ name = NameOf /\ seen = [i \in Items |-> NoName]
  /\ pending = NoName /\ selected = NoName
  /\ starts = (IF NameOf[First] = NoName THEN {} ELSE {<<1, NameOf[First]>>})
  /\ streams = {} /\ started = {} /\ logCancel = 0
  /\ logLines = 0
  /\ pane = 0 /\ palette = FALSE
  /\ tick = "tick" /\ fetched = <<>> /\ flushTick = TRUE
  /\ commands = {} /\ quitting = FALSE /\ count = 1

(***************************************************************************)
(* Selecting an item                                                       *)
(***************************************************************************)
Requests(n) ==
  /\ count < MaxStarts /\ count' = count + 1
  /\ starts' = starts \cup {<<count + 1, n>>}

\* A move of the cursor asks for the log of the item after a delay.
Move(i) ==
  /\ ~quitting /\ pane = 0 /\ ~palette /\ i # idx
  /\ idx' = i
  /\ pending' = name[i]
  /\ Requests(name[i])
  /\ UNCHANGED <<up, name, seen, selected, streams, started, logCancel, logLines, panes, ticks, commands, quitting>>

\* The container of the selected item, or else a container with the name of the service.
selectedContainerName == IF name[idx] # NoName THEN name[idx] ELSE ServiceOf[idx]

Select ==
  /\ ~quitting /\ pane = 0 /\ ~palette
  /\ pane' = 1
  /\ IF selectedContainerName \notin {NoName, selected}
     THEN Requests(selectedContainerName)
     ELSE UNCHANGED <<count, starts>>
  /\ UNCHANGED <<up, list, streams, started, logCancel, logLines, palette, ticks, commands, quitting>>

CyclePane ==
  /\ ~quitting /\ ~palette
  /\ pane' = 1 - pane
  /\ UNCHANGED <<up, list, logs, palette, ticks, commands, quitting, count>>

(***************************************************************************)
(* startLogsFor, logStreamStartedMsg and the streams                       *)
(***************************************************************************)
AnyRequest(n) == n # NoName

\* A request that is not for the last selection is out of date.
Wanted(n) == n # NoName /\ (pending = NoName \/ n = pending)

NotCancelled == {s \in streams : s[1] # logCancel}

StartLogs(m) ==
  /\ ~quitting /\ m \in starts
  /\ starts' = starts \ {m}
  /\ IF Wanted(m[2])
     THEN /\ selected' = m[2] /\ logCancel' = 0
          /\ streams' = NotCancelled \cup {m} /\ started' = started \cup {m[1]}
     ELSE UNCHANGED <<selected, logCancel, streams, started>>
  /\ UNCHANGED <<up, idx, name, seen, pending, logLines, panes, ticks, commands, quitting, count>>

LogStreamStarted(k) ==
  /\ ~quitting /\ k \in started
  /\ started' = started \ {k}
  /\ logCancel' = k
  /\ UNCHANGED <<up, list, starts, streams, logLines, panes, ticks, commands, quitting, count>>

\* A line of a container reaches the channel; what is left of a cancelled stream counts as
\* lines of the others.
WriteLine(s) ==
  /\ ~quitting /\ s \in streams /\ s[2] \in Names /\ up[s[2]] # NoName
  /\ logLines < ChanCap /\ logLines' = logLines + 1
  /\ UNCHANGED <<up, list, starts, streams, started, logCancel, panes, ticks, commands, quitting, count>>

TickAfterLines == flushTick' = (logLines > 0)

\* tickLogs, whether there were lines or not.
TickLogs == flushTick' = TRUE

\* The channel is emptied.  Which of the lines are then shown is left out.
withFlushedLogs ==
  /\ ~quitting /\ flushTick
  /\ logLines' = 0
  /\ TickLogs
  /\ UNCHANGED <<up, list, starts, streams, started, logCancel, panes, tick, fetched, commands, quitting, count>>

(***************************************************************************)
(* The statuses                                                            *)
(***************************************************************************)
StatusTick ==
  /\ ~quitting /\ tick = "tick" /\ tick' = "fetch"
  /\ UNCHANGED <<up, list, logs, panes, fetched, flushTick, commands, quitting, count>>

\* docker ps lists what carries the identifier; every such container is of a service.
Rows == {c \in Names : up[c] # NoName /\ Label[up[c]] # NoName}

SameService(i) == {c \in Rows : Label[up[c]] = ServiceOf[i]}

AnyContainer(i) == Rows

\* By container_name where the compose file sets it, otherwise by the service label alone.
Candidates(i) == IF NameOf[i] # NoName THEN Rows \cap {NameOf[i]} ELSE SameService(i)

RefreshedWhenRead == tick' = IF fetched' = <<>> THEN "stopped" ELSE "message"

\* tea.Sequence goes on to the next tick whether there are statuses or not.
Refreshed == tick' = "message"

\* One docker ps; items without a row are left out, and items that are looked up by the same
\* service get the same row, that which docker ps lists last.  A failure or the timeout gives
\* nothing.
FetchAll ==
  /\ ~quitting /\ tick = "fetch"
  /\ \/ \E row \in [{i \in Items : Candidates(i) # {}} -> Rows] :
          /\ \A i \in DOMAIN row : row[i] \in Candidates(i)
          /\ \A i, j \in DOMAIN row :
               NameOf[i] = NoName /\ NameOf[j] = NoName /\ ServiceOf[i] = ServiceOf[j] => row[i] = row[j]
          /\ fetched' = [i \in DOMAIN row |-> <<row[i], up[row[i]]>>]
     \/ fetched' = <<>>
  /\ Refreshed
  /\ UNCHANGED <<up, list, logs, panes, flushTick, commands, quitting, count>>

Statuses ==
  /\ ~quitting /\ tick = "message" /\ tick' = "tick"
  /\ name' = [i \in Items |-> IF i \in DOMAIN fetched THEN fetched[i][1] ELSE name[i]]
  /\ seen' = [i \in Items |-> IF i \in DOMAIN fetched THEN fetched[i][2] ELSE seen[i]]
  /\ fetched' = <<>>
  /\ UNCHANGED <<up, idx, pending, selected, logs, panes, flushTick, commands, quitting, count>>

(***************************************************************************)
(* The command palette                                                     *)
(***************************************************************************)
TogglePalette ==
  /\ ~quitting
  /\ palette' = ~palette
  /\ UNCHANGED <<up, list, logs, pane, ticks, commands, quitting, count>>

\* Enter: pause, restart, stop or delete the container of the selected item; without a name
\* the palette just closes.
ExecuteCommand ==
  /\ ~quitting /\ palette /\ palette' = FALSE
  /\ IF selectedContainerName = NoName
     THEN UNCHANGED commands
     ELSE /\ Cardinality(commands) < MaxCommands
          /\ commands' = commands \cup {[name |-> selectedContainerName, item |-> idx, seen |-> seen[idx]]}
  /\ UNCHANGED <<up, list, logs, pane, ticks, quitting, count>>

\* The docker call may remove the container, leave it, or fail; its result is ignored.
CommandEnds(m) ==
  /\ ~quitting /\ m \in commands
  /\ commands' = commands \ {m}
  /\ up' = up \/ (m.name \in Names /\ up' = [up EXCEPT ![m.name] = NoName])
  /\ UNCHANGED <<list, logs, panes, ticks, quitting, count>>

\* Somebody else starts or removes a container.
World(c) ==
  /\ ~quitting
  /\ IF up[c] # NoName
     THEN up' = [up EXCEPT ![c] = NoName]
     ELSE \E o \in MayRun(c) : up' = [up EXCEPT ![c] = o]
  /\ UNCHANGED <<list, logs, panes, ticks, commands, quitting, count>>

\* The event loop ends: what is on its way to it, or in the channel, is lost.
Quit ==
  /\ ~quitting /\ quitting' = TRUE
  /\ streams' = NotCancelled /\ logCancel' = 0
  /\ started' = {} /\ fetched' = <<>> /\ logLines' = 0 /\ commands' = {}
  /\ UNCHANGED <<up, list, starts, panes, tick, flushTick, count>>

Keys ==
  \/ \E i \in Items : Move(i)
  \/ Select \/ CyclePane \/ TogglePalette \/ ExecuteCommand \/ Quit

Messages ==
  \/ \E m \in starts : StartLogs(m)
  \/ \E k \in started : LogStreamStarted(k)
  \/ \E m \in commands : CommandEnds(m)
  \/ withFlushedLogs \/ StatusTick \/ FetchAll \/ Statuses

Outside ==
  \/ \E s \in streams : WriteLine(s)
  \/ \E c \in Names : World(c)

Closed == quitting /\ UNCHANGED dashboardVars

DashboardNext == Keys \/ Messages \/ Outside \/ Closed

\* Commands run and their messages are handled.
DashboardFairness ==
  /\ WF_dashboardVars(withFlushedLogs) /\ WF_dashboardVars(StatusTick)
  /\ WF_dashboardVars(FetchAll) /\ WF_dashboardVars(Statuses)
  /\ WF_dashboardVars(\E m \in starts : StartLogs(m))

DashboardSpec == DashboardInit /\ [][DashboardNext]_dashboardVars /\ DashboardFairness

(***************************************************************************)
(* Properties                                                              *)
(***************************************************************************)
\* Once every request has been handled, in whatever order the delays let them arrive, the
\* log shown is that of the last move to an item with a known container (the debounce of
\* startLogsFor by pendingSelName).
LastMoveIsShown == pending # NoName /\ starts = {} => selected = pending

\* A container that a command of the palette removes is one of the service under the cursor:
\* the container_name of its compose file, and no other, or else a container with its service
\* label.  The exceptions are what the code cannot know: no status has arrived yet, so that
\* the name of the service stands for the container, or the name changed hands since docker
\* ps (FetchAll, selectedContainerName, executeCommand).
ActionsHitTheService ==
  [][\A m \in commands : m \notin commands' /\ ~quitting' /\ up' # up =>
       \/ m.name = NameOf[m.item]
       \/ /\ NameOf[m.item] = NoName
          /\ \/ Label[up[m.name]] = ServiceOf[m.item]
             \/ m.seen = NoName /\ m.name = ServiceOf[m.item]
             \/ m.seen # NoName /\ up[m.name] # m.seen]_dashboardVars

\* Lines never stay in the channel, where they would stop the readers of all streams
\* (tickLogs, withFlushedLogs).
LinesAreDrained == logLines > 0 ~> logLines = 0 \/ quitting

\* The statuses are asked for again and again, even after docker ps failed (refreshStatusesCmd).
StatusesKeepComing == <>[]quitting \/ []<>(tick = "fetch")

\* "Key uniquely identifies a service status entry in the dashboard list." (status.go:25).
\* It does not hold: the rows are looked up by the name of the service only, and on one
\* daemon, so that a service shows, and the palette acts on, the container of another stack
\* or of a stack of the same name in another context.
StatusIsOwn == \A i \in Items : seen[i] \in {NoName, i}
=============================================================================
