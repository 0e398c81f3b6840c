------------------------------- MODULE Images -------------------------------
(***************************************************************************)
(* The commands images check, images upgrade and images pull               *)
(* (src/internal/cli/imagescmd, src/internal/images): the services in      *)
(* scope and their images, the digests of what runs now, one concurrent    *)
(* check per service over the client of module Registry, and then the      *)
(* rewriting of compose files or the pull with its recreation.             *)
(*                                                                         *)
(* A tag is the sequence of its characters, because the rewriting replaces *)
(* text: "app:1" also occurs in "app:10".  The digests of a tag are        *)
(* numbered in the order in which they are pushed.                         *)
(***************************************************************************)
EXTENDS Registry, Functions

CONSTANTS
  JobOrder,   \* the services sorted by stack and name
  StackOrder, \* the stacks, sorted
  StackOf,    \* the stack of each service
  ContextOf,  \* the Docker context of each stack
  FilesOf,    \* the compose files of each stack, in the order they are merged
  Version,    \* the semantic version of each tag; 0 when it is none
  EnvTag,     \* what ${TAG} stands for
  Scenarios   \* the compose files, daemons, registries and commands considered

Services == Jobs
Contexts == Range(ContextOf)
Files == UNION {Range(FilesOf[st]) : st \in Range(StackOrder)}

Var == <<"TAG">>
NoLine == [repo |-> "none", tag |-> <<>>]
NoPattern == {}
NoStatus == [error |-> "noError", stale |-> FALSE, newer |-> {}]

\* The last file that gives the service an image wins; variables are replaced.
ImageIn(lines, s) ==
  LET files == FilesOf[StackOf[s]]
      given == {k \in DOMAIN files : lines[files[k]][s] # NoLine}
      last == CHOOSE k \in given : \A j \in given : j <= k
      ref == lines[files[last]][s]
  IN IF given = {} THEN NoLine
     ELSE IF ref.tag = Var THEN [ref EXCEPT !.tag = EnvTag] ELSE ref

(***************************************************************************)
(* What is assumed of the constants.  Services are sorted by their key in  *)
(* a map, and no file of a stack is given twice.  A scenario is what the   *)
(* commands can find: containers run what the registry has or had, and the *)
(* image that a tag names in a daemon is not older than what runs of it.   *)
(***************************************************************************)
Refs == [repo : Repos, tag : Tags \cup {Var}]

CanBeFound(sc) ==
  /\ sc.line \in [Files -> [Services -> Refs \cup {NoLine}]]
  /\ sc.pattern \in [Services -> SUBSET Tags]
  /\ sc.running \in [Services -> Nat]
  /\ sc.digests \in [Repos -> [Tags -> Nat]]
  /\ sc.stored \in [Contexts -> [Repos -> [Tags -> Nat]]]
  /\ \A s \in Services :
       LET ref == ImageIn(sc.line, s)
           known == sc.digests[ref.repo][ref.tag]
           here == sc.stored[ContextOf[StackOf[s]]][ref.repo][ref.tag]
       IN ref # NoLine =>
            /\ known # 0 \/ <<ref.repo, ref.tag>> \in Pushable => sc.running[s] <= known
            /\ here # 0 => sc.running[s] <= here

ASSUME TagsAssumption ==
  /\ TagOrder \in Seq(Seq(STRING)) /\ AllTags \notin Tags /\ Var \notin Tags
  /\ EnvTag \in Tags /\ Version \in [Tags -> Nat]

ASSUME StacksAssumption ==
  /\ JobOrder \in Seq(Services) /\ IsInjective(JobOrder) /\ Range(JobOrder) = Services
  /\ StackOrder \in Seq(Range(StackOrder)) /\ StackOf \in [Services -> Range(StackOrder)]
  /\ Range(StackOrder) \subseteq DOMAIN ContextOf
  /\ \A st \in Range(StackOrder) : FilesOf[st] \in Seq(Files) /\ IsInjective(FilesOf[st])

ASSUME ScenariosAssumption == \A sc \in Scenarios : CanBeFound(sc)

VARIABLES
  opt,      \* the command and its flags
  pattern,  \* the tags that each service's dockform.tag_pattern matches
  line,     \* the image line of each service in each file
  line0,    \* history: the same before the command
  torn,     \* files whose write failed half way
  running,  \* the digest that each service's container runs; 0 when there is none
  running0, \* history: the same before the command
  stored,   \* the digest of each image stored in each context; 0 when absent
  pc, result,
  inputs,   \* the services that are checked
  image,    \* the image of each service according to compose config
  blind,    \* history: contexts whose containers or images could not be listed
  local,    \* localDigests
  job,      \* what each check is doing
  seen,     \* the remote digest that each check read
  listed,   \* the tags that each check has read
  status,   \* the results of the checks
  queue,    \* the places of the work list that remain to be rewritten or pulled
  changes   \* the services whose rewriting is reported

config == <<opt, pattern, line0, running0>>
disk == <<line, torn>>
daemon == <<running, stored>>
check == <<inputs, image, blind, local, job, seen, listed, status>>
vars == <<registry, cancelled, client, config, disk, daemon, check, pc, result, queue, changes>>

Init ==
  \E sc \in Scenarios :
    /\ opt = sc.opt /\ pattern = sc.pattern
    /\ line = sc.line /\ line0 = sc.line /\ torn = {}
    /\ running = sc.running /\ running0 = sc.running /\ stored = sc.stored
    /\ auth = sc.auth /\ epoch = 1 /\ digests = sc.digests /\ pushes = 0
    /\ cancelled = FALSE
    /\ InitClient
    /\ pc = "inputs" /\ result = "none"
    /\ inputs = {} /\ image = [s \in Services |-> NoLine]
    /\ blind = {} /\ local = [s \in Services |-> 0]
    /\ job = [s \in Services |-> "none"] /\ seen = [s \in Services |-> 0]
    /\ listed = [s \in Services |-> {}] /\ status = [s \in Services |-> NoStatus]
    /\ queue = {} /\ changes = {}

Return(r) == pc' = "done" /\ result' = r

(***************************************************************************)
(* Inputs: docker compose config per stack, and the named services         *)
(***************************************************************************)
ImageOf(s) == ImageIn(line, s)

WithImage == {s \in Services : ImageOf(s) # NoLine}

filterInputsByServices(available, names) ==
  IF names = {} THEN available ELSE available \cap names

BuildCheckInputs ==
  LET chosen == filterInputsByServices(WithImage, opt.named) IN
  /\ pc = "inputs"
  /\ \/ Return("error") /\ UNCHANGED <<inputs, image>>   \* a config or a context fails
     \/ WithImage = {} /\ Return("ok") /\ UNCHANGED <<inputs, image>>
     \/ WithImage # {} /\ chosen = {} /\ Return("error") /\ UNCHANGED <<inputs, image>>
     \/ /\ chosen # {}
        /\ inputs' = chosen
        /\ image' = [s \in Services |-> ImageOf(s)]
        /\ pc' = "prefetch" /\ UNCHANGED result
  /\ UNCHANGED <<registry, cancelled, client, config, disk, daemon, blind, local, job, seen,
                 listed, status, queue, changes>>

(***************************************************************************)
(* prefetchLocalDigests                                                    *)
(***************************************************************************)
StoredDigest(s) == stored[ContextOf[StackOf[s]]][image[s].repo][image[s].tag]

\* The services whose container and its digest one docker ps and one docker image inspect
\* per context find; nothing of a context whose list fails.
Observed(unlisted) ==
  {s \in Services : running[s] # 0 /\ ContextOf[StackOf[s]] \notin unlisted}

LocalDigestOfStored(s, unlisted) == StoredDigest(s)

\* The digest of what runs; that of the stored image when no container is observed.
LocalDigest(s, unlisted) ==
  IF s \in Observed(unlisted) THEN running[s] ELSE StoredDigest(s)

\* An image that cannot be inspected has the empty digest.
PrefetchLocalDigests ==
  /\ pc = "prefetch"
  /\ \E unlisted \in SUBSET {ContextOf[StackOf[s]] : s \in inputs} :
     \E unread \in SUBSET (inputs \ Observed(unlisted)) :
       /\ blind' = unlisted
       /\ local' = [s \in Services |->
            IF s \in inputs \ unread THEN LocalDigest(s, unlisted) ELSE 0]
  /\ job' = [s \in Services |-> IF s \in inputs THEN "start" ELSE "none"]
  /\ pc' = "check"
  /\ UNCHANGED <<registry, cancelled, client, config, disk, daemon, inputs, image, seen, listed,
                 status, result, queue, changes>>

(***************************************************************************)
(* checkImage, one goroutine per service                                   *)
(***************************************************************************)
FinishUnlessError(s) ==
  job' = [job EXCEPT ![s] = IF reply[s].status = "error" THEN "lost" ELSE "done"]

Finish(s) == job' = [job EXCEPT ![s] = "done"]

CheckImage(s) ==
  /\ job[s] = "start"
  /\ Send(s, image[s].repo, image[s].tag, 1)
  /\ job' = [job EXCEPT ![s] = "digest"]
  /\ UNCHANGED <<registry, cancelled, config, disk, daemon, inputs, image, blind, local, seen,
                 listed, status, pc, result, queue, changes>>

Stale(s, remote) == remote # local[s]

WantsTags(s) == pattern[s] # NoPattern /\ Version[image[s].tag] # 0

DigestAnswered(s) ==
  /\ job[s] = "digest" /\ at[s] = "answered"
  /\ IF reply[s].status # "ok"
     THEN /\ status' = [status EXCEPT ![s].error = reply[s].status]
          /\ Finish(s) /\ Release(s) /\ UNCHANGED seen
     ELSE /\ seen' = [seen EXCEPT ![s] = reply[s].digest]
          /\ status' = [status EXCEPT ![s].stale = Stale(s, reply[s].digest)]
          /\ IF WantsTags(s)
             THEN Send(s, image[s].repo, AllTags, 1) /\ job' = [job EXCEPT ![s] = "tags"]
             ELSE Finish(s) /\ Release(s)
  /\ UNCHANGED <<registry, cancelled, config, disk, daemon, inputs, image, blind, local, listed,
                 pc, result, queue, changes>>

findNewerTags(s, all) == {t \in all \cap pattern[s] : Version[t] > Version[image[s].tag]}

NextLinkIgnored(r) == 0

NextLink(r) == r.next

TagsAnswered(s) ==
  /\ job[s] = "tags" /\ at[s] = "answered"
  /\ IF reply[s].status # "ok"
     THEN /\ status' = [status EXCEPT ![s].error = reply[s].status]
          /\ listed' = [listed EXCEPT ![s] = {}]
          /\ Finish(s) /\ Release(s)
     ELSE LET all == listed[s] \cup reply[s].tags IN
          IF NextLink(reply[s]) # 0
          THEN /\ listed' = [listed EXCEPT ![s] = all]
               /\ Send(s, image[s].repo, AllTags, NextLink(reply[s]))
               /\ UNCHANGED <<status, job>>
          ELSE /\ listed' = [listed EXCEPT ![s] = {}]
               /\ status' = [status EXCEPT ![s].newer = findNewerTags(s, all)]
               /\ Finish(s) /\ Release(s)
  /\ UNCHANGED <<registry, cancelled, config, disk, daemon, inputs, image, blind, local, seen,
                 pc, result, queue, changes>>

Request(s) ==
  /\ DoWithAuth(s)
  /\ UNCHANGED <<config, disk, daemon, check, pc, result, queue, changes>>

(***************************************************************************)
(* After the checks                                                        *)
(***************************************************************************)
Newest(s) == CHOOSE t \in status[s].newer : \A u \in status[s].newer : Version[u] <= Version[t]

Upgradable == {s \in inputs : status[s].error = "noError" /\ status[s].newer # {}}

NewRef(s) == [image[s] EXCEPT !.tag = Newest(s)]

\* What check lists; the other images are only counted as current.
NeedsAttention(s) == status[s].error # "noError" \/ status[s].stale \/ status[s].newer # {}

Drifted == {s \in inputs : status[s].stale /\ status[s].newer = {} /\ status[s].error = "noError"}

\* The rewritings: places in the list of results and among the files of the stack, and the
\* order in which they are handled.
RewritingsOfFirstFile == {i \in DOMAIN JobOrder : JobOrder[i] \in Upgradable} \X {1}

Rewritings ==
  UNION {{i} \X DOMAIN FilesOf[StackOf[JobOrder[i]]] :
           i \in {k \in DOMAIN JobOrder : JobOrder[k] \in Upgradable}}

Before(p, q) == p[1] < q[1] \/ (p[1] = q[1] /\ p[2] < q[2])

\* The places of the stacks that are pulled.
groupByStackForPull == {i \in DOMAIN StackOrder : \E s \in Drifted : StackOf[s] = StackOrder[i]}

AfterCheck ==
  /\ pc = "check"
  /\ \A s \in inputs : job[s] = "done"
  /\ \/ /\ opt.cmd = "check" \/ (opt.cmd = "upgrade" /\ opt.dryRun)
        /\ Return("ok") /\ UNCHANGED queue
     \/ /\ opt.cmd = "upgrade" /\ ~opt.dryRun
        /\ queue' = Rewritings
        /\ pc' = "rewrite" /\ UNCHANGED result
     \/ /\ opt.cmd = "pull"
        /\ queue' = groupByStackForPull
        /\ IF Drifted = {} THEN Return("current")
           ELSE IF opt.dryRun THEN Return("ok")
           ELSE pc' = "pull" /\ UNCHANGED result
  /\ UNCHANGED <<registry, cancelled, client, config, disk, daemon, check, changes>>

(***************************************************************************)
(* Upgrade: text is replaced in whole files                                *)
(***************************************************************************)
\* The text of the old reference occurs in the line.
OccursIn(ref, old) ==
  /\ ref.repo = old.repo
  /\ Len(old.tag) <= Len(ref.tag) /\ SubSeq(ref.tag, 1, Len(old.tag)) = old.tag

\* strings.ReplaceAll on one line.
ReplaceIn(ref, old, new) ==
  IF OccursIn(ref, old)
  THEN [ref EXCEPT !.tag = new.tag \o SubSeq(ref.tag, Len(old.tag) + 1, Len(ref.tag))]
  ELSE ref

rewriteImageInFile(f, old, new) ==
  [line EXCEPT ![f] = [s \in Services |-> ReplaceIn(line[f][s], old, new)]]

RewriteImage ==
  /\ pc = "rewrite"
  /\ \E p \in queue :
       LET s == JobOrder[p[1]]
           f == FilesOf[StackOf[s]][p[2]]
           new == rewriteImageInFile(f, image[s], NewRef(s))
       IN
       /\ \A q \in queue : ~Before(q, p)
       /\ \/ /\ line' = new
             /\ changes' = IF new # line THEN changes \cup {s} ELSE changes
             /\ queue' = queue \ {p}
             /\ UNCHANGED <<torn, pc, result>>
          \/ /\ new # line /\ torn' = torn \cup {f}     \* WriteFile truncates, then fails
             /\ Return("error")
             /\ changes' = {} /\ UNCHANGED <<line, queue>>
          \/ /\ Return("error")                        \* ReadFile fails
             /\ changes' = {} /\ UNCHANGED <<line, torn, queue>>
  /\ UNCHANGED <<registry, cancelled, client, config, daemon, check>>

\* What the report says of each service.
UpgradeReport(s) ==
  CASE status[s].error # "noError" -> "error"
    [] s \in Upgradable /\ s \in changes -> "updated"
    [] s \in Upgradable /\ s \notin changes -> IF opt.dryRun THEN "dryRun" ELSE "notFound"
    [] s \in Drifted -> "pull"
    [] OTHER -> "latest"

UpgradeReturns ==
  /\ pc = "rewrite" /\ queue = {}
  /\ Return("ok")
  /\ UNCHANGED <<registry, cancelled, client, config, disk, daemon, check, queue, changes>>

(***************************************************************************)
(* executePull: docker compose pull and up, stack after stack              *)
(***************************************************************************)
\* The images of some services are pulled as they are in the registry now.
Pulled(ss) ==
  [c \in Contexts |-> [r \in Repos |-> [t \in Tags |->
     IF \E s \in ss : ContextOf[StackOf[s]] = c /\ image[s] = [repo |-> r, tag |-> t]
     THEN digests[r][t] ELSE stored[c][r][t]]]]

\* The next stack of the work list.
NextStack(i) == i \in queue /\ \A k \in queue : i <= k

ComposePull ==
  /\ pc = "pull"
  /\ \E i \in queue :
       LET chosen == {s \in Drifted : StackOf[s] = StackOrder[i]} IN
       /\ NextStack(i)
       /\ \/ /\ ~cancelled
             /\ stored' = Pulled(chosen)
             /\ IF opt.recreate THEN pc' = "up" /\ UNCHANGED queue
                ELSE queue' = queue \ {i} /\ UNCHANGED pc
             /\ UNCHANGED result
          \/ /\ \E part \in SUBSET chosen : stored' = Pulled(part)
             /\ Return("error") /\ UNCHANGED queue
  /\ UNCHANGED <<registry, cancelled, client, config, disk, running, check, changes>>

InStack(st) == {s \in Services : StackOf[s] = st /\ image[s] # NoLine}

\* compose up pulls what is not stored and runs what is stored.
Up(ss, images) ==
  [s \in Services |->
     IF s \in ss THEN images[ContextOf[StackOf[s]]][image[s].repo][image[s].tag] ELSE running[s]]

Missing(ss) == {s \in ss : StoredDigest(s) = 0}

ComposeUp ==
  /\ pc = "up"
  /\ \E i \in queue :
       LET all == InStack(StackOrder[i]) IN
       /\ NextStack(i)
       /\ \/ /\ ~cancelled
             /\ stored' = Pulled(Missing(all))
             /\ running' = Up(all, stored')
             /\ queue' = queue \ {i} /\ pc' = "pull" /\ UNCHANGED result
          \/ /\ \E part \in SUBSET all :
                  stored' = Pulled(Missing(part)) /\ running' = Up(part, stored')
             /\ Return("error") /\ UNCHANGED queue
  /\ UNCHANGED <<registry, cancelled, client, config, disk, check, changes>>

PullReturns ==
  /\ pc = "pull" /\ queue = {}
  /\ Return("ok")
  /\ UNCHANGED <<registry, cancelled, client, config, disk, daemon, check, queue, changes>>

(***************************************************************************)
(* The specification                                                       *)
(***************************************************************************)
World ==
  /\ pc # "done"
  /\ \/ Expire
     \/ Cancel
     \/ \E r \in Repos, t \in Tags : Push(r, t)
  /\ UNCHANGED <<config, disk, daemon, check, pc, result, queue, changes>>

Command ==
  \/ BuildCheckInputs \/ PrefetchLocalDigests \/ AfterCheck
  \/ RewriteImage \/ UpgradeReturns
  \/ ComposePull \/ ComposeUp \/ PullReturns

Goroutine(s) == CheckImage(s) \/ DigestAnswered(s) \/ TagsAnswered(s)

Terminated == pc = "done" /\ UNCHANGED vars

Next ==
  \/ Command
  \/ \E s \in Services : Goroutine(s) \/ Request(s)
  \/ World
  \/ Terminated

RequestEnds(s) ==
  /\ Lookup(s) \/ RequestCancelled(s)
  /\ UNCHANGED <<config, disk, daemon, check, pc, result, queue, changes>>

\* The process goes on by itself; a request that the registry never answers ends only
\* when the context is cancelled.
Spec ==
  /\ Init /\ [][Next]_vars
  /\ WF_vars(Command)
  /\ \A s \in Services : WF_vars(Goroutine(s)) /\ WF_vars(RequestEnds(s))

(***************************************************************************)
(* Properties                                                              *)
(***************************************************************************)
\* Every occurrence of a reference that is upgraded, in the files of its stack, is the
\* whole image line of that service, and no rewriting creates another one.
Separate ==
  \A s \in Upgradable : \A f \in Range(FilesOf[StackOf[s]]) : \A u \in Services :
    /\ OccursIn(line0[f][u], image[s]) => u = s /\ line0[f][u] = image[s]
    /\ u \in Upgradable \ {s} /\ f \in Range(FilesOf[StackOf[u]])
       => ~OccursIn(NewRef(u), image[s])

Expected(f, s) ==
  IF s \in Upgradable /\ f \in Range(FilesOf[StackOf[s]]) /\ line0[f][s] = image[s]
  THEN NewRef(s) ELSE line0[f][s]

\* Where references are separate, an upgrade never leaves a line that is neither the old
\* one nor the newest reference, even when a later file fails (the file whose write failed
\* apart), and a successful one has rewritten exactly the outdated literal references of
\* the services it considered and reports as updated exactly the services it has rewritten
\* (Upgrade, rewriteImageInFile, renderUpgradeTerminal).
UpgradeIsExact ==
  opt.cmd = "upgrade" /\ pc \in {"rewrite", "done"} /\ Separate =>
    /\ \A f \in Files \ torn, s \in Services : line[f][s] \in {line0[f][s], Expected(f, s)}
    /\ result = "ok" /\ ~opt.dryRun =>
         /\ \A f \in Files, s \in Services : line[f][s] = Expected(f, s)
         /\ \A s \in inputs :
              UpgradeReport(s) = "updated" <=> \E f \in Files : line[f][s] # line0[f][s]

\* A service that check does not list has no newer matching tag that the registry had from
\* the start, over any number of pages, expired tokens and pushes in between, and its
\* container runs what the check saw, unless the containers of its context could not be
\* listed (checkImage, findNewerTags, ListTags, renderTerminal).
UnlistedMeansCurrent ==
  \A s \in inputs : job[s] = "done" /\ ~NeedsAttention(s) =>
    /\ \A t \in pattern[s] :
         digests[image[s].repo][t] > pushes      \* it was there before any push
         => Version[image[s].tag] = 0 \/ Version[t] <= Version[image[s].tag]
    /\ running0[s] # 0 /\ ContextOf[StackOf[s]] \notin blind => running0[s] = seen[s]

\* After a successful pull --recreate, every service that was running and whose check found
\* no error and no newer tag runs at least the content that the check saw in the registry,
\* also when its image had been pulled before without a recreation, unless the containers
\* of its context could not be listed (makeLocalDigestFunc, executePull).
RecreateRunsWhatWasSeen ==
  opt.cmd = "pull" /\ opt.recreate /\ ~opt.dryRun /\ result \in {"ok", "current"} =>
    \A s \in inputs :
      /\ status[s].error = "noError" /\ status[s].newer = {}
      /\ running0[s] # 0 /\ ContextOf[StackOf[s]] \notin blind
      => running[s] >= seen[s]

\* A token that expired in the shared cache never fails a check: only a token fetched for
\* the same request and refused at once does (doWithAuth).
StaleTokenNeverFails ==
  \A s \in Services : status[s].error = "unauthorized" => s \in fetched

\* What the comment of makeLocalDigestFunc promises: "a service whose image has been pulled but not yet
\* recreated still appears stale".  It does not hold when the containers cannot be listed.
StaleIsNeverHidden ==
  \A s \in inputs :
    job[s] = "done" /\ status[s].error = "noError" /\ ~status[s].stale /\ running0[s] # 0
    => running0[s] = seen[s]

\* After Ctrl-C the command returns, even when the registry never answers.
CancelReturns == cancelled ~> pc = "done"
=============================================================================
