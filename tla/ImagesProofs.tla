---------------------------- MODULE ImagesProofs ----------------------------
(***************************************************************************)
(* The image commands (module Images) and their requests (module           *)
(* Registry), for all services, stacks, files, repositories, tags and      *)
(* versions, any number of pages, pushes and expired tokens, and           *)
(* everything the commands can find.                                       *)
(*                                                                         *)
(* Three inductive invariants, each on top of the one before.              *)
(* RequestsInv: the types, the images are those of the compose files as    *)
(* they were found (InputsInv), requests belong to checks under way        *)
(* (JobsInv), a refused token was fetched for the request (TokenInv).      *)
(* ChecksInv: a digest that was read is one that the tag had (DigestInv),  *)
(* no page of the list of tags is skipped (ListInv) and what runs was read *)
(* from the container (LocalInv).                                          *)
(* ImagesInv: what runs is not newer than what is stored or in the         *)
(* registry (KnownInv), what the pull stores and runs (PullInv), and what  *)
(* each line of each file is after each rewriting (UpgradeInv).            *)
(***************************************************************************)
EXTENDS Images, WellFoundedInduction, TLAPS

\* A leaf goes to Zenon unless it names another prover.
USE ZenonT(60)

(***************************************************************************)
(* Where the command and its checks are.                                   *)
(***************************************************************************)
Asking == {"digest", "tags"}
After == {"rewrite", "pull", "up", "done"}

Answered == {"none", "ok", "notFound", "error", "unauthorized"}
Pages == [status : Answered, digest : Nat, tags : SUBSET Tags, next : Nat]
Statuses == [error : Answered \cup {"noError"}, stale : BOOLEAN, newer : SUBSET Tags]

\* The parts of the registry and of its client that the checks depend on.
ClientTypes ==
  /\ digests \in [Repos -> [Tags -> Nat]] /\ pushes \in Nat
  /\ at \in [Services -> {"idle", "lookup", "cached", "plain", "token", "retry", "answered"}]
  /\ reply \in [Services -> Pages]
  /\ DOMAIN url = Services

CommandTypes ==
  /\ pc \in {"inputs", "prefetch", "check"} \cup After /\ (pc # "done" => result = "none")
  /\ inputs \subseteq Services
  /\ pattern \in [Services -> SUBSET Tags]
  /\ line0 \in [Files -> [Services -> Refs \cup {NoLine}]]
  /\ running0 \in [Services -> Nat] /\ running \in [Services -> Nat]
  /\ stored \in [Contexts -> [Repos -> [Tags -> Nat]]]
  /\ local \in [Services -> Nat] /\ seen \in [Services -> Nat]
  /\ listed \in [Services -> SUBSET Tags]
  /\ status \in [Services -> Statuses]
  /\ job \in [Services -> {"none", "start", "done"} \cup Asking]

\* Images of the registry, without variables.
Literal == [repo : Repos, tag : Tags]

\* The services are read from the compose files once; their images do not change after that.
InputsInv ==
  /\ pc = "inputs" => inputs = {}
  /\ pc \notin {"inputs", "done"} \/ inputs # {} =>
       image = [s \in Services |-> ImageIn(line0, s)]
  /\ pc \in {"inputs", "prefetch", "check"} => line = line0
  /\ pc \in {"inputs", "prefetch", "check", "rewrite"} => running = running0
  /\ \A s \in inputs : image[s] \in Literal /\ image[s] # NoLine

\* A request is made only by a check under way, and all checks have ended when the command
\* goes on.
JobsInv ==
  /\ \A s \in Services : at[s] # "idle" => url[s] \in [path : Paths, from : Nat \ {0}]
  /\ \A s \in Services : job[s] \notin Asking => at[s] = "idle"
  /\ \A s \in Services : s \notin inputs => job[s] = "none"
  /\ pc \in {"inputs", "prefetch"} => \A s \in Services : job[s] = "none"
  /\ pc \in After => \A s \in inputs : job[s] = "done"

\* Only a token fetched for the request itself can be refused for good.
TokenInv ==
  \A s \in Services :
    /\ at[s] = "retry" => s \in fetched
    /\ at[s] = "answered" /\ reply[s].status = "unauthorized" => s \in fetched
    /\ status[s].error = "unauthorized" => s \in fetched
    /\ status[s].error # "noError" \/ status[s].newer # {} => job[s] = "done"

\* Where the page at hand ends.
PageEnd(r) == IF r.next = 0 THEN Len(TagOrder) + 1 ELSE r.next

\* All together.
RequestsInv == ClientTypes /\ CommandTypes /\ InputsInv /\ JobsInv /\ TokenInv

(***************************************************************************)
(* Finite sets have greatest elements                                      *)
(***************************************************************************)
\* Every nonempty set of natural numbers has a least element.
LEMMA LeastNatural ==
  ASSUME NEW T \in SUBSET Nat, T # {}
  PROVE  \E n \in T : \A m \in T : n <= m
<1>1. \E n \in T : \A m \in T : <<m, n>> \notin OpToRel(<, Nat)
  BY NatLessThanWellFounded, WFMin
<1>2. PICK n \in T : \A m \in T : <<m, n>> \notin OpToRel(<, Nat)
  BY <1>1
<1>3. ASSUME NEW m \in T, m < n PROVE FALSE
  <2>1. <<m, n>> \in OpToRel(<, Nat)
    BY SMTT(30), <1>3 DEF OpToRel
  <2> QED BY <1>2, <2>1
<1> QED BY SMTT(30), <1>3

\* The elements of S are among g[1], ..., g[n], and f gives each of them a natural number.
Listed(S, f, g, n) == \A x \in S : f[x] \in Nat /\ \E i \in 1 .. n : x = g[i]

\* A nonempty set that can be listed has an element with the greatest value.
LEMMA GreatestExists ==
  ASSUME NEW n \in Nat, NEW g, NEW f, NEW S, S # {}, Listed(S, f, g, n)
  PROVE  \E x \in S : \A y \in S : f[y] <= f[x]
<1> DEFINE Bad(U) == U # {} /\ ~\E x \in U : \A y \in U : f[y] <= f[x]
           T == {k \in Nat : \E U : Bad(U) /\ Listed(U, f, g, k)}
<1>1. SUFFICES ASSUME T # {} PROVE FALSE
  OBVIOUS
<1>2. PICK k \in T : \A m \in T : k <= m
  BY <1>1, LeastNatural
<1>3. PICK U : Bad(U) /\ Listed(U, f, g, k)
  BY <1>2
<1>4. k \in Nat /\ k # 0
  BY SMTT(30), <1>2, <1>3 DEF Listed
<1> DEFINE V == U \ {g[k]}
<1>5. Listed(V, f, g, k - 1)
  <2>1. ASSUME NEW x \in V PROVE f[x] \in Nat /\ \E i \in 1 .. k - 1 : x = g[i]
    <3>1. PICK i \in 1 .. k : x = g[i]
      BY <1>3 DEF Listed
    <3>2. i \in 1 .. k - 1
      BY SMTT(30), <1>4, <3>1
    <3> QED BY <1>3, <3>1, <3>2 DEF Listed
  <2> QED BY <2>1 DEF Listed
<1>6. CASE V = {}
  BY SMTT(30), <1>3, <1>6 DEF Listed
<1>7. CASE V # {}
  <2>1. k - 1 \in Nat /\ k - 1 \notin T
    <3> HIDE DEF T
    <3> QED BY SMTT(30), <1>2, <1>4
  <2>2. PICK z \in V : \A y \in V : f[y] <= f[z]
    BY <1>5, <1>7, <2>1
  <2>3. \A y \in U : y = g[k] \/ y \in V
    BY SMTT(30)
  <2>4. ~\A y \in U : f[y] <= f[z]
    BY <1>3, <2>2
  <2>5. g[k] \in U /\ ~(f[g[k]] <= f[z])
    BY <2>2, <2>3, <2>4
  <2>6. f[g[k]] \in Nat /\ f[z] \in Nat
    BY <1>3, <2>2, <2>5 DEF Listed
  <2>7. \A y \in U : f[y] <= f[g[k]]
    BY SMTT(30), <1>3, <2>2, <2>3, <2>5, <2>6 DEF Listed
  <2> QED BY <1>3, <2>5, <2>7
<1> QED BY <1>6, <1>7

\* The image of a service is a reference without variables.
LEMMA ImageIsLiteral ==
  ASSUME NEW lines \in [Files -> [Services -> Refs \cup {NoLine}]], NEW s \in Services,
         ImageIn(lines, s) # NoLine
  PROVE  ImageIn(lines, s) \in Literal
<1> DEFINE files == FilesOf[StackOf[s]]
           given == {k \in DOMAIN files : lines[files[k]][s] # NoLine}
           last == CHOOSE k \in given : \A j \in given : j <= k
           ref == lines[files[last]][s]
<1>1. files \in Seq(Files)
  BY StacksAssumption
<1>2. given # {}
  BY DEF ImageIn
<1>3. last \in given
  <2> DEFINE id == [k \in 1 .. Len(files) |-> k]
  <2>1. Len(files) \in Nat
    BY SMTT(30), <1>1
  <2>2. \A k \in given : id[k] = k /\ id[k] \in Nat /\ k \in 1 .. Len(files)
    BY SMTT(30), <1>1
  <2> HIDE DEF id, given, files
  <2>3. Listed(given, id, id, Len(files))
    BY SMTT(30), <2>2 DEF Listed
  <2>4. \E k \in given : \A j \in given : id[j] <= id[k]
    BY <1>2, <2>1, <2>3, GreatestExists
  <2> QED BY <2>2, <2>4
<1>4. ref \in Refs
  <2> HIDE DEF last, files
  <2>1. files[last] \in Files /\ ref # NoLine
    BY SMTT(30), <1>1, <1>3
  <2> QED BY <2>1
<1>5. ImageIn(lines, s) = IF ref.tag = Var THEN [ref EXCEPT !.tag = EnvTag] ELSE ref
  BY <1>2 DEF ImageIn
<1> QED BY <1>4, <1>5, TagsAssumption DEF Refs, Literal

(***************************************************************************)
(* What the steps do                                                       *)
(***************************************************************************)
\* A step of doWithAuth moves one request on, or answers it.
LEMMA RequestStep ==
  ASSUME NEW s \in Services, Request(s)
  PROVE  /\ at[s] \in {"lookup", "cached", "plain", "token", "retry"}
         /\ fetched \subseteq fetched' /\ fetched' \subseteq fetched \cup {s}
         /\ \/ \E w \in {"cached", "plain", "token", "retry"} :
                 /\ at' = [at EXCEPT ![s] = w] /\ reply' = reply
                 /\ w = "retry" => s \in fetched'
            \/ \E r : /\ at' = [at EXCEPT ![s] = "answered"] /\ reply' = [reply EXCEPT ![s] = r]
                      /\ \/ r \in Answers(s) \/ r = Failure("error")
                         \/ r = Failure("unauthorized") /\ at[s] = "retry"
         /\ UNCHANGED <<registry, cancelled, url>>
         /\ UNCHANGED <<config, disk, daemon, check, pc, result, queue, changes>>
<1>1. UNCHANGED <<config, disk, daemon, check, pc, result, queue, changes>> /\ DoWithAuth(s)
  BY SMTT(30) DEF Request
<1>2. CASE Lookup(s)
  BY <1>1, <1>2 DEF Lookup
<1>3. CASE WithCachedToken(s)
  BY <1>1, <1>3 DEF WithCachedToken, Reply, StaleToken
<1>4. CASE WithoutToken(s)
  BY <1>1, <1>4 DEF WithoutToken, Reply
<1>5. CASE FetchToken(s)
  BY <1>1, <1>5 DEF FetchToken
<1>6. CASE Retry(s)
  BY <1>1, <1>6 DEF Retry, Reply
<1>7. CASE RequestFails(s)
  BY <1>1, <1>7 DEF RequestFails, Reply, Pending
<1> QED BY <1>1, <1>2, <1>3, <1>4, <1>5, <1>6, <1>7 DEF DoWithAuth

\* A failure is an answer too.
LEMMA FailurePages ==
  ASSUME NEW w \in Answered
  PROVE  Failure(w) \in Pages /\ Failure(w).status = w
<1>1. NoReply \in Pages
  BY SMTT(30) DEF NoReply, Pages, Answered
<1> QED BY SMTT(30), <1>1 DEF Failure, Pages

\* What the registry answers.
LEMMA AnswersAre ==
  ASSUME ClientTypes, NEW s \in Services, url[s] \in [path : Paths, from : Nat \ {0}],
         NEW r \in Answers(s)
  PROVE  /\ r \in Pages /\ r.status \in {"ok", "notFound"}
         /\ url[s].path[2] # AllTags /\ r.status = "ok" =>
              /\ r.digest = digests[url[s].path[1]][url[s].path[2]] /\ r.digest # 0
         /\ url[s].path[2] = AllTags =>
              \A i \in DOMAIN TagOrder :
                url[s].from <= i /\ i < PageEnd(r) /\ digests[url[s].path[1]][TagOrder[i]] # 0
                => TagOrder[i] \in r.tags
<1> DEFINE repo == url[s].path[1]
           path == url[s].path[2]
           from == url[s].from
<1>1. repo \in Repos /\ path \in Tags \cup {AllTags} /\ from \in Nat \ {0}
  BY DEF Paths
<1>2. Len(TagOrder) \in Nat /\ DOMAIN TagOrder = 1 .. Len(TagOrder)
      /\ \A i \in DOMAIN TagOrder : TagOrder[i] \in Tags
  BY SMTT(30), TagsAssumption DEF Tags
<1>3. CASE path = AllTags
  <2>1. PICK to \in from .. Len(TagOrder) : r = Page(repo, from, to)
    BY <1>3 DEF Answers
  <2>2. r = [status |-> "ok", digest |-> 0,
             tags |-> {TagOrder[i] : i \in {k \in from .. to : digests[repo][TagOrder[k]] # 0}},
             next |-> IF to < Len(TagOrder) THEN to + 1 ELSE 0]
    BY <2>1 DEF Page, NoReply
  <2> HIDE DEF repo, path, from
  <2>3. r.tags \subseteq Tags
    BY SMTT(30), <1>1, <1>2, <2>2
  <2>4. r \in Pages /\ r.status = "ok" /\ PageEnd(r) = to + 1
    <3>1. r.next \in Nat /\ PageEnd(r) = to + 1
      BY SMTT(30), <1>1, <1>2, <2>2 DEF PageEnd
    <3>2. r.status = "ok" /\ \E tags \in SUBSET Tags, next \in Nat :
                               r = [status |-> "ok", digest |-> 0, tags |-> tags, next |-> next]
      BY <2>2, <2>3, <3>1
    <3>3. r \in Pages
      BY SMTT(30), <3>2 DEF Pages, Answered
    <3> QED BY <3>1, <3>2, <3>3
  <2>5. ASSUME NEW i \in DOMAIN TagOrder, from <= i, i < to + 1, digests[repo][TagOrder[i]] # 0
        PROVE  TagOrder[i] \in r.tags
    BY SMTT(30), <1>1, <1>2, <2>2, <2>5
  <2> QED BY <1>3, <2>4, <2>5 DEF repo, path, from
<1>4. CASE path # AllTags
  <2>1. r = Manifest(repo, path) /\ path \in Tags
    BY <1>1, <1>4 DEF Answers
  <2>2. digests[repo][path] \in Nat
    BY SMTT(30), <1>1, <2>1 DEF ClientTypes
  <2> HIDE DEF repo, path, from
  <2>3. r.status \in {"ok", "notFound"}
        /\ (r.status = "ok" => r.digest = digests[repo][path] /\ r.digest # 0)
    BY <2>1 DEF Manifest, NoReply, Failure
  <2>4. r \in Pages
    BY <2>1, <2>2, FailurePages DEF Manifest, NoReply, Pages, Answered
  <2> QED BY <1>4, <2>3, <2>4 DEF repo, path, from
<1> QED BY <1>3, <1>4

\* Pushes go on from what is there, and a tag that was there before any push stays so.
LEMMA RegistryGrows ==
  ASSUME ClientTypes, [Next]_vars
  PROVE  /\ digests' \in [Repos -> [Tags -> Nat]] /\ pushes' \in Nat
         /\ \A r \in Repos, t \in Tags :
              /\ digests'[r][t] >= digests[r][t]
              /\ digests'[r][t] > pushes' => digests[r][t] > pushes
              /\ digests'[r][t] # digests[r][t] => <<r, t>> \in Pushable
<1>1. CASE UNCHANGED registry
  BY SMTT(30), <1>1 DEF registry, ClientTypes
<1>2. ASSUME NEW r \in Repos, NEW t \in Tags, Push(r, t)
      PROVE  /\ digests' \in [Repos -> [Tags -> Nat]] /\ pushes' \in Nat
             /\ \A q \in Repos, u \in Tags :
                  /\ digests'[q][u] >= digests[q][u]
                  /\ digests'[q][u] > pushes' => digests[q][u] > pushes
                  /\ digests'[q][u] # digests[q][u] => <<q, u>> \in Pushable
  <2>1. pushes' = pushes + 1 /\ pushes \in Nat /\ digests \in [Repos -> [Tags -> Nat]]
        /\ <<r, t>> \in Pushable
    BY <1>2 DEF Push, ClientTypes
  <2>2. digests' = [digests EXCEPT ![r] = [digests[r] EXCEPT ![t] = digests[r][t] + 1]]
    BY <1>2 DEF Push
  <2>3. \A q \in Repos, u \in Tags :
          digests'[q][u] = IF q = r /\ u = t THEN digests[q][u] + 1 ELSE digests[q][u]
    BY <2>1, <2>2
  <2>4. digests' \in [Repos -> [Tags -> Nat]]
    BY SMTT(30), <2>1, <2>2
  <2>5. ASSUME NEW q \in Repos, NEW u \in Tags
        PROVE  /\ digests'[q][u] >= digests[q][u]
               /\ digests'[q][u] > pushes' => digests[q][u] > pushes
               /\ digests'[q][u] # digests[q][u] => <<q, u>> \in Pushable
    <3>1. digests[q][u] \in Nat
      BY <2>1
    <3>2. CASE q = r /\ u = t
      <4>1. digests'[q][u] = digests[q][u] + 1
        BY <2>3, <3>2
      <4>2. <<q, u>> \in Pushable
        BY <2>1, <3>2
      <4> QED BY SMTT(30), <2>1, <3>1, <4>1, <4>2
    <3>3. CASE ~(q = r /\ u = t)
      <4>1. digests'[q][u] = digests[q][u]
        BY <2>3, <3>3
      <4> QED BY SMTT(30), <2>1, <3>1, <4>1
    <3> QED BY <3>2, <3>3
  <2>6. pushes' \in Nat
    BY SMTT(30), <2>1
  <2> QED BY <2>4, <2>5, <2>6
<1>3. CASE World
  <2>1. CASE Expire \/ Cancel
    BY SMTT(30), <1>1, <2>1 DEF Expire, Cancel, registry, ClientTypes
  <2> QED BY <1>2, <1>3, <2>1 DEF World
<1>4. Command => UNCHANGED registry
  BY DEF Command, BuildCheckInputs, PrefetchLocalDigests, AfterCheck, RewriteImage,
         UpgradeReturns, ComposePull, ComposeUp, PullReturns
<1>5. ASSUME NEW s \in Services, Goroutine(s) \/ Request(s) PROVE UNCHANGED registry
  BY <1>5, RequestStep DEF Goroutine, CheckImage, DigestAnswered, TagsAnswered
<1>6. Terminated \/ UNCHANGED vars => UNCHANGED registry
  BY DEF Terminated, vars
<1> QED BY <1>1, <1>3, <1>4, <1>5, <1>6 DEF Next

\* Only the registry changes under the feet of the command.
LEMMA WorldStep ==
  ASSUME World \/ Terminated \/ UNCHANGED vars
  PROVE  /\ UNCHANGED client /\ UNCHANGED <<config, disk, daemon, check, pc, result, queue, changes>>
         /\ World => pc # "done"
<1>1. CASE World
  BY <1>1 DEF World, Expire, Cancel, Push
<1>2. CASE Terminated \/ UNCHANGED vars
  BY <1>2 DEF Terminated, vars, World
<1> QED BY <1>1, <1>2

\* The command itself makes no request, and its steps after the checks leave their results.
LEMMA CommandStep ==
  ASSUME Command
  PROVE  /\ UNCHANGED <<registry, cancelled, client, config>>
         /\ BuildCheckInputs \/ PrefetchLocalDigests \/ UNCHANGED check
BY DEF Command, BuildCheckInputs, PrefetchLocalDigests, AfterCheck, RewriteImage,
       UpgradeReturns, ComposePull, ComposeUp, PullReturns

\* A check changes its own state only.
LEMMA GoroutineStep ==
  ASSUME NEW s \in Services, Goroutine(s)
  PROVE  UNCHANGED <<registry, cancelled, config, disk, daemon, inputs, image, blind, local, pc,
                     result, queue, changes, cache>>
BY DEF Goroutine, CheckImage, DigestAnswered, TagsAnswered, Send, Release

\* Each stack has a context.
LEMMA ContextKnown == \A s \in Services : ContextOf[StackOf[s]] \in Contexts
BY StacksAssumption DEF Contexts, Range

\* The digest of a stored image is a number.
LEMMA StoredIsNat ==
  ASSUME CommandTypes, NEW s \in Services, image[s] \in Literal
  PROVE  StoredDigest(s) \in Nat
BY SMTT(30), ContextKnown DEF CommandTypes, StoredDigest, Literal

\* The types of registry and client are kept.
LEMMA ClientTypesKept ==
  ASSUME ClientTypes, CommandTypes, JobsInv, [Next]_vars
  PROVE  ClientTypes'
<1>1. digests' \in [Repos -> [Tags -> Nat]] /\ pushes' \in Nat
  BY RegistryGrows
<1>2. CASE UNCHANGED client
  BY <1>1, <1>2 DEF ClientTypes, client
<1>3. ASSUME NEW s \in Services, Goroutine(s) PROVE ClientTypes'
  <2>1. \/ Send(s, image[s].repo, image[s].tag, 1) \/ Send(s, image[s].repo, AllTags, 1)
        \/ Send(s, image[s].repo, AllTags, NextLink(reply[s])) \/ Release(s)
    BY <1>3 DEF Goroutine, CheckImage, DigestAnswered, TagsAnswered
  <2>2. NoReply \in Pages
    BY SMTT(30) DEF NoReply, Pages, Answered
  <2> QED BY <1>1, <2>1, <2>2 DEF Send, Release, ClientTypes
<1>4. ASSUME NEW s \in Services, Request(s) PROVE ClientTypes'
  <2>1. url[s] \in [path : Paths, from : Nat \ {0}]
    BY <1>4, RequestStep DEF JobsInv
  <2>2. \A r : r \in Answers(s) \/ r = Failure("error") \/ r = Failure("unauthorized") => r \in Pages
    BY <2>1, AnswersAre, FailurePages DEF Answered
  <2>3. url' = url
    BY <1>4, RequestStep
  <2>4. CASE \E w \in {"cached", "plain", "token", "retry"} : at' = [at EXCEPT ![s] = w] /\ reply' = reply
    BY <1>1, <2>3, <2>4 DEF ClientTypes
  <2>5. CASE \E r \in Pages : at' = [at EXCEPT ![s] = "answered"] /\ reply' = [reply EXCEPT ![s] = r]
    BY <1>1, <2>3, <2>5 DEF ClientTypes
  <2> QED BY <1>4, <2>2, <2>4, <2>5, RequestStep
<1> QED BY <1>2, <1>3, <1>4, WorldStep, CommandStep DEF Next

\* What a check writes has its type.
LEMMA CheckTypesKept ==
  ASSUME ClientTypes, CommandTypes, NEW s \in Services, Goroutine(s)
  PROVE  CommandTypes'
<1>1. /\ reply[s] \in Pages /\ status[s] \in Statuses /\ listed[s] \in SUBSET Tags
      /\ pattern[s] \in SUBSET Tags
  BY DEF ClientTypes, CommandTypes
<1>2. /\ job' \in [Services -> {"none", "start", "done"} \cup Asking]
      /\ seen' \in [Services -> Nat] /\ listed' \in [Services -> SUBSET Tags]
  <2>1. CASE CheckImage(s)
    BY <2>1 DEF CheckImage, Asking, CommandTypes
  <2>2. CASE DigestAnswered(s)
    BY <1>1, <2>2 DEF DigestAnswered, Finish, Asking, CommandTypes, Pages
  <2>3. CASE TagsAnswered(s)
    <3>1. \/ listed' = [listed EXCEPT ![s] = {}]
          \/ listed' = [listed EXCEPT ![s] = listed[s] \cup reply[s].tags]
      BY <2>3 DEF TagsAnswered
    <3>2. listed' \in [Services -> SUBSET Tags]
      BY SMTT(30), <1>1, <3>1 DEF CommandTypes, Pages
    <3>3. seen' = seen /\ (job' = job \/ job' = [job EXCEPT ![s] = "done"])
      BY <2>3 DEF TagsAnswered, Finish
    <3> QED BY <3>2, <3>3 DEF CommandTypes
  <2> QED BY <2>1, <2>2, <2>3 DEF Goroutine
<1>3. status' \in [Services -> Statuses]
  <2>1. CASE CheckImage(s)
    BY <2>1 DEF CheckImage, CommandTypes
  <2>2. ASSUME NEW e \in Answered PROVE [status EXCEPT ![s].error = e] \in [Services -> Statuses]
    BY <1>1, <2>2 DEF CommandTypes, Statuses
  <2>3. ASSUME NEW b \in BOOLEAN PROVE [status EXCEPT ![s].stale = b] \in [Services -> Statuses]
    BY <1>1 DEF CommandTypes, Statuses
  <2>4. ASSUME NEW T \in SUBSET Tags PROVE [status EXCEPT ![s].newer = T] \in [Services -> Statuses]
    BY <1>1 DEF CommandTypes, Statuses
  <2>5. reply[s].status \in Answered /\ Stale(s, reply[s].digest) \in BOOLEAN
    BY <1>1 DEF Pages, Stale
  <2>6. findNewerTags(s, listed[s] \cup reply[s].tags) \in SUBSET Tags
    BY <1>1 DEF findNewerTags, Pages
  <2>7. CASE DigestAnswered(s)
    BY <2>2, <2>3, <2>5, <2>7 DEF DigestAnswered
  <2>8. CASE TagsAnswered(s)
    BY <2>2, <2>4, <2>5, <2>6, <2>8 DEF TagsAnswered, CommandTypes
  <2> QED BY <2>1, <2>7, <2>8 DEF Goroutine
<1> QED BY <1>2, <1>3, GoroutineStep DEF CommandTypes, config, disk, daemon

\* What is pulled, and what runs after a recreation, are digests.
LEMMA DaemonTypes ==
  ASSUME ClientTypes, CommandTypes, InputsInv, pc \in {"pull", "up"}
  PROVE  /\ \A ss : Pulled(ss) \in [Contexts -> [Repos -> [Tags -> Nat]]]
         /\ \A s \in Services : image[s] # NoLine => image[s] \in Literal
         /\ \A images \in [Contexts -> [Repos -> [Tags -> Nat]]] :
              \A st : \A part \in SUBSET InStack(st) : Up(part, images) \in [Services -> Nat]
<1>1. ASSUME NEW ss PROVE Pulled(ss) \in [Contexts -> [Repos -> [Tags -> Nat]]]
  BY SMTT(30) DEF Pulled, ClientTypes, CommandTypes
<1>2. \A s \in Services : image[s] # NoLine => image[s] \in Literal
  BY ImageIsLiteral DEF InputsInv, CommandTypes
<1>3. ASSUME NEW images \in [Contexts -> [Repos -> [Tags -> Nat]]], NEW st,
             NEW part \in SUBSET InStack(st), NEW s \in part
      PROVE  images[ContextOf[StackOf[s]]][image[s].repo][image[s].tag] \in Nat
  BY SMTT(30), <1>2, ContextKnown DEF InStack, Literal
<1>4. ASSUME NEW images \in [Contexts -> [Repos -> [Tags -> Nat]]], NEW st,
             NEW part \in SUBSET InStack(st)
      PROVE  Up(part, images) \in [Services -> Nat]
  BY <1>3 DEF Up, CommandTypes
<1> QED BY <1>1, <1>2, <1>4

\* The types of the command are kept.
LEMMA CommandTypesKept ==
  ASSUME ClientTypes, CommandTypes, InputsInv, [Next]_vars
  PROVE  CommandTypes'
<1>1. CASE UNCHANGED <<config, disk, daemon, check, pc, result, queue, changes>>
  BY <1>1 DEF CommandTypes, config, disk, daemon, check
<1>2. CASE BuildCheckInputs
  <2>1. inputs' \subseteq Services
    BY <1>2 DEF BuildCheckInputs, filterInputsByServices, WithImage, CommandTypes, check
  <2>2. pc' \in {"prefetch", "done"} /\ (pc' # "done" => result' = "none")
    BY <1>2 DEF BuildCheckInputs, Return, CommandTypes
  <2> QED BY <1>2, <2>1, <2>2 DEF BuildCheckInputs, CommandTypes, config, daemon, After
<1>3. CASE PrefetchLocalDigests
  <2>1. ASSUME NEW s \in inputs, NEW unlisted PROVE LocalDigest(s, unlisted) \in Nat
    BY StoredIsNat DEF LocalDigest, CommandTypes, InputsInv
  <2>2. local' \in [Services -> Nat]
    <3>1. PICK unlisted, unread :
            local' = [s \in Services |->
                        IF s \in inputs \ unread THEN LocalDigest(s, unlisted) ELSE 0]
      BY SMTT(30), <1>3 DEF PrefetchLocalDigests
    <3> QED BY <2>1, <3>1
  <2> QED BY <1>3, <2>2 DEF PrefetchLocalDigests, CommandTypes, config, daemon
<1>4. ASSUME NEW s \in Services, Goroutine(s) PROVE CommandTypes'
  BY <1>4, CheckTypesKept
<1>5. CASE AfterCheck
  BY <1>5 DEF AfterCheck, Return, After, CommandTypes, config, daemon, check
<1>6. CASE RewriteImage
  BY <1>6 DEF RewriteImage, Return, After, CommandTypes, config, daemon, check
<1>7. CASE UpgradeReturns \/ PullReturns
  BY <1>7 DEF UpgradeReturns, PullReturns, Return, After, CommandTypes, config, daemon, check
<1>8. CASE ComposePull
  <2>1. stored' \in [Contexts -> [Repos -> [Tags -> Nat]]]
    BY <1>8, DaemonTypes DEF ComposePull
  <2>2. pc' \in {"pull", "up", "done"} /\ (pc' # "done" => result' = "none")
    BY <1>8 DEF ComposePull, Return, CommandTypes
  <2> QED BY <1>8, <2>1, <2>2 DEF ComposePull, CommandTypes, After, config, check
<1>9. CASE ComposeUp
  <2>1. stored' \in [Contexts -> [Repos -> [Tags -> Nat]]]
    BY <1>9, DaemonTypes DEF ComposeUp
  <2>2. running' \in [Services -> Nat]
    BY SMTT(30), <1>9, <2>1, DaemonTypes DEF ComposeUp
  <2>3. pc' \in {"pull", "done"} /\ (pc' # "done" => result' = "none")
    BY <1>9 DEF ComposeUp, Return, CommandTypes
  <2> QED BY <1>9, <2>1, <2>2, <2>3 DEF ComposeUp, CommandTypes, After, config, check
<1> QED BY <1>1, <1>2, <1>3, <1>4, <1>5, <1>6, <1>7, <1>8, <1>9, WorldStep, RequestStep
        DEF Next, Command

\* A check changes nothing of the others.
LEMMA OthersUntouched ==
  ASSUME ClientTypes, CommandTypes, NEW s \in Services, Goroutine(s), NEW u \in Services, u # s
  PROVE  /\ job'[u] = job[u] /\ status'[u] = status[u] /\ seen'[u] = seen[u]
         /\ listed'[u] = listed[u] /\ at'[u] = at[u] /\ url'[u] = url[u] /\ reply'[u] = reply[u]
         /\ u \in fetched' <=> u \in fetched
<1>1. CASE CheckImage(s)
  BY <1>1 DEF CheckImage, Send, ClientTypes, CommandTypes
<1>2. CASE DigestAnswered(s)
  BY <1>2 DEF DigestAnswered, Send, Release, Finish, ClientTypes, CommandTypes
<1>3. CASE TagsAnswered(s)
  BY <1>3 DEF TagsAnswered, Send, Release, Finish, ClientTypes, CommandTypes
<1> QED BY <1>1, <1>2, <1>3 DEF Goroutine

\* A check goes on with a request for a path of its repository.
Asks(s, what, path, from) ==
  /\ job'[s] = what /\ at'[s] = "lookup" /\ s \notin fetched'
  /\ url'[s] = [path |-> <<image[s].repo, path>>, from |-> from]

\* What it is to ask.
LEMMA AsksMeans ==
  ASSUME NEW s, NEW what, NEW path, NEW from, Asks(s, what, path, from)
  PROVE  /\ job'[s] = what /\ at'[s] = "lookup" /\ s \notin fetched'
         /\ url'[s].path = <<image[s].repo, path>> /\ url'[s].from = from
BY SMTT(30) DEF Asks

\* A check ends.
Ends(s) == job'[s] = "done" /\ at'[s] = "idle" /\ fetched' = fetched

\* The code asks with Send and ends with Release.
LEMMA AsksWhenSent ==
  ASSUME ClientTypes, CommandTypes, NEW s \in Services, NEW what, NEW path, NEW from,
         Send(s, image[s].repo, path, from), job' = [job EXCEPT ![s] = what]
  PROVE  Asks(s, what, path, from)
BY DEF Asks, Send, ClientTypes, CommandTypes

\* A finished check releases its request.
LEMMA EndsWhenFinished ==
  ASSUME ClientTypes, CommandTypes, NEW s \in Services, Finish(s), Release(s)
  PROVE  Ends(s)
BY DEF Ends, Finish, Release, ClientTypes, CommandTypes

\* The first request is for the digest of the image.
LEMMA CheckImageStep ==
  ASSUME ClientTypes, CommandTypes, NEW s \in Services, CheckImage(s)
  PROVE  /\ job[s] = "start" /\ Asks(s, "digest", image[s].tag, 1)
         /\ UNCHANGED <<status, seen, listed, reply>>
BY AsksWhenSent DEF CheckImage, Send

\* With the digest at hand the check asks for the tags when it has a pattern to match.
LEMMA DigestStep ==
  ASSUME ClientTypes, CommandTypes, NEW s \in Services, DigestAnswered(s)
  PROVE  /\ job[s] = "digest" /\ at[s] = "answered" /\ listed' = listed
         /\ status'[s].newer = status[s].newer
         /\ \/ /\ reply[s].status # "ok" /\ status'[s].error = reply[s].status
               /\ Ends(s)
            \/ /\ reply[s].status = "ok" /\ status'[s].error = status[s].error
               /\ seen'[s] = reply[s].digest /\ status'[s].stale = Stale(s, reply[s].digest)
               /\ \/ WantsTags(s) /\ Asks(s, "tags", AllTags, 1)
                  \/ ~WantsTags(s) /\ Ends(s)
<1>1. status[s] \in Statuses /\ DOMAIN status = Services
  BY DEF CommandTypes
<1>2. CASE reply[s].status # "ok"
  BY <1>1, <1>2, EndsWhenFinished DEF DigestAnswered, Statuses
<1>3. CASE reply[s].status = "ok"
  <2>1. /\ seen' = [seen EXCEPT ![s] = reply[s].digest]
        /\ status' = [status EXCEPT ![s].stale = Stale(s, reply[s].digest)]
    BY <1>3 DEF DigestAnswered
  <2>2. \/ WantsTags(s) /\ Asks(s, "tags", AllTags, 1)
        \/ ~WantsTags(s) /\ Ends(s)
    BY <1>3, AsksWhenSent, EndsWhenFinished DEF DigestAnswered
  <2>3. seen'[s] = reply[s].digest
    BY <2>1 DEF CommandTypes
  <2>4. /\ status'[s].error = status[s].error /\ status'[s].newer = status[s].newer
        /\ status'[s].stale = Stale(s, reply[s].digest)
    BY <1>1, <2>1 DEF Statuses
  <2> QED BY <1>3, <2>2, <2>3, <2>4 DEF DigestAnswered
<1> QED BY <1>2, <1>3

\* A page is added to those before; with the last one the check ends.
LEMMA TagsStep ==
  ASSUME ClientTypes, CommandTypes, NEW s \in Services, TagsAnswered(s)
  PROVE  /\ job[s] = "tags" /\ at[s] = "answered" /\ seen' = seen
         /\ status'[s].stale = status[s].stale
         /\ \/ /\ reply[s].status # "ok" /\ status'[s].error = reply[s].status
               /\ status'[s].newer = status[s].newer /\ Ends(s)
            \/ /\ reply[s].status = "ok" /\ reply[s].next # 0 /\ status' = status
               /\ listed'[s] = listed[s] \cup reply[s].tags
               /\ Asks(s, "tags", AllTags, reply[s].next)
            \/ /\ reply[s].status = "ok" /\ reply[s].next = 0 /\ status'[s].error = status[s].error
               /\ status'[s].newer = findNewerTags(s, listed[s] \cup reply[s].tags) /\ Ends(s)
<1>1. status[s] \in Statuses /\ DOMAIN status = Services /\ DOMAIN listed = Services
  BY DEF CommandTypes
<1>2. CASE reply[s].status # "ok"
  BY SMTT(30), <1>1, <1>2, EndsWhenFinished DEF TagsAnswered, Statuses
<1>3. CASE reply[s].status = "ok" /\ reply[s].next # 0
  <2>1. job' = [job EXCEPT ![s] = "tags"]
    BY <1>3 DEF TagsAnswered, NextLink, CommandTypes
  <2>2. Asks(s, "tags", AllTags, reply[s].next)
    BY <1>3, <2>1, AsksWhenSent DEF TagsAnswered, NextLink
  <2> QED BY <1>1, <1>3, <2>2 DEF TagsAnswered, NextLink
<1>4. CASE reply[s].status = "ok" /\ reply[s].next = 0
  <2>1. Ends(s)
    BY <1>4, EndsWhenFinished DEF TagsAnswered, NextLink
  <2>2. status' = [status EXCEPT ![s].newer = findNewerTags(s, listed[s] \cup reply[s].tags)]
    BY <1>4 DEF TagsAnswered, NextLink
  <2>3. /\ status'[s].error = status[s].error /\ status'[s].stale = status[s].stale
        /\ status'[s].newer = findNewerTags(s, listed[s] \cup reply[s].tags)
    BY <1>1, <2>2 DEF Statuses
  <2> QED BY <1>4, <2>1, <2>3 DEF TagsAnswered
<1> QED BY <1>2, <1>3, <1>4

\* The images are those of the compose files as they were found.
LEMMA InputsKept ==
  ASSUME CommandTypes, InputsInv, [Next]_vars
  PROVE  InputsInv'
<1>1. CASE UNCHANGED <<config, disk, daemon, inputs, image, pc>>
  BY <1>1 DEF InputsInv, config, disk, daemon
<1>2. CASE BuildCheckInputs
  <2>1. line0' = line0 /\ running0' = running0 /\ line' = line /\ running' = running /\ pc = "inputs"
    BY <1>2 DEF BuildCheckInputs, config, disk, daemon
  <2>2. CASE pc' = "done" /\ UNCHANGED <<inputs, image>>
    BY <2>1, <2>2 DEF InputsInv
  <2>3. CASE /\ inputs' = filterInputsByServices(WithImage, opt.named)
             /\ image' = [s \in Services |-> ImageOf(s)] /\ pc' = "prefetch"
    <3>1. image' = [s \in Services |-> ImageIn(line0, s)]
      BY <2>1, <2>3 DEF InputsInv, ImageOf
    <3>2. \A s \in inputs' : s \in Services /\ image'[s] # NoLine
      BY <2>3 DEF filterInputsByServices, WithImage
    <3>3. \A s \in inputs' : image'[s] \in Literal /\ image'[s] # NoLine
      BY <3>1, <3>2, ImageIsLiteral DEF CommandTypes
    <3> QED BY <2>1, <2>3, <3>1, <3>3 DEF InputsInv
  <2> QED BY <1>2, <2>2, <2>3 DEF BuildCheckInputs, Return
<1>3. CASE PrefetchLocalDigests
  BY <1>3 DEF PrefetchLocalDigests, InputsInv, config, disk, daemon
<1>4. CASE AfterCheck
  BY <1>4 DEF AfterCheck, Return, InputsInv, config, disk, daemon, check
<1>5. CASE RewriteImage \/ UpgradeReturns
  BY <1>5 DEF RewriteImage, UpgradeReturns, Return, InputsInv, config, daemon, check
<1>6. CASE ComposePull \/ ComposeUp \/ PullReturns
  <2>1. pc \in {"pull", "up"} /\ pc' \in {"pull", "up", "done"} /\ UNCHANGED <<line0, inputs, image>>
    BY <1>6 DEF ComposePull, ComposeUp, PullReturns, Return, config, check
  <2> QED BY <2>1 DEF InputsInv
<1> QED BY <1>1, <1>2, <1>3, <1>4, <1>5, <1>6, GoroutineStep, RequestStep, WorldStep
        DEF Next, Command, check

\* Requests are made by checks under way, and the checks end before the command goes on.
LEMMA JobsKept ==
  ASSUME ClientTypes, CommandTypes, InputsInv, JobsInv, [Next]_vars
  PROVE  JobsInv'
<1>1. CASE UNCHANGED client /\ UNCHANGED <<inputs, job, pc>>
  BY <1>1 DEF JobsInv, client
<1>2. CASE BuildCheckInputs
  <2>1. UNCHANGED client /\ job' = job /\ pc = "inputs" /\ pc' \in {"prefetch", "done"}
    BY <1>2 DEF BuildCheckInputs, Return
  <2>2. pc' = "done" => inputs' = inputs
    BY <1>2 DEF BuildCheckInputs, Return
  <2> QED BY <2>1, <2>2 DEF JobsInv, InputsInv, client, After
<1>3. CASE PrefetchLocalDigests
  <2>1. UNCHANGED client /\ inputs' = inputs /\ pc = "prefetch" /\ pc' = "check"
        /\ job' = [s \in Services |-> IF s \in inputs THEN "start" ELSE "none"]
    BY <1>3 DEF PrefetchLocalDigests
  <2> QED BY <2>1 DEF JobsInv, CommandTypes, client, Asking, After
<1>4. CASE AfterCheck
  BY <1>4 DEF AfterCheck, Return, JobsInv, client, check, After
<1>5. CASE RewriteImage \/ UpgradeReturns \/ ComposePull \/ ComposeUp \/ PullReturns
  <2>1. pc \in After /\ pc' \in After /\ UNCHANGED client /\ UNCHANGED check
    BY <1>5, CommandStep
       DEF Command, RewriteImage, UpgradeReturns, ComposePull, ComposeUp, PullReturns, Return, After
  <2> QED BY <2>1 DEF JobsInv, client, check, After
<1>6. ASSUME NEW s \in Services, Request(s) PROVE JobsInv'
  <2>1. UNCHANGED <<job, inputs, pc, url>> /\ at[s] # "idle"
        /\ \E w : w # "idle" /\ at' = [at EXCEPT ![s] = w]
    BY <1>6, RequestStep DEF check
  <2> QED BY <2>1 DEF JobsInv, ClientTypes
<1>7. ASSUME NEW s \in Services, Goroutine(s) PROVE JobsInv'
  <2>1. s \in inputs /\ pc \notin {"inputs", "prefetch"} \cup After /\ UNCHANGED <<inputs, image, pc>>
    BY <1>7, GoroutineStep DEF Goroutine, CheckImage, DigestAnswered, TagsAnswered, JobsInv
  <2>2. image[s].repo \in Repos /\ image[s].tag \in Tags /\ reply[s].next \in Nat
    BY <2>1 DEF InputsInv, Literal, ClientTypes, Pages
  <2>3. \/ Ends(s) \/ Asks(s, "digest", image[s].tag, 1) \/ Asks(s, "tags", AllTags, 1)
        \/ reply[s].next # 0 /\ Asks(s, "tags", AllTags, reply[s].next)
    BY <1>7, CheckImageStep, DigestStep, TagsStep DEF Goroutine
  <2>4. ASSUME NEW what \in Asking, NEW path \in Tags \cup {AllTags}, NEW from \in Nat \ {0},
               Asks(s, what, path, from)
        PROVE  job'[s] \in Asking /\ url'[s] \in [path : Paths, from : Nat \ {0}]
    BY SMTT(30), <2>2, <2>4 DEF Asks, Paths
  <2>5. \/ job'[s] = "done" /\ at'[s] = "idle"
        \/ job'[s] \in Asking /\ url'[s] \in [path : Paths, from : Nat \ {0}]
    BY SMTT(30), <2>2, <2>3, <2>4 DEF Ends, Asking
  <2> QED BY SMTT(30), <1>7, <2>1, <2>5, OthersUntouched DEF JobsInv, Asking
<1> QED BY <1>1, <1>2, <1>3, <1>4, <1>5, <1>6, <1>7, WorldStep DEF Next, Command, check

\* A refused token is always one that was fetched for the request.
LEMMA TokensKept ==
  ASSUME ClientTypes, CommandTypes, JobsInv, TokenInv, [Next]_vars
  PROVE  TokenInv'
<1>1. CASE UNCHANGED client /\ UNCHANGED <<status, job>>
  BY <1>1 DEF TokenInv, client
<1>2. CASE PrefetchLocalDigests
  <2>1. UNCHANGED client /\ status' = status /\ \A s \in Services : job[s] = "none"
    BY <1>2 DEF PrefetchLocalDigests, JobsInv
  <2> QED BY <2>1 DEF TokenInv, client
<1>3. Command => PrefetchLocalDigests \/ (UNCHANGED client /\ UNCHANGED <<status, job>>)
  BY CommandStep DEF BuildCheckInputs, check
<1>4. ASSUME NEW s \in Services, Request(s) PROVE TokenInv'
  <2>1. url[s] \in [path : Paths, from : Nat \ {0}]
    BY <1>4, RequestStep DEF JobsInv
  <2>2. \A r \in Answers(s) : r.status # "unauthorized"
    BY <2>1, AnswersAre
  <2>3. Failure("error").status = "error"
    BY FailurePages DEF Answered
  <2>4. UNCHANGED <<status, job>>
    BY <1>4, RequestStep DEF check
  <2>5. ASSUME NEW w \in {"cached", "plain", "token", "retry"}, at' = [at EXCEPT ![s] = w],
               reply' = reply, w = "retry" => s \in fetched'
        PROVE  TokenInv'
    BY <1>4, <2>4, <2>5, RequestStep DEF TokenInv, ClientTypes
  <2>6. ASSUME NEW r, at' = [at EXCEPT ![s] = "answered"], reply' = [reply EXCEPT ![s] = r],
               r.status = "unauthorized" => at[s] = "retry"
        PROVE  TokenInv'
    BY <1>4, <2>4, <2>6, RequestStep DEF TokenInv, ClientTypes
  <2> QED BY SMTT(30), <1>4, <2>2, <2>3, <2>5, <2>6, RequestStep
<1>5. ASSUME NEW s \in Services, Goroutine(s) PROVE TokenInv'
  <2>1. status[s].error = "noError" /\ at'[s] \in {"idle", "lookup"}
    BY <1>5, CheckImageStep, DigestStep, TagsStep
       DEF Goroutine, Asks, Ends, TokenInv, CommandTypes, Asking
  <2>2. \/ status'[s].error = "noError"
        \/ /\ at[s] = "answered" /\ status'[s].error = reply[s].status /\ Ends(s)
    BY <1>5, <2>1, CheckImageStep, DigestStep, TagsStep DEF Goroutine
  <2>3. status'[s].newer = {} \/ Ends(s)
    BY <1>5, CheckImageStep, DigestStep, TagsStep DEF Goroutine, TokenInv
  <2>4. /\ status'[s].error = "unauthorized" => s \in fetched'
        /\ status'[s].error # "noError" \/ status'[s].newer # {} => job'[s] = "done"
    BY <2>2, <2>3 DEF Ends, TokenInv
  <2> QED BY SMTT(30), <1>5, <2>1, <2>4, OthersUntouched DEF TokenInv
<1> QED BY <1>1, <1>2, <1>3, <1>4, <1>5, WorldStep DEF Next, check

(***************************************************************************)
(* The invariant holds                                                     *)
(***************************************************************************)
\* What the command finds satisfies it.
LEMMA RequestsInit ==
  ASSUME Init
  PROVE  RequestsInv
<1>1. PICK sc \in Scenarios :
        /\ opt = sc.opt /\ pattern = sc.pattern /\ line = sc.line /\ line0 = sc.line
        /\ running = sc.running /\ running0 = sc.running /\ stored = sc.stored
        /\ digests = sc.digests /\ pushes = 0
  BY DEF Init
<1>2. CanBeFound(sc)
  BY SMTT(30), ScenariosAssumption
<1>3. /\ pc = "inputs" /\ result = "none" /\ inputs = {}
      /\ image = [s \in Services |-> NoLine] /\ local = [s \in Services |-> 0]
      /\ job = [s \in Services |-> "none"] /\ seen = [s \in Services |-> 0]
      /\ listed = [s \in Services |-> {}] /\ status = [s \in Services |-> NoStatus]
      /\ at = [s \in Services |-> "idle"] /\ reply = [s \in Services |-> NoReply]
      /\ DOMAIN url = Services
  BY DEF Init, InitClient, Services
<1>4. /\ line0 \in [Files -> [Services -> Refs \cup {NoLine}]] /\ pattern \in [Services -> SUBSET Tags]
      /\ running0 \in [Services -> Nat] /\ digests \in [Repos -> [Tags -> Nat]]
      /\ stored \in [Contexts -> [Repos -> [Tags -> Nat]]]
      /\ line = line0 /\ running = running0 /\ pushes \in Nat
  <2>1. /\ sc.line \in [Files -> [Services -> Refs \cup {NoLine}]]
        /\ sc.pattern \in [Services -> SUBSET Tags]
        /\ sc.running \in [Services -> Nat] /\ sc.digests \in [Repos -> [Tags -> Nat]]
        /\ sc.stored \in [Contexts -> [Repos -> [Tags -> Nat]]]
    BY <1>2 DEF CanBeFound
  <2> QED BY <1>1, <2>1
<1>5. NoReply \in Pages
  BY SMTT(30) DEF NoReply, Pages, Answered
<1>6. NoStatus \in Statuses /\ NoStatus.error = "noError" /\ NoStatus.newer = {}
  BY SMTT(30) DEF NoStatus, Statuses
<1>7. ClientTypes
  BY <1>3, <1>4, <1>5 DEF ClientTypes
<1>8. CommandTypes
  BY <1>3, <1>4, <1>6 DEF CommandTypes
<1>9. InputsInv
  BY <1>3, <1>4 DEF InputsInv
<1>10. JobsInv
  BY <1>3 DEF JobsInv, Asking, After
<1>11. TokenInv
  BY <1>3, <1>6 DEF TokenInv
<1> QED BY <1>7, <1>8, <1>9, <1>10, <1>11 DEF RequestsInv

\* Every step keeps it.
LEMMA RequestsStep ==
  ASSUME RequestsInv, [Next]_vars
  PROVE  RequestsInv'
<1>1. ClientTypes /\ CommandTypes /\ InputsInv /\ JobsInv /\ TokenInv
  BY SMTT(30) DEF RequestsInv
<1>2. ClientTypes' /\ CommandTypes' /\ InputsInv' /\ JobsInv' /\ TokenInv'
  BY <1>1, ClientTypesKept, CommandTypesKept, InputsKept, JobsKept, TokensKept
<1> QED BY <1>2 DEF RequestsInv

\* The inductive invariant of the requests.
THEOREM RequestsInvariance == Spec => []RequestsInv
<1>1. Init => RequestsInv
  BY SMTT(30), RequestsInit
<1>2. RequestsInv /\ [Next]_vars => RequestsInv'
  BY SMTT(30), RequestsStep
<1> QED BY <1>1, <1>2, PTL DEF Spec

\* A token that expired in the shared cache never fails a check: only a token fetched for
\* the same request and refused at once does (doWithAuth), for any services, number of
\* expirations and pushes.
THEOREM ExpiredTokensAreHarmless == Spec => []StaleTokenNeverFails
<1>1. RequestsInv => StaleTokenNeverFails
  BY DEF RequestsInv, TokenInv, StaleTokenNeverFails
<1> QED BY <1>1, RequestsInvariance, PTL


(***************************************************************************)
(* What the checks know.                                                   *)
(***************************************************************************)
\* The digest of the image of a service in the registry.
RemoteDigest(s) == digests[image[s].repo][image[s].tag]

\* A digest that was read is one that the tag had; pushes only go on from there.
Had(s, digest) == 0 < digest /\ digest <= RemoteDigest(s)

DigestInv ==
  \A s \in inputs :
    /\ job[s] = "digest" =>
         /\ url[s].path = <<image[s].repo, image[s].tag>>
         /\ at[s] = "answered" /\ reply[s].status = "ok" => Had(s, reply[s].digest)
    /\ job[s] = "tags" \/ (job[s] = "done" /\ status[s].error = "noError") =>
         Had(s, seen[s]) /\ (status[s].stale \/ seen[s] = local[s])

\* The tags before a place of the list that were there before any push have been read.
Covered(s, place, tags) ==
  \A i \in DOMAIN TagOrder :
    i < place /\ digests[image[s].repo][TagOrder[i]] > pushes => TagOrder[i] \in tags

\* No tag is skipped from one page to the next.
ListInv ==
  \A s \in inputs :
    /\ job[s] = "tags" =>
         /\ url[s].path = <<image[s].repo, AllTags>> /\ url[s].from \in Nat \ {0}
         /\ Covered(s, url[s].from, listed[s])
         /\ at[s] = "answered" /\ reply[s].status = "ok" =>
              Covered(s, PageEnd(reply[s]), listed[s] \cup reply[s].tags)
    /\ status[s].newer \subseteq findNewerTags(s, Tags)
    /\ job[s] = "done" /\ status[s].error = "noError" /\ WantsTags(s) =>
         \A t \in findNewerTags(s, Tags) :
           digests[image[s].repo][t] > pushes => t \in status[s].newer

\* What runs was read from the container where the containers could be listed.
LocalInv ==
  pc \notin {"inputs", "prefetch"} =>
    \A s \in inputs :
      running0[s] # 0 /\ ContextOf[StackOf[s]] \notin blind => local[s] = running0[s]

\* All together.
ChecksInv == RequestsInv /\ DigestInv /\ ListInv /\ LocalInv

\* The request under way belongs to a check of the inputs.
LEMMA RequestOfInput ==
  ASSUME JobsInv, CommandTypes, NEW s \in Services, Request(s)
  PROVE  /\ s \in inputs /\ job[s] \in Asking /\ url[s] \in [path : Paths, from : Nat \ {0}]
         /\ \A u \in Services \ {s} : ClientTypes => at'[u] = at[u] /\ reply'[u] = reply[u]
<1>1. at[s] # "idle"
  BY RequestStep
<1>2. s \in inputs /\ job[s] \in Asking /\ url[s] \in [path : Paths, from : Nat \ {0}]
  BY <1>1 DEF JobsInv, Asking
<1>3. ASSUME NEW u \in Services \ {s}, ClientTypes PROVE at'[u] = at[u] /\ reply'[u] = reply[u]
  BY SMTT(30), <1>3, RequestStep DEF ClientTypes
<1> QED BY <1>2, <1>3

\* The digests of the image of an input only grow.
LEMMA RemoteGrows ==
  ASSUME ClientTypes, CommandTypes, InputsInv, [Next]_vars, NEW s \in inputs, image' = image
  PROVE  /\ RemoteDigest(s) \in Nat /\ RemoteDigest(s)' \in Nat
         /\ RemoteDigest(s)' >= RemoteDigest(s)
<1>1. image[s].repo \in Repos /\ image[s].tag \in Tags
  BY DEF InputsInv, Literal
<1> QED BY <1>1, RegistryGrows DEF RemoteDigest, ClientTypes

\* An answer of the registry is what the request asked for.
LEMMA AnsweredOk ==
  ASSUME ClientTypes, NEW s \in Services, Request(s), at'[s] = "answered", reply'[s].status = "ok"
  PROVE  reply'[s] \in Answers(s)
<1>1. PICK r : reply' = [reply EXCEPT ![s] = r] /\ (r \in Answers(s) \/ r = Failure("error")
                                                 \/ r = Failure("unauthorized"))
  BY RequestStep DEF ClientTypes
<1>2. Failure("error").status # "ok" /\ Failure("unauthorized").status # "ok"
  BY FailurePages DEF Answered
<1> QED BY <1>1, <1>2 DEF ClientTypes

\* A digest that was read stays one that the tag had.
LEMMA DigestsKept ==
  ASSUME ClientTypes, CommandTypes, InputsInv, JobsInv, TokenInv, DigestInv, [Next]_vars
  PROVE  DigestInv'
<1> DEFINE Fine(s) ==
      /\ job[s] = "digest" =>
           /\ url[s].path = <<image[s].repo, image[s].tag>>
           /\ at[s] = "answered" /\ reply[s].status = "ok" => Had(s, reply[s].digest)
      /\ job[s] = "tags" \/ (job[s] = "done" /\ status[s].error = "noError") =>
           Had(s, seen[s]) /\ (status[s].stale \/ seen[s] = local[s])
<1>1. SUFFICES \A s \in inputs' : Fine(s)'
  BY DEF DigestInv
<1>2. \A s \in inputs : Fine(s)
  BY DEF DigestInv
<1>3. ASSUME NEW u \in inputs, image' = image, local' = local, job'[u] = job[u],
             url'[u] = url[u], at'[u] = at[u], reply'[u] = reply[u], seen'[u] = seen[u],
             status'[u] = status[u]
      PROVE  Fine(u)'
  <2>1. reply[u].digest \in Nat /\ seen[u] \in Nat
    BY DEF ClientTypes, CommandTypes, Pages
  <2>2. /\ RemoteDigest(u) \in Nat /\ RemoteDigest(u)' \in Nat
        /\ RemoteDigest(u)' >= RemoteDigest(u)
    BY <1>3, RemoteGrows
  <2>3. Had(u, reply[u].digest) => Had(u, reply[u].digest)'
    BY SMTT(30), <1>3, <2>1, <2>2 DEF Had
  <2>4. Had(u, seen[u]) => Had(u, seen[u])'
    BY SMTT(30), <1>3, <2>1, <2>2 DEF Had
  <2>5. Fine(u)
    BY <1>2
  <2> QED BY <1>3, <2>3, <2>4, <2>5
<1>4. CASE UNCHANGED client /\ UNCHANGED <<inputs, image, job, seen, status, local>>
  BY <1>3, <1>4 DEF client
<1>5. CASE BuildCheckInputs
  <2>1. \A s \in Services : job'[s] = "none"
    BY <1>5 DEF BuildCheckInputs, JobsInv
  <2>2. inputs' \subseteq Services
    BY CommandTypesKept DEF CommandTypes
  <2> QED BY <2>1, <2>2
<1>6. CASE PrefetchLocalDigests
  BY <1>6 DEF PrefetchLocalDigests, CommandTypes
<1>7. ASSUME NEW s \in Services, Request(s) PROVE \A u \in inputs' : Fine(u)'
  <2>1. UNCHANGED <<url, inputs, image, job, seen, status, local>>
    BY <1>7, RequestStep DEF check
  <2>2. s \in inputs /\ url[s] \in [path : Paths, from : Nat \ {0}]
        /\ \A u \in Services \ {s} : at'[u] = at[u] /\ reply'[u] = reply[u]
    BY <1>7, RequestOfInput
  <2>3. ASSUME job[s] = "digest", at'[s] = "answered", reply'[s].status = "ok"
        PROVE  0 < reply'[s].digest /\ reply'[s].digest <= RemoteDigest(s)'
    <3>1. url[s].path = <<image[s].repo, image[s].tag>>
      BY <1>2, <2>2, <2>3
    <3>2. image[s].tag # AllTags /\ image[s].repo \in Repos /\ image[s].tag \in Tags
      BY <2>2, TagsAssumption DEF InputsInv, Literal
    <3>3. url[s].path[1] = image[s].repo /\ url[s].path[2] = image[s].tag
      BY SMTT(30), <3>1
    <3>4. reply'[s].digest = RemoteDigest(s) /\ reply'[s].digest # 0
      BY <1>7, <2>2, <2>3, <3>2, <3>3, AnsweredOk, AnswersAre DEF RemoteDigest
    <3>5. RemoteDigest(s) \in Nat
      BY <3>2 DEF RemoteDigest, ClientTypes
    <3>6. RemoteDigest(s)' >= RemoteDigest(s) /\ RemoteDigest(s)' \in Nat
      BY <2>1, <2>2, RemoteGrows
    <3> QED BY SMTT(30), <3>4, <3>5, <3>6
  <2>4. reply[s].digest \in Nat /\ seen[s] \in Nat
    BY DEF ClientTypes, CommandTypes, Pages
  <2>5. job[s] = "tags" \/ (job[s] = "done" /\ status[s].error = "noError")
        => Had(s, seen[s])' /\ (status[s].stale \/ seen[s] = local[s])
    <3>1. SUFFICES ASSUME job[s] = "tags" \/ (job[s] = "done" /\ status[s].error = "noError")
                   PROVE  Had(s, seen[s])' /\ (status[s].stale \/ seen[s] = local[s])
      OBVIOUS
    <3>2. 0 < seen[s] /\ seen[s] <= RemoteDigest(s) /\ (status[s].stale \/ seen[s] = local[s])
      BY <1>2, <2>2, <3>1 DEF Had
    <3>3. /\ RemoteDigest(s) \in Nat /\ RemoteDigest(s)' \in Nat
          /\ RemoteDigest(s)' >= RemoteDigest(s)
      BY <2>1, <2>2, RemoteGrows
    <3>4. 0 < seen'[s] /\ seen'[s] <= RemoteDigest(s)'
      BY SMTT(30), <2>1, <2>4, <3>2, <3>3
    <3> QED BY <3>2, <3>4 DEF Had
  <2>6. job[s] = "digest" => url[s].path = <<image[s].repo, image[s].tag>>
    BY <1>2, <2>2
  <2>7. Fine(s)'
    BY <2>1, <2>3, <2>5, <2>6 DEF Had
  <2> QED BY SMTT(30), <1>3, <2>1, <2>2, <2>7 DEF CommandTypes
<1>8. ASSUME NEW s \in Services, Goroutine(s) PROVE \A u \in inputs' : Fine(u)'
  <2>1. UNCHANGED registry /\ UNCHANGED <<inputs, image, local>>
    BY <1>8, GoroutineStep
  <2>2. s \in inputs /\ reply[s].digest \in Nat /\ seen[s] \in Nat
    BY <1>8 DEF Goroutine, CheckImage, DigestAnswered, TagsAnswered, JobsInv, ClientTypes,
                CommandTypes, Pages
  <2>3. RemoteDigest(s) \in Nat /\ RemoteDigest(s)' \in Nat /\ RemoteDigest(s)' >= RemoteDigest(s)
    BY <2>1, <2>2, RemoteGrows
  <2>4. CASE CheckImage(s)
    <3>1. job'[s] = "digest" /\ at'[s] = "lookup" /\ url'[s].path = <<image[s].repo, image[s].tag>>
      BY SMTT(30), <2>4, CheckImageStep, AsksMeans
    <3>2. Fine(s)'
      BY <2>1, <3>1
    <3> QED BY <1>3, <1>8, <2>1, <3>2, OthersUntouched DEF CommandTypes
  <2>5. CASE DigestAnswered(s)
    <3>1. job'[s] \in {"tags", "done"}
      BY <2>5, DigestStep DEF Asks, Ends
    <3>2. CASE reply[s].status # "ok"
      <4>1. job'[s] = "done" /\ status'[s].error = reply[s].status
        BY <2>5, <3>2, DigestStep DEF Ends
      <4>2. reply[s].status # "noError"
        BY DEF ClientTypes, Pages, Answered
      <4>3. Fine(s)'
        BY <4>1, <4>2
      <4> QED BY <1>3, <1>8, <2>1, <4>3, OthersUntouched DEF CommandTypes
    <3>3. CASE reply[s].status = "ok"
      <4>1. Had(s, reply[s].digest) /\ seen'[s] = reply[s].digest
        BY <1>2, <2>2, <2>5, <3>3, DigestStep
      <4>2. status'[s].stale \/ seen'[s] = local'[s]
        BY <2>1, <2>5, <3>3, DigestStep DEF Stale
      <4>3. 0 < seen'[s] /\ seen'[s] <= RemoteDigest(s)'
        BY SMTT(30), <2>2, <2>3, <4>1 DEF Had
      <4>4. Fine(s)'
        BY <3>1, <4>2, <4>3 DEF Had
      <4> QED BY <1>3, <1>8, <2>1, <4>4, OthersUntouched DEF CommandTypes
    <3> QED BY <3>2, <3>3
  <2>6. CASE TagsAnswered(s)
    <3>1. job[s] = "tags" /\ job'[s] \in {"tags", "done"} /\ seen' = seen
          /\ status'[s].stale = status[s].stale
      BY <2>6, TagsStep DEF Asks, Ends
    <3>2. 0 < seen[s] /\ seen[s] <= RemoteDigest(s) /\ (status[s].stale \/ seen[s] = local[s])
      BY <1>2, <2>2, <3>1 DEF Had
    <3>3. 0 < seen'[s] /\ seen'[s] <= RemoteDigest(s)'
      BY SMTT(30), <2>2, <2>3, <3>1, <3>2
    <3>4. status'[s].stale \/ seen'[s] = local'[s]
      BY <2>1, <3>1, <3>2
    <3>5. Fine(s)'
      BY <3>1, <3>3, <3>4 DEF Had
    <3> QED BY <1>3, <1>8, <2>1, <3>5, OthersUntouched DEF CommandTypes
  <2> QED BY <1>8, <2>4, <2>5, <2>6 DEF Goroutine
<1> QED BY <1>4, <1>5, <1>6, <1>7, <1>8, WorldStep, CommandStep DEF Next, check

\* What was read of the list of tags stays read, and nothing becomes older by a push.
LEMMA CoveredLater ==
  ASSUME ClientTypes, InputsInv, [Next]_vars, NEW s \in inputs, image' = image,
         NEW place, NEW tags, Covered(s, place, tags)
  PROVE  \A i \in DOMAIN TagOrder :
           i < place /\ digests'[image'[s].repo][TagOrder[i]] > pushes' => TagOrder[i] \in tags
<1>1. image[s].repo \in Repos
  BY DEF InputsInv, Literal
<1>2. \A i \in DOMAIN TagOrder : TagOrder[i] \in Tags
  BY DEF Tags
<1> QED BY <1>1, <1>2, RegistryGrows DEF Covered

\* A page that the registry answers goes on where the pages before it ended.
LEMMA PageCovers ==
  ASSUME ClientTypes, CommandTypes, InputsInv, JobsInv, NEW s \in inputs, Request(s),
         url[s].path = <<image[s].repo, AllTags>>, Covered(s, url[s].from, listed[s]),
         at'[s] = "answered", reply'[s].status = "ok"
  PROVE  Covered(s, PageEnd(reply'[s]), listed[s] \cup reply'[s].tags)
<1>1. s \in Services /\ url[s] \in [path : Paths, from : Nat \ {0}]
  BY RequestOfInput DEF CommandTypes
<1>2. url[s].path[1] = image[s].repo /\ url[s].path[2] = AllTags /\ url[s].from \in Nat
  BY SMTT(30), <1>1
<1>3. reply'[s] \in Answers(s)
  BY <1>1, AnsweredOk
<1>4. \A i \in DOMAIN TagOrder :
        url[s].from <= i /\ i < PageEnd(reply'[s]) /\ digests[image[s].repo][TagOrder[i]] # 0
        => TagOrder[i] \in reply'[s].tags
  BY <1>1, <1>2, <1>3, AnswersAre
<1>5. image[s].repo \in Repos /\ pushes \in Nat
  BY DEF InputsInv, Literal, ClientTypes
<1>6. \A i \in DOMAIN TagOrder : i \in Nat /\ digests[image[s].repo][TagOrder[i]] \in Nat
  <2>1. \A i \in DOMAIN TagOrder : i \in Nat /\ TagOrder[i] \in Tags
    BY SMTT(30), TagsAssumption DEF Tags
  <2> QED BY <1>5, <2>1 DEF ClientTypes
<1> QED BY SMTT(30), <1>2, <1>4, <1>5, <1>6 DEF Covered

\* With the last page, every newer tag that was there before any push is found.
LEMMA AllNewerFound ==
  ASSUME ClientTypes, CommandTypes, NEW s \in Services, NEW tags \in SUBSET Tags, NEW page,
         page.next = 0, Covered(s, PageEnd(page), tags)
  PROVE  /\ findNewerTags(s, tags) \subseteq findNewerTags(s, Tags)
         /\ \A t \in findNewerTags(s, Tags) :
              digests[image[s].repo][t] > pushes => t \in findNewerTags(s, tags)
<1>1. \A i \in DOMAIN TagOrder : i < PageEnd(page)
  BY SMTT(30), TagsAssumption DEF PageEnd
<1>2. \A t \in Tags : digests[image[s].repo][t] > pushes => t \in tags
  BY <1>1 DEF Covered, Tags
<1> QED BY <1>2 DEF findNewerTags

\* No page is skipped.
LEMMA ListKept ==
  ASSUME ClientTypes, CommandTypes, InputsInv, JobsInv, TokenInv, ListInv, [Next]_vars
  PROVE  ListInv'
<1> DEFINE Reading(s) ==
             job[s] = "tags" =>
               /\ url[s].path = <<image[s].repo, AllTags>> /\ url[s].from \in Nat \ {0}
               /\ Covered(s, url[s].from, listed[s])
               /\ at[s] = "answered" /\ reply[s].status = "ok" =>
                    Covered(s, PageEnd(reply[s]), listed[s] \cup reply[s].tags)
           Found(s) ==
             /\ status[s].newer \subseteq findNewerTags(s, Tags)
             /\ job[s] = "done" /\ status[s].error = "noError" /\ WantsTags(s) =>
                  \A t \in findNewerTags(s, Tags) :
                    digests[image[s].repo][t] > pushes => t \in status[s].newer
<1>1. SUFFICES \A s \in inputs' : Reading(s)' /\ Found(s)'
  BY DEF ListInv
<1>2. \A s \in inputs : Reading(s) /\ Found(s)
  BY DEF ListInv
<1>3. pattern' = pattern
  BY WorldStep, CommandStep, GoroutineStep, RequestStep DEF Next, config
<1>4. ASSUME NEW u \in inputs, image' = image
      PROVE  \A t \in findNewerTags(u, Tags) :
               digests'[image'[u].repo][t] > pushes' => digests[image[u].repo][t] > pushes
  <2>1. image[u].repo \in Repos
    BY DEF InputsInv, Literal
  <2>2. findNewerTags(u, Tags) \subseteq Tags
    BY DEF findNewerTags
  <2> QED BY <1>4, <2>1, <2>2, RegistryGrows
<1>5. ASSUME NEW u \in inputs, image' = image, status'[u].newer \subseteq findNewerTags(u, Tags),
             job'[u] = "done" /\ status'[u].error = "noError" /\ WantsTags(u) =>
               \A t \in findNewerTags(u, Tags) :
                 digests[image[u].repo][t] > pushes => t \in status'[u].newer
      PROVE  Found(u)'
  <2>1. findNewerTags(u, Tags)' = findNewerTags(u, Tags)
    BY <1>3, <1>5 DEF findNewerTags
  <2>2. WantsTags(u)' <=> WantsTags(u)
    BY <1>3, <1>5 DEF WantsTags
  <2>3. \A t \in findNewerTags(u, Tags) :
          digests'[image'[u].repo][t] > pushes' => digests[image[u].repo][t] > pushes
    BY <1>4, <1>5
  <2>4. status'[u].newer \subseteq findNewerTags(u, Tags)'
    BY <1>5, <2>1
  <2>5. ASSUME job'[u] = "done", status'[u].error = "noError", WantsTags(u)',
               NEW t \in findNewerTags(u, Tags)', digests'[image'[u].repo][t] > pushes'
        PROVE  t \in status'[u].newer
    BY <1>5, <2>1, <2>2, <2>3, <2>5
  <2> QED BY <2>4, <2>5
<1>6. ASSUME NEW u \in inputs, image' = image, job'[u] = job[u], status'[u] = status[u]
      PROVE  Found(u)'
  BY <1>2, <1>5, <1>6
<1>7. ASSUME NEW u \in inputs, image' = image, job'[u] = job[u], url'[u] = url[u],
             at'[u] = at[u], reply'[u] = reply[u], listed'[u] = listed[u]
      PROVE  Reading(u)'
  <2>1. ASSUME NEW place, NEW tags, Covered(u, place, tags)
        PROVE  \A i \in DOMAIN TagOrder :
                 i < place /\ digests'[image'[u].repo][TagOrder[i]] > pushes' => TagOrder[i] \in tags
    BY <1>7, <2>1, CoveredLater
  <2>2. ASSUME Covered(u, url[u].from, listed[u]) PROVE Covered(u, url[u].from, listed[u])'
    BY <1>7, <2>1, <2>2 DEF Covered
  <2>3. ASSUME Covered(u, PageEnd(reply[u]), listed[u] \cup reply[u].tags)
        PROVE  Covered(u, PageEnd(reply[u]), listed[u] \cup reply[u].tags)'
    BY <1>7, <2>1, <2>3 DEF Covered, PageEnd
  <2>4. Reading(u)
    BY <1>2
  <2> QED BY <1>7, <2>2, <2>3, <2>4
<1>8. CASE UNCHANGED client /\ UNCHANGED <<inputs, image, job, listed, status>>
  BY <1>6, <1>7, <1>8 DEF client
<1>9. CASE BuildCheckInputs
  <2>1. UNCHANGED <<status, job>> /\ \A s \in Services : job[s] = "none" /\ status[s].newer = {}
    BY <1>9 DEF BuildCheckInputs, JobsInv, TokenInv
  <2>2. inputs' \subseteq Services
    BY CommandTypesKept DEF CommandTypes
  <2> QED BY <2>1, <2>2
<1>10. CASE PrefetchLocalDigests
  <2>1. /\ \A s \in Services : job'[s] \in {"none", "start"} /\ status'[s].newer = {}
        /\ inputs' = inputs
    BY <1>10 DEF PrefetchLocalDigests, JobsInv, TokenInv
  <2> QED BY <2>1 DEF CommandTypes
<1>11. ASSUME NEW s \in Services, Request(s) PROVE \A u \in inputs' : Reading(u)' /\ Found(u)'
  <2>1. UNCHANGED <<url, inputs, image, job, listed, status>>
    BY <1>11, RequestStep DEF check
  <2>2. s \in inputs /\ \A u \in Services \ {s} : at'[u] = at[u] /\ reply'[u] = reply[u]
    BY <1>11, RequestOfInput
  <2>3. SUFFICES ASSUME job[s] = "tags" PROVE Reading(s)'
    BY <1>6, <1>7, <2>1, <2>2 DEF CommandTypes
  <2>4. /\ url[s].path = <<image[s].repo, AllTags>> /\ url[s].from \in Nat \ {0}
        /\ Covered(s, url[s].from, listed[s])
    BY <1>2, <2>2, <2>3
  <2>5. Covered(s, url[s].from, listed[s])'
    BY <2>1, <2>2, <2>4, CoveredLater DEF Covered
  <2>6. ASSUME at'[s] = "answered", reply'[s].status = "ok"
        PROVE  Covered(s, PageEnd(reply[s]), listed[s] \cup reply[s].tags)'
    <3>1. Covered(s, PageEnd(reply'[s]), listed[s] \cup reply'[s].tags)
      BY <1>11, <2>2, <2>4, <2>6, PageCovers
    <3> QED BY <2>1, <2>2, <3>1, CoveredLater DEF Covered, PageEnd
  <2> QED BY <2>1, <2>4, <2>5, <2>6
<1>12. ASSUME NEW s \in Services, Goroutine(s) PROVE \A u \in inputs' : Reading(u)' /\ Found(u)'
  <2>1. UNCHANGED registry /\ UNCHANGED <<inputs, image, local>> /\ s \in inputs
    BY <1>12, GoroutineStep
       DEF Goroutine, CheckImage, DigestAnswered, TagsAnswered, JobsInv
  <2>2. SUFFICES Reading(s)' /\ Found(s)'
    <3>1. ASSUME NEW u \in inputs, u # s PROVE Reading(u)' /\ Found(u)'
      <4>1. /\ job'[u] = job[u] /\ status'[u] = status[u] /\ listed'[u] = listed[u]
            /\ at'[u] = at[u] /\ url'[u] = url[u] /\ reply'[u] = reply[u]
        BY <1>12, <3>1, OthersUntouched DEF CommandTypes
      <4> QED BY <1>6, <1>7, <2>1, <4>1
    <3> QED BY <2>1, <3>1
  <2>3. CASE CheckImage(s)
    <3>1. job'[s] = "digest" /\ status'[s] = status[s]
      BY <2>3, CheckImageStep, AsksMeans
    <3> QED BY <1>2, <1>5, <2>1, <3>1
  <2>4. CASE DigestAnswered(s)
    <3>1. status'[s].newer = status[s].newer /\ job[s] = "digest"
      BY <2>4, DigestStep
    <3>2. \/ job'[s] = "done" /\ (~WantsTags(s) \/ status'[s].error # "noError")
          \/ Asks(s, "tags", AllTags, 1)
      <4>1. reply[s].status # "noError"
        BY DEF ClientTypes, Pages, Answered
      <4> QED BY <2>4, <4>1, DigestStep DEF Ends
    <3>3. Reading(s)'
      <4>1. SUFFICES ASSUME Asks(s, "tags", AllTags, 1) PROVE Reading(s)'
        BY <3>2
      <4>2. /\ url'[s].path = <<image[s].repo, AllTags>> /\ url'[s].from = 1 /\ at'[s] = "lookup"
        BY SMTT(30), <4>1, AsksMeans
      <4>3. Covered(s, url[s].from, listed[s])'
        BY SMTT(30), <4>2, TagsAssumption DEF Covered
      <4> QED BY SMTT(30), <2>1, <4>2, <4>3
    <3>4. Found(s)'
      <4>1. job'[s] = "done" => ~WantsTags(s) \/ status'[s].error # "noError"
        BY <3>2, AsksMeans
      <4> QED BY <1>2, <1>5, <2>1, <3>1, <4>1
    <3> QED BY <3>3, <3>4
  <2>5. CASE TagsAnswered(s)
    <3>1. job[s] = "tags" /\ at[s] = "answered" /\ status[s].newer \subseteq findNewerTags(s, Tags)
      BY <1>2, <2>1, <2>5, TagsStep
    <3>2. CASE reply[s].status # "ok"
      <4>1. job'[s] = "done" /\ status'[s].error = reply[s].status /\ status'[s].newer = status[s].newer
        BY <2>5, <3>2, TagsStep DEF Ends
      <4>2. reply[s].status # "noError"
        BY DEF ClientTypes, Pages, Answered
      <4> QED BY <1>5, <2>1, <3>1, <4>1, <4>2
    <3>3. reply[s].status = "ok" => Covered(s, PageEnd(reply[s]), listed[s] \cup reply[s].tags)
      BY <1>2, <2>1, <3>1
    <3>4. CASE reply[s].status = "ok" /\ reply[s].next # 0
      <4>1. /\ status' = status /\ listed'[s] = listed[s] \cup reply[s].tags
            /\ Asks(s, "tags", AllTags, reply[s].next)
        BY <2>5, <3>4, TagsStep
      <4>2. /\ job'[s] = "tags" /\ at'[s] = "lookup" /\ url'[s].from = reply[s].next
            /\ url'[s].path = <<image[s].repo, AllTags>>
        BY SMTT(30), <4>1, AsksMeans
      <4>3. Covered(s, url[s].from, listed[s])'
        BY <2>1, <3>3, <3>4, <4>1, <4>2, CoveredLater DEF Covered, PageEnd
      <4>4. reply[s].next \in Nat
        BY DEF ClientTypes, Pages
      <4>5. Reading(s)'
        BY <2>1, <3>4, <4>2, <4>3, <4>4
      <4>6. Found(s)'
        BY <1>5, <2>1, <3>1, <4>1, <4>2
      <4> QED BY <4>5, <4>6
    <3>5. CASE reply[s].status = "ok" /\ reply[s].next = 0
      <4>1. job'[s] = "done" /\ status'[s].newer = findNewerTags(s, listed[s] \cup reply[s].tags)
        BY <2>5, <3>5, TagsStep DEF Ends
      <4>2. listed[s] \cup reply[s].tags \in SUBSET Tags
        BY DEF ClientTypes, CommandTypes, Pages
      <4>3. /\ findNewerTags(s, listed[s] \cup reply[s].tags) \subseteq findNewerTags(s, Tags)
            /\ \A t \in findNewerTags(s, Tags) :
                 digests[image[s].repo][t] > pushes
                 => t \in findNewerTags(s, listed[s] \cup reply[s].tags)
        BY <3>3, <3>5, <4>2, AllNewerFound
      <4> QED BY <1>5, <2>1, <4>1, <4>3
    <3> QED BY <3>2, <3>4, <3>5
  <2> QED BY <1>12, <2>3, <2>4, <2>5 DEF Goroutine
<1> QED BY <1>8, <1>9, <1>10, <1>11, <1>12, WorldStep, CommandStep DEF Next, check

(***************************************************************************)
(* What runs and what is pulled                                            *)
(***************************************************************************)
\* Every step but the pull and the recreation leaves the daemons.
LEMMA DaemonUntouched ==
  ASSUME [Next]_vars
  PROVE  UNCHANGED <<line0, running0, opt, pattern>>
         /\ (UNCHANGED <<running, stored>> \/ ComposePull \/ ComposeUp)
<1>1. CASE Command
  BY <1>1, CommandStep
     DEF Command, BuildCheckInputs, PrefetchLocalDigests, AfterCheck, RewriteImage, UpgradeReturns,
         PullReturns, config, daemon
<1> QED BY <1>1, GoroutineStep, RequestStep, WorldStep DEF Next, config, daemon

\* What was read of the containers stays so.
LEMMA LocalKept ==
  ASSUME CommandTypes, InputsInv, LocalInv, [Next]_vars
  PROVE  LocalInv'
<1>1. running0' = running0
  BY DaemonUntouched
<1>2. CASE UNCHANGED <<pc, inputs, blind, local>>
  BY <1>1, <1>2 DEF LocalInv
<1>3. CASE BuildCheckInputs
  <2>1. pc = "inputs" /\ (pc' = "prefetch" \/ inputs' = inputs)
    BY <1>3 DEF BuildCheckInputs, Return
  <2> QED BY <2>1 DEF LocalInv, InputsInv
<1>4. CASE PrefetchLocalDigests
  <2>1. running = running0 /\ inputs' = inputs
    BY <1>4 DEF PrefetchLocalDigests, InputsInv
  <2>2. \A s \in inputs : running[s] # 0 /\ ContextOf[StackOf[s]] \notin blind' => local'[s] = running[s]
    BY <1>4 DEF PrefetchLocalDigests, Observed, LocalDigest, CommandTypes
  <2> QED BY <1>1, <2>1, <2>2 DEF LocalInv
<1>5. CASE /\ Command /\ UNCHANGED check
  <2>1. pc \notin {"inputs", "prefetch"} \/ pc' = pc \/ BuildCheckInputs \/ PrefetchLocalDigests
    BY <1>5 DEF Command, AfterCheck, RewriteImage, UpgradeReturns, ComposePull, ComposeUp,
                          PullReturns
  <2> QED BY <1>1, <1>3, <1>4, <1>5, <2>1 DEF LocalInv, check
<1> QED BY <1>2, <1>3, <1>4, <1>5, WorldStep, CommandStep, GoroutineStep, RequestStep DEF Next, check

\* Nothing of a check or a request is left when the checks have ended.
LEMMA ChecksEnded ==
  ASSUME CommandTypes, JobsInv, pc \in After, NEW s \in Services
  PROVE  ~Goroutine(s) /\ ~Request(s)
<1>1. job[s] \in {"none", "done"} /\ at[s] = "idle"
  BY DEF JobsInv, Asking
<1> QED BY <1>1, RequestStep DEF Goroutine, CheckImage, DigestAnswered, TagsAnswered

\* What an ended check without error has seen.
LEMMA SeenAfter ==
  ASSUME ClientTypes, CommandTypes, InputsInv, DigestInv, LocalInv, pc # "prefetch",
         NEW s \in inputs, job[s] = "done", status[s].error = "noError"
  PROVE  /\ seen[s] \in Nat /\ seen[s] > 0 /\ RemoteDigest(s) \in Nat /\ RemoteDigest(s) >= seen[s]
         /\ status[s].newer = {} /\ running0[s] # 0 /\ ContextOf[StackOf[s]] \notin blind
            => s \in Drifted \/ seen[s] = running0[s]
<1>1. Had(s, seen[s]) /\ (status[s].stale \/ seen[s] = local[s])
  BY DEF DigestInv
<1>2. seen[s] \in Nat /\ image[s].repo \in Repos /\ image[s].tag \in Tags
  BY DEF CommandTypes, InputsInv, Literal
<1>3. RemoteDigest(s) \in Nat
  BY <1>2 DEF RemoteDigest, ClientTypes
<1>4. pc # "inputs"
  BY DEF InputsInv
<1>5. running0[s] # 0 /\ ContextOf[StackOf[s]] \notin blind => local[s] = running0[s]
  BY <1>4 DEF LocalInv
<1>6. 0 < seen[s] /\ seen[s] <= RemoteDigest(s)
  BY <1>1 DEF Had
<1>7. status[s].newer = {} /\ status[s].stale => s \in Drifted
  BY DEF Drifted
<1> QED BY <1>1, <1>2, <1>3, <1>5, <1>6, <1>7

(***************************************************************************)
(* The invariant holds                                                     *)
(***************************************************************************)
\* What the command finds satisfies it.
LEMMA ChecksInit ==
  ASSUME Init
  PROVE  ChecksInv
<1>1. RequestsInv
  BY RequestsInit
<1>2. pc = "inputs" /\ inputs = {}
  BY DEF Init
<1> QED BY <1>1, <1>2 DEF ChecksInv, DigestInv, ListInv, LocalInv

\* Every step keeps it.
LEMMA ChecksStep ==
  ASSUME ChecksInv, [Next]_vars
  PROVE  ChecksInv'
<1>1. /\ ClientTypes /\ CommandTypes /\ InputsInv /\ JobsInv /\ TokenInv
      /\ DigestInv /\ ListInv /\ LocalInv
  BY DEF ChecksInv, RequestsInv
<1>2. RequestsInv'
  BY RequestsStep DEF ChecksInv
<1>3. DigestInv' /\ ListInv' /\ LocalInv'
  BY <1>1, DigestsKept, ListKept, LocalKept
<1> QED BY <1>2, <1>3 DEF ChecksInv

\* The inductive invariant of the checks.
THEOREM ChecksInvariance == Spec => []ChecksInv
<1>1. Init => ChecksInv
  BY ChecksInit
<1>2. ChecksInv /\ [Next]_vars => ChecksInv'
  BY ChecksStep
<1> QED BY <1>1, <1>2, PTL DEF Spec

\* A service that check does not list has no newer matching tag that the registry had from
\* the start, and runs what the check saw unless its containers could not be listed
\* (checkImage, ListTags, findNewerTags, renderTerminal).
THEOREM UnlistedIsCurrent == Spec => []UnlistedMeansCurrent
<1>1. ASSUME ChecksInv PROVE UnlistedMeansCurrent
  <2>1. /\ ClientTypes /\ CommandTypes /\ InputsInv /\ JobsInv /\ DigestInv /\ ListInv /\ LocalInv
    BY <1>1 DEF ChecksInv, RequestsInv
  <2>2. SUFFICES ASSUME NEW s \in inputs, job[s] = "done", ~NeedsAttention(s)
                 PROVE  /\ \A t \in pattern[s] :
                             digests[image[s].repo][t] > pushes
                             => Version[image[s].tag] = 0 \/ Version[t] <= Version[image[s].tag]
                        /\ running0[s] # 0 /\ ContextOf[StackOf[s]] \notin blind
                           => running0[s] = seen[s]
    BY DEF UnlistedMeansCurrent
  <2>3. status[s].error = "noError" /\ status[s].newer = {} /\ ~status[s].stale /\ s \in Services
    BY <2>1, <2>2 DEF NeedsAttention, CommandTypes
  <2>4. ASSUME NEW t \in pattern[s], digests[image[s].repo][t] > pushes,
               Version[image[s].tag] # 0
        PROVE  Version[t] <= Version[image[s].tag]
    <3>1. t \in Tags /\ image[s].tag \in Tags
      BY <2>1, <2>3 DEF CommandTypes, InputsInv, Literal
    <3>2. Version[t] \in Nat /\ Version[image[s].tag] \in Nat
      BY <3>1, TagsAssumption
    <3>3. WantsTags(s)
      BY <2>4 DEF WantsTags, NoPattern
    <3>4. t \notin findNewerTags(s, Tags)
      BY <2>1, <2>2, <2>3, <2>4, <3>3 DEF ListInv
    <3> QED BY SMTT(30), <3>1, <3>2, <3>4 DEF findNewerTags
  <2>5. pc \notin {"inputs", "prefetch"}
    BY <2>1, <2>2, <2>3 DEF JobsInv
  <2>6. s \notin Drifted
    BY <2>3 DEF Drifted
  <2>7. running0[s] # 0 /\ ContextOf[StackOf[s]] \notin blind => running0[s] = seen[s]
    BY <2>1, <2>2, <2>3, <2>5, <2>6, SeenAfter
  <2> QED BY <2>4, <2>7
<1> QED BY <1>1, ChecksInvariance, PTL


(***************************************************************************)
(* What the pull does to the daemons.                                      *)
(***************************************************************************)
\* What runs of an image at the start is not newer than what the registry and the daemon
\* have of it.
KnownInv ==
  \A s \in Services :
    LET ref == ImageIn(line0, s) IN
    ref # NoLine =>
      /\ ref \in Literal
      /\ digests[ref.repo][ref.tag] # 0 \/ <<ref.repo, ref.tag>> \in Pushable
         => running0[s] <= digests[ref.repo][ref.tag]
      /\ stored[ContextOf[StackOf[s]]][ref.repo][ref.tag] # 0
         => running0[s] <= stored[ContextOf[StackOf[s]]][ref.repo][ref.tag]

\* The stack of the service is still to be pulled.
Waiting(s) == \E i \in queue : StackOrder[i] = StackOf[s]

\* A stack that was handled runs what was seen, no recreation goes back, and what is
\* recreated next is stored as it was seen or newer.
HandledRuns == \A s \in Drifted : Waiting(s) \/ running[s] >= seen[s]

NoneGoesBack == \A s \in inputs : status[s].error = "noError" => running[s] >= running0[s]

NextIsStored ==
  \A i \in queue : NextStack(i) =>
    \A s \in Drifted : StackOf[s] = StackOrder[i] => StoredDigest(s) >= seen[s]

PullInv ==
  opt.cmd = "pull" /\ opt.recreate /\ ~opt.dryRun =>
    /\ pc \in {"pull", "up"} => queue \subseteq DOMAIN StackOrder /\ HandledRuns /\ NoneGoesBack
    /\ pc = "up" => NextIsStored
    /\ pc = "done" => RecreateRunsWhatWasSeen

(***************************************************************************)
(* What the upgrade does to the files.                                     *)
(***************************************************************************)
\* A line for each service in each file.
LinesOf(lines) == lines = [f \in Files |-> [s \in Services |-> lines[f][s]]]

\* The rewriting of a service in a file is still to be done.
Outstanding(f, s) ==
  \E p \in queue : JobOrder[p[1]] = s /\ FilesOf[StackOf[s]][p[2]] = f

\* Each line is the old one until its own rewriting is done and the expected one after it.
LinesInv ==
  \A f \in Files, s \in Services :
    line[f][s] = IF Outstanding(f, s) THEN line0[f][s] ELSE Expected(f, s)

\* The services that are reported are those with a changed line.
ChangesInv == \A s \in Services : s \in changes <=> \E f \in Files : line[f][s] # line0[f][s]

UpgradeInv ==
  /\ LinesOf(line)
  /\ pc \in {"inputs", "prefetch", "check"} => torn = {} /\ changes = {}
  /\ pc \in {"pull", "up"} => opt.cmd = "pull"
  /\ pc = "rewrite" =>
       /\ opt.cmd = "upgrade" /\ queue \subseteq Rewritings
       /\ Separate => LinesInv /\ ChangesInv
  /\ pc = "done" => UpgradeIsExact

\* All together.
ImagesInv == ChecksInv /\ KnownInv /\ PullInv /\ UpgradeInv

\* What is stored is what was stored or what the registry has.
LEMMA PulledIs ==
  ASSUME NEW ss, NEW c \in Contexts, NEW r \in Repos, NEW t \in Tags
  PROVE  /\ Pulled(ss)[c][r][t] \in {digests[r][t], stored[c][r][t]}
         /\ \A s \in ss : ContextOf[StackOf[s]] = c /\ image[s] \in Literal
                          /\ image[s].repo = r /\ image[s].tag = t
                          => Pulled(ss)[c][r][t] = digests[r][t]
         /\ (\A s \in ss : ~(ContextOf[StackOf[s]] = c /\ image[s].repo = r /\ image[s].tag = t))
            => Pulled(ss)[c][r][t] = stored[c][r][t]
<1>1. Pulled(ss)[c][r][t]
      = IF \E s \in ss : ContextOf[StackOf[s]] = c /\ image[s] = [repo |-> r, tag |-> t]
        THEN digests[r][t] ELSE stored[c][r][t]
  BY DEF Pulled
<1>2. ASSUME NEW s \in ss, image[s] \in Literal, image[s].repo = r, image[s].tag = t
      PROVE  image[s] = [repo |-> r, tag |-> t]
  BY <1>2 DEF Literal
<1> QED BY SMTT(30), <1>1, <1>2

\* What runs is never newer than what can be pulled.
LEMMA KnownKept ==
  ASSUME ClientTypes, CommandTypes, KnownInv, [Next]_vars
  PROVE  KnownInv'
<1>1. line0' = line0 /\ running0' = running0
  BY DaemonUntouched
<1>2. SUFFICES ASSUME NEW s \in Services, NEW ref, ref = ImageIn(line0, s), ref # NoLine
               PROVE  LET here == ContextOf[StackOf[s]]
                      IN /\ ref \in Literal
                         /\ digests'[ref.repo][ref.tag] # 0 \/ <<ref.repo, ref.tag>> \in Pushable
                            => running0[s] <= digests'[ref.repo][ref.tag]
                         /\ stored'[here][ref.repo][ref.tag] # 0
                            => running0[s] <= stored'[here][ref.repo][ref.tag]
  BY <1>1 DEF KnownInv
<1> DEFINE here == ContextOf[StackOf[s]]
<1>3. /\ ref \in Literal
      /\ digests[ref.repo][ref.tag] # 0 \/ <<ref.repo, ref.tag>> \in Pushable
         => running0[s] <= digests[ref.repo][ref.tag]
      /\ stored[here][ref.repo][ref.tag] # 0 => running0[s] <= stored[here][ref.repo][ref.tag]
  BY <1>2 DEF KnownInv
<1>4. ref.repo \in Repos /\ ref.tag \in Tags /\ here \in Contexts
  BY <1>3, ContextKnown DEF Literal
<1>5. stored'[here][ref.repo][ref.tag] \in {digests[ref.repo][ref.tag], stored[here][ref.repo][ref.tag]}
  <2>1. stored' = stored \/ \E ss : stored' = Pulled(ss)
    BY DaemonUntouched DEF ComposePull, ComposeUp
  <2>2. ASSUME NEW ss, stored' = Pulled(ss)
        PROVE  stored'[here][ref.repo][ref.tag]
               \in {digests[ref.repo][ref.tag], stored[here][ref.repo][ref.tag]}
    <3> HIDE DEF here
    <3> QED BY <1>4, <2>2, PulledIs
  <2> QED BY <2>1, <2>2
<1>6. /\ digests[ref.repo][ref.tag] \in Nat /\ digests'[ref.repo][ref.tag] \in Nat
      /\ digests'[ref.repo][ref.tag] >= digests[ref.repo][ref.tag]
      /\ digests'[ref.repo][ref.tag] # digests[ref.repo][ref.tag] => <<ref.repo, ref.tag>> \in Pushable
  BY <1>4, RegistryGrows DEF ClientTypes
<1>7. running0[s] \in Nat
  BY DEF CommandTypes
<1>8. digests'[ref.repo][ref.tag] # 0 \/ <<ref.repo, ref.tag>> \in Pushable
      => running0[s] <= digests'[ref.repo][ref.tag]
  BY SMTT(30), <1>3, <1>6, <1>7
<1>9. stored'[here][ref.repo][ref.tag] # 0 => running0[s] <= stored'[here][ref.repo][ref.tag]
  <2>1. CASE stored'[here][ref.repo][ref.tag] = digests[ref.repo][ref.tag]
    BY <1>3, <2>1
  <2>2. CASE stored'[here][ref.repo][ref.tag] = stored[here][ref.repo][ref.tag]
    BY <1>3, <2>2
  <2> QED BY <1>5, <2>1, <2>2
<1> QED BY <1>3, <1>8, <1>9
\* compose up pulls only what is not stored at all.
LEMMA UpKeepsStored ==
  ASSUME ClientTypes, CommandTypes, InputsInv, pc = "up", NEW ss \in SUBSET Services,
         NEW s \in Services, image[s] \in Literal
  PROVE  LET after == Pulled(Missing(ss))[ContextOf[StackOf[s]]][image[s].repo][image[s].tag] IN
         /\ StoredDigest(s) # 0 => after = StoredDigest(s)
         /\ s \in ss /\ StoredDigest(s) = 0 => after = RemoteDigest(s)
<1> DEFINE c == ContextOf[StackOf[s]]
           r == image[s].repo
           t == image[s].tag
<1>1. c \in Contexts /\ r \in Repos /\ t \in Tags /\ StoredDigest(s) = stored[c][r][t]
      /\ RemoteDigest(s) = digests[r][t]
  BY ContextKnown DEF Literal, StoredDigest, RemoteDigest
<1>2. ASSUME NEW u \in Missing(ss), ContextOf[StackOf[u]] = c, image[u].repo = r, image[u].tag = t
      PROVE  StoredDigest(s) = 0
  BY <1>2 DEF Missing, StoredDigest
<1>3. s \in ss /\ StoredDigest(s) = 0 => s \in Missing(ss)
  BY DEF Missing
<1> HIDE DEF c, r, t
<1>4. StoredDigest(s) # 0 => Pulled(Missing(ss))[c][r][t] = stored[c][r][t]
  <2>1. SUFFICES ASSUME StoredDigest(s) # 0 PROVE Pulled(Missing(ss))[c][r][t] = stored[c][r][t]
    OBVIOUS
  <2>2. \A u \in Missing(ss) :
          ~(ContextOf[StackOf[u]] = c /\ image[u].repo = r /\ image[u].tag = t)
    BY <1>2, <2>1
  <2>3. (\A u \in Missing(ss) :
           ~(ContextOf[StackOf[u]] = c /\ image[u].repo = r /\ image[u].tag = t))
        => Pulled(Missing(ss))[c][r][t] = stored[c][r][t]
    <3>1. c \in Contexts /\ r \in Repos /\ t \in Tags
      BY <1>1
    <3> QED BY <3>1, PulledIs
  <2> QED BY <2>2, <2>3
<1>5. s \in ss /\ StoredDigest(s) = 0 => Pulled(Missing(ss))[c][r][t] = digests[r][t]
  <2>1. SUFFICES ASSUME s \in ss, StoredDigest(s) = 0 PROVE Pulled(Missing(ss))[c][r][t] = digests[r][t]
    OBVIOUS
  <2>2. c \in Contexts /\ r \in Repos /\ t \in Tags /\ s \in Missing(ss)
    BY <1>1, <1>3, <2>1
  <2>3. ContextOf[StackOf[s]] = c /\ image[s].repo = r /\ image[s].tag = t
    BY DEF c, r, t
  <2>4. \A u \in Missing(ss) : ContextOf[StackOf[u]] = c /\ image[u] \in Literal
                              /\ image[u].repo = r /\ image[u].tag = t
                              => Pulled(Missing(ss))[c][r][t] = digests[r][t]
    <3>1. c \in Contexts /\ r \in Repos /\ t \in Tags
      BY <1>1
    <3> QED BY <3>1, PulledIs
  <2> QED BY <2>2, <2>3, <2>4
<1> QED BY <1>1, <1>4, <1>5 DEF c, r, t

\* A pull stores what the checks saw or newer.
LEMMA PullStores ==
  ASSUME ClientTypes, CommandTypes, InputsInv, DigestInv, LocalInv, JobsInv, pc = "pull",
         NEW i, NEW s \in Drifted, StackOf[s] = StackOrder[i],
         stored' = Pulled({u \in Drifted : StackOf[u] = StackOrder[i]}), image' = image
  PROVE  StoredDigest(s)' >= seen[s]
<1>1. s \in inputs /\ s \in Services /\ image[s] \in Literal /\ job[s] = "done" /\ status[s].error = "noError"
  BY DEF Drifted, InputsInv, CommandTypes, JobsInv, After
<1>2. RemoteDigest(s) >= seen[s]
  BY <1>1, SeenAfter
<1> DEFINE c == ContextOf[StackOf[s]]
           r == image[s].repo
           t == image[s].tag
           chosen == {u \in Drifted : StackOf[u] = StackOrder[i]}
<1>3. c \in Contexts /\ r \in Repos /\ t \in Tags /\ s \in chosen /\ RemoteDigest(s) = digests[r][t]
  BY <1>1, ContextKnown DEF Literal, RemoteDigest
<1>4. Pulled(chosen)[c][r][t] = digests[r][t]
  <2>1. ContextOf[StackOf[s]] = c /\ image[s].repo = r /\ image[s].tag = t
    OBVIOUS
  <2> HIDE DEF chosen, c, r, t
  <2>2. \A u \in chosen :
          ContextOf[StackOf[u]] = c /\ image[u] \in Literal /\ image[u].repo = r /\ image[u].tag = t
          => Pulled(chosen)[c][r][t] = digests[r][t]
    BY SMTT(30), <1>3, PulledIs
  <2> QED BY <1>1, <1>3, <2>1, <2>2
<1>5. StoredDigest(s)' = Pulled(chosen)[c][r][t]
  BY DEF StoredDigest
<1> QED BY <1>2, <1>3, <1>4, <1>5

\* The arithmetic of the next lemma.
LEMMA NotOlder ==
  ASSUME NEW here, NEW old \in Nat, NEW new \in Nat, NEW want \in Nat, want > 0, new >= want,
         (old # 0 /\ here = old) \/ (old = 0 /\ here = new)
  PROVE  here \in Nat /\ here # 0 /\ (old >= want => here >= want)
BY SMTT(30)

\* What compose up runs is not older than what was stored, and there is something to run.
LEMMA UpRuns ==
  ASSUME ClientTypes, CommandTypes, InputsInv, DigestInv, LocalInv, JobsInv, pc = "up",
         NEW s \in inputs, status[s].error = "noError", NEW ss \in SUBSET Services, s \in ss
  PROVE  LET here == Pulled(Missing(ss))[ContextOf[StackOf[s]]][image[s].repo][image[s].tag] IN
         here \in Nat /\ here # 0 /\ (StoredDigest(s) >= seen[s] => here >= seen[s])
<1> DEFINE here == Pulled(Missing(ss))[ContextOf[StackOf[s]]][image[s].repo][image[s].tag]
<1>1. s \in Services /\ image[s] \in Literal /\ job[s] = "done"
  BY DEF InputsInv, CommandTypes, JobsInv, After
<1>2. seen[s] \in Nat /\ seen[s] > 0 /\ RemoteDigest(s) \in Nat /\ RemoteDigest(s) >= seen[s]
  BY <1>1, SeenAfter
<1>3. StoredDigest(s) \in Nat
  BY <1>1, StoredIsNat
<1>4. \/ StoredDigest(s) # 0 /\ here = StoredDigest(s)
      \/ StoredDigest(s) = 0 /\ here = RemoteDigest(s)
  BY <1>1, UpKeepsStored
<1> HIDE DEF here
<1>5. here \in Nat /\ here # 0 /\ (StoredDigest(s) >= seen[s] => here >= seen[s])
  BY <1>2, <1>3, <1>4, NotOlder
<1> QED BY <1>5 DEF here

\* What the pull is about does not change while it runs.
LEMMA PullFrame ==
  ASSUME UNCHANGED <<opt, running0, inputs, image, blind, seen, status>>
  PROVE  /\ Drifted' = Drifted
         /\ queue' = queue /\ running' = running => (HandledRuns => HandledRuns')
         /\ running' = running => (NoneGoesBack => NoneGoesBack')
         /\ queue' = queue /\ stored' = stored => (NextIsStored => NextIsStored')
<1>1. Drifted' = Drifted
  BY DEF Drifted
<1>2. ASSUME queue' = queue, running' = running, HandledRuns PROVE HandledRuns'
  BY <1>1, <1>2 DEF HandledRuns, Waiting
<1>3. ASSUME running' = running, NoneGoesBack PROVE NoneGoesBack'
  BY <1>3 DEF NoneGoesBack
<1>4. ASSUME queue' = queue, stored' = stored, NextIsStored PROVE NextIsStored'
  BY <1>1, <1>4 DEF NextIsStored, NextStack, StoredDigest
<1> QED BY <1>1, <1>2, <1>3, <1>4

\* The first stack of the work list is recreated, or the command fails.
LEMMA UpStep ==
  ASSUME ClientTypes, CommandTypes, InputsInv, JobsInv, DigestInv, LocalInv, KnownInv',
         HandledRuns, NoneGoesBack, NextIsStored, queue \subseteq DOMAIN StackOrder,
         pc = "up", UNCHANGED <<opt, running0, line0>>, UNCHANGED check,
         NEW i \in queue, NextStack(i), stored' = Pulled(Missing(InStack(StackOrder[i]))),
         running' = Up(InStack(StackOrder[i]), stored'), queue' = queue \ {i}
  PROVE  HandledRuns' /\ NoneGoesBack'
<1> DEFINE all == InStack(StackOrder[i])
           here(s) == Pulled(Missing(all))[ContextOf[StackOf[s]]][image[s].repo][image[s].tag]
<1>1. UNCHANGED <<inputs, image, blind, seen, status>> /\ Drifted' = Drifted
  BY PullFrame DEF check
<1>2. all \in SUBSET Services
  BY DEF InStack
<1>3. ASSUME NEW s \in inputs, status[s].error = "noError"
      PROVE  /\ s \in Services /\ (s \in all <=> StackOf[s] = StackOrder[i])
             /\ s \notin all => running'[s] = running[s]
             /\ s \in all => running'[s] = here(s) /\ running'[s] >= running0[s]
                             /\ (StoredDigest(s) >= seen[s] => running'[s] >= seen[s])
  <2>1. /\ s \in Services /\ image[s] # NoLine /\ image[s] = ImageIn(line0, s)
        /\ (s \in all <=> StackOf[s] = StackOrder[i])
    BY DEF InputsInv, CommandTypes, InStack
  <2>2. running'[s] = IF s \in all THEN here(s) ELSE running[s]
    BY <2>1 DEF Up
  <2>3. ASSUME s \in all
        PROVE  here(s) \in Nat /\ here(s) # 0 /\ (StoredDigest(s) >= seen[s] => here(s) >= seen[s])
    <3> HIDE DEF all
    <3> QED BY <1>2, <1>3, <2>3, UpRuns
  <2>4. here(s) # 0 => running0[s] <= here(s)
    BY <2>1 DEF KnownInv
  <2>5. running0[s] \in Nat
    BY <2>1 DEF CommandTypes
  <2>6. ASSUME s \in all PROVE running'[s] >= running0[s]
    BY <2>2, <2>3, <2>4, <2>5, <2>6
  <2> QED BY <2>1, <2>2, <2>3, <2>6
<1>4. HandledRuns'
  <2>1. SUFFICES ASSUME NEW s \in Drifted PROVE Waiting(s)' \/ running'[s] >= seen[s]
    BY <1>1 DEF HandledRuns
  <2>2. s \in inputs /\ status[s].error = "noError"
    BY DEF Drifted
  <2>3. CASE StackOf[s] = StackOrder[i]
    <3>1. StoredDigest(s) >= seen[s]
      BY <2>3 DEF NextIsStored
    <3> QED BY <1>3, <2>2, <2>3, <3>1
  <2>4. CASE StackOf[s] # StackOrder[i]
    <3>1. Waiting(s) => Waiting(s)'
      BY <2>4 DEF Waiting
    <3>2. running'[s] = running[s]
      BY <1>3, <2>2, <2>4
    <3> QED BY <3>1, <3>2 DEF HandledRuns
  <2> QED BY <2>3, <2>4
<1>5. NoneGoesBack'
  <2>1. SUFFICES ASSUME NEW s \in inputs, status[s].error = "noError" PROVE running'[s] >= running0[s]
    BY <1>1 DEF NoneGoesBack
  <2> QED BY <1>3, <2>1 DEF NoneGoesBack
<1> QED BY <1>4, <1>5

\* What the checks found current runs what they saw.
LEMMA CurrentOrDrifted ==
  ASSUME ClientTypes, CommandTypes, InputsInv, DigestInv, LocalInv, pc # "prefetch",
         \A s \in inputs : job[s] = "done", NoneGoesBack,
         \A s \in Drifted : running[s] >= seen[s]
  PROVE  \A s \in inputs :
           /\ status[s].error = "noError" /\ status[s].newer = {}
           /\ running0[s] # 0 /\ ContextOf[StackOf[s]] \notin blind
           => running[s] >= seen[s]
<1>1. SUFFICES ASSUME NEW s \in inputs, status[s].error = "noError", status[s].newer = {},
                      running0[s] # 0, ContextOf[StackOf[s]] \notin blind
               PROVE  running[s] >= seen[s]
  OBVIOUS
<1>2. s \in Drifted \/ seen[s] = running0[s]
  BY <1>1, SeenAfter
<1>3. running[s] >= running0[s]
  BY <1>1 DEF NoneGoesBack
<1> QED BY <1>2, <1>3

\* A pull with recreation runs what was seen.
LEMMA PullKept ==
  ASSUME ClientTypes, CommandTypes, InputsInv, JobsInv, DigestInv, LocalInv, KnownInv', PullInv,
         UpgradeInv, [Next]_vars
  PROVE  PullInv'
<1>1. UNCHANGED <<line0, running0, opt>>
  BY DaemonUntouched
<1>2. SUFFICES ASSUME opt.cmd = "pull", opt.recreate, ~opt.dryRun
               PROVE  /\ pc' \in {"pull", "up"} =>
                           queue' \subseteq DOMAIN StackOrder /\ HandledRuns' /\ NoneGoesBack'
                      /\ pc' = "up" => NextIsStored'
                      /\ pc' = "done" => RecreateRunsWhatWasSeen'
  BY <1>1 DEF PullInv
<1>3. CASE UNCHANGED check /\ UNCHANGED <<pc, result, queue, running, stored>>
  <2>1. UNCHANGED <<opt, running0, inputs, image, blind, seen, status>>
    BY <1>1, <1>3 DEF check
  <2>2. RecreateRunsWhatWasSeen => RecreateRunsWhatWasSeen'
    BY <1>3, <2>1 DEF RecreateRunsWhatWasSeen
  <2>3. /\ pc \in {"pull", "up"} => queue \subseteq DOMAIN StackOrder /\ HandledRuns /\ NoneGoesBack
        /\ pc = "up" => NextIsStored
        /\ pc = "done" => RecreateRunsWhatWasSeen
    BY <1>2 DEF PullInv
  <2> QED BY <1>3, <2>1, <2>2, <2>3, PullFrame
<1>4. ASSUME NEW s \in Services, Goroutine(s) \/ Request(s) PROVE pc' \notin After
  <2>1. pc' = pc
    BY <1>4, GoroutineStep, RequestStep
  <2> QED BY <1>4, <2>1, ChecksEnded
<1>5. CASE BuildCheckInputs
  <2>1. pc' \in {"prefetch", "done"} /\ (pc' = "done" => inputs' = {})
    BY <1>5 DEF BuildCheckInputs, Return, InputsInv
  <2> QED BY <2>1 DEF RecreateRunsWhatWasSeen
<1>6. CASE PrefetchLocalDigests
  BY <1>6 DEF PrefetchLocalDigests
<1>7. CASE AfterCheck
  <2>1. /\ pc = "check" /\ \A s \in inputs : job[s] = "done"
        /\ UNCHANGED <<running, inputs, image, blind, seen, status>>
        /\ queue' = groupByStackForPull
        /\ (Drifted = {} /\ pc' = "done") \/ pc' = "pull"
    BY <1>2, <1>7 DEF AfterCheck, Return, daemon, check
  <2>2. NoneGoesBack
    <3>1. running = running0
      BY <2>1 DEF InputsInv
    <3>2. \A s \in inputs : running0[s] \in Nat
      BY DEF CommandTypes
    <3>3. \A n \in Nat : n >= n
      BY SMTT(30)
    <3> QED BY <3>1, <3>2, <3>3 DEF NoneGoesBack
  <2>3. CASE Drifted = {} /\ pc' = "done"
    <3>1. \A s \in inputs :
            /\ status[s].error = "noError" /\ status[s].newer = {}
            /\ running0[s] # 0 /\ ContextOf[StackOf[s]] \notin blind
            => running[s] >= seen[s]
      BY <2>1, <2>2, <2>3, CurrentOrDrifted
    <3> QED BY <1>1, <2>1, <2>3, <3>1 DEF RecreateRunsWhatWasSeen
  <2>4. CASE pc' = "pull"
    <3>1. queue' \subseteq DOMAIN StackOrder
      BY <2>1 DEF groupByStackForPull
    <3>2. Drifted' = Drifted
      BY <2>1 DEF Drifted
    <3>3. ASSUME NEW s \in Drifted PROVE Waiting(s)'
      <4>1. s \in Services
        BY DEF Drifted, CommandTypes
      <4>2. \E i \in DOMAIN StackOrder : StackOrder[i] = StackOf[s]
        BY <4>1, StacksAssumption DEF Range
      <4> QED BY <2>1, <4>2 DEF Waiting, groupByStackForPull
    <3>4. HandledRuns'
      BY <3>2, <3>3 DEF HandledRuns
    <3>5. NoneGoesBack'
      BY <1>1, <2>1, <2>2 DEF NoneGoesBack
    <3> QED BY <2>4, <3>1, <3>4, <3>5
  <2> QED BY <2>1, <2>3, <2>4
<1>8. ~RewriteImage /\ ~UpgradeReturns
  BY <1>2 DEF RewriteImage, UpgradeReturns, UpgradeInv
<1>9. ASSUME pc \in {"pull", "up"}
      PROVE  /\ queue \subseteq DOMAIN StackOrder /\ HandledRuns /\ NoneGoesBack
             /\ \A s \in inputs : job[s] = "done"
             /\ pc = "up" => NextIsStored
  BY <1>2, <1>9 DEF PullInv, JobsInv, After
<1>10. CASE ComposePull
  <2>1. pc = "pull" /\ UNCHANGED check /\ running' = running
    BY <1>10 DEF ComposePull
  <2>2. UNCHANGED <<opt, running0, inputs, image, blind, seen, status>>
    BY <1>1, <2>1 DEF check
  <2>3. PICK i \in queue : /\ NextStack(i)
                           /\ \/ /\ stored' = Pulled({s \in Drifted : StackOf[s] = StackOrder[i]})
                                 /\ pc' = "up" /\ queue' = queue
                              \/ pc' = "done" /\ result' = "error"
    BY <1>2, <1>10 DEF ComposePull, Return
  <2>4. CASE pc' = "done" /\ result' = "error"
    BY <2>4 DEF RecreateRunsWhatWasSeen
  <2>5. CASE /\ stored' = Pulled({s \in Drifted : StackOf[s] = StackOrder[i]})
             /\ pc' = "up" /\ queue' = queue
    <3>1. HandledRuns' /\ NoneGoesBack' /\ Drifted' = Drifted
      BY <1>9, <2>1, <2>2, <2>5, PullFrame
    <3>2. \A k \in queue : NextStack(k)' => k = i
      <4>1. queue \subseteq Nat
        BY SMTT(30), <1>9, <2>1, StacksAssumption
      <4>2. SUFFICES ASSUME NEW k \in queue, NextStack(k)' PROVE k = i
        OBVIOUS
      <4>3. i <= k /\ k <= i
        BY <2>3, <2>5, <4>2 DEF NextStack
      <4> QED BY SMTT(30), <4>1, <4>3
    <3>3. ASSUME NEW s \in Drifted, StackOf[s] = StackOrder[i] PROVE StoredDigest(s)' >= seen[s]
      BY <2>1, <2>2, <2>5, <3>3, PullStores
    <3>4. NextIsStored'
      BY <2>2, <2>5, <3>1, <3>2, <3>3 DEF NextIsStored
    <3> QED BY <1>9, <2>1, <2>5, <3>1, <3>4
  <2> QED BY <2>3, <2>4, <2>5
<1>11. CASE ComposeUp
  <2>1. pc = "up" /\ UNCHANGED check
    BY <1>11 DEF ComposeUp
  <2>2. PICK i \in queue : /\ NextStack(i)
                           /\ \/ /\ stored' = Pulled(Missing(InStack(StackOrder[i])))
                                 /\ running' = Up(InStack(StackOrder[i]), stored')
                                 /\ queue' = queue \ {i} /\ pc' = "pull"
                              \/ pc' = "done" /\ result' = "error"
    BY <1>11 DEF ComposeUp, Return
  <2>3. CASE pc' = "done" /\ result' = "error"
    BY <2>3 DEF RecreateRunsWhatWasSeen
  <2>4. CASE /\ stored' = Pulled(Missing(InStack(StackOrder[i])))
             /\ running' = Up(InStack(StackOrder[i]), stored')
             /\ queue' = queue \ {i} /\ pc' = "pull"
    <3>1. HandledRuns' /\ NoneGoesBack'
      BY <1>1, <1>9, <2>1, <2>2, <2>4, UpStep
    <3> QED BY <1>9, <2>1, <2>4, <3>1
  <2> QED BY <2>2, <2>3, <2>4
<1>12. CASE PullReturns
  <2>1. /\ pc = "pull" /\ pc' = "done" /\ queue = {}
        /\ UNCHANGED <<running, inputs, blind, seen, status>>
    BY <1>12 DEF PullReturns, Return, daemon, check
  <2>2. \A s \in Drifted : running[s] >= seen[s]
    BY <1>9, <2>1 DEF HandledRuns, Waiting
  <2>3. \A s \in inputs :
          /\ status[s].error = "noError" /\ status[s].newer = {}
          /\ running0[s] # 0 /\ ContextOf[StackOf[s]] \notin blind
          => running[s] >= seen[s]
    BY <1>9, <2>1, <2>2, CurrentOrDrifted
  <2> QED BY <1>1, <2>1, <2>3 DEF RecreateRunsWhatWasSeen
<1>13. CASE World \/ Terminated \/ UNCHANGED vars
  BY <1>3, <1>13, WorldStep DEF daemon
<1> QED BY <1>4, <1>5, <1>6, <1>7, <1>8, <1>10, <1>11, <1>12, <1>13 DEF Next, Command, After

(***************************************************************************)
(* What is rewritten                                                       *)
(***************************************************************************)
\* Tags are written as the sequences of their parts.
LEMMA TagsAreSequences == \A t \in Tags : t \in Seq(STRING)
BY SMTT(30), TagsAssumption DEF Tags

\* The newest tag of an upgradable service is one of those found.
LEMMA NewestIsNewer ==
  ASSUME CommandTypes, NEW s \in Upgradable
  PROVE  Newest(s) \in status[s].newer /\ Newest(s) \in Tags /\ Newest(s) \in Seq(STRING)
<1>1. status[s].newer \subseteq Tags /\ status[s].newer # {}
  BY DEF Upgradable, CommandTypes, Statuses
<1>2. Len(TagOrder) \in Nat /\ \A t \in Tags : \E i \in 1 .. Len(TagOrder) : t = TagOrder[i]
  BY SMTT(30), TagsAssumption DEF Tags
<1>3. Listed(status[s].newer, Version, TagOrder, Len(TagOrder))
  BY <1>1, <1>2, TagsAssumption DEF Listed
<1>4. \E t \in status[s].newer : \A u \in status[s].newer : Version[u] <= Version[t]
  BY <1>1, <1>2, <1>3, GreatestExists
<1>5. Newest(s) \in status[s].newer
  BY <1>4 DEF Newest
<1> QED BY <1>1, <1>5, TagsAreSequences

\* The whole reference is replaced by the whole new one, and nothing else is replaced.
LEMMA ReplaceWhole ==
  ASSUME NEW old \in [repo : Repos, tag : Seq(STRING)], NEW t \in Seq(STRING)
  PROVE  /\ ReplaceIn(old, old, [old EXCEPT !.tag = t]) = [old EXCEPT !.tag = t]
         /\ \A ref, new : ~OccursIn(ref, old) => ReplaceIn(ref, old, new) = ref
<1>1. Len(old.tag) \in Nat /\ SubSeq(old.tag, 1, Len(old.tag)) = old.tag
  BY SMTT(30)
<1>2. OccursIn(old, old)
  BY SMTT(30), <1>1 DEF OccursIn
<1>3. SubSeq(old.tag, Len(old.tag) + 1, Len(old.tag)) = <<>>
  BY SMTT(30)
<1>4. t \o <<>> = t
  BY SMTT(30)
<1> QED BY <1>2, <1>3, <1>4 DEF ReplaceIn

\* Where references are separate, a rewriting turns its own line into the expected one.
LEMMA RewriteOne ==
  ASSUME CommandTypes, InputsInv, LinesInv, Separate, NEW s \in Upgradable,
         NEW f \in Files, f \in Range(FilesOf[StackOf[s]]), Outstanding(f, s), NEW u \in Services
  PROVE  ReplaceIn(line[f][u], image[s], NewRef(s)) = IF u = s THEN Expected(f, s) ELSE line[f][u]
<1>1. s \in inputs /\ s \in Services /\ image[s] \in Literal
  BY DEF Upgradable, CommandTypes, InputsInv
<1>2. image[s] \in [repo : Repos, tag : Seq(STRING)]
  BY <1>1, TagsAreSequences DEF Literal
<1>3. /\ ReplaceIn(image[s], image[s], NewRef(s)) = NewRef(s)
      /\ \A ref : ~OccursIn(ref, image[s]) => ReplaceIn(ref, image[s], NewRef(s)) = ref
  BY <1>2, NewestIsNewer, ReplaceWhole DEF NewRef
<1>4. OccursIn(line0[f][u], image[s]) => u = s /\ line0[f][u] = image[s]
  BY DEF Separate
<1>5. CASE u = s
  <2>1. line[f][s] = line0[f][s]
    BY <1>1 DEF LinesInv
  <2>2. CASE line0[f][s] = image[s]
    BY <1>3, <1>5, <2>1, <2>2 DEF Expected
  <2>3. CASE line0[f][s] # image[s]
    BY <1>3, <1>4, <1>5, <2>1, <2>3 DEF Expected
  <2> QED BY <2>2, <2>3
<1>6. CASE u # s
  <2>1. ~OccursIn(line[f][u], image[s])
    <3>1. CASE line[f][u] = line0[f][u]
      BY <1>4, <1>6, <3>1
    <3>2. CASE line[f][u] # line0[f][u]
      <4>1. line[f][u] = NewRef(u) /\ u \in Upgradable /\ f \in Range(FilesOf[StackOf[u]])
        BY <3>2 DEF LinesInv, Expected
      <4> QED BY <1>6, <4>1 DEF Separate
    <3> QED BY <3>1, <3>2
  <2> QED BY <1>3, <1>6, <2>1
<1> QED BY <1>5, <1>6

\* What is expected does not change after the checks.
LEMMA UpgradeFrame ==
  ASSUME UNCHANGED <<inputs, status, image, line0>>
  PROVE  /\ Upgradable' = Upgradable /\ Rewritings' = Rewritings
         /\ \A s : NewRef(s)' = NewRef(s)
         /\ \A f, s : Expected(f, s)' = Expected(f, s)
         /\ Separate' <=> Separate
<1>1. Upgradable' = Upgradable
  BY DEF Upgradable
<1>2. Rewritings' = Rewritings
  BY <1>1 DEF Rewritings
<1>3. ASSUME NEW s PROVE NewRef(s)' = NewRef(s)
  BY DEF NewRef, Newest
<1>4. ASSUME NEW f, NEW s PROVE Expected(f, s)' = Expected(f, s)
  BY <1>1, <1>3 DEF Expected
<1>5. Separate' <=> Separate
  BY SMTT(30), <1>1, <1>3 DEF Separate
<1> QED BY <1>1, <1>2, <1>3, <1>4, <1>5

\* The places of a rewriting.
LEMMA RewritingIs ==
  ASSUME CommandTypes, NEW p \in Rewritings
  PROVE  /\ p[1] \in DOMAIN JobOrder /\ p = <<p[1], p[2]>>
         /\ LET s == JobOrder[p[1]]
                f == FilesOf[StackOf[s]][p[2]]
            IN /\ s \in Upgradable /\ p[2] \in DOMAIN FilesOf[StackOf[s]]
               /\ f \in Range(FilesOf[StackOf[s]]) /\ f \in Files
<1>1. /\ p[1] \in DOMAIN JobOrder /\ p = <<p[1], p[2]>> /\ JobOrder[p[1]] \in Upgradable
      /\ p[2] \in DOMAIN FilesOf[StackOf[JobOrder[p[1]]]]
  BY SMTT(30) DEF Rewritings
<1> DEFINE s == JobOrder[p[1]]
<1>2. s \in Services
  BY <1>1 DEF Upgradable, CommandTypes
<1>3. FilesOf[StackOf[s]] \in Seq(Files)
  BY <1>2, StacksAssumption
<1>4. FilesOf[StackOf[s]][p[2]] \in Files /\ FilesOf[StackOf[s]][p[2]] \in Range(FilesOf[StackOf[s]])
  BY SMTT(30), <1>1, <1>3 DEF Range
<1> QED BY <1>1, <1>4

\* No two rewritings are of the same service and the same file.
LEMMA RewritingsDiffer ==
  ASSUME CommandTypes, NEW p \in Rewritings, NEW q \in Rewritings,
         JobOrder[q[1]] = JobOrder[p[1]],
         FilesOf[StackOf[JobOrder[p[1]]]][q[2]] = FilesOf[StackOf[JobOrder[p[1]]]][p[2]]
  PROVE  q = p
<1> DEFINE s == JobOrder[p[1]]
<1>1. /\ p[1] \in DOMAIN JobOrder /\ p = <<p[1], p[2]>> /\ s \in Upgradable
      /\ p[2] \in DOMAIN FilesOf[StackOf[s]]
  BY RewritingIs
<1>2. q[1] \in DOMAIN JobOrder /\ q = <<q[1], q[2]>> /\ q[2] \in DOMAIN FilesOf[StackOf[s]]
  BY RewritingIs
<1>3. q[1] = p[1]
  BY <1>1, <1>2, StacksAssumption DEF IsInjective
<1>4. s \in Services
  BY <1>1 DEF Upgradable, CommandTypes
<1>5. IsInjective(FilesOf[StackOf[s]])
  BY <1>4, StacksAssumption
<1>6. q[2] = p[2]
  BY <1>1, <1>2, <1>5 DEF IsInjective
<1> QED BY <1>1, <1>2, <1>3, <1>6

\* At the start of the rewriting every line that is to change has its rewriting.
LEMMA AllOutstanding ==
  ASSUME CommandTypes, NEW f \in Files, NEW s \in Services, Expected(f, s) # line0[f][s]
  PROVE  \E p \in Rewritings : JobOrder[p[1]] = s /\ FilesOf[StackOf[s]][p[2]] = f
<1>1. s \in Upgradable /\ f \in Range(FilesOf[StackOf[s]])
  BY DEF Expected
<1>2. PICK i \in DOMAIN JobOrder : JobOrder[i] = s
  BY StacksAssumption DEF Range
<1>3. PICK k \in DOMAIN FilesOf[StackOf[s]] : FilesOf[StackOf[s]][k] = f
  BY <1>1 DEF Range
<1>4. <<i, k>> \in Rewritings
  BY SMTT(30), <1>1, <1>2, <1>3 DEF Rewritings
<1> QED BY <1>2, <1>3, <1>4

\* The lines after a rewriting.
LEMMA RewrittenLines ==
  ASSUME LinesOf(line), NEW f \in Files, NEW old, NEW ref
  PROVE  /\ LinesOf(rewriteImageInFile(f, old, ref))
         /\ \A g \in Files, u \in Services :
              rewriteImageInFile(f, old, ref)[g][u]
              = IF g = f THEN ReplaceIn(line[g][u], old, ref) ELSE line[g][u]
<1>1. DOMAIN line = Files /\ \A g \in Files : line[g] = [u \in Services |-> line[g][u]]
  BY DEF LinesOf
<1>2. \A g \in Files : rewriteImageInFile(f, old, ref)[g]
        = IF g = f THEN [u \in Services |-> ReplaceIn(line[f][u], old, ref)] ELSE line[g]
  BY <1>1 DEF rewriteImageInFile
<1>3. \A g \in Files, u \in Services :
        rewriteImageInFile(f, old, ref)[g][u]
        = IF g = f THEN ReplaceIn(line[g][u], old, ref) ELSE line[g][u]
  BY <1>2
<1>4. \A g \in Files : rewriteImageInFile(f, old, ref)[g]
        = [u \in Services |-> rewriteImageInFile(f, old, ref)[g][u]]
  BY <1>1, <1>2
<1>5. rewriteImageInFile(f, old, ref) = [g \in Files |-> rewriteImageInFile(f, old, ref)[g]]
  BY <1>1 DEF rewriteImageInFile
<1>6. LinesOf(rewriteImageInFile(f, old, ref))
  BY <1>4, <1>5 DEF LinesOf
<1> QED BY <1>3, <1>6

\* Lines are equal when each is.
LEMMA SameLines ==
  ASSUME NEW a, NEW b, LinesOf(a), LinesOf(b), \A g \in Files, u \in Services : a[g][u] = b[g][u]
  PROVE  a = b
<1>1. \A g \in Files : [u \in Services |-> a[g][u]] = [u \in Services |-> b[g][u]]
  OBVIOUS
<1> QED BY <1>1 DEF LinesOf

\* One rewriting: its line is as expected, the others are as they were, and the service is
\* reported when its line changed.
LEMMA RewriteStep ==
  ASSUME CommandTypes, InputsInv, Separate, LinesInv, queue \subseteq Rewritings, LinesOf(line),
         ChangesInv, NEW p \in queue
  PROVE  LET s == JobOrder[p[1]]
             f == FilesOf[StackOf[s]][p[2]]
             new == rewriteImageInFile(f, image[s], NewRef(s))
         IN
         /\ \A g \in Files, u \in Services :
              new[g][u] = IF \E q \in queue \ {p} : JobOrder[q[1]] = u /\ FilesOf[StackOf[u]][q[2]] = g
                          THEN line0[g][u] ELSE Expected(g, u)
         /\ \A u \in Services :
              u \in (IF new # line THEN changes \cup {s} ELSE changes)
              <=> \E g \in Files : new[g][u] # line0[g][u]
<1> DEFINE s == JobOrder[p[1]]
           f == FilesOf[StackOf[s]][p[2]]
           new == rewriteImageInFile(f, image[s], NewRef(s))
           left(g, u) == \E q \in queue \ {p} : JobOrder[q[1]] = u /\ FilesOf[StackOf[u]][q[2]] = g
<1>1. s \in Upgradable /\ f \in Range(FilesOf[StackOf[s]]) /\ f \in Files
  BY RewritingIs
<1>2. s \in Services
  BY <1>1 DEF Upgradable, CommandTypes
<1>3. Outstanding(f, s) /\ ~left(f, s)
        /\ \A g \in Files, u \in Services : ~(g = f /\ u = s) => (left(g, u) <=> Outstanding(g, u))
  <2>1. Outstanding(f, s)
    BY DEF Outstanding
  <2>2. ~left(f, s)
    BY RewritingsDiffer
  <2>3. ASSUME NEW g \in Files, NEW u \in Services, ~(g = f /\ u = s)
        PROVE  left(g, u) <=> Outstanding(g, u)
    BY <2>3 DEF Outstanding
  <2> QED BY <2>1, <2>2, <2>3
<1> HIDE DEF s, f, left
<1>4. LinesOf(new) /\ \A g \in Files, u \in Services :
        new[g][u] = IF g = f THEN ReplaceIn(line[g][u], image[s], NewRef(s)) ELSE line[g][u]
  BY SMTT(30), <1>1, RewrittenLines
<1> HIDE DEF new
<1>5. \A g \in Files, u \in Services :
        new[g][u] = IF g = f /\ u = s THEN Expected(g, u) ELSE line[g][u]
  <2>1. ASSUME NEW u \in Services
        PROVE  ReplaceIn(line[f][u], image[s], NewRef(s)) = IF u = s THEN Expected(f, s) ELSE line[f][u]
    BY <1>1, <1>3, RewriteOne
  <2> QED BY <1>4, <2>1
<1>6. ASSUME NEW g \in Files, NEW u \in Services
      PROVE  new[g][u] = IF left(g, u) THEN line0[g][u] ELSE Expected(g, u)
  <2>1. CASE g = f /\ u = s
    BY <1>3, <1>5, <2>1
  <2>2. CASE ~(g = f /\ u = s)
    <3>1. line[g][u] = IF Outstanding(g, u) THEN line0[g][u] ELSE Expected(g, u)
      BY DEF LinesInv
    <3>2. new[g][u] = line[g][u]
      BY <1>5, <2>2
    <3> QED BY <1>3, <2>2, <3>1, <3>2
  <2> QED BY <2>1, <2>2
<1>7. line[f][s] = line0[f][s]
  BY <1>1, <1>2, <1>3 DEF LinesInv
<1>8. ASSUME new[f][s] = line[f][s] PROVE new = line
  <2>1. \A g \in Files, u \in Services : new[g][u] = line[g][u]
    BY <1>5, <1>8
  <2> QED BY <1>4, <2>1, SameLines
<1>9. ASSUME NEW u \in Services
      PROVE  u \in (IF new # line THEN changes \cup {s} ELSE changes)
             <=> \E g \in Files : new[g][u] # line0[g][u]
  <2>1. CASE u = s /\ new # line
    BY <1>1, <1>7, <1>8, <2>1
  <2>2. CASE new = line
    BY <2>2 DEF ChangesInv
  <2>3. CASE u # s /\ new # line
    <3>1. \A g \in Files : new[g][u] = line[g][u]
      BY <1>5, <2>3
    <3> QED BY <2>3, <3>1 DEF ChangesInv
  <2> QED BY <2>1, <2>2, <2>3
<1> QED BY <1>6, <1>9 DEF s, f, new, left

\* The services reported as updated.
LEMMA ReportIs ==
  ASSUME NEW s
  PROVE  UpgradeReport(s) = "updated" <=> s \in Upgradable /\ s \in changes
BY DEF UpgradeReport, Upgradable, Drifted

\* The files and the report while nothing of them changes.
LEMMA FilesFrame ==
  ASSUME UNCHANGED <<opt, line0, line, inputs, status, image, queue, changes>>
  PROVE  /\ (LinesInv => LinesInv') /\ (ChangesInv => ChangesInv')
         /\ \A s : UpgradeReport(s)' = UpgradeReport(s)
<1>1. ASSUME NEW f, NEW s PROVE Expected(f, s)' = Expected(f, s)
  BY UpgradeFrame
<1>2. ASSUME LinesInv PROVE LinesInv'
  BY <1>1, <1>2 DEF LinesInv, Outstanding
<1>3. ASSUME ChangesInv PROVE ChangesInv'
  BY <1>3 DEF ChangesInv
<1>4. ASSUME NEW s PROVE UpgradeReport(s)' = UpgradeReport(s)
  BY DEF UpgradeReport, Upgradable, Drifted
<1> QED BY <1>2, <1>3, <1>4

\* Nothing is upgraded before the rewriting.
LEMMA NothingUpgraded ==
  ASSUME pc' = "done", line' = line0', inputs' = {}
  PROVE  UpgradeIsExact'
<1>1. Upgradable' = {}
  BY DEF Upgradable
<1>2. \A f \in Files, s \in Services : Expected(f, s)' = line0'[f][s]
  BY <1>1 DEF Expected
<1> QED BY <1>1, <1>2 DEF UpgradeIsExact

\* A dry run leaves the files.
LEMMA FilesLeft ==
  ASSUME pc' = "done", line' = line0', opt.dryRun \/ opt.cmd # "upgrade", opt' = opt
  PROVE  UpgradeIsExact'
BY DEF UpgradeIsExact

\* What the rewriting leaves when it ends.
LEMMA ExactAfter ==
  ASSUME CommandTypes, UNCHANGED <<opt, line0, line, inputs, status, image, queue>>,
         Separate => LinesInv /\ ChangesInv,
         result' = "ok" => queue = {} /\ changes' = changes
  PROVE  UpgradeIsExact'
<1>1. /\ \A f, s : Expected(f, s)' = Expected(f, s)
      /\ Separate' <=> Separate
  BY UpgradeFrame
<1>2. SUFFICES ASSUME Separate
               PROVE  /\ \A f \in Files, s \in Services : line[f][s] \in {line0[f][s], Expected(f, s)'}
                      /\ result' = "ok" =>
                           /\ \A f \in Files, s \in Services : line[f][s] = Expected(f, s)'
                           /\ \A s \in inputs :
                                UpgradeReport(s)' = "updated"
                                <=> \E f \in Files : line[f][s] # line0[f][s]
  BY <1>1 DEF UpgradeIsExact
<1>3. \A f \in Files, s \in Services :
        /\ line[f][s] \in {line0[f][s], Expected(f, s)}
        /\ queue = {} => line[f][s] = Expected(f, s)
  BY <1>2 DEF LinesInv, Outstanding
<1>4. ASSUME result' = "ok", NEW s \in inputs
      PROVE  UpgradeReport(s)' = "updated" <=> \E f \in Files : line[f][s] # line0[f][s]
  <2>1. UpgradeReport(s)' = UpgradeReport(s)
    BY <1>4, FilesFrame
  <2>2. UpgradeReport(s) = "updated" <=> s \in Upgradable /\ s \in changes
    BY ReportIs
  <2>3. s \in Services
    BY DEF CommandTypes
  <2>4. s \in changes <=> \E f \in Files : line[f][s] # line0[f][s]
    BY <1>2, <2>3 DEF ChangesInv
  <2>5. ASSUME NEW f \in Files, line[f][s] # line0[f][s] PROVE s \in Upgradable
    BY <1>3, <2>3, <2>5 DEF Expected
  <2> QED BY <2>1, <2>2, <2>4, <2>5
<1> QED BY <1>1, <1>3, <1>4

\* An upgrade rewrites exactly what it should.
LEMMA UpgradeKept ==
  ASSUME ClientTypes, CommandTypes, InputsInv, JobsInv, UpgradeInv, [Next]_vars
  PROVE  UpgradeInv'
<1>1. UNCHANGED <<line0, opt>>
  BY DaemonUntouched
<1>2. CASE UNCHANGED disk /\ UNCHANGED check /\ UNCHANGED <<pc, result, queue, changes>>
  <2>1. UNCHANGED <<opt, line0, line, torn, inputs, status, image, queue, changes>>
    BY <1>1, <1>2 DEF disk, check
  <2>2. (LinesInv => LinesInv') /\ (ChangesInv => ChangesInv')
    BY <2>1, FilesFrame
  <2>3. Rewritings' = Rewritings /\ (Separate' <=> Separate)
    BY <2>1, UpgradeFrame
  <2>4. LinesOf(line) => LinesOf(line)'
    BY <2>1 DEF LinesOf
  <2>5. UpgradeIsExact => UpgradeIsExact'
    <3>1. \A f, s : Expected(f, s)' = Expected(f, s)
      BY <2>1, UpgradeFrame
    <3>2. \A s : UpgradeReport(s)' = UpgradeReport(s)
      BY <2>1, FilesFrame
    <3> QED BY <1>2, <2>1, <2>3, <3>1, <3>2 DEF UpgradeIsExact
  <2> QED BY <1>2, <2>1, <2>2, <2>3, <2>4, <2>5 DEF UpgradeInv
<1>3. ASSUME NEW s \in Services, Goroutine(s) \/ Request(s) PROVE UpgradeInv'
  <2>1. pc' = pc /\ UNCHANGED <<line, torn, changes>>
    BY <1>3, GoroutineStep, RequestStep DEF disk
  <2>2. pc \in {"inputs", "prefetch", "check"}
    BY <1>3, ChecksEnded DEF CommandTypes
  <2> QED BY <2>1, <2>2 DEF UpgradeInv, LinesOf
<1>4. CASE BuildCheckInputs
  <2>1. pc = "inputs" /\ UNCHANGED <<line, torn, changes>> /\ pc' \in {"prefetch", "done"}
        /\ (pc' = "done" => inputs' = {}) /\ line = line0
    BY <1>4 DEF BuildCheckInputs, Return, disk, InputsInv
  <2>2. pc' = "done" => UpgradeIsExact'
    BY <1>1, <2>1, NothingUpgraded
  <2> QED BY <2>1, <2>2 DEF UpgradeInv, LinesOf
<1>5. CASE PrefetchLocalDigests
  BY <1>5 DEF PrefetchLocalDigests, UpgradeInv, LinesOf, disk
<1>6. CASE AfterCheck
  <2>1. /\ pc = "check" /\ UNCHANGED <<line, torn, changes, inputs, status, image>> /\ line = line0
        /\ changes = {} /\ LinesOf(line)
        /\ \/ opt.cmd = "upgrade" /\ queue' = Rewritings /\ pc' = "rewrite"
           \/ opt.cmd = "pull" /\ pc' = "pull"
           \/ pc' = "done" /\ (opt.dryRun \/ opt.cmd # "upgrade")
    BY <1>6 DEF AfterCheck, Return, disk, check, InputsInv, UpgradeInv
  <2>2. LinesOf(line)'
    BY <2>1 DEF LinesOf
  <2>3. CASE pc' = "done" /\ (opt.dryRun \/ opt.cmd # "upgrade")
    <3>1. UpgradeIsExact'
      BY <1>1, <2>1, <2>3, FilesLeft
    <3> QED BY <2>2, <2>3, <3>1 DEF UpgradeInv
  <2>4. CASE opt.cmd = "pull" /\ pc' = "pull"
    BY <1>1, <2>2, <2>4 DEF UpgradeInv
  <2>5. CASE opt.cmd = "upgrade" /\ queue' = Rewritings /\ pc' = "rewrite"
    <3>1. Rewritings' = Rewritings /\ \A f, s : Expected(f, s)' = Expected(f, s)
      BY <1>1, <2>1, UpgradeFrame
    <3>2. ASSUME NEW f \in Files, NEW s \in Services
          PROVE  Outstanding(f, s)' \/ Expected(f, s) = line0[f][s]
      BY <2>5, AllOutstanding DEF Outstanding
    <3>3. LinesInv'
      BY <1>1, <2>1, <3>1, <3>2 DEF LinesInv
    <3>4. ChangesInv'
      BY <1>1, <2>1 DEF ChangesInv
    <3> QED BY <1>1, <2>2, <2>5, <3>1, <3>3, <3>4 DEF UpgradeInv
  <2> QED BY <2>1, <2>3, <2>4, <2>5
<1>7. ASSUME pc = "rewrite"
      PROVE  /\ opt.cmd = "upgrade" /\ queue \subseteq Rewritings /\ LinesOf(line)
             /\ Separate => LinesInv /\ ChangesInv
  BY <1>7 DEF UpgradeInv
<1>8. CASE RewriteImage
  <2>1. pc = "rewrite" /\ UNCHANGED <<inputs, status, image>>
    BY <1>8 DEF RewriteImage, check
  <2>2. Rewritings' = Rewritings /\ (Separate' <=> Separate) /\ \A f, s : Expected(f, s)' = Expected(f, s)
    BY <1>1, <2>1, UpgradeFrame
  <2> DEFINE svc(p) == JobOrder[p[1]]
             file(p) == FilesOf[StackOf[svc(p)]][p[2]]
             new(p) == rewriteImageInFile(file(p), image[svc(p)], NewRef(svc(p)))
  <2>3. \/ \E p \in queue : /\ line' = new(p) /\ queue' = queue \ {p} /\ pc' = pc
                            /\ changes' = IF new(p) # line THEN changes \cup {svc(p)} ELSE changes
        \/ pc' = "done" /\ result' = "error" /\ line' = line /\ queue' = queue
    BY <1>8 DEF RewriteImage, Return
  <2>4. ASSUME NEW p \in queue, line' = new(p), queue' = queue \ {p}, pc' = pc,
               changes' = IF new(p) # line THEN changes \cup {svc(p)} ELSE changes
        PROVE  UpgradeInv'
    <3>1. LinesOf(line')
      <4>1. file(p) \in Files
        BY <1>7, <2>1, RewritingIs
      <4> HIDE DEF file, svc
      <4> QED BY <1>7, <2>1, <2>4, <4>1, RewrittenLines
    <3>2. ASSUME Separate PROVE LinesInv' /\ ChangesInv'
      <4>1. /\ \A g \in Files, u \in Services :
                 new(p)[g][u] = IF \E q \in queue \ {p} :
                                     JobOrder[q[1]] = u /\ FilesOf[StackOf[u]][q[2]] = g
                                THEN line0[g][u] ELSE Expected(g, u)
            /\ \A u \in Services :
                 u \in (IF new(p) # line THEN changes \cup {svc(p)} ELSE changes)
                 <=> \E g \in Files : new(p)[g][u] # line0[g][u]
        BY <1>7, <2>1, <3>2, RewriteStep
      <4> HIDE DEF new, svc, file
      <4>2. LinesInv'
        BY <1>1, <2>2, <2>4, <4>1 DEF LinesInv, Outstanding
      <4>3. ChangesInv'
        BY <1>1, <2>4, <4>1 DEF ChangesInv
      <4> QED BY <4>2, <4>3
    <3>3. queue' \subseteq Rewritings
      BY <1>7, <2>1, <2>4
    <3>4. pc' = "rewrite" /\ opt'.cmd = "upgrade"
      BY <1>1, <1>7, <2>1, <2>4
    <3> QED BY <2>2, <3>1, <3>2, <3>3, <3>4 DEF UpgradeInv
  <2>5. CASE pc' = "done" /\ result' = "error" /\ line' = line /\ queue' = queue
    <3>1. UpgradeIsExact'
      BY <1>1, <1>7, <2>1, <2>5, ExactAfter
    <3>2. LinesOf(line)'
      BY <1>7, <2>1, <2>5 DEF LinesOf
    <3> QED BY <2>5, <3>1, <3>2 DEF UpgradeInv
  <2> HIDE DEF new
  <2> QED BY <2>3, <2>4, <2>5
<1>9. CASE UpgradeReturns
  <2>1. /\ pc = "rewrite" /\ queue = {} /\ pc' = "done"
        /\ UNCHANGED <<line, inputs, status, image, queue, changes>>
    BY <1>9 DEF UpgradeReturns, Return, disk, check
  <2>2. UpgradeIsExact'
    BY <1>1, <1>7, <2>1, ExactAfter
  <2>3. LinesOf(line)'
    BY <1>7, <2>1 DEF LinesOf
  <2> QED BY <2>1, <2>2, <2>3 DEF UpgradeInv
<1>10. CASE ComposePull \/ ComposeUp \/ PullReturns
  <2>1. pc \in {"pull", "up"} /\ pc' \in {"pull", "up", "done"} /\ line' = line
    BY <1>10 DEF ComposePull, ComposeUp, PullReturns, Return, disk
  <2>2. opt'.cmd = "pull" /\ LinesOf(line)'
    BY <1>1, <2>1 DEF UpgradeInv, LinesOf
  <2>3. UpgradeIsExact'
    BY <2>2 DEF UpgradeIsExact
  <2> QED BY <2>1, <2>2, <2>3 DEF UpgradeInv
<1>11. CASE World \/ Terminated \/ UNCHANGED vars
  BY <1>2, <1>11, WorldStep
<1> QED BY <1>3, <1>4, <1>5, <1>6, <1>8, <1>9, <1>10, <1>11 DEF Next, Command

(***************************************************************************)
(* The invariant holds                                                     *)
(***************************************************************************)
\* What the command finds satisfies it.
LEMMA ImagesInit ==
  ASSUME Init
  PROVE  ImagesInv
<1>1. PICK sc \in Scenarios :
        /\ line = sc.line /\ line0 = sc.line /\ torn = {}
        /\ running0 = sc.running /\ stored = sc.stored /\ digests = sc.digests
  BY DEF Init
<1>2. CanBeFound(sc)
  BY ScenariosAssumption
<1>3. pc = "inputs" /\ changes = {}
  BY DEF Init
<1>4. ChecksInv
  BY ChecksInit
<1>5. line0 \in [Files -> [Services -> Refs \cup {NoLine}]] /\ line = line0
  BY <1>1, <1>4 DEF ChecksInv, RequestsInv, CommandTypes
<1>6. KnownInv
  <2>1. SUFFICES ASSUME NEW s \in Services, NEW ref, ref = ImageIn(line0, s), ref # NoLine
                 PROVE  LET here == ContextOf[StackOf[s]]
                        IN /\ ref \in Literal
                           /\ digests[ref.repo][ref.tag] # 0 \/ <<ref.repo, ref.tag>> \in Pushable
                              => running0[s] <= digests[ref.repo][ref.tag]
                           /\ stored[here][ref.repo][ref.tag] # 0
                              => running0[s] <= stored[here][ref.repo][ref.tag]
    BY DEF KnownInv
  <2>2. ref \in Literal
    BY <1>5, <2>1, ImageIsLiteral
  <2>3. LET known == sc.digests[ref.repo][ref.tag]
            here == sc.stored[ContextOf[StackOf[s]]][ref.repo][ref.tag]
        IN /\ known # 0 \/ <<ref.repo, ref.tag>> \in Pushable => sc.running[s] <= known
           /\ here # 0 => sc.running[s] <= here
    BY <1>1, <1>2, <2>1 DEF CanBeFound
  <2> QED BY <1>1, <2>2, <2>3
<1>7. PullInv
  BY <1>3 DEF PullInv
<1>8. UpgradeInv
  BY <1>1, <1>3, <1>5 DEF UpgradeInv, LinesOf
<1> QED BY <1>4, <1>6, <1>7, <1>8 DEF ImagesInv

\* Every step keeps it.
LEMMA ImagesStep ==
  ASSUME ImagesInv, [Next]_vars
  PROVE  ImagesInv'
<1>1. /\ ClientTypes /\ CommandTypes /\ InputsInv /\ JobsInv /\ TokenInv /\ DigestInv /\ ListInv
      /\ LocalInv /\ KnownInv /\ PullInv /\ UpgradeInv
  BY DEF ImagesInv, ChecksInv, RequestsInv
<1>2. ChecksInv'
  BY ChecksStep DEF ImagesInv
<1>3. KnownInv'
  BY <1>1, KnownKept
<1>4. PullInv' /\ UpgradeInv'
  BY <1>1, <1>2, <1>3, PullKept, UpgradeKept DEF ChecksInv, RequestsInv
<1> QED BY <1>2, <1>3, <1>4 DEF ImagesInv

\* The inductive invariant of the image commands.
THEOREM ImagesInvariance == Spec => []ImagesInv
<1>1. Init => ImagesInv
  BY ImagesInit
<1>2. ImagesInv /\ [Next]_vars => ImagesInv'
  BY ImagesStep
<1> QED BY <1>1, <1>2, PTL DEF Spec

\* After a successful pull --recreate every checked service that was running and whose
\* check found no error and no newer tag runs at least what the check saw in the registry
\* (prefetchLocalDigests, executePull).
THEOREM RecreateIsCurrent == Spec => []RecreateRunsWhatWasSeen
<1>1. ImagesInv => RecreateRunsWhatWasSeen
  BY DEF ImagesInv, ChecksInv, RequestsInv, PullInv, CommandTypes, RecreateRunsWhatWasSeen
<1> QED BY <1>1, ImagesInvariance, PTL

\* Where references are separate, an upgrade rewrites exactly the outdated literal
\* references and reports exactly what it has rewritten, also when a later file fails
\* (Upgrade, rewriteImageInFile, renderUpgradeTerminal).
THEOREM UpgradesAreExact == Spec => []UpgradeIsExact
<1>1. ASSUME ImagesInv PROVE UpgradeIsExact
  <2>1. CASE pc = "done"
    BY <1>1, <2>1 DEF ImagesInv, UpgradeInv
  <2>2. CASE pc # "done"
    BY <1>1, <2>2 DEF ImagesInv, ChecksInv, RequestsInv, UpgradeInv, CommandTypes, LinesInv, UpgradeIsExact
  <2> QED BY <2>1, <2>2
<1> QED BY <1>1, ImagesInvariance, PTL
=============================================================================
