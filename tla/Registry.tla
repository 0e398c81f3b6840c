------------------------------ MODULE Registry ------------------------------
(***************************************************************************)
(* The registry client that concurrent image checks share                  *)
(* (src/internal/registry/auth.go, oci.go): a request is sent with the     *)
(* token cached for its path, then without one, then with a token fetched  *)
(* from the challenge, and the list of tags is read page by page.          *)
(*                                                                         *)
(* The registry is external: tags are pushed again under the feet of the   *)
(* checks, tokens expire, requests fail, and an answer may never come      *)
(* (http.DefaultClient has no timeout).  Only cancellation of the context  *)
(* is sure to end a request.                                               *)
(***************************************************************************)
EXTENDS Naturals, Sequences, FiniteSets

CONSTANTS
  Jobs,       \* the checks, one goroutine each
  Repos,      \* repositories of the registry
  TagOrder,   \* every tag, in the order in which the registry lists them
  Pushable,   \* the tags that others push again: pairs of a repository and a tag
  MaxExpiry,  \* how often the tokens expire
  MaxPush     \* how often a tag is pushed again

Tags == {TagOrder[i] : i \in DOMAIN TagOrder}

\* The URL path of a request: a manifest or the list of tags of a repository.
AllTags == <<"tagsList">>
Paths == Repos \X (Tags \cup {AllTags})

NoToken == 0
NoReply == [status |-> "none", digest |-> 0, tags |-> {}, next |-> 0]
Failure(what) == [NoReply EXCEPT !.status = what]

VARIABLES
  auth,       \* the registry wants a token
  epoch,      \* the tokens issued since this one are valid
  digests,    \* what each tag of each repository is now; 0 when there is no such tag
  pushes,     \* number of pushes
  cancelled,  \* the command's context is cancelled
  cache,      \* tokenCache: the token for each path
  at,         \* where each job's request is
  url,        \* each job's request: its path and the first tag of the page
  tok,        \* the token each job holds
  fetched,    \* history: the jobs that fetched the token they hold for this request
  reply       \* what doWithAuth gave to each job

registry == <<auth, epoch, digests, pushes>>
client == <<cache, at, url, tok, fetched, reply>>

InitClient ==
  /\ cache = [p \in Paths |-> NoToken]
  /\ at = [j \in Jobs |-> "idle"]
  /\ url = [j \in Jobs |-> [path |-> CHOOSE p \in Paths : TRUE, from |-> 1]]
  /\ tok = [j \in Jobs |-> NoToken]
  /\ fetched = {}
  /\ reply = [j \in Jobs |-> NoReply]

\* What a job does to have a request sent.
Send(j, repo, path, from) ==
  /\ url' = [url EXCEPT ![j] = [path |-> <<repo, path>>, from |-> from]]
  /\ at' = [at EXCEPT ![j] = "lookup"]
  /\ fetched' = fetched \ {j}
  /\ UNCHANGED <<cache, tok, reply>>

(***************************************************************************)
(* The registry's answers                                                  *)
(***************************************************************************)
Accepted(token) == ~auth \/ token = epoch

\* A page is the tags up to some place of the list, with a link when more may follow.
Page(repo, from, to) ==
  [NoReply EXCEPT !.status = "ok",
     !.tags = {TagOrder[i] : i \in {k \in from .. to : digests[repo][TagOrder[k]] # 0}},
     !.next = IF to < Len(TagOrder) THEN to + 1 ELSE 0]

Manifest(repo, tag) ==
  IF digests[repo][tag] = 0 THEN Failure("notFound")
  ELSE [NoReply EXCEPT !.status = "ok", !.digest = digests[repo][tag]]

Answers(j) ==
  LET repo == url[j].path[1] IN
  IF url[j].path[2] = AllTags
  THEN {Page(repo, url[j].from, to) : to \in url[j].from .. Len(TagOrder)}
  ELSE {Manifest(repo, url[j].path[2])}

(***************************************************************************)
(* doWithAuth                                                              *)
(***************************************************************************)
Reply(j, r) ==
  /\ reply' = [reply EXCEPT ![j] = r]
  /\ at' = [at EXCEPT ![j] = "answered"]
  /\ tok' = [tok EXCEPT ![j] = NoToken]

\* The job has used its last answer.
Release(j) ==
  /\ reply' = [reply EXCEPT ![j] = NoReply]
  /\ at' = [at EXCEPT ![j] = "idle"]
  /\ UNCHANGED <<cache, url, tok, fetched>>

Lookup(j) ==
  /\ at[j] = "lookup"
  /\ tok' = [tok EXCEPT ![j] = cache[url[j].path]]
  /\ at' = [at EXCEPT ![j] = IF tok'[j] = NoToken THEN "plain" ELSE "cached"]
  /\ UNCHANGED <<registry, cancelled, cache, url, fetched, reply>>

StaleTokenIsAnAnswer(j) == Reply(j, Failure("unauthorized"))

\* The registry refuses the cached token: the request is made anew.
StaleToken(j) == at' = [at EXCEPT ![j] = "plain"] /\ UNCHANGED <<tok, reply>>

WithCachedToken(j) ==
  /\ at[j] = "cached"
  /\ IF Accepted(tok[j]) THEN \E r \in Answers(j) : Reply(j, r) ELSE StaleToken(j)
  /\ UNCHANGED <<registry, cancelled, cache, url, fetched>>

WithoutToken(j) ==
  /\ at[j] = "plain"
  /\ \/ ~auth /\ \E r \in Answers(j) : Reply(j, r)
     \/ auth /\ at' = [at EXCEPT ![j] = "token"] /\ UNCHANGED <<tok, reply>>
  /\ UNCHANGED <<registry, cancelled, cache, url, fetched>>

\* The token is also cached under the scope of the challenge, which no lookup uses.
CacheToken(j, token) == cache' = [cache EXCEPT ![url[j].path] = token]

FetchToken(j) ==
  /\ at[j] = "token"
  /\ tok' = [tok EXCEPT ![j] = epoch]
  /\ fetched' = fetched \cup {j}
  /\ CacheToken(j, epoch)
  /\ at' = [at EXCEPT ![j] = "retry"]
  /\ UNCHANGED <<registry, cancelled, url, reply>>

\* There is one retry: a token refused now is an answer with a bad status.
Retry(j) ==
  /\ at[j] = "retry"
  /\ IF Accepted(tok[j]) THEN \E r \in Answers(j) : Reply(j, r)
     ELSE Reply(j, Failure("unauthorized"))
  /\ UNCHANGED <<registry, cancelled, cache, url, fetched>>

Pending(j) == at[j] \in {"cached", "plain", "token", "retry"}

\* A broken connection, another status, a challenge or an answer that cannot be parsed.
RequestFails(j) ==
  /\ Pending(j)
  /\ Reply(j, Failure("error"))
  /\ UNCHANGED <<registry, cancelled, cache, url, fetched>>

RequestCancelled(j) == cancelled /\ RequestFails(j)

DoWithAuth(j) ==
  \/ Lookup(j) \/ WithCachedToken(j) \/ WithoutToken(j) \/ FetchToken(j) \/ Retry(j)
  \/ RequestFails(j)

(***************************************************************************)
(* The world                                                               *)
(***************************************************************************)
Expire ==
  /\ auth /\ epoch <= MaxExpiry
  /\ epoch' = epoch + 1
  /\ UNCHANGED <<auth, digests, pushes, cancelled, client>>

Push(repo, tag) ==
  /\ <<repo, tag>> \in Pushable /\ pushes < MaxPush
  /\ pushes' = pushes + 1
  /\ digests' = [digests EXCEPT ![repo][tag] = @ + 1]
  /\ UNCHANGED <<auth, epoch, cancelled, client>>

Cancel ==
  /\ ~cancelled
  /\ cancelled' = TRUE
  /\ UNCHANGED <<registry, client>>
=============================================================================
