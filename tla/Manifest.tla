------------------------------ MODULE Manifest ------------------------------
(***************************************************************************)
(* Loading a manifest and selecting targets in it                          *)
(* (src/internal/manifest/loader.go, validation.go, types.go,              *)
(* bind_mount_validator.go, src/internal/cli/common/config_loader.go and   *)
(* targets.go): finding the manifest, discovery of stacks and filesets in  *)
(* the directory tree, validation, normalisation and merging, and the      *)
(* --context, --stack and --deployment flags.                              *)
(*                                                                         *)
(* The loops go over Go maps, that is in any order, and write to the maps  *)
(* that later loops and the commands read through GetAllStacks.  A stack   *)
(* key is <<context, stack>>, a path the sequence of its names from the    *)
(* directory of the manifest, and a relative path a number of steps up     *)
(* and the names down from there.                                          *)
(***************************************************************************)
EXTENDS Naturals, Sequences, FiniteSets

CONSTANTS
  Places,       \* the --manifest flag and what the working directory holds
  Trees,        \* directory trees
  Documents,    \* decoded manifests
  Targets,      \* the targeting flags
  ContextKeys,  \* the names that match contextKeyRegex
  StackNames    \* the names that match appKeyRegex; they have no slash

\* Relative and absolute paths; env tells whether the name ends with .env.
Path(up, names, env) == [abs |-> FALSE, up |-> up, names |-> names, env |-> env]

Resolve(base, p) ==
  IF p.abs THEN p
  ELSE [p EXCEPT !.abs = TRUE, !.up = 0, !.names = SubSeq(base, 1, Len(base) - p.up) \o p.names]

\* Sequences of at most one element stand for what may be absent.
None == <<>>
Optional(S) == {s \in Seq(S) : Len(s) <= 1}
Given(field) == IF field = None THEN <<>> ELSE field[1]

NoStack ==
  [root |-> None, files |-> None, envFile |-> None, profiles |-> None, environment |-> None,
   secrets |-> None, project |-> None, filesets |-> None, inline |-> <<>>, sops |-> <<>>]

DeclaredPaths == [abs : BOOLEAN, up : Nat, names : Seq(STRING), env : BOOLEAN]
Entries == [key : STRING, value : STRING]

\* What the decoder and the directory listing give: keys are sequences of names, secrets are
\* paths, and only the loader sets the resolved secrets (yaml:"-").
ASSUME ManifestAssumption ==
  /\ \A t \in Trees : DOMAIN t.dirs \subseteq Seq(STRING)
  /\ \A d \in Documents :
       /\ DOMAIN d.stacks \subseteq Seq(STRING)
       /\ \A k \in DOMAIN d.stacks :
            LET s == d.stacks[k] IN
            /\ DOMAIN s = DOMAIN NoStack /\ s.sops = <<>>
            /\ s.secrets \in Optional(Seq(DeclaredPaths)) /\ s.environment \in Optional(Seq(Entries))
            /\ \A n \in DOMAIN s.filesets :
                 s.filesets[n].path \in Optional(STRING) /\ s.filesets[n].mode \in Optional(STRING)

VARIABLES
  tree, doc, target,   \* the inputs
  pc, result,
  todo,                \* the keys that the current loop has yet to visit
  all,                 \* what the current loop ranges over
  discovered,          \* DiscoveredStacks
  explicit,            \* Stacks
  filesets,            \* DiscoveredFilesets
  config               \* what the command gets: contexts, stacks and filesets

inputs == <<tree, doc, target>>
maps == <<discovered, explicit, filesets>>
vars == <<inputs, pc, result, todo, all, maps, config>>

NoConfig == [contexts |-> {}, stacks |-> <<>>, filesets |-> <<>>]

Init ==
  /\ tree \in Trees /\ doc \in Documents /\ target \in Targets
  /\ pc = "locate" /\ result = "none"
  /\ todo = doc.contexts
  /\ all = <<>>
  /\ discovered = <<>> /\ explicit = doc.stacks /\ filesets = <<>>
  /\ config = NoConfig

Fail == pc' = "done" /\ result' = "error"

\* f with the entries of g, those of g first.
Over(g, f) == [k \in DOMAIN f \cup DOMAIN g |-> IF k \in DOMAIN g THEN g[k] ELSE f[k]]
One(k, v) == [x \in {k} |-> v]

(***************************************************************************)
(* ResolveManifestPath and the first half of LoadWithWarnings.  A place    *)
(* has the kinds of the candidates (dockform.yml, dockform.yaml...) in the *)
(* working directory and in the directory of the flag, in their order.     *)
(***************************************************************************)
resolveConfigPath(candidates) == IF candidates = <<>> THEN "absent" ELSE Head(candidates)

hasManifestInCurrentDir(p) == \E i \in DOMAIN p.here : p.here[i] = "file"

\* The only manifest below the directory, or the one picked at a terminal.
SelectManifestPath(p) == IF p.below = 1 \/ (p.below > 1 /\ p.tty /\ p.picked) THEN "file" ELSE "absent"

ResolveManifestPath(p) ==
  IF p.flag # None
  THEN IF p.flag[1] = "dir" THEN resolveConfigPath(p.inFlag) ELSE p.flag[1]
  ELSE IF hasManifestInCurrentDir(p) THEN resolveConfigPath(p.here) ELSE SelectManifestPath(p)

Locate(p) ==
  /\ pc = "locate"
  /\ IF ResolveManifestPath(p) = "file" /\ doc.yaml
     THEN pc' = "discover" /\ UNCHANGED result
     ELSE pc' = "done" /\ result' = "unreadable"
  /\ UNCHANGED <<inputs, todo, all, maps, config>>

(***************************************************************************)
(* discoverResources, context by context                                   *)
(***************************************************************************)
StackDirs(c) == {k \in DOMAIN tree.dirs : Len(k) = 2 /\ k[1] = c /\ tree.dirs[k].compose # None}

SecretsOf(k) ==
  (IF k[1] \in tree.secrets THEN <<Path(1, <<"secretsEnv">>, TRUE)>> ELSE <<>>)
  \o (IF tree.dirs[k].secrets THEN <<Path(0, <<"secretsEnv">>, TRUE)>> ELSE <<>>)

DiscoveredStack(k) ==
  [NoStack EXCEPT !.root = <<k>>, !.files = tree.dirs[k].compose,
                  !.sops = SecretsOf(k),
                  !.envFile = IF tree.dirs[k].env THEN <<"environmentEnv">> ELSE None]

\* <context>/<stack>/<fileset>
FilesetKey(k, name) == <<k[1], k[2], name>>

FilesetKeys(ks) == UNION {{FilesetKey(k, v) : v \in tree.dirs[k].volumes} : k \in ks}

\* The volume is <stack>_<directory>, the target path "/": an absolute one.
DiscoveredFileset(fk) ==
  [source |-> <<fk>>, volume |-> <<fk[2], fk[3]>>, path |-> <<"absolute">>, mode |-> <<"hot">>,
   owner |-> None, context |-> fk[1], stack |-> <<fk[2]>>]

Discover(c) ==
  /\ pc = "discover" /\ c \in todo
  /\ todo' = todo \ {c}
  /\ discovered' = Over([k \in StackDirs(c) |-> DiscoveredStack(k)], discovered)
  /\ filesets' = Over([fk \in FilesetKeys(StackDirs(c)) |-> DiscoveredFileset(fk)], filesets)
  /\ UNCHANGED <<inputs, pc, result, all, explicit, config>>

\* A directory cannot be read.
DiscoverFails ==
  /\ pc = "discover" /\ todo # {}
  /\ pc' = "done" /\ result' = "unreadable"
  /\ UNCHANGED <<inputs, todo, all, maps, config>>

(***************************************************************************)
(* normalizeAndValidate                                                    *)
(***************************************************************************)
\* ParseStackKey splits at the first slash: the rest may hold more of them.
KeyOfContext(k) == Len(k) >= 2 /\ k[1] \in doc.contexts

DeploymentValid(d) == d.contexts \subseteq doc.contexts /\ \A k \in d.stacks : KeyOfContext(k)

ContextValid(c) == c \in ContextKeys /\ c \notin doc.blankHosts

StackValid(k) == KeyOfContext(k) /\ Len(k) = 2 /\ k[2] \in StackNames

\* The fields of an explicit stack that augment a discovered one.
Merged(d, e) ==
  [d EXCEPT !.profiles = IF e.profiles # None THEN e.profiles ELSE @,
            !.environment = IF e.environment # None THEN e.environment ELSE @,
            !.secrets = IF e.secrets # None THEN e.secrets ELSE @,
            !.project = IF e.project # None THEN e.project ELSE @]

GetAllStacks ==
  [k \in DOMAIN discovered \cup DOMAIN explicit |->
     IF k \notin DOMAIN discovered THEN explicit[k]
     ELSE IF k \notin DOMAIN explicit THEN discovered[k]
     ELSE Merged(discovered[k], explicit[k])]

\* The loops over contexts, deployments and explicit stacks change nothing.
Validate ==
  /\ pc = "discover" /\ todo = {}
  /\ IF /\ doc.identifier /\ doc.contexts # {}
        /\ \A c \in doc.contexts : ContextValid(c)
        /\ \A d \in DOMAIN doc.deployments : DeploymentValid(doc.deployments[d])
        /\ \A k \in DOMAIN explicit : StackValid(k)
     THEN /\ all' = GetAllStacks
          /\ todo' = DOMAIN all'
          /\ pc' = "normalise" /\ UNCHANGED result
     ELSE Fail /\ UNCHANGED <<all, todo>>
  /\ UNCHANGED <<inputs, maps, config>>

\* From the last entry to the first, each key once; a single entry is taken as it is.
DedupInline(entries) ==
  LET kept[i \in 1 .. Len(entries) + 1] ==
        IF i > Len(entries) THEN <<>>
        ELSE IF entries[i].key = "noKey" \/ \E j \in DOMAIN kept[i + 1] : kept[i + 1][j].key = entries[i].key
        THEN kept[i + 1]
        ELSE <<entries[i]>> \o kept[i + 1]
  IN IF Len(entries) > 1 THEN kept[1] ELSE entries

Inline(s) == DedupInline(Given(s.environment))

\* Relative secrets are resolved against the root of the stack or the manifest.
ResolveAll(base, paths) == [i \in DOMAIN paths |-> Resolve(base, paths[i])]

ResolvedSecrets(s) ==
  ResolveAll(IF s.root # None THEN s.root[1] ELSE <<>>, s.sops \o Given(s.secrets))

\* findDefaultComposeFile looks for the usual names in the root.
FilesOf(s) ==
  IF s.files # None \/ s.root = None THEN s.files
  ELSE IF s.root[1] \in DOMAIN tree.dirs /\ tree.dirs[s.root[1]].compose # None
       THEN tree.dirs[s.root[1]].compose ELSE <<"composeYaml">>

Normalised(s) == [s EXCEPT !.files = FilesOf(s), !.inline = Inline(s), !.sops = ResolvedSecrets(s)]

\* The files that can be read and have a relative bind mount, by the root and the name that
\* lead to them; without a root a name is taken from the working directory.
HasBindMounts(s) == \E i \in DOMAIN s.files : <<s.root, s.files[i]>> \in tree.binds

StackAcceptedByName(s) == \A i \in DOMAIN s.sops : s.sops[i].env

StackAccepted(s) == (\A i \in DOMAIN s.sops : s.sops[i].env) /\ ~HasBindMounts(s)

WrittenBackToStacks(k, s) == explicit' = Over(One(k, s), explicit) /\ UNCHANGED discovered

WrittenBack(k, s) ==
  IF k \in DOMAIN discovered
  THEN discovered' = Over(One(k, s), discovered) /\ UNCHANGED explicit
  ELSE explicit' = Over(One(k, s), explicit) /\ UNCHANGED discovered

NormaliseStack(k) ==
  /\ pc = "normalise" /\ k \in todo
  /\ IF StackAccepted(Normalised(all[k]))
     THEN /\ WrittenBack(k, Normalised(all[k]))
          /\ todo' = todo \ {k} /\ UNCHANGED <<pc, result>>
     ELSE Fail /\ UNCHANGED <<todo, discovered, explicit>>
  /\ UNCHANGED <<inputs, all, filesets, config>>

StacksNormalised ==
  /\ pc = "normalise" /\ todo = {}
  /\ all' = GetAllStacks
  /\ todo' = DOMAIN all'
  /\ pc' = "merge"
  /\ UNCHANGED <<inputs, result, maps, config>>

\* The fields of an explicit fileset that override a discovered one.
MergedFileset(f, e) ==
  [f EXCEPT !.source = IF e.source # None THEN e.source ELSE @,
            !.volume = IF e.volume # None THEN e.volume ELSE @,
            !.path = IF e.path # None THEN e.path ELSE @,
            !.mode = IF e.mode # None THEN e.mode ELSE @,
            !.owner = IF e.owner # None THEN e.owner ELSE @]

\* A fileset that is only declared is filed under the whole key of its stack.
DeclaredFileset(k, e) ==
  [source |-> e.source, volume |-> e.volume, path |-> e.path, mode |-> e.mode, owner |-> e.owner,
   context |-> k[1], stack |-> k]

MergeFilesets(k) ==
  LET given == all[k].filesets
      new == [fk \in {FilesetKey(k, n) : n \in DOMAIN given} |->
                IF fk \in DOMAIN filesets THEN MergedFileset(filesets[fk], given[fk[3]])
                ELSE DeclaredFileset(k, given[fk[3]])]
  IN
  /\ pc = "merge" /\ k \in todo
  /\ filesets' = Over(new, filesets)
  /\ todo' = todo \ {k}
  /\ UNCHANGED <<inputs, pc, result, all, discovered, explicit, config>>

FilesetsMerged ==
  /\ pc = "merge" /\ todo = {}
  /\ IF doc.sops
     THEN todo' = DOMAIN filesets /\ pc' = "filesets" /\ UNCHANGED result
     ELSE Fail /\ UNCHANGED todo
  /\ UNCHANGED <<inputs, all, maps, config>>

Default(field, value) == IF field = None THEN <<value>> ELSE field

NormalisedFileset(f) == [f EXCEPT !.path = Default(@, "absolute"), !.mode = Default(@, "hot")]

OwnershipValid(f) == f.owner # <<"invalid">>

FilesetValid(f) ==
  /\ f.source # None /\ f.volume # None
  /\ f.path[1] = "absolute" /\ f.mode[1] \in {"hot", "cold"}
  /\ OwnershipValid(f)

NormaliseFileset(fk) ==
  LET f == NormalisedFileset(filesets[fk]) IN
  /\ pc = "filesets" /\ fk \in todo
  /\ IF FilesetValid(f)
     THEN /\ filesets' = Over(One(fk, f), filesets)
          /\ todo' = todo \ {fk} /\ UNCHANGED <<pc, result>>
     ELSE Fail /\ UNCHANGED <<todo, filesets>>
  /\ UNCHANGED <<inputs, all, discovered, explicit, config>>

(***************************************************************************)
(* ResolveTargets                                                          *)
(***************************************************************************)
NoTarget == [contexts |-> {}, stacks |-> {}, deployment |-> None]

Deployment == doc.deployments[target.deployment[1]]

TargetContexts == target.contexts \cup IF target.deployment = None THEN {} ELSE Deployment.contexts
TargetStacks == target.stacks \cup IF target.deployment = None THEN {} ELSE Deployment.stacks

TargetsKnown ==
  /\ target.deployment # None => target.deployment[1] \in DOMAIN doc.deployments
  /\ TargetContexts \subseteq doc.contexts
  /\ \A k \in TargetStacks : KeyOfContext(k)

AllowedContexts == TargetContexts \cup {k[1] : k \in TargetStacks}

StackAllowed(k) == k \in TargetStacks \/ (TargetStacks = {} /\ k[1] \in AllowedContexts)

FilesetAllowedByContext(f) == f.context \in AllowedContexts

FilesetAllowed(f) ==
  f.context \in AllowedContexts /\ (TargetStacks = {} \/ StackAllowed(<<f.context>> \o f.stack))

Restricted(f, keys) == [k \in keys |-> f[k]]

ResolveTargets ==
  /\ pc = "filesets" /\ todo = {}
  /\ \/ /\ target = NoTarget
        /\ config' = [contexts |-> doc.contexts, stacks |-> GetAllStacks, filesets |-> filesets]
        /\ pc' = "done" /\ result' = "ok"
     \/ /\ target # NoTarget /\ TargetsKnown
        /\ config' = [contexts |-> doc.contexts \cap AllowedContexts,
                      stacks |-> Restricted(GetAllStacks, {k \in DOMAIN GetAllStacks : StackAllowed(k)}),
                      filesets |-> Restricted(filesets,
                                     {fk \in DOMAIN filesets : FilesetAllowed(filesets[fk])})]
        /\ pc' = "done" /\ result' = "ok"
     \/ target # NoTarget /\ ~TargetsKnown /\ Fail /\ UNCHANGED config
  /\ UNCHANGED <<inputs, todo, all, maps>>

(***************************************************************************)
(* The specification                                                       *)
(***************************************************************************)
Loop(k) == Discover(k) \/ NormaliseStack(k) \/ MergeFilesets(k) \/ NormaliseFileset(k)

Terminated == pc = "done" /\ UNCHANGED vars

Next ==
  \/ \E p \in Places : Locate(p)
  \/ \E k \in todo : Loop(k)
  \/ DiscoverFails \/ Validate \/ StacksNormalised \/ FilesetsMerged \/ ResolveTargets
  \/ Terminated

Spec == Init /\ [][Next]_vars

(***************************************************************************)
(* What a manifest means, without loops and intermediate maps              *)
(***************************************************************************)
Found(k) == Len(k) = 2 /\ k[1] \in doc.contexts /\ k \in DOMAIN tree.dirs /\ tree.dirs[k].compose # None

Declared(k) == k \in DOMAIN doc.stacks

MeantStacks == {k \in DOMAIN tree.dirs : Found(k)} \cup DOMAIN doc.stacks

Declaration(k) == IF Declared(k) THEN doc.stacks[k] ELSE NoStack

Root(k) == IF Found(k) THEN <<k>> ELSE Declaration(k).root

ComposeIn(root) ==
  IF root # None /\ root[1] \in DOMAIN tree.dirs THEN tree.dirs[root[1]].compose ELSE None

MeantFiles(k) ==
  CASE Found(k) -> tree.dirs[k].compose
    [] ~Found(k) /\ Declaration(k).files # None -> Declaration(k).files
    [] OTHER -> IF ComposeIn(Root(k)) # None \/ Root(k) = None THEN ComposeIn(Root(k)) ELSE <<"composeYaml">>

MeantEnvFile(k) ==
  IF ~Found(k) THEN Declaration(k).envFile
  ELSE IF tree.dirs[k].env THEN <<"environmentEnv">> ELSE None

Nth(S, n) == CHOOSE i \in S : Cardinality({j \in S : j < i}) = n - 1

\* The entries that no later entry with the same variable replaces.
MeantInline(k) ==
  LET given == Given(Declaration(k).environment)
      last == {i \in DOMAIN given :
                 given[i].key # "noKey" /\ \A j \in i + 1 .. Len(given) : given[j].key # given[i].key}
  IN IF Len(given) > 1 THEN [n \in 1 .. Cardinality(last) |-> given[Nth(last, n)]] ELSE given

At(names, env) == [abs |-> TRUE, up |-> 0, names |-> names, env |-> env]

\* Where a path leads from a directory.
From(base, p) == IF p.abs THEN p ELSE At(SubSeq(base, 1, Len(base) - p.up) \o p.names, p.env)
Below(base, paths) == [i \in DOMAIN paths |-> From(base, paths[i])]

\* The secrets of the context, of the stack and of the manifest, in this order.
MeantSecrets(k) ==
  (IF Found(k) /\ k[1] \in tree.secrets THEN <<At(<<k[1], "secretsEnv">>, TRUE)>> ELSE <<>>)
  \o (IF Found(k) /\ tree.dirs[k].secrets THEN <<At(k \o <<"secretsEnv">>, TRUE)>> ELSE <<>>)
  \o Below(IF Root(k) = None THEN <<>> ELSE Root(k)[1], Given(Declaration(k).secrets))

StackAcceptable(k) ==
  /\ \A i \in DOMAIN MeantSecrets(k) : MeantSecrets(k)[i].env
  /\ \A i \in DOMAIN MeantFiles(k) : <<Root(k), MeantFiles(k)[i]>> \notin tree.binds

\* A stack is named by a context and a name of its own.
KeyAcceptable(k) == \E c \in doc.contexts, n \in StackNames : k = <<c, n>>

FilesetAcceptable(e) ==
  /\ e.source # None /\ e.volume # None /\ e.path \in {None, <<"absolute">>}
  /\ e.mode \in {None, <<"hot">>, <<"cold">>} /\ OwnershipValid(e)

Acceptable ==
  /\ doc.yaml /\ doc.identifier /\ doc.contexts # {} /\ doc.sops
  /\ doc.contexts \subseteq ContextKeys \ doc.blankHosts
  /\ \A d \in DOMAIN doc.deployments : DeploymentValid(doc.deployments[d])
  /\ \A k \in DOMAIN doc.stacks : KeyAcceptable(k)
  /\ \A k \in MeantStacks : StackAcceptable(k)
  /\ \A k \in DOMAIN doc.stacks :
       ~Found(k) => \A n \in DOMAIN doc.stacks[k].filesets : FilesetAcceptable(doc.stacks[k].filesets[n])
  /\ target # NoTarget => TargetsKnown

(***************************************************************************)
(* Properties                                                              *)
(***************************************************************************)
\* In whatever order the maps are visited, and through the repeated merging of normalised
\* with declared stacks, a command sees each stack with the files, the environment and the
\* absolute paths of secrets that the tree and the manifest mean (discoverResources,
\* normalizeAndValidate, GetAllStacks).
StacksAreAsMeant ==
  result = "ok" =>
    /\ target = NoTarget => DOMAIN config.stacks = MeantStacks
    /\ \A k \in DOMAIN config.stacks :
         LET s == config.stacks[k] IN
         /\ k \in MeantStacks
         /\ s.root = Root(k) /\ s.files = MeantFiles(k)
         /\ s.envFile = MeantEnvFile(k)
         /\ s.profiles = Declaration(k).profiles /\ s.project = Declaration(k).project
         /\ s.inline = MeantInline(k) /\ s.sops = MeantSecrets(k)

\* Loading succeeds exactly for the manifests that are valid, whichever item the loops meet
\* first (normalizeAndValidate, validateBindMountsInComposeFile, ResolveTargets).
AcceptedIffValid ==
  pc = "done" /\ result # "unreadable" => (result = "ok" <=> Acceptable)

\* A command gets the filesets of exactly the stacks that it gets: always the discovered
\* ones, and the declared ones unless stacks are named, since those are filed under the
\* whole key of their stack (ResolveTargets, normalizeAndValidate).
FilesetsFollowTheirStacks ==
  result = "ok" =>
    \A fk \in DOMAIN filesets :
      LET k == <<fk[1], fk[2]>> IN
      Found(k) \/ target = NoTarget \/ TargetStacks = {}
      => (fk \in DOMAIN config.filesets <=> k \in DOMAIN config.stacks)

\* "Merge: explicit overrides discovered for non-zero values" (validation.go:214).  It does
\* not hold: GetAllStacks leaves out the filesets declared for a discovered stack.
OverridesTakeEffect ==
  result = "ok" =>
    \A fk \in DOMAIN config.filesets :
      LET k == <<fk[1], fk[2]>> IN
      Declared(k) /\ fk[3] \in DOMAIN doc.stacks[k].filesets
      => LET e == doc.stacks[k].filesets[fk[3]] IN
         (e.mode # None => config.filesets[fk].mode = e.mode)
         /\ (e.volume # None => config.filesets[fk].volume = e.volume)
=============================================================================
