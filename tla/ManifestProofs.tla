--------------------------- MODULE ManifestProofs ---------------------------
(***************************************************************************)
(* Loading a manifest, for any directory tree and any decoded manifest.    *)
(*                                                                         *)
(* The loops visit maps in any order and write to maps that later loops    *)
(* read.  LoadInv says what every map holds in between, in terms of the    *)
(* inputs alone: how far the stacks are found and normalised (StacksInv),  *)
(* which filesets are filed and how far they are checked (FilesetsInv),    *)
(* and what has been validated (StagesInv).                                *)
(***************************************************************************)
EXTENDS Manifest, FiniteSetTheorems, TLAPS

\* A leaf goes to Zenon unless it names another prover.
USE ZenonT(60)

Loading == {"locate", "discover"}
Loaded == {"normalise", "merge", "filesets"}

FoundStacks == {k \in DOMAIN tree.dirs : Found(k)}

\* What GetAllStacks gives before and after the normalisation.
Described(k) ==
  IF ~Found(k) THEN doc.stacks[k]
  ELSE IF Declared(k) THEN Merged(DiscoveredStack(k), doc.stacks[k]) ELSE DiscoveredStack(k)

Resolved(k) ==
  IF Found(k) /\ Declared(k) THEN Merged(Normalised(Described(k)), doc.stacks[k])
  ELSE Normalised(Described(k))

StagesInv ==
  /\ tree \in Trees /\ doc \in Documents
  /\ pc \in Loading \cup Loaded \cup {"done"} /\ (pc # "done" => result = "none")
  /\ pc \notin {"locate", "done"} => doc.yaml
  /\ pc \in Loaded =>
       /\ doc.identifier /\ doc.contexts # {} /\ \A c \in doc.contexts : ContextValid(c)
       /\ \A d \in DOMAIN doc.deployments : DeploymentValid(doc.deployments[d])
       /\ \A k \in DOMAIN doc.stacks : StackValid(k)
  /\ pc = "filesets" => doc.sops

\* Every stack is in its map as it was found or declared, and normalised once its loop has
\* met it.
Unmet(k) == pc = "normalise" /\ k \in todo

StacksInv ==
  /\ pc \in Loading =>
       /\ todo \subseteq doc.contexts /\ explicit = doc.stacks
       /\ DOMAIN discovered = {k \in FoundStacks : k[1] \notin todo}
       /\ \A k \in DOMAIN discovered : discovered[k] = DiscoveredStack(k)
  /\ pc \in Loaded =>
       /\ DOMAIN discovered = FoundStacks /\ DOMAIN explicit = DOMAIN doc.stacks
       /\ \A k \in FoundStacks :
            discovered[k] = IF Unmet(k) THEN DiscoveredStack(k) ELSE Normalised(Described(k))
       /\ \A k \in DOMAIN doc.stacks :
            explicit[k] = IF Unmet(k) \/ Found(k) THEN doc.stacks[k] ELSE Normalised(doc.stacks[k])
       /\ \A k \in MeantStacks : Unmet(k) \/ StackAcceptable(k)
  /\ pc \in {"normalise", "merge"} => todo \subseteq MeantStacks /\ DOMAIN all = MeantStacks
  /\ pc = "normalise" => \A k \in MeantStacks : all[k] = Described(k)
  /\ pc = "merge" => \A k \in MeantStacks : all[k] = Resolved(k)

\* The filesets that are filed: those of a discovered stack are valid, those of a declared one
\* are as they were declared, up to the defaults.
FilesetFields == {"source", "volume", "path", "mode", "owner", "context", "stack"}

AsDeclared(f, e) ==
  /\ f.source = e.source /\ f.volume = e.volume /\ f.owner = e.owner
  /\ Default(f.path, "absolute") = Default(e.path, "absolute")
  /\ Default(f.mode, "hot") = Default(e.mode, "hot")

Checked(f) == FilesetValid(NormalisedFileset(f))

StackOf(fk) == <<fk[1], fk[2]>>

Filed(fk) ==
  LET k == StackOf(fk)
      f == filesets[fk]
  IN
  /\ k \in MeantStacks /\ DOMAIN f = FilesetFields /\ f.context = fk[1]
  /\ Found(k) => f.stack = <<fk[2]>> /\ Checked(f)
  /\ ~Found(k) => /\ fk[3] \in DOMAIN doc.stacks[k].filesets
                  /\ AsDeclared(f, doc.stacks[k].filesets[fk[3]])

\* The declared filesets of a stack are filed when the loop over the stacks meets it.
Unfiled(k) == pc = "merge" /\ k \in todo

FilesetsInv ==
  /\ pc # "done" => \A fk \in DOMAIN filesets : Filed(fk)
  /\ pc \in Loading \cup {"normalise"} => \A fk \in DOMAIN filesets : Found(StackOf(fk))
  /\ pc \in {"merge", "filesets"} =>
       /\ \A fk \in DOMAIN filesets : Found(StackOf(fk)) \/ ~Unfiled(StackOf(fk))
       /\ \A k \in DOMAIN doc.stacks :
            Found(k) \/ Unfiled(k)
            \/ \A n \in DOMAIN doc.stacks[k].filesets : FilesetKey(k, n) \in DOMAIN filesets
  /\ pc = "filesets" =>
       /\ todo \subseteq DOMAIN filesets
       /\ \A fk \in DOMAIN filesets : fk \in todo \/ Checked(filesets[fk])

\* A command gets the stacks that were found or declared, each normalised once.
StacksAreResolved ==
  result = "ok" =>
    /\ target = NoTarget => DOMAIN config.stacks = MeantStacks
    /\ \A k \in DOMAIN config.stacks : k \in MeantStacks /\ config.stacks[k] = Resolved(k)

\* The fields of a stack.
AsMeant(k, s) ==
  /\ s.root = Root(k) /\ s.files = MeantFiles(k) /\ s.envFile = MeantEnvFile(k)
  /\ s.profiles = Declaration(k).profiles /\ s.project = Declaration(k).project
  /\ s.inline = MeantInline(k) /\ s.sops = MeantSecrets(k)

\* The inductive invariant.
LoadInv ==
  /\ StagesInv /\ StacksInv /\ FilesetsInv
  /\ pc = "done" => AcceptedIffValid /\ FilesetsFollowTheirStacks /\ StacksAreResolved

(***************************************************************************)
(* What the inputs mean does not change.                                   *)
(***************************************************************************)
LEMMA MeaningKept ==
  ASSUME UNCHANGED inputs
  PROVE  /\ tree' = tree /\ doc' = doc /\ target' = target
         /\ FoundStacks' = FoundStacks /\ MeantStacks' = MeantStacks
         /\ \A k : /\ Found(k)' <=> Found(k)
                   /\ Declared(k)' <=> Declared(k)
                   /\ StackValid(k)' <=> StackValid(k)
                   /\ ContextValid(k)' <=> ContextValid(k)
                   /\ DiscoveredStack(k)' = DiscoveredStack(k)
                   /\ Described(k)' = Described(k)
                   /\ Normalised(k)' = Normalised(k)
                   /\ Resolved(k)' = Resolved(k)
                   /\ DeploymentValid(k)' <=> DeploymentValid(k)
                   /\ StackAcceptable(k)' <=> StackAcceptable(k)
         /\ TargetsKnown' <=> TargetsKnown
         /\ Acceptable' <=> Acceptable
<1>1. tree' = tree /\ doc' = doc /\ target' = target
  BY DEF inputs
<1>2. \A k : /\ Found(k)' <=> Found(k)
             /\ Declared(k)' <=> Declared(k)
             /\ StackValid(k)' <=> StackValid(k)
             /\ ContextValid(k)' <=> ContextValid(k)
             /\ DeploymentValid(k)' <=> DeploymentValid(k)
             /\ KeyAcceptable(k)' <=> KeyAcceptable(k)
  BY <1>1 DEF Found, Declared, StackValid, ContextValid, DeploymentValid, KeyOfContext, KeyAcceptable
<1>3. FoundStacks' = FoundStacks /\ MeantStacks' = MeantStacks
  BY <1>1, <1>2 DEF FoundStacks, MeantStacks
<1>4. \A k : SecretsOf(k)' = SecretsOf(k)
  BY <1>1 DEF SecretsOf
<1>5. \A k : DiscoveredStack(k)' = DiscoveredStack(k)
  BY <1>1, <1>4 DEF DiscoveredStack
<1>6. \A k : Described(k)' = Described(k)
  BY <1>1, <1>2, <1>5 DEF Described
<1>7. \A s : FilesOf(s)' = FilesOf(s)
  BY <1>1 DEF FilesOf
<1>8. \A s : Normalised(s)' = Normalised(s)
  BY <1>7 DEF Normalised
<1>9. \A k : Resolved(k)' = Resolved(k)
  BY <1>1, <1>2, <1>6, <1>8 DEF Resolved
<1>10. \A k : Declaration(k)' = Declaration(k)
  BY <1>1, <1>2 DEF Declaration
<1>11. \A k : Root(k)' = Root(k)
  BY <1>1, <1>2, <1>10 DEF Root
<1>12. \A k : MeantFiles(k)' = MeantFiles(k)
  BY <1>1, <1>2, <1>10, <1>11 DEF MeantFiles, ComposeIn
<1>13. \A k : MeantSecrets(k)' = MeantSecrets(k)
  BY <1>1, <1>2, <1>10, <1>11 DEF MeantSecrets
<1>14. \A k : StackAcceptable(k)' <=> StackAcceptable(k)
  BY <1>1, <1>11, <1>12, <1>13 DEF StackAcceptable
<1>15. TargetContexts' = TargetContexts /\ TargetStacks' = TargetStacks
  BY <1>1 DEF TargetContexts, TargetStacks, Deployment
<1>16. TargetsKnown' <=> TargetsKnown
  BY <1>1, <1>15 DEF TargetsKnown, KeyOfContext
<1>17. Acceptable' <=> Acceptable
  BY <1>1, <1>2, <1>3, <1>14, <1>16 DEF Acceptable
<1> QED BY <1>1, <1>2, <1>3, <1>5, <1>6, <1>8, <1>9, <1>14, <1>16, <1>17

(***************************************************************************)
(* Keys and fields.                                                        *)
(***************************************************************************)
\* The key of a stack that was found or validated is a pair.
LEMMA KeysArePairs ==
  ASSUME StagesInv, NEW k \in MeantStacks, Found(k) \/ StackValid(k)
  PROVE  k = <<k[1], k[2]>>
<1>1. k \in Seq(STRING)
  BY ManifestAssumption DEF MeantStacks, StagesInv
<1>2. Len(k) = 2
  BY DEF Found, StackValid
<1> QED BY SMTT(30), <1>1, <1>2

\* The key of a declared stack passes exactly when it is a context and a name.
LEMMA KeyMeaning ==
  ASSUME StagesInv, NEW k \in DOMAIN doc.stacks
  PROVE  StackValid(k) <=> KeyAcceptable(k)
<1>1. ASSUME StackValid(k) PROVE KeyAcceptable(k)
  <2>1. k = <<k[1], k[2]>>
    BY <1>1, KeysArePairs DEF MeantStacks
  <2> QED BY <1>1, <2>1 DEF StackValid, KeyOfContext, KeyAcceptable
<1>2. ASSUME KeyAcceptable(k) PROVE StackValid(k)
  <2>1. PICK c \in doc.contexts, n \in StackNames : k = <<c, n>>
    BY <1>2 DEF KeyAcceptable
  <2>2. Len(k) = 2 /\ Len(k) >= 2 /\ k[1] = c /\ k[2] = n
    BY SMTT(30), <2>1
  <2> QED BY <2>1, <2>2 DEF StackValid, KeyOfContext
<1> QED BY <1>1, <1>2

\* The parts of the key of a fileset.
LEMMA KeyParts ==
  ASSUME NEW k, NEW n
  PROVE  FilesetKey(k, n)[1] = k[1] /\ FilesetKey(k, n)[2] = k[2] /\ FilesetKey(k, n)[3] = n
BY SMTT(30) DEF FilesetKey

\* The key of a fileset tells its stack.
LEMMA KeyRestored ==
  ASSUME NEW k, NEW n, k = <<k[1], k[2]>>
  PROVE  StackOf(FilesetKey(k, n)) = k
BY SMTT(30) DEF StackOf, FilesetKey

\* Normalisation sets the files, the variables and the secrets, and leaves the other fields alone.
LEMMA NormalisedFields ==
  ASSUME NEW s, DOMAIN s = DOMAIN NoStack
  PROVE  /\ DOMAIN Normalised(s) = DOMAIN NoStack
         /\ Normalised(s).root = s.root /\ Normalised(s).filesets = s.filesets
         /\ Normalised(s).files = FilesOf(s) /\ Normalised(s).sops = ResolvedSecrets(s)
BY SMTT(30) DEF Normalised, NoStack

\* A merge keeps the place, the files and the filesets of the discovered stack.
LEMMA MergedFields ==
  ASSUME NEW s, NEW e, DOMAIN s = DOMAIN NoStack
  PROVE  /\ DOMAIN Merged(s, e) = DOMAIN NoStack
         /\ Merged(s, e).root = s.root /\ Merged(s, e).filesets = s.filesets
         /\ Merged(s, e).files = s.files /\ Merged(s, e).sops = s.sops
         /\ Merged(s, e).secrets = IF e.secrets # None THEN e.secrets ELSE s.secrets
BY SMTT(30) DEF Merged, NoStack

\* The fields of a discovered stack.
LEMMA DiscoveredFields ==
  ASSUME NEW k
  PROVE  /\ DOMAIN DiscoveredStack(k) = DOMAIN NoStack
         /\ DiscoveredStack(k).root = <<k>> /\ DiscoveredStack(k).filesets = None
         /\ DiscoveredStack(k).files = tree.dirs[k].compose
         /\ DiscoveredStack(k).sops = SecretsOf(k) /\ DiscoveredStack(k).secrets = None
BY SMTT(30) DEF DiscoveredStack, NoStack

\* The fields of a stack before it is normalised.
LEMMA DescribedFields ==
  ASSUME StagesInv, NEW k \in MeantStacks
  PROVE  LET s == Described(k) IN
         /\ DOMAIN s = DOMAIN NoStack /\ s.root = Root(k)
         /\ s.filesets = (IF Found(k) THEN None ELSE doc.stacks[k].filesets)
         /\ s.files = (IF Found(k) THEN tree.dirs[k].compose ELSE doc.stacks[k].files)
         /\ s.sops = (IF Found(k) THEN SecretsOf(k) ELSE <<>>)
         /\ s.secrets = Declaration(k).secrets
<1>1. CASE ~Found(k)
  <2>1. k \in DOMAIN doc.stacks /\ Described(k) = doc.stacks[k]
    BY <1>1 DEF MeantStacks, Described
  <2>2. DOMAIN doc.stacks[k] = DOMAIN NoStack /\ doc.stacks[k].sops = <<>>
    BY <2>1, ManifestAssumption DEF StagesInv
  <2> QED BY <1>1, <2>1, <2>2 DEF Root, Declaration, Declared
<1>2. CASE Found(k) /\ Declared(k)
  <2> DEFINE d == DiscoveredStack(k)
             e == doc.stacks[k]
  <2>1. /\ DOMAIN d = DOMAIN NoStack /\ d.root = <<k>> /\ d.filesets = None /\ d.sops = SecretsOf(k)
        /\ d.files = tree.dirs[k].compose /\ d.secrets = None
    BY DiscoveredFields
  <2>2. Described(k) = Merged(d, e) /\ Root(k) = <<k>> /\ Declaration(k) = e
    BY <1>2 DEF Described, Root, Declaration
  <2> HIDE DEF d, e
  <2>3. /\ DOMAIN Merged(d, e) = DOMAIN NoStack /\ Merged(d, e).root = d.root
        /\ Merged(d, e).filesets = d.filesets /\ Merged(d, e).files = d.files
        /\ Merged(d, e).sops = d.sops
        /\ Merged(d, e).secrets = IF e.secrets # None THEN e.secrets ELSE d.secrets
    BY <2>1, MergedFields
  <2> QED BY <1>2, <2>1, <2>2, <2>3
<1>3. CASE Found(k) /\ ~Declared(k)
  <2>1. NoStack.secrets = None
    BY DEF NoStack
  <2> QED BY <1>3, <2>1, DiscoveredFields DEF Described, Root, Declaration
<1> QED BY <1>1, <1>2, <1>3

\* The filesets of a stack that a command gets.
LEMMA ResolvedFilesets ==
  ASSUME StagesInv, NEW k \in MeantStacks
  PROVE  Resolved(k).filesets = IF Found(k) THEN None ELSE doc.stacks[k].filesets
<1> DEFINE s == Described(k)
           e == doc.stacks[k]
<1>1. DOMAIN s = DOMAIN NoStack /\ s.filesets = IF Found(k) THEN None ELSE doc.stacks[k].filesets
  BY DescribedFields
<1>2. Resolved(k) = IF Found(k) /\ Declared(k) THEN Merged(Normalised(s), e) ELSE Normalised(s)
  BY DEF Resolved
<1> HIDE DEF s, e
<1>3. DOMAIN Normalised(s) = DOMAIN NoStack /\ Normalised(s).filesets = s.filesets
  BY <1>1, NormalisedFields
<1>4. Merged(Normalised(s), e).filesets = Normalised(s).filesets
  BY <1>3, MergedFields
<1> QED BY <1>1, <1>2, <1>3, <1>4

(***************************************************************************)
(* A stack is accepted when what it means is acceptable.                   *)
(***************************************************************************)
AllEnv(paths) == \A i \in DOMAIN paths : paths[i].env

\* The elements of a concatenation.
Joined(q, r, w) ==
  /\ Len(w) = Len(q) + Len(r) /\ Len(q) \in Nat /\ Len(r) \in Nat
  /\ DOMAIN q = 1 .. Len(q) /\ DOMAIN r = 1 .. Len(r) /\ DOMAIN w = 1 .. Len(w)
  /\ \A i \in 1 .. Len(q) : w[i] = q[i]
  /\ \A i \in 1 .. Len(r) : w[Len(q) + i] = r[i]

\* A concatenation consists of its parts.
LEMMA Concatenated ==
  ASSUME NEW S, NEW q \in Seq(S), NEW r \in Seq(S)
  PROVE  q \o r \in Seq(S) /\ Joined(q, r, q \o r)
BY SMTT(30) DEF Joined

\* All paths of a concatenation end with .env when those of both parts do.
LEMMA EnvOfConcatenation ==
  ASSUME NEW S, NEW q \in Seq(S), NEW r \in Seq(S)
  PROVE  q \o r \in Seq(S) /\ (AllEnv(q \o r) <=> AllEnv(q) /\ AllEnv(r))
<1> DEFINE w == q \o r
<1>1. /\ w \in Seq(S) /\ Len(w) = Len(q) + Len(r) /\ Len(q) \in Nat /\ Len(r) \in Nat
      /\ DOMAIN q = 1 .. Len(q) /\ DOMAIN r = 1 .. Len(r) /\ DOMAIN w = 1 .. Len(w)
      /\ \A i \in 1 .. Len(q) : w[i] = q[i]
      /\ \A i \in 1 .. Len(r) : w[Len(q) + i] = r[i]
  <2>1. w \in Seq(S) /\ Joined(q, r, w)
    BY Concatenated
  <2> HIDE DEF w
  <2> QED BY <2>1 DEF Joined
<1> HIDE DEF w
<1>2. AllEnv(w) => AllEnv(q) /\ AllEnv(r)
  <2>1. SUFFICES ASSUME AllEnv(w) PROVE AllEnv(q) /\ AllEnv(r)
    OBVIOUS
  <2>2. ASSUME NEW i \in DOMAIN q PROVE q[i].env
    <3>1. i \in 1 .. Len(q) /\ i \in DOMAIN w
      BY SMTT(30), <1>1
    <3> QED BY <1>1, <2>1, <3>1 DEF AllEnv
  <2>3. ASSUME NEW i \in DOMAIN r PROVE r[i].env
    <3>1. i \in 1 .. Len(r) /\ Len(q) + i \in DOMAIN w
      BY SMTT(30), <1>1
    <3> QED BY <1>1, <2>1, <3>1 DEF AllEnv
  <2> QED BY <2>2, <2>3 DEF AllEnv
<1>3. AllEnv(q) /\ AllEnv(r) => AllEnv(w)
  <2>1. SUFFICES ASSUME AllEnv(q), AllEnv(r), NEW i \in DOMAIN w PROVE w[i].env
    BY DEF AllEnv
  <2>2. CASE i \in 1 .. Len(q)
    BY <1>1, <2>1, <2>2 DEF AllEnv
  <2>3. CASE i \notin 1 .. Len(q)
    <3>1. i - Len(q) \in 1 .. Len(r) /\ Len(q) + (i - Len(q)) = i
      BY SMTT(30), <1>1, <2>3
    <3> QED BY <1>1, <2>1, <3>1 DEF AllEnv
  <2> QED BY <2>2, <2>3
<1> QED BY <1>1, <1>2, <1>3 DEF w

\* The paths of secrets, given or found.
SecretPaths ==
  [abs : BOOLEAN, up : Nat, names : Seq(STRING) \cup {<<"secretsEnv">>}, env : BOOLEAN]

\* Neither resolving a path nor placing it below a directory changes its name.
LEMMA ResolvingKeepsEnv ==
  ASSUME NEW base, NEW paths, \A i \in DOMAIN paths : DOMAIN paths[i] = {"abs", "up", "names", "env"}
  PROVE  AllEnv(ResolveAll(base, paths)) <=> AllEnv(paths)
<1>1. ASSUME NEW i \in DOMAIN paths PROVE Resolve(base, paths[i]).env = paths[i].env
  BY SMTT(30) DEF Resolve
<1>2. /\ DOMAIN ResolveAll(base, paths) = DOMAIN paths
      /\ \A i \in DOMAIN paths : ResolveAll(base, paths)[i] = Resolve(base, paths[i])
  BY DEF ResolveAll
<1> QED BY <1>1, <1>2 DEF AllEnv

\* Placing paths below a directory keeps their endings.
LEMMA PlacingKeepsEnv ==
  ASSUME NEW base, NEW paths
  PROVE  AllEnv(Below(base, paths)) <=> AllEnv(paths)
<1>1. /\ DOMAIN Below(base, paths) = DOMAIN paths
      /\ \A i \in DOMAIN paths : Below(base, paths)[i].env = paths[i].env
  BY SMTT(30) DEF Below, From, At
<1> QED BY <1>1 DEF AllEnv

\* What an optional field holds.
LEMMA OptionalField ==
  ASSUME NEW S, NEW f \in Seq(S), f # <<>>, Len(f) <= 1
  PROVE  f[1] \in S /\ f = <<f[1]>>
<1>1. Len(f) = 1 /\ f[1] \in S
  <2>1. Len(f) \in Nat /\ Len(f) # 0
    BY SMTT(30)
  <2>2. Len(f) = 1
    BY SMTT(30), <2>1
  <2>3. f[1] \in S
    BY SMTT(30), <2>2
  <2> QED BY <2>2, <2>3
<1>2. f = <<f[1]>>
  BY SMTT(30), <1>1
<1> QED BY <1>1, <1>2

\* Declared paths are among the secret paths.
LEMMA PathsAreSecrets ==
  ASSUME NEW n \in Seq(STRING) \cup {<<"secretsEnv">>}, NEW up \in Nat
  PROVE  Path(up, n, TRUE) \in SecretPaths /\ Path(up, n, TRUE).env
<1>1. Path(up, n, TRUE) \in SecretPaths
  BY SMTT(30) DEF Path, SecretPaths
<1> QED BY <1>1 DEF Path

\* The secrets that a manifest gives are paths.
LEMMA GivenSecrets ==
  ASSUME StagesInv, NEW k
  PROVE  Given(Declaration(k).secrets) \in Seq(SecretPaths)
<1>1. CASE Declaration(k).secrets = None
  BY SMTT(30), <1>1 DEF Given
<1>2. CASE Declaration(k).secrets # None
  <2> DEFINE field == Declaration(k).secrets
  <2>1. Declared(k)
    BY <1>2 DEF Declaration, NoStack
  <2>2. field \in Optional(Seq(DeclaredPaths)) /\ field # <<>>
    BY <1>2, <2>1, ManifestAssumption DEF Declaration, Declared, StagesInv, None
  <2> HIDE DEF field
  <2>3. field \in Seq(Seq(DeclaredPaths)) /\ Len(field) <= 1
    BY <2>2 DEF Optional
  <2>4. field[1] \in Seq(DeclaredPaths)
    BY <2>2, <2>3, OptionalField
  <2>5. DeclaredPaths \subseteq SecretPaths
    BY SMTT(30) DEF DeclaredPaths, SecretPaths
  <2>6. field[1] \in Seq(SecretPaths)
    BY SMTT(30), <2>4, <2>5
  <2> QED BY <1>2, <2>6 DEF field, Given
<1> QED BY <1>1, <1>2

\* The secrets found in the tree are paths of .env files.
LEMMA FoundSecrets ==
  ASSUME NEW k
  PROVE  SecretsOf(k) \in Seq(SecretPaths) /\ AllEnv(SecretsOf(k))
<1> DEFINE p == Path(1, <<"secretsEnv">>, TRUE)
           q == Path(0, <<"secretsEnv">>, TRUE)
<1>1. p \in SecretPaths /\ p.env /\ q \in SecretPaths /\ q.env
  <2>1. <<"secretsEnv">> \in Seq(STRING) \cup {<<"secretsEnv">>}
    OBVIOUS
  <2>2. 0 \in Nat /\ 1 \in Nat
    BY SMTT(30)
  <2> QED BY <2>1, <2>2, PathsAreSecrets
<1>2. SecretsOf(k) = (IF k[1] \in tree.secrets THEN <<p>> ELSE <<>>)
                     \o (IF tree.dirs[k].secrets THEN <<q>> ELSE <<>>)
  BY DEF SecretsOf
<1> HIDE DEF p, q
<1>3. <<p>> \in Seq(SecretPaths) /\ <<q>> \in Seq(SecretPaths) /\ <<>> \in Seq(SecretPaths)
  BY SMTT(30), <1>1
<1>4. AllEnv(<<p>>) /\ AllEnv(<<q>>) /\ AllEnv(<<>>)
  BY SMTT(30), <1>1 DEF AllEnv
<1> DEFINE ofContext == IF k[1] \in tree.secrets THEN <<p>> ELSE <<>>
           ofStack == IF tree.dirs[k].secrets THEN <<q>> ELSE <<>>
<1>5. ofContext \in Seq(SecretPaths) /\ AllEnv(ofContext)
  BY <1>3, <1>4
<1>6. ofStack \in Seq(SecretPaths) /\ AllEnv(ofStack)
  BY <1>3, <1>4
<1>7. SecretsOf(k) = ofContext \o ofStack
  BY <1>2
<1> HIDE DEF ofContext, ofStack
<1>8. ofContext \o ofStack \in Seq(SecretPaths) /\ AllEnv(ofContext \o ofStack)
  BY <1>5, <1>6, EnvOfConcatenation
<1> QED BY <1>7, <1>8

\* The secrets that a stack means are .env files when the given ones are.
LEMMA MeantEnv ==
  ASSUME StagesInv, NEW k
  PROVE  AllEnv(MeantSecrets(k)) <=> AllEnv(Given(Declaration(k).secrets))
<1> DEFINE p == At(<<k[1], "secretsEnv">>, TRUE)
           q == At(k \o <<"secretsEnv">>, TRUE)
           given == Given(Declaration(k).secrets)
           below == Below(IF Root(k) = None THEN <<>> ELSE Root(k)[1], given)
           S == {p, q} \cup {below[i] : i \in DOMAIN below}
           a == IF Found(k) /\ k[1] \in tree.secrets THEN <<p>> ELSE <<>>
           b == IF Found(k) /\ tree.dirs[k].secrets THEN <<q>> ELSE <<>>
<1>1. p.env /\ q.env
  BY SMTT(30) DEF At
<1>2. MeantSecrets(k) = (a \o b) \o below
  BY SMTT(30) DEF MeantSecrets
<1>3. AllEnv(below) <=> AllEnv(given)
  BY PlacingKeepsEnv
<1>4. DOMAIN below = 1 .. Len(given) /\ Len(given) \in Nat
      /\ below = [i \in DOMAIN below |-> below[i]]
  <2>1. given \in Seq(SecretPaths)
    BY GivenSecrets
  <2> HIDE DEF given
  <2> QED BY SMTT(30), <2>1 DEF Below
<1> HIDE DEF p, q, below, given
<1>5. <<p>> \in Seq(S) /\ <<q>> \in Seq(S) /\ <<>> \in Seq(S)
  BY SMTT(30)
<1>6. AllEnv(<<p>>) /\ AllEnv(<<q>>) /\ AllEnv(<<>>)
  BY SMTT(30), <1>1 DEF AllEnv
<1>7. below \in Seq(S)
  BY SMTT(30), <1>4
<1>8. a \in Seq(S) /\ b \in Seq(S) /\ AllEnv(a) /\ AllEnv(b)
  BY <1>5, <1>6
<1> HIDE DEF a, b, S
<1>9. a \o b \in Seq(S) /\ AllEnv(a \o b)
  BY <1>8, EnvOfConcatenation
<1>10. AllEnv((a \o b) \o below) <=> AllEnv(a \o b) /\ AllEnv(below)
  BY <1>7, <1>9, EnvOfConcatenation
<1> QED BY <1>2, <1>3, <1>9, <1>10 DEF given

\* normalizeAndValidate accepts a stack exactly when it should.
LEMMA AcceptedIsAcceptable ==
  ASSUME StagesInv, NEW k \in MeantStacks
  PROVE  StackAccepted(Normalised(Described(k))) <=> StackAcceptable(k)
<1> DEFINE s == Described(k)
           given == Given(Declaration(k).secrets)
           base == IF s.root # None THEN s.root[1] ELSE <<>>
           sops == IF Found(k) THEN SecretsOf(k) ELSE <<>>
<1>1. /\ DOMAIN s = DOMAIN NoStack /\ s.root = Root(k)
      /\ s.files = (IF Found(k) THEN tree.dirs[k].compose ELSE doc.stacks[k].files)
      /\ s.sops = sops /\ s.secrets = Declaration(k).secrets
  BY DescribedFields
<1>2. ResolvedSecrets(s) = ResolveAll(base, sops \o given)
  BY <1>1 DEF ResolvedSecrets
<1>3. ~Found(k) => Declared(k) /\ Declaration(k) = doc.stacks[k]
  BY DEF MeantStacks, Declared, Declaration
<1>4. given \in Seq(SecretPaths)
  BY GivenSecrets
<1>5. sops \in Seq(SecretPaths) /\ AllEnv(sops)
  <2>1. <<>> \in Seq(SecretPaths) /\ AllEnv(<<>>)
    BY SMTT(30) DEF AllEnv
  <2> QED BY <2>1, FoundSecrets
<1> HIDE DEF s, given, base, sops
<1>6. /\ Normalised(s).root = Root(k) /\ Normalised(s).files = FilesOf(s)
      /\ Normalised(s).sops = ResolvedSecrets(s)
  BY <1>1, NormalisedFields
<1>7. sops \o given \in Seq(SecretPaths) /\ (AllEnv(sops \o given) <=> AllEnv(given))
  BY <1>4, <1>5, EnvOfConcatenation
<1>8. AllEnv(Normalised(s).sops) <=> AllEnv(given)
  <2>1. \A i \in DOMAIN (sops \o given) : DOMAIN (sops \o given)[i] = {"abs", "up", "names", "env"}
    <3> DEFINE w == sops \o given
    <3> HIDE DEF w
    <3>1. w \in Seq(SecretPaths) => \A i \in DOMAIN w : w[i] \in SecretPaths
      BY SMTT(30)
    <3>2. \A x \in SecretPaths : DOMAIN x = {"abs", "up", "names", "env"}
      BY SMTT(30) DEF SecretPaths
    <3>3. w \in Seq(SecretPaths)
      BY <1>7 DEF w
    <3>4. \A i \in DOMAIN w : DOMAIN w[i] = {"abs", "up", "names", "env"}
      BY <3>1, <3>2, <3>3
    <3> QED BY <3>4 DEF w
  <2>2. AllEnv(ResolveAll(base, sops \o given)) <=> AllEnv(sops \o given)
    BY <2>1, ResolvingKeepsEnv
  <2>3. Normalised(s).sops = ResolveAll(base, sops \o given)
    BY <1>2, <1>6
  <2> QED BY <1>7, <2>2, <2>3
<1>9. AllEnv(MeantSecrets(k)) <=> AllEnv(given)
  BY MeantEnv DEF given
<1>10. FilesOf(s) = MeantFiles(k)
  <2>1. CASE Found(k)
    BY <1>1, <2>1 DEF FilesOf, MeantFiles, Found
  <2>2. CASE ~Found(k)
    BY <1>1, <1>3, <2>2 DEF FilesOf, MeantFiles, ComposeIn
  <2> QED BY <2>1, <2>2
<1>11. StackAccepted(Normalised(s)) <=> AllEnv(Normalised(s).sops) /\ ~HasBindMounts(Normalised(s))
  BY DEF StackAccepted, AllEnv
<1>12. HasBindMounts(Normalised(s))
       <=> \E i \in DOMAIN MeantFiles(k) : <<Root(k), MeantFiles(k)[i]>> \in tree.binds
  BY <1>6, <1>10 DEF HasBindMounts
<1>13. StackAcceptable(k) <=> AllEnv(MeantSecrets(k)) /\ ~HasBindMounts(Normalised(s))
  BY <1>12 DEF StackAcceptable, AllEnv
<1> QED BY <1>8, <1>9, <1>11, <1>13 DEF s

(***************************************************************************)
(* Steps that end the loading without a configuration, and steps that      *)
(* leave maps alone.                                                       *)
(***************************************************************************)
LEMMA EndsUnread ==
  ASSUME StagesInv, UNCHANGED inputs, pc' = "done", result' = "unreadable"
  PROVE  LoadInv'
<1>1. StagesInv' /\ StacksInv' /\ FilesetsInv'
  BY MeaningKept DEF StagesInv, StacksInv, FilesetsInv, Loading, Loaded
<1> QED BY <1>1 DEF LoadInv, AcceptedIffValid, FilesetsFollowTheirStacks, StacksAreResolved

\* A step that fails where the manifest is not acceptable keeps the invariant.
LEMMA EndsInError ==
  ASSUME StagesInv, UNCHANGED inputs, Fail, ~Acceptable
  PROVE  LoadInv'
<1>1. StagesInv' /\ StacksInv' /\ FilesetsInv'
  BY MeaningKept DEF StagesInv, StacksInv, FilesetsInv, Loading, Loaded, Fail
<1>2. ~Acceptable'
  BY MeaningKept
<1> QED BY <1>1, <1>2 DEF LoadInv, AcceptedIffValid, FilesetsFollowTheirStacks, StacksAreResolved, Fail

\* A fileset stays filed while its entry and the inputs stay as they are.
LEMMA FiledKept ==
  ASSUME UNCHANGED inputs, NEW fk, Filed(fk), filesets'[fk] = filesets[fk]
  PROVE  Filed(fk)'
BY MeaningKept DEF Filed, StackOf

\* GetAllStacks ranges over the stacks that were found or declared.
LEMMA AllStacks ==
  ASSUME DOMAIN discovered = FoundStacks, DOMAIN explicit = DOMAIN doc.stacks
  PROVE  /\ DOMAIN GetAllStacks = MeantStacks
         /\ \A k \in MeantStacks :
              GetAllStacks[k] = IF ~Found(k) THEN explicit[k]
                                ELSE IF Declared(k) THEN Merged(discovered[k], explicit[k])
                                ELSE discovered[k]
<1>1. \A k : Found(k) <=> k \in FoundStacks
  BY DEF Found, FoundStacks
<1>2. MeantStacks = FoundStacks \cup DOMAIN doc.stacks
  BY DEF MeantStacks, FoundStacks
<1> QED BY <1>1, <1>2 DEF GetAllStacks, Declared

(***************************************************************************)
(* The steps.                                                              *)
(***************************************************************************)
LEMMA InitLoads == Init => LoadInv
<1> SUFFICES ASSUME Init PROVE LoadInv
  OBVIOUS
<1>1. DOMAIN discovered = {} /\ DOMAIN filesets = {}
  <2>1. DOMAIN <<>> = {}
    BY SMTT(30)
  <2> QED BY <2>1 DEF Init
<1>2. \A k \in FoundStacks : k[1] \in doc.contexts
  BY DEF FoundStacks, Found
<1>3. StagesInv
  BY DEF Init, StagesInv, Loading, Loaded
<1>4. StacksInv
  BY <1>1, <1>2 DEF Init, StacksInv, Loading, Loaded
<1>5. FilesetsInv
  BY <1>1 DEF Init, FilesetsInv, Loading
<1> QED BY <1>3, <1>4, <1>5 DEF LoadInv, Init

\* Finding the manifest keeps the invariant.
LEMMA LocateKeeps ==
  ASSUME LoadInv, NEW p, Locate(p)
  PROVE  LoadInv'
<1>1. UNCHANGED inputs /\ UNCHANGED <<todo, discovered, explicit, filesets>> /\ pc = "locate"
  BY DEF Locate, maps
<1>2. CASE pc' = "done"
  BY <1>1, <1>2, EndsUnread DEF LoadInv, Locate
<1>3. CASE pc' # "done"
  <2>1. pc' = "discover" /\ result' = result /\ doc.yaml
    BY <1>3 DEF Locate
  <2>2. StagesInv'
    BY <1>1, <2>1, MeaningKept DEF LoadInv, StagesInv, Loading, Loaded
  <2>3. StacksInv'
    BY <1>1, <2>1, MeaningKept DEF LoadInv, StacksInv, Loading, Loaded
  <2>4. FilesetsInv'
    <3>1. \A fk : StackOf(fk)' = StackOf(fk)
      BY DEF StackOf
    <3> QED BY <1>1, <2>1, <3>1, MeaningKept, FiledKept DEF LoadInv, FilesetsInv, Loading
  <2> QED BY <2>1, <2>2, <2>3, <2>4 DEF LoadInv
<1> QED BY <1>2, <1>3

\* What a map holds after it was written to.
Overwritten(h, g, f) ==
  /\ DOMAIN h = DOMAIN f \cup DOMAIN g
  /\ \A k \in DOMAIN g : h[k] = g[k]
  /\ \A k \in DOMAIN f \ DOMAIN g : h[k] = f[k]

\* Over gives the overwritten map.
LEMMA OverIs == \A f, g : Overwritten(Over(g, f), g, f)
BY DEF Overwritten, Over

Updated(h, k, v, f) == DOMAIN h = DOMAIN f /\ \A j \in DOMAIN f : h[j] = IF j = k THEN v ELSE f[j]

\* Over with one entry of the map gives the updated one.
LEMMA UpdateIs == \A f, v : \A k \in DOMAIN f : Updated(Over(One(k, v), f), k, v, f)
BY DEF Updated, Over, One

\* The fileset of a directory of a discovered stack is valid as it is.
LEMMA DiscoveredIsFiled ==
  ASSUME StagesInv, NEW k \in FoundStacks, NEW v
  PROVE  LET fk == FilesetKey(k, v)
             f == DiscoveredFileset(fk)
         IN /\ StackOf(fk) = k /\ DOMAIN f = FilesetFields /\ f.context = fk[1]
            /\ f.stack = <<fk[2]>> /\ Checked(f)
<1> DEFINE fk == FilesetKey(k, v)
           f == DiscoveredFileset(fk)
<1>1. StackOf(fk) = k
  <2>1. k = <<k[1], k[2]>>
    BY KeysArePairs DEF FoundStacks, MeantStacks
  <2> QED BY <2>1, KeyRestored
<1> HIDE DEF fk
<1>2. /\ DOMAIN f = FilesetFields /\ f.context = fk[1] /\ f.stack = <<fk[2]>>
      /\ f.source = <<fk>> /\ f.volume = <<fk[2], fk[3]>> /\ f.owner = None
      /\ f.path = <<"absolute">> /\ f.mode = <<"hot">>
  BY SMTT(30) DEF DiscoveredFileset, FilesetFields
<1> HIDE DEF f
<1>3. Checked(f)
  <2> DEFINE g == NormalisedFileset(f)
  <2>1. f.path # None /\ f.mode # None /\ f.source # None /\ f.volume # None /\ f.owner # <<"invalid">>
    BY SMTT(30), <1>2 DEF None
  <2>2. /\ g.source = f.source /\ g.volume = f.volume /\ g.owner = f.owner
        /\ g.path = Default(f.path, "absolute") /\ g.mode = Default(f.mode, "hot")
    BY SMTT(30), <1>2 DEF NormalisedFileset, FilesetFields
  <2>3. g.path = <<"absolute">> /\ g.mode = <<"hot">>
    BY <1>2, <2>1, <2>2 DEF Default
  <2> HIDE DEF g
  <2>4. g.path[1] = "absolute" /\ g.mode[1] = "hot"
    BY SMTT(30), <2>3
  <2> QED BY <2>1, <2>2, <2>4 DEF Checked, FilesetValid, OwnershipValid, g
<1> QED BY <1>1, <1>2, <1>3 DEF fk, f

\* Discovery of a context keeps the invariant.
LEMMA DiscoverKeeps ==
  ASSUME LoadInv, NEW c, Discover(c)
  PROVE  LoadInv'
<1>1. /\ UNCHANGED inputs /\ pc = "discover" /\ pc' = "discover" /\ UNCHANGED <<result, explicit>>
      /\ c \in todo /\ todo' = todo \ {c}
  BY DEF Discover
<1>2. c \in doc.contexts
  BY <1>1 DEF LoadInv, StacksInv, Loading
<1>3. StackDirs(c) = {k \in FoundStacks : k[1] = c}
  BY <1>2 DEF StackDirs, FoundStacks, Found
<1>4. StagesInv'
  BY <1>1, MeaningKept DEF LoadInv, StagesInv, Loading, Loaded
<1>5. StacksInv'
  <2> DEFINE new == [k \in StackDirs(c) |-> DiscoveredStack(k)]
  <2>1. DOMAIN new = StackDirs(c) /\ \A k \in StackDirs(c) : new[k] = DiscoveredStack(k)
    OBVIOUS
  <2>2. discovered' = Over(new, discovered)
    BY DEF Discover
  <2> HIDE DEF new
  <2>3. /\ DOMAIN discovered = {k \in FoundStacks : k[1] \notin todo}
        /\ \A k \in DOMAIN discovered : discovered[k] = DiscoveredStack(k)
        /\ todo \subseteq doc.contexts /\ explicit = doc.stacks
    BY <1>1 DEF LoadInv, StacksInv, Loading
  <2>4. DOMAIN discovered' = {k \in FoundStacks : k[1] \notin todo'}
    <3>1. DOMAIN discovered' = DOMAIN discovered \cup StackDirs(c)
      BY <2>1, <2>2, OverIs DEF Overwritten
    <3> QED BY <1>1, <1>3, <2>3, <3>1
  <2>5. \A k \in DOMAIN discovered' : discovered'[k] = DiscoveredStack(k)
    <3>1. Overwritten(discovered', new, discovered)
      BY <2>2, OverIs
    <3> QED BY <2>1, <2>3, <3>1 DEF Overwritten
  <2> QED BY <1>1, <2>3, <2>4, <2>5, MeaningKept DEF StacksInv, Loading, Loaded
<1>6. FilesetsInv'
  <2> DEFINE new == [fk \in FilesetKeys(StackDirs(c)) |-> DiscoveredFileset(fk)]
  <2>1. DOMAIN new = FilesetKeys(StackDirs(c))
        /\ \A fk \in FilesetKeys(StackDirs(c)) : new[fk] = DiscoveredFileset(fk)
    OBVIOUS
  <2>2. filesets' = Over(new, filesets)
    BY DEF Discover
  <2> HIDE DEF new
  <2>3. Overwritten(filesets', new, filesets)
    BY <2>2, OverIs
  <2>4. ASSUME NEW fk \in DOMAIN filesets' PROVE Filed(fk)' /\ Found(StackOf(fk))
    <3>1. CASE fk \in FilesetKeys(StackDirs(c))
      <4>1. PICK k \in FoundStacks : \E v : fk = FilesetKey(k, v)
        BY <1>3, <3>1 DEF FilesetKeys
      <4>2. filesets'[fk] = DiscoveredFileset(fk)
        BY <2>1, <2>3, <3>1 DEF Overwritten
      <4>3. /\ StackOf(fk) = k /\ DOMAIN filesets'[fk] = FilesetFields
            /\ filesets'[fk].context = fk[1] /\ filesets'[fk].stack = <<fk[2]>>
            /\ Checked(filesets'[fk])
        BY <4>1, <4>2, DiscoveredIsFiled DEF LoadInv
      <4>4. Found(k) /\ k \in MeantStacks
        BY DEF FoundStacks, MeantStacks
      <4> QED BY <1>1, <4>3, <4>4, MeaningKept DEF Filed, StackOf
    <3>2. CASE fk \notin FilesetKeys(StackDirs(c))
      <4>1. fk \in DOMAIN filesets /\ filesets'[fk] = filesets[fk]
        BY <2>1, <2>3, <3>2 DEF Overwritten
      <4>2. Filed(fk) /\ Found(StackOf(fk))
        BY <1>1, <4>1 DEF LoadInv, FilesetsInv, Loading
      <4> QED BY <1>1, <4>1, <4>2, FiledKept
    <3> QED BY <3>1, <3>2
  <2>5. \A fk : StackOf(fk)' = StackOf(fk)
    BY DEF StackOf
  <2> QED BY <1>1, <2>4, <2>5, MeaningKept DEF FilesetsInv, Loading
<1> QED BY <1>1, <1>4, <1>5, <1>6 DEF LoadInv

\* The validation before the loops keeps the invariant.
LEMMA ValidateKeeps ==
  ASSUME LoadInv, Validate
  PROVE  LoadInv'
<1>1. /\ UNCHANGED inputs /\ UNCHANGED <<discovered, explicit, filesets>>
      /\ pc = "discover" /\ todo = {}
  BY DEF Validate, maps
<1>2. explicit = doc.stacks
  BY <1>1 DEF LoadInv, StacksInv, Loading
<1>3. CASE Fail
  <2>1. ~Acceptable
    BY <1>1, <1>2, <1>3, KeyMeaning DEF Validate, Fail, Acceptable, LoadInv, ContextValid
  <2> QED BY <1>1, <1>3, <2>1, EndsInError DEF LoadInv
<1>4. CASE ~Fail
  <2>1. /\ all' = GetAllStacks /\ todo' = DOMAIN all' /\ pc' = "normalise" /\ result' = result
        /\ doc.identifier /\ doc.contexts # {} /\ \A c \in doc.contexts : ContextValid(c)
        /\ \A d \in DOMAIN doc.deployments : DeploymentValid(doc.deployments[d])
        /\ \A k \in DOMAIN doc.stacks : StackValid(k)
    BY <1>2, <1>4 DEF Validate
  <2>2. StagesInv'
    BY <1>1, <2>1, MeaningKept DEF LoadInv, StagesInv, Loading, Loaded
  <2>3. StacksInv'
    <3>1. DOMAIN discovered = FoundStacks /\ \A k \in FoundStacks : discovered[k] = DiscoveredStack(k)
      BY <1>1 DEF LoadInv, StacksInv, Loading
    <3>2. /\ DOMAIN all' = MeantStacks
          /\ \A k \in MeantStacks : all'[k] = Described(k)
      <4>1. \A k \in MeantStacks : Found(k) => k \in FoundStacks
        BY DEF Found, FoundStacks
      <4>2. DOMAIN GetAllStacks = MeantStacks
        BY <1>2, <3>1, AllStacks
      <4>3. \A k \in MeantStacks : GetAllStacks[k] = Described(k)
        BY <1>2, <3>1, <4>1, AllStacks DEF Described
      <4> QED BY <2>1, <4>2, <4>3
    <3>3. \A k \in MeantStacks : Unmet(k)'
      BY <2>1, <3>2 DEF Unmet
    <3>4. FoundStacks \subseteq MeantStacks /\ DOMAIN doc.stacks \subseteq MeantStacks
      BY DEF MeantStacks, FoundStacks
    <3> QED BY <1>1, <1>2, <2>1, <3>1, <3>2, <3>3, <3>4, MeaningKept DEF StacksInv, Loading, Loaded
  <2>4. FilesetsInv'
    <3>1. \A fk : StackOf(fk)' = StackOf(fk)
      BY DEF StackOf
    <3> QED BY <1>1, <2>1, <3>1, MeaningKept, FiledKept DEF LoadInv, FilesetsInv, Loading
  <2> QED BY <2>1, <2>2, <2>3, <2>4 DEF LoadInv
<1> QED BY <1>3, <1>4

\* The normalisation of a stack, or its refusal, keeps the invariant.
LEMMA NormaliseStackKeeps ==
  ASSUME LoadInv, NEW k, NormaliseStack(k)
  PROVE  LoadInv'
<1> DEFINE s == Normalised(Described(k))
<1>1. /\ UNCHANGED inputs /\ UNCHANGED <<all, filesets>> /\ pc = "normalise" /\ k \in todo
  BY DEF NormaliseStack
<1>2. /\ k \in MeantStacks /\ all[k] = Described(k) /\ StagesInv
      /\ todo \subseteq MeantStacks /\ DOMAIN all = MeantStacks
      /\ \A j \in MeantStacks : all[j] = Described(j)
  BY <1>1 DEF LoadInv, StacksInv
<1>3. /\ DOMAIN discovered = FoundStacks /\ DOMAIN explicit = DOMAIN doc.stacks
      /\ \A j \in FoundStacks :
           discovered[j] = IF Unmet(j) THEN DiscoveredStack(j) ELSE Normalised(Described(j))
      /\ \A j \in DOMAIN doc.stacks :
           explicit[j] = IF Unmet(j) \/ Found(j) THEN doc.stacks[j] ELSE Normalised(doc.stacks[j])
      /\ \A j \in MeantStacks : Unmet(j) \/ StackAcceptable(j)
  BY <1>1 DEF LoadInv, StacksInv, Loaded
<1>4. StackAccepted(s) <=> StackAcceptable(k)
  BY <1>2, AcceptedIsAcceptable
<1>5. CASE Fail
  <2>1. ~StackAccepted(s)
    BY <1>1, <1>2, <1>5 DEF NormaliseStack, Fail
  <2> QED BY <1>1, <1>2, <1>4, <1>5, <2>1, EndsInError DEF Acceptable
<1>6. CASE ~Fail
  <2>1. StackAccepted(s) /\ WrittenBack(k, s) /\ todo' = todo \ {k} /\ pc' = pc /\ result' = result
    BY <1>2, <1>6 DEF NormaliseStack
  <2>2. \A j : Found(j) <=> j \in FoundStacks
    BY DEF Found, FoundStacks
  <2>3. \A j : Unmet(j)' <=> j # k /\ Unmet(j)
    BY <1>1, <2>1 DEF Unmet
  <2> HIDE DEF s
  <2>4. /\ DOMAIN discovered' = FoundStacks
        /\ \A j \in FoundStacks : discovered'[j] = IF j = k THEN s ELSE discovered[j]
    <3>1. CASE Found(k)
      <4>1. Updated(discovered', k, s, discovered)
        BY <1>3, <2>1, <2>2, <3>1, UpdateIs DEF WrittenBack
      <4> QED BY <1>3, <4>1 DEF Updated
    <3>2. CASE ~Found(k)
      BY <1>3, <2>1, <2>2, <3>2 DEF WrittenBack
    <3> QED BY <3>1, <3>2
  <2>5. /\ DOMAIN explicit' = DOMAIN doc.stacks
        /\ \A j \in DOMAIN doc.stacks : explicit'[j] = IF j = k /\ ~Found(k) THEN s ELSE explicit[j]
    <3>1. CASE Found(k)
      BY <1>3, <2>1, <2>2, <3>1 DEF WrittenBack
    <3>2. CASE ~Found(k)
      <4>1. k \in DOMAIN doc.stacks
        BY <1>2, <3>2 DEF MeantStacks
      <4>2. Updated(explicit', k, s, explicit)
        BY <1>3, <2>1, <2>2, <3>2, <4>1, UpdateIs DEF WrittenBack
      <4> QED BY <1>3, <3>2, <4>2 DEF Updated
    <3> QED BY <3>1, <3>2
  <2>6. \A j \in FoundStacks :
          discovered'[j] = IF Unmet(j)' THEN DiscoveredStack(j) ELSE Normalised(Described(j))
    BY <1>3, <2>3, <2>4 DEF s
  <2>7. \A j \in DOMAIN doc.stacks :
          explicit'[j] = IF Unmet(j)' \/ Found(j) THEN doc.stacks[j] ELSE Normalised(doc.stacks[j])
    <3>1. ~Found(k) => s = Normalised(doc.stacks[k])
      BY DEF s, Described
    <3> QED BY <1>3, <2>3, <2>5, <3>1
  <2>8. \A j \in MeantStacks : Unmet(j)' \/ StackAcceptable(j)
    BY <1>3, <1>4, <2>1, <2>3
  <2>9. StacksInv'
    <3>1. pc' = "normalise" /\ todo' \subseteq MeantStacks' /\ DOMAIN all' = MeantStacks'
      BY <1>1, <1>2, <2>1, MeaningKept
    <3>2. \A j \in MeantStacks' : all'[j] = Described(j)'
      BY <1>1, <1>2, MeaningKept
    <3>3. DOMAIN discovered' = FoundStacks' /\ DOMAIN explicit' = DOMAIN doc'.stacks
      BY <1>1, <2>4, <2>5, MeaningKept
    <3>4. \A j \in FoundStacks' :
            discovered'[j] = IF Unmet(j)' THEN DiscoveredStack(j)' ELSE Normalised(Described(j))'
      BY <1>1, <2>6, MeaningKept
    <3>5. \A j \in DOMAIN doc'.stacks :
            explicit'[j] = IF Unmet(j)' \/ Found(j)' THEN doc'.stacks[j] ELSE Normalised(doc.stacks[j])'
      BY <1>1, <2>7, MeaningKept
    <3>6. \A j \in MeantStacks' : Unmet(j)' \/ StackAcceptable(j)'
      BY <1>1, <2>8, MeaningKept
    <3> QED BY <3>1, <3>2, <3>3, <3>4, <3>5, <3>6 DEF StacksInv, Loading, Loaded
  <2>10. StagesInv'
    BY <1>1, <1>2, <2>1, MeaningKept DEF StagesInv, Loading, Loaded
  <2>11. FilesetsInv'
    <3>1. \A fk : StackOf(fk)' = StackOf(fk)
      BY DEF StackOf
    <3> QED BY <1>1, <2>1, <3>1, MeaningKept, FiledKept DEF LoadInv, FilesetsInv, Loading
  <2> QED BY <1>1, <2>1, <2>9, <2>10, <2>11 DEF LoadInv
<1> QED BY <1>5, <1>6

\* Once every stack is normalised, GetAllStacks gives the stacks that a command gets.
LEMMA AllResolved ==
  ASSUME StacksInv, pc \in Loaded, \A k : ~Unmet(k)
  PROVE  DOMAIN GetAllStacks = MeantStacks /\ \A k \in MeantStacks : GetAllStacks[k] = Resolved(k)
<1>1. /\ DOMAIN discovered = FoundStacks /\ DOMAIN explicit = DOMAIN doc.stacks
      /\ \A k \in FoundStacks : discovered[k] = Normalised(Described(k))
      /\ \A k \in DOMAIN doc.stacks :
           explicit[k] = IF Found(k) THEN doc.stacks[k] ELSE Normalised(doc.stacks[k])
  BY DEF StacksInv
<1>2. ASSUME NEW k \in MeantStacks PROVE GetAllStacks[k] = Resolved(k)
  <2>1. GetAllStacks[k] = IF ~Found(k) THEN explicit[k]
                          ELSE IF Declared(k) THEN Merged(discovered[k], explicit[k])
                          ELSE discovered[k]
    BY <1>1, AllStacks
  <2>2. CASE ~Found(k)
    <3>1. k \in DOMAIN doc.stacks
      BY <2>2 DEF MeantStacks
    <3> QED BY <1>1, <2>1, <2>2, <3>1 DEF Resolved, Described
  <2>3. CASE Found(k)
    <3>1. k \in FoundStacks /\ (Declared(k) => k \in DOMAIN doc.stacks)
      BY <2>3 DEF Found, FoundStacks, Declared
    <3> QED BY <1>1, <2>1, <2>3, <3>1 DEF Resolved
  <2> QED BY <2>2, <2>3
<1> QED BY <1>1, <1>2, AllStacks

\* The end of the loop over the stacks keeps the invariant.
LEMMA StacksNormalisedKeeps ==
  ASSUME LoadInv, StacksNormalised
  PROVE  LoadInv'
<1>1. /\ UNCHANGED inputs /\ UNCHANGED <<result, discovered, explicit, filesets>>
      /\ pc = "normalise" /\ todo = {} /\ pc' = "merge" /\ all' = GetAllStacks /\ todo' = DOMAIN all'
  BY DEF StacksNormalised, maps
<1>2. \A k : ~Unmet(k) /\ ~Unmet(k)'
  BY <1>1 DEF Unmet
<1>3. /\ DOMAIN all' = MeantStacks /\ \A k \in MeantStacks : all'[k] = Resolved(k)
  BY <1>1, <1>2, AllResolved DEF LoadInv, Loaded
<1>4. StagesInv'
  BY <1>1, MeaningKept DEF LoadInv, StagesInv, Loading, Loaded
<1>5. StacksInv'
  <2>1. /\ DOMAIN discovered = FoundStacks /\ DOMAIN explicit = DOMAIN doc.stacks
        /\ \A k \in FoundStacks : discovered[k] = Normalised(Described(k))
        /\ \A k \in DOMAIN doc.stacks :
             explicit[k] = IF Found(k) THEN doc.stacks[k] ELSE Normalised(doc.stacks[k])
        /\ \A k \in MeantStacks : StackAcceptable(k)
    BY <1>1, <1>2 DEF LoadInv, StacksInv, Loaded
  <2>2. /\ DOMAIN discovered' = FoundStacks' /\ DOMAIN explicit' = DOMAIN doc'.stacks
        /\ \A k \in MeantStacks' : StackAcceptable(k)'
    BY <1>1, <2>1, MeaningKept
  <2>3. \A k \in FoundStacks' : discovered'[k] = Normalised(Described(k))'
    <3>1. discovered' = discovered /\ FoundStacks' = FoundStacks
          /\ \A k : Normalised(Described(k))' = Normalised(Described(k))
      BY <1>1, MeaningKept
    <3> QED BY <2>1, <3>1
  <2>4. \A k \in DOMAIN doc'.stacks :
          explicit'[k] = IF Found(k)' THEN doc'.stacks[k] ELSE Normalised(doc.stacks[k])'
    <3>1. explicit' = explicit /\ doc' = doc
          /\ \A k : (Found(k)' <=> Found(k)) /\ Normalised(doc.stacks[k])' = Normalised(doc.stacks[k])
      BY <1>1, MeaningKept
    <3> QED BY <2>1, <3>1
  <2>5. todo' \subseteq MeantStacks' /\ DOMAIN all' = MeantStacks'
        /\ \A k \in MeantStacks' : all'[k] = Resolved(k)'
    BY <1>1, <1>3, MeaningKept
  <2> QED BY <1>1, <1>2, <2>2, <2>3, <2>4, <2>5 DEF StacksInv, Loading, Loaded
<1>6. FilesetsInv'
  <2>1. \A fk : StackOf(fk)' = StackOf(fk)
    BY DEF StackOf
  <2>2. \A k \in DOMAIN doc.stacks : Unfiled(k)'
    BY <1>1, <1>3 DEF Unfiled, MeantStacks
  <2> QED BY <1>1, <2>1, <2>2, MeaningKept, FiledKept DEF LoadInv, FilesetsInv, Loading
<1> QED BY <1>1, <1>4, <1>5, <1>6 DEF LoadInv

\* Once the stacks are normalised, steps that leave them alone keep what is known of them.
LEMMA StacksKept ==
  ASSUME StacksInv, pc \in {"merge", "filesets"}, UNCHANGED <<inputs, all, discovered, explicit>>,
         \/ pc' = "merge" /\ pc = "merge" /\ todo' \subseteq todo
         \/ pc' = "filesets"
  PROVE  StacksInv'
<1>1. \A k : ~Unmet(k) /\ ~Unmet(k)'
  BY DEF Unmet
<1>2. /\ DOMAIN discovered = FoundStacks /\ DOMAIN explicit = DOMAIN doc.stacks
      /\ \A k \in FoundStacks : discovered[k] = Normalised(Described(k))
      /\ \A k \in DOMAIN doc.stacks :
           explicit[k] = IF Found(k) THEN doc.stacks[k] ELSE Normalised(doc.stacks[k])
      /\ \A k \in MeantStacks : StackAcceptable(k)
  BY <1>1 DEF StacksInv, Loaded
<1>3. UNCHANGED inputs /\ all' = all /\ discovered' = discovered /\ explicit' = explicit
  OBVIOUS
<1>4. /\ DOMAIN discovered' = FoundStacks' /\ DOMAIN explicit' = DOMAIN doc'.stacks
      /\ \A k \in MeantStacks' : StackAcceptable(k)'
  BY <1>2, <1>3, MeaningKept
<1>5. \A k \in FoundStacks' : discovered'[k] = Normalised(Described(k))'
  <2>1. FoundStacks' = FoundStacks /\ \A k : Normalised(Described(k))' = Normalised(Described(k))
    BY <1>3, MeaningKept
  <2> QED BY <1>2, <1>3, <2>1
<1>6. \A k \in DOMAIN doc'.stacks :
        explicit'[k] = IF Found(k)' THEN doc'.stacks[k] ELSE Normalised(doc.stacks[k])'
  <2>1. /\ doc' = doc
        /\ \A k : (Found(k)' <=> Found(k)) /\ Normalised(doc.stacks[k])' = Normalised(doc.stacks[k])
    BY <1>3, MeaningKept
  <2> QED BY <1>2, <1>3, <2>1
<1>7. pc' = "merge" => /\ todo' \subseteq MeantStacks' /\ DOMAIN all' = MeantStacks'
                       /\ \A k \in MeantStacks' : all'[k] = Resolved(k)'
  BY <1>3, MeaningKept DEF StacksInv
<1> QED BY <1>1, <1>4, <1>5, <1>6, <1>7 DEF StacksInv, Loading, Loaded

(***************************************************************************)
(* Filesets.                                                               *)
(***************************************************************************)
LEMMA NormalisedFilesetFields ==
  ASSUME NEW f, DOMAIN f = FilesetFields
  PROVE  LET g == NormalisedFileset(f) IN
         /\ DOMAIN g = FilesetFields /\ g.context = f.context /\ g.stack = f.stack
         /\ g.source = f.source /\ g.volume = f.volume /\ g.owner = f.owner
         /\ g.path = Default(f.path, "absolute") /\ g.mode = Default(f.mode, "hot")
BY SMTT(30) DEF NormalisedFileset, FilesetFields

\* A default is given once.
LEMMA DefaultTwice == \A field, value : Default(Default(field, value), value) = Default(field, value)
<1>1. \A value : <<value>> # <<>>
  BY SMTT(30)
<1> QED BY <1>1 DEF Default, None

\* Checked looks at the fields with their defaults.
LEMMA CheckedMeans ==
  ASSUME NEW f, DOMAIN f = FilesetFields
  PROVE  Checked(f) <=> /\ f.source # None /\ f.volume # None /\ f.owner # <<"invalid">>
                        /\ Default(f.path, "absolute")[1] = "absolute"
                        /\ Default(f.mode, "hot")[1] \in {"hot", "cold"}
BY NormalisedFilesetFields DEF Checked, FilesetValid, OwnershipValid

\* A fileset that was normalised is as declared, and valid, when it was before.
LEMMA NormalisedOnce ==
  ASSUME NEW f, DOMAIN f = FilesetFields
  PROVE  /\ Checked(NormalisedFileset(f)) <=> Checked(f)
         /\ \A e : AsDeclared(f, e) => AsDeclared(NormalisedFileset(f), e)
<1> DEFINE g == NormalisedFileset(f)
<1>1. /\ DOMAIN g = FilesetFields
      /\ g.source = f.source /\ g.volume = f.volume /\ g.owner = f.owner
      /\ g.path = Default(f.path, "absolute") /\ g.mode = Default(f.mode, "hot")
  BY NormalisedFilesetFields
<1>2. /\ Default(g.path, "absolute") = Default(f.path, "absolute")
      /\ Default(g.mode, "hot") = Default(f.mode, "hot")
  BY <1>1, DefaultTwice
<1> HIDE DEF g
<1>3. Checked(g) <=> Checked(f)
  BY <1>1, <1>2, CheckedMeans
<1>4. \A e : AsDeclared(f, e) => AsDeclared(g, e)
  BY <1>1, <1>2 DEF AsDeclared
<1> QED BY <1>3, <1>4 DEF g

\* The value of an optional field with a default.
LEMMA DefaultIs ==
  ASSUME NEW field \in Optional(STRING), NEW value
  PROVE  \/ field = None /\ Default(field, value)[1] = value
         \/ \E x : field = <<x>> /\ Default(field, value)[1] = x
<1>1. \A x : <<x>>[1] = x
  BY SMTT(30)
<1>2. CASE field = None
  BY <1>1, <1>2 DEF Default
<1>3. CASE field # None
  <2>1. field = <<field[1]>>
    BY <1>3, OptionalField DEF Optional, None
  <2> QED BY <1>3, <2>1 DEF Default
<1> QED BY <1>2, <1>3

\* A declared fileset passes the checks exactly when it is acceptable.
LEMMA CheckedIsAcceptable ==
  ASSUME NEW f, DOMAIN f = FilesetFields, NEW e, AsDeclared(f, e),
         e.path \in Optional(STRING), e.mode \in Optional(STRING)
  PROVE  Checked(f) <=> FilesetAcceptable(e)
<1>1. \A x, y : (<<x>> = <<y>> <=> x = y) /\ <<x>> # None
  BY SMTT(30) DEF None
<1>2. Default(f.path, "absolute")[1] = "absolute" <=> e.path \in {None, <<"absolute">>}
  <2>1. Default(f.path, "absolute") = Default(e.path, "absolute")
    BY DEF AsDeclared
  <2>2. CASE e.path = None /\ Default(e.path, "absolute")[1] = "absolute"
    BY <2>1, <2>2
  <2>3. ASSUME NEW x, e.path = <<x>>, Default(e.path, "absolute")[1] = x
        PROVE  Default(f.path, "absolute")[1] = "absolute" <=> e.path \in {None, <<"absolute">>}
    BY <1>1, <2>1, <2>3
  <2>4. \/ e.path = None /\ Default(e.path, "absolute")[1] = "absolute"
        \/ \E x : e.path = <<x>> /\ Default(e.path, "absolute")[1] = x
    BY DefaultIs
  <2> QED BY <2>2, <2>3, <2>4
<1>3. Default(f.mode, "hot")[1] \in {"hot", "cold"} <=> e.mode \in {None, <<"hot">>, <<"cold">>}
  <2>1. Default(f.mode, "hot") = Default(e.mode, "hot")
    BY DEF AsDeclared
  <2>2. CASE e.mode = None /\ Default(e.mode, "hot")[1] = "hot"
    BY <2>1, <2>2
  <2>3. ASSUME NEW x, e.mode = <<x>>, Default(e.mode, "hot")[1] = x
        PROVE  Default(f.mode, "hot")[1] \in {"hot", "cold"} <=> e.mode \in {None, <<"hot">>, <<"cold">>}
    <3>1. Default(f.mode, "hot")[1] = x
      BY <2>1, <2>3
    <3>2. (<<x>> = <<"hot">> <=> x = "hot") /\ (<<x>> = <<"cold">> <=> x = "cold") /\ <<x>> # None
      BY <1>1
    <3>3. x \in {"hot", "cold"} <=> <<x>> \in {None, <<"hot">>, <<"cold">>}
      BY <3>2
    <3> QED BY <2>3, <3>1, <3>3
  <2>4. \/ e.mode = None /\ Default(e.mode, "hot")[1] = "hot"
        \/ \E x : e.mode = <<x>> /\ Default(e.mode, "hot")[1] = x
    BY DefaultIs
  <2> QED BY <2>2, <2>3, <2>4
<1> QED BY <1>2, <1>3, CheckedMeans DEF FilesetAcceptable, OwnershipValid, AsDeclared

\* Filing the declared filesets of a stack keeps the invariant.
LEMMA MergeFilesetsKeeps ==
  ASSUME LoadInv, NEW k, MergeFilesets(k)
  PROVE  LoadInv'
<1> DEFINE given == all[k].filesets
           new == [fk \in {FilesetKey(k, n) : n \in DOMAIN given} |->
                     IF fk \in DOMAIN filesets THEN MergedFileset(filesets[fk], given[fk[3]])
                     ELSE DeclaredFileset(k, given[fk[3]])]
<1>1. /\ UNCHANGED inputs /\ UNCHANGED <<result, all, discovered, explicit>>
      /\ pc = "merge" /\ pc' = "merge" /\ k \in todo /\ todo' = todo \ {k}
  BY DEF MergeFilesets
<1>2. /\ k \in MeantStacks /\ StagesInv /\ todo \subseteq MeantStacks
      /\ all[k] = Resolved(k) /\ StacksInv
  BY <1>1 DEF LoadInv, StacksInv
<1>3. given = IF Found(k) THEN None ELSE doc.stacks[k].filesets
  BY <1>2, ResolvedFilesets
<1>4. Overwritten(filesets', new, filesets)
  BY OverIs DEF MergeFilesets
<1>5. /\ \A fk \in DOMAIN filesets : Filed(fk) /\ (Found(StackOf(fk)) \/ ~Unfiled(StackOf(fk)))
      /\ \A j \in DOMAIN doc.stacks :
           Found(j) \/ Unfiled(j)
           \/ \A n \in DOMAIN doc.stacks[j].filesets : FilesetKey(j, n) \in DOMAIN filesets
  BY <1>1 DEF LoadInv, FilesetsInv
<1>6. ASSUME NEW n \in DOMAIN given
      PROVE  LET fk == FilesetKey(k, n) IN
             /\ ~Found(k) /\ StackOf(fk) = k /\ fk[3] = n /\ fk[1] = k[1]
             /\ fk \notin DOMAIN filesets /\ given = doc.stacks[k].filesets
  <2>1. ~Found(k) /\ given = doc.stacks[k].filesets
    <3>1. DOMAIN None = {}
      BY SMTT(30) DEF None
    <3> QED BY <1>3, <1>6, <3>1
  <2>2. k = <<k[1], k[2]>>
    <3>1. StackValid(k)
      BY <1>1, <1>2, <2>1 DEF MeantStacks, StagesInv, Loaded
    <3> QED BY <1>2, <3>1, KeysArePairs
  <2>3. StackOf(FilesetKey(k, n)) = k
    BY <2>2, KeyRestored
  <2> HIDE DEF given
  <2>4. FilesetKey(k, n) \notin DOMAIN filesets
    <3>1. Unfiled(k)
      BY <1>1 DEF Unfiled
    <3> QED BY SMTT(30), <1>5, <2>1, <2>3, <3>1
  <2>5. FilesetKey(k, n)[3] = n /\ FilesetKey(k, n)[1] = k[1]
    BY KeyParts
  <2> QED BY SMTT(30), <2>1, <2>3, <2>4, <2>5
<1>7. /\ DOMAIN new = {FilesetKey(k, n) : n \in DOMAIN given}
      /\ \A fk \in DOMAIN new : fk \notin DOMAIN filesets => new[fk] = DeclaredFileset(k, given[fk[3]])
  OBVIOUS
<1> HIDE DEF new, given
<1>8. ASSUME NEW fk \in DOMAIN filesets'
      PROVE  Filed(fk)' /\ (Found(StackOf(fk)) \/ ~Unfiled(StackOf(fk))')
  <2>1. CASE fk \in DOMAIN new
    <3>1. PICK n \in DOMAIN given : fk = FilesetKey(k, n)
      BY <1>7, <2>1
    <3>2. /\ ~Found(k) /\ StackOf(fk) = k /\ fk[3] = n /\ fk[1] = k[1]
          /\ fk \notin DOMAIN filesets /\ given = doc.stacks[k].filesets
      BY <1>6, <3>1
    <3>3. filesets'[fk] = DeclaredFileset(k, given[n])
      BY <1>4, <1>7, <2>1, <3>2 DEF Overwritten
    <3>4. LET f == DeclaredFileset(k, given[n]) IN
          DOMAIN f = FilesetFields /\ f.context = k[1] /\ AsDeclared(f, given[n])
      BY SMTT(30) DEF DeclaredFileset, FilesetFields, AsDeclared
    <3>5. Filed(fk)'
      BY <1>1, <1>2, <3>2, <3>3, <3>4, MeaningKept DEF Filed, StackOf
    <3> QED BY <1>1, <3>2, <3>5 DEF Unfiled
  <2>2. CASE fk \notin DOMAIN new
    <3>1. fk \in DOMAIN filesets /\ filesets'[fk] = filesets[fk]
      BY <1>4, <2>2 DEF Overwritten
    <3>2. Filed(fk)'
      BY <1>1, <1>5, <3>1, FiledKept
    <3> QED BY <1>1, <1>5, <3>1, <3>2 DEF Unfiled
  <2> QED BY <2>1, <2>2
<1>9. ASSUME NEW j \in DOMAIN doc.stacks, ~Found(j), ~Unfiled(j)', NEW n \in DOMAIN doc.stacks[j].filesets
      PROVE  FilesetKey(j, n) \in DOMAIN filesets'
  <2>1. CASE j = k
    BY <1>3, <1>4, <1>7, <1>9, <2>1 DEF Overwritten
  <2>2. CASE j # k
    <3>1. ~Unfiled(j)
      BY <1>1, <1>9, <2>2 DEF Unfiled
    <3> QED BY <1>4, <1>5, <1>9, <3>1 DEF Overwritten
  <2> QED BY <2>1, <2>2
<1>10. FilesetsInv'
  <2>1. \A fk : StackOf(fk)' = StackOf(fk)
    BY DEF StackOf
  <2>2. \A fk \in DOMAIN filesets' :
          Filed(fk)' /\ (Found(StackOf(fk))' \/ ~Unfiled(StackOf(fk))')
    BY <1>1, <1>8, MeaningKept
  <2>3. \A j \in DOMAIN doc'.stacks :
          Found(j)' \/ Unfiled(j)'
          \/ \A n \in DOMAIN doc'.stacks[j].filesets : FilesetKey(j, n) \in DOMAIN filesets'
    BY <1>1, <1>9, MeaningKept
  <2> QED BY <1>1, <2>1, <2>2, <2>3 DEF FilesetsInv, Loading, FilesetKey
<1>11. StagesInv'
  BY <1>1, <1>2, MeaningKept DEF StagesInv, Loading, Loaded
<1>12. StacksInv'
  BY <1>1, <1>2, StacksKept
<1> QED BY <1>1, <1>10, <1>11, <1>12 DEF LoadInv

\* The end of the loop over the declared filesets keeps the invariant.
LEMMA FilesetsMergedKeeps ==
  ASSUME LoadInv, FilesetsMerged
  PROVE  LoadInv'
<1>1. /\ UNCHANGED inputs /\ UNCHANGED <<all, discovered, explicit, filesets>>
      /\ pc = "merge" /\ todo = {}
  BY DEF FilesetsMerged, maps
<1>2. CASE ~doc.sops
  BY <1>1, <1>2, EndsInError DEF FilesetsMerged, LoadInv, Acceptable
<1>3. CASE doc.sops
  <2>1. pc' = "filesets" /\ todo' = DOMAIN filesets /\ result' = result
    BY <1>3 DEF FilesetsMerged
  <2>2. StagesInv'
    BY <1>1, <1>3, <2>1, MeaningKept DEF LoadInv, StagesInv, Loading, Loaded
  <2>3. StacksInv'
    BY <1>1, <2>1, StacksKept DEF LoadInv
  <2>4. FilesetsInv'
    <3>1. \A fk : StackOf(fk)' = StackOf(fk)
      BY DEF StackOf
    <3>2. \A k : ~Unfiled(k) /\ ~Unfiled(k)'
      BY <1>1, <2>1 DEF Unfiled
    <3>3. \A fk \in DOMAIN filesets' : Filed(fk)'
      BY <1>1, FiledKept DEF LoadInv, FilesetsInv
    <3>4. \A j \in DOMAIN doc'.stacks :
            Found(j)' \/ \A n \in DOMAIN doc'.stacks[j].filesets : FilesetKey(j, n) \in DOMAIN filesets'
      BY <1>1, <3>2, MeaningKept DEF LoadInv, FilesetsInv
    <3> QED BY <1>1, <2>1, <3>1, <3>2, <3>3, <3>4 DEF FilesetsInv, Loading, FilesetKey
  <2> QED BY <2>1, <2>2, <2>3, <2>4 DEF LoadInv
<1> QED BY <1>2, <1>3

\* What the manifest declares of a fileset that is filed for a stack that was not found.
LEMMA DeclaredFields ==
  ASSUME StagesInv, NEW fk, Filed(fk), ~Found(StackOf(fk))
  PROVE  LET k == StackOf(fk)
             e == doc.stacks[k].filesets[fk[3]]
         IN /\ k \in DOMAIN doc.stacks /\ fk[3] \in DOMAIN doc.stacks[k].filesets
            /\ Checked(filesets[fk]) <=> FilesetAcceptable(e)
<1> DEFINE k == StackOf(fk)
           e == doc.stacks[k].filesets[fk[3]]
           f == filesets[fk]
<1>1. /\ k \in DOMAIN doc.stacks /\ fk[3] \in DOMAIN doc.stacks[k].filesets
      /\ DOMAIN f = FilesetFields /\ AsDeclared(f, e)
  BY DEF Filed, MeantStacks
<1>2. e.path \in Optional(STRING) /\ e.mode \in Optional(STRING)
  BY <1>1, ManifestAssumption DEF StagesInv
<1> HIDE DEF k, e, f
<1>3. Checked(f) <=> FilesetAcceptable(e)
  BY <1>1, <1>2, CheckedIsAcceptable
<1> QED BY <1>1, <1>3 DEF k, e, f

\* The normalisation of a fileset, or its refusal, keeps the invariant.
LEMMA NormaliseFilesetKeeps ==
  ASSUME LoadInv, NEW fk, NormaliseFileset(fk)
  PROVE  LoadInv'
<1> DEFINE f == filesets[fk]
           g == NormalisedFileset(f)
<1>1. /\ UNCHANGED inputs /\ UNCHANGED <<all, discovered, explicit>>
      /\ pc = "filesets" /\ fk \in todo
  BY DEF NormaliseFileset
<1>2. /\ StagesInv /\ StacksInv /\ todo \subseteq DOMAIN filesets /\ fk \in DOMAIN filesets /\ Filed(fk)
      /\ \A x \in DOMAIN filesets : Filed(x) /\ (x \in todo \/ Checked(filesets[x]))
      /\ \A j \in DOMAIN doc.stacks :
           Found(j) \/ \A n \in DOMAIN doc.stacks[j].filesets : FilesetKey(j, n) \in DOMAIN filesets
  <2>1. \A j : ~Unfiled(j)
    BY <1>1 DEF Unfiled
  <2> QED BY <1>1, <2>1 DEF LoadInv, FilesetsInv
<1>3. CASE Fail
  <2>1. ~Checked(f)
    BY <1>1, <1>3 DEF NormaliseFileset, Fail, Checked
  <2>2. ~Found(StackOf(fk))
    BY <1>2, <2>1 DEF Filed
  <2>3. ~Acceptable
    BY <1>2, <2>1, <2>2, DeclaredFields DEF Acceptable
  <2> QED BY <1>1, <1>2, <1>3, <2>3, EndsInError
<1>4. CASE ~Fail
  <2>1. Checked(f) /\ filesets' = Over(One(fk, g), filesets) /\ todo' = todo \ {fk} /\ pc' = pc /\ result' = result
    BY <1>4 DEF NormaliseFileset, Checked
  <2>2. Updated(filesets', fk, g, filesets)
    BY <1>2, <2>1, UpdateIs
  <2>3. DOMAIN f = FilesetFields
    BY <1>2 DEF Filed
  <2>4. /\ DOMAIN g = FilesetFields /\ g.context = f.context /\ g.stack = f.stack
        /\ Checked(g) /\ \A e : AsDeclared(f, e) => AsDeclared(g, e)
    BY <2>1, <2>3, NormalisedFilesetFields, NormalisedOnce
  <2> HIDE DEF g
  <2>5. filesets'[fk] = g
    BY <1>2, <2>2 DEF Updated
  <2>6. Filed(fk)'
    BY <1>1, <1>2, <2>4, <2>5, MeaningKept DEF Filed, StackOf
  <2>7. \A x \in DOMAIN filesets' : Filed(x)' /\ (x \in todo' \/ Checked(filesets'[x]))
    <3>1. ASSUME NEW x \in DOMAIN filesets', x # fk
          PROVE  Filed(x)' /\ (x \in todo' \/ Checked(filesets'[x]))
      <4>1. x \in DOMAIN filesets /\ filesets'[x] = filesets[x]
        BY <2>2, <3>1 DEF Updated
      <4>2. Filed(x)'
        BY <1>1, <1>2, <4>1, FiledKept
      <4> QED BY <1>2, <2>1, <3>1, <4>1, <4>2
    <3> QED BY <2>4, <2>5, <2>6, <3>1
  <2>8. FilesetsInv'
    <3>1. \A x : StackOf(x)' = StackOf(x)
      BY DEF StackOf
    <3>2. \A j : ~Unfiled(j)'
      BY <1>1, <2>1 DEF Unfiled
    <3>3. DOMAIN filesets' = DOMAIN filesets
      BY <2>2 DEF Updated
    <3>4. \A j \in DOMAIN doc'.stacks :
            Found(j)' \/ \A n \in DOMAIN doc'.stacks[j].filesets : FilesetKey(j, n) \in DOMAIN filesets'
      BY <1>1, <1>2, <3>3, MeaningKept
    <3>5. todo' \subseteq DOMAIN filesets'
      BY <1>2, <2>1, <3>3
    <3> QED BY <1>1, <2>1, <2>7, <3>1, <3>2, <3>4, <3>5 DEF FilesetsInv, Loading, FilesetKey
  <2>9. StagesInv'
    BY <1>1, <1>2, <2>1, MeaningKept DEF StagesInv, Loading, Loaded
  <2>10. StacksInv'
    BY <1>1, <1>2, <2>1, StacksKept
  <2> QED BY <1>1, <2>1, <2>8, <2>9, <2>10 DEF LoadInv
<1> QED BY <1>3, <1>4

(***************************************************************************)
(* ResolveTargets.                                                         *)
(***************************************************************************)
\* What passed every loop is acceptable.
LEMMA PassedIsAcceptable ==
  ASSUME LoadInv, pc = "filesets", todo = {}, target # NoTarget => TargetsKnown
  PROVE  Acceptable
<1>1. /\ StagesInv /\ doc.yaml /\ doc.sops /\ doc.identifier /\ doc.contexts # {}
      /\ \A c \in doc.contexts : ContextValid(c)
      /\ \A d \in DOMAIN doc.deployments : DeploymentValid(doc.deployments[d])
      /\ \A k \in DOMAIN doc.stacks : StackValid(k)
  BY DEF LoadInv, StagesInv, Loaded
<1>2. \A k \in MeantStacks : StackAcceptable(k)
  BY DEF LoadInv, StacksInv, Loaded, Unmet
<1>3. ASSUME NEW k \in DOMAIN doc.stacks, ~Found(k), NEW n \in DOMAIN doc.stacks[k].filesets
      PROVE  FilesetAcceptable(doc.stacks[k].filesets[n])
  <2> DEFINE fk == FilesetKey(k, n)
  <2>1. fk \in DOMAIN filesets
    BY <1>3 DEF LoadInv, FilesetsInv, Unfiled
  <2>2. Filed(fk) /\ Checked(filesets[fk])
    BY <2>1 DEF LoadInv, FilesetsInv
  <2>3. StackOf(fk) = k /\ fk[3] = n
    <3>1. k = <<k[1], k[2]>>
      BY <1>1, KeysArePairs DEF MeantStacks
    <3>2. StackOf(fk) = k
      BY <3>1, KeyRestored
    <3> QED BY <3>2, KeyParts
  <2> HIDE DEF fk
  <2> QED BY <1>1, <1>3, <2>2, <2>3, DeclaredFields
<1> QED BY <1>1, <1>2, <1>3, KeyMeaning DEF Acceptable, ContextValid

\* A fileset is allowed when its stack is, if it was discovered or if no stack is named.
LEMMA AllowedTogether ==
  ASSUME NEW fk, Filed(fk), Found(StackOf(fk)) \/ TargetStacks = {}
  PROVE  FilesetAllowed(filesets[fk]) <=> StackAllowed(StackOf(fk))
<1> DEFINE f == filesets[fk]
           k == StackOf(fk)
<1>1. f.context = fk[1] /\ (Found(k) => f.stack = <<fk[2]>>)
  BY DEF Filed
<1>2. k[1] = fk[1] /\ k = <<fk[1]>> \o <<fk[2]>>
  BY SMTT(30) DEF StackOf
<1> HIDE DEF f, k
<1>3. CASE TargetStacks = {}
  BY <1>1, <1>2, <1>3 DEF FilesetAllowed, StackAllowed, f, k
<1>4. CASE TargetStacks # {} /\ Found(k)
  <2>1. <<f.context>> \o f.stack = k
    BY <1>1, <1>2, <1>4
  <2>2. k \in TargetStacks => k[1] \in AllowedContexts
    BY DEF AllowedContexts
  <2>3. FilesetAllowed(f) <=> StackAllowed(k)
    BY <1>1, <1>2, <1>4, <2>1, <2>2 DEF FilesetAllowed, StackAllowed
  <2> QED BY <2>3 DEF f, k
<1> QED BY <1>3, <1>4 DEF k

\* The selection of the targets, the last step, keeps the invariant.
LEMMA ResolveTargetsKeeps ==
  ASSUME LoadInv, ResolveTargets
  PROVE  LoadInv'
<1>1. UNCHANGED inputs /\ filesets' = filesets /\ pc = "filesets" /\ todo = {} /\ pc' = "done"
  BY DEF ResolveTargets, Fail, maps
<1>2. DOMAIN GetAllStacks = MeantStacks /\ \A k \in MeantStacks : GetAllStacks[k] = Resolved(k)
  <2>1. \A k : ~Unmet(k)
    BY <1>1 DEF Unmet
  <2> QED BY <1>1, <2>1, AllResolved DEF LoadInv, Loaded
<1>3. \A fk \in DOMAIN filesets : Filed(fk)
  BY <1>1 DEF LoadInv, FilesetsInv
<1>4. CASE target # NoTarget /\ ~TargetsKnown
  <2>1. Fail /\ ~Acceptable
    BY <1>4 DEF ResolveTargets, Acceptable
  <2> QED BY <1>1, <2>1, EndsInError DEF LoadInv
<1>5. CASE target # NoTarget => TargetsKnown
  <2>1. result' = "ok"
    BY <1>5 DEF ResolveTargets
  <2>2. AcceptedIffValid'
    <3>1. Acceptable'
      BY <1>1, <1>5, PassedIsAcceptable, MeaningKept
    <3> QED BY <2>1, <3>1 DEF AcceptedIffValid
  <2>3. StagesInv' /\ StacksInv' /\ FilesetsInv'
    BY <1>1, MeaningKept DEF LoadInv, StagesInv, StacksInv, FilesetsInv, Loading, Loaded
  <2>4. /\ DOMAIN config'.stacks = {k \in MeantStacks : target = NoTarget \/ StackAllowed(k)}
        /\ \A k \in DOMAIN config'.stacks : config'.stacks[k] = Resolved(k)
        /\ DOMAIN config'.filesets =
             {fk \in DOMAIN filesets : target = NoTarget \/ FilesetAllowed(filesets[fk])}
    <3>0. \A c, s, f : LET g == [contexts |-> c, stacks |-> s, filesets |-> f]
                      IN g.stacks = s /\ g.filesets = f
      BY SMTT(30)
    <3>1. CASE target = NoTarget
      <4>1. config'.stacks = GetAllStacks /\ config'.filesets = filesets
        <5>1. config' = [contexts |-> doc.contexts, stacks |-> GetAllStacks, filesets |-> filesets]
          BY <3>1 DEF ResolveTargets
        <5> QED BY <3>0, <5>1
      <4> QED BY <1>2, <3>1, <4>1
    <3>2. CASE target # NoTarget
      <4> DEFINE keys == {k \in DOMAIN GetAllStacks : StackAllowed(k)}
                 kept == {fk \in DOMAIN filesets : FilesetAllowed(filesets[fk])}
      <4>1. /\ config'.stacks = Restricted(GetAllStacks, keys)
            /\ config'.filesets = Restricted(filesets, kept)
        <5>1. config' = [contexts |-> doc.contexts \cap AllowedContexts,
                         stacks |-> Restricted(GetAllStacks, keys),
                         filesets |-> Restricted(filesets, kept)]
          BY <1>5, <3>2 DEF ResolveTargets
        <5> QED BY <3>0, <5>1
      <4>2. \A m, ks : DOMAIN Restricted(m, ks) = ks /\ \A k \in ks : Restricted(m, ks)[k] = m[k]
        BY DEF Restricted
      <4>3. keys = {k \in MeantStacks : target = NoTarget \/ StackAllowed(k)}
        BY <1>2, <3>2
      <4>4. kept = {fk \in DOMAIN filesets : target = NoTarget \/ FilesetAllowed(filesets[fk])}
        BY <3>2
      <4>5. \A k \in keys : GetAllStacks[k] = Resolved(k)
        BY <1>2, <4>3
      <4> HIDE DEF keys, kept
      <4>6. DOMAIN config'.filesets = kept
        BY <4>1, <4>2
      <4>7. DOMAIN config'.stacks = keys
        BY <4>1, <4>2
      <4>8. \A k \in keys : config'.stacks[k] = GetAllStacks[k]
        <5>1. \A k \in keys : Restricted(GetAllStacks, keys)[k] = GetAllStacks[k]
          BY <4>2
        <5> QED BY <4>1, <5>1
      <4>9. \A k \in DOMAIN config'.stacks : config'.stacks[k] = Resolved(k)
        BY <4>5, <4>7, <4>8
      <4> QED BY <4>6, <4>3, <4>4, <4>9, <4>7
    <3> QED BY <3>1, <3>2
  <2>5. StacksAreResolved'
    BY <1>1, <2>1, <2>4, MeaningKept DEF StacksAreResolved
  <2>6. ASSUME NEW fk \in DOMAIN filesets,
               Found(StackOf(fk)) \/ target = NoTarget \/ TargetStacks = {}
        PROVE  fk \in DOMAIN config'.filesets <=> StackOf(fk) \in DOMAIN config'.stacks
    <3>1. StackOf(fk) \in MeantStacks
      BY <1>3 DEF Filed
    <3>2. CASE target = NoTarget
      BY <2>4, <3>1, <3>2
    <3>3. CASE target # NoTarget
      <4>1. FilesetAllowed(filesets[fk]) <=> StackAllowed(StackOf(fk))
        BY <1>3, <2>6, <3>3, AllowedTogether
      <4> QED BY <2>4, <3>1, <3>3, <4>1
    <3> QED BY <3>2, <3>3
  <2>7. FilesetsFollowTheirStacks'
    <3>1. TargetStacks' = TargetStacks
      BY <1>1 DEF inputs, TargetStacks, Deployment
    <3> QED BY <1>1, <2>6, <3>1, MeaningKept DEF FilesetsFollowTheirStacks, StackOf
  <2> QED BY <2>2, <2>3, <2>5, <2>7 DEF LoadInv
<1> QED BY <1>4, <1>5

\* A step that changes nothing keeps the invariant.
LEMMA StutterKeeps ==
  ASSUME LoadInv, UNCHANGED vars
  PROVE  LoadInv'
<1>1. /\ UNCHANGED inputs /\ pc' = pc /\ result' = result /\ todo' = todo /\ all' = all
      /\ discovered' = discovered /\ explicit' = explicit /\ filesets' = filesets /\ config' = config
      /\ tree' = tree /\ doc' = doc /\ target' = target
  BY DEF vars, maps, inputs
<1>2. (\A fk : Filed(fk) => Filed(fk)') /\ (\A k : Unmet(k)' <=> Unmet(k)) /\ (\A k : Unfiled(k)' <=> Unfiled(k))
      /\ \A fk : StackOf(fk)' = StackOf(fk)
  BY <1>1, FiledKept DEF Unmet, Unfiled, StackOf
<1>3. StagesInv'
  <2>1. \A k : (StackValid(k)' <=> StackValid(k)) /\ (ContextValid(k)' <=> ContextValid(k))
    BY <1>1, MeaningKept
  <2>2. \A d : DeploymentValid(d)' <=> DeploymentValid(d)
    BY <1>1 DEF DeploymentValid, KeyOfContext
  <2>3. StagesInv
    BY DEF LoadInv
  <2> QED BY <1>1, <2>1, <2>2, <2>3 DEF StagesInv
<1>4. StacksInv'
  <2>1. /\ FoundStacks' = FoundStacks /\ MeantStacks' = MeantStacks
        /\ \A k : /\ DiscoveredStack(k)' = DiscoveredStack(k) /\ Described(k)' = Described(k)
                  /\ Normalised(Described(k))' = Normalised(Described(k))
                  /\ Normalised(doc.stacks[k])' = Normalised(doc.stacks[k])
                  /\ Resolved(k)' = Resolved(k) /\ (Found(k)' <=> Found(k))
                  /\ (StackAcceptable(k)' <=> StackAcceptable(k))
    BY <1>1, MeaningKept
  <2>2. StacksInv
    BY DEF LoadInv
  <2>3. CASE pc \in Loading
    BY <1>1, <2>1, <2>2, <2>3 DEF StacksInv, Loading, Loaded
  <2>4. CASE pc \notin Loading
    <3>1. CASE pc \in Loaded
      BY <1>1, <1>2, <2>1, <2>2, <2>4, <3>1 DEF StacksInv
    <3>2. CASE pc \notin Loaded
      BY <1>1, <2>4, <3>2 DEF StacksInv, Loaded
    <3> QED BY <3>1, <3>2
  <2> QED BY <2>3, <2>4
<1>5. FilesetsInv'
  BY <1>1, <1>2, MeaningKept DEF LoadInv, FilesetsInv
<1>6. pc' = "done" => AcceptedIffValid' /\ FilesetsFollowTheirStacks' /\ StacksAreResolved'
  <2>1. TargetStacks' = TargetStacks
    BY <1>1 DEF TargetStacks, Deployment
  <2> QED BY <1>1, <2>1, MeaningKept DEF LoadInv, AcceptedIffValid, FilesetsFollowTheirStacks,
             StacksAreResolved
<1> QED BY <1>3, <1>4, <1>5, <1>6 DEF LoadInv

(***************************************************************************)
(* What a resolved stack holds, field by field.                            *)
(***************************************************************************)
\* The fields that normalisation leaves alone, and the inline variables.
LEMMA NormalisedRest ==
  ASSUME NEW s, DOMAIN s = DOMAIN NoStack
  PROVE  /\ Normalised(s).envFile = s.envFile /\ Normalised(s).profiles = s.profiles
         /\ Normalised(s).project = s.project /\ Normalised(s).environment = s.environment
         /\ Normalised(s).inline = Inline(s)
BY SMTT(30) DEF Normalised, NoStack

\* The fields that a merge takes from the declaration or leaves alone.
LEMMA MergedRest ==
  ASSUME NEW s, NEW e, DOMAIN s = DOMAIN NoStack
  PROVE  /\ Merged(s, e).envFile = s.envFile /\ Merged(s, e).inline = s.inline
         /\ Merged(s, e).profiles = IF e.profiles # None THEN e.profiles ELSE s.profiles
         /\ Merged(s, e).project = IF e.project # None THEN e.project ELSE s.project
         /\ Merged(s, e).environment = IF e.environment # None THEN e.environment ELSE s.environment
BY SMTT(30) DEF Merged, NoStack

\* The remaining fields of a stack before it is normalised.
LEMMA DescribedRest ==
  ASSUME StagesInv, NEW k \in MeantStacks
  PROVE  LET s == Described(k) IN
         /\ s.envFile = MeantEnvFile(k) /\ s.profiles = Declaration(k).profiles
         /\ s.project = Declaration(k).project /\ s.environment = Declaration(k).environment
<1> DEFINE d == DiscoveredStack(k)
           e == doc.stacks[k]
<1>1. /\ DOMAIN d = DOMAIN NoStack /\ d.profiles = None /\ d.project = None /\ d.environment = None
      /\ d.envFile = IF tree.dirs[k].env THEN <<"environmentEnv">> ELSE None
  BY SMTT(30) DEF DiscoveredStack, NoStack
<1>2. NoStack.profiles = None /\ NoStack.project = None /\ NoStack.environment = None
  BY DEF NoStack
<1>3. CASE ~Found(k)
  <2>1. Declared(k) /\ Described(k) = e /\ Declaration(k) = e
    BY <1>3 DEF MeantStacks, Described, Declared, Declaration
  <2> QED BY <1>3, <2>1 DEF MeantEnvFile
<1>4. CASE Found(k) /\ Declared(k)
  <2>1. Described(k) = Merged(d, e) /\ Declaration(k) = e /\ MeantEnvFile(k) = d.envFile
    BY <1>1, <1>4 DEF Described, Declaration, MeantEnvFile
  <2> HIDE DEF d, e
  <2>2. /\ Merged(d, e).envFile = d.envFile
        /\ Merged(d, e).profiles = IF e.profiles # None THEN e.profiles ELSE d.profiles
        /\ Merged(d, e).project = IF e.project # None THEN e.project ELSE d.project
        /\ Merged(d, e).environment = IF e.environment # None THEN e.environment ELSE d.environment
    BY <1>1, MergedRest
  <2> QED BY <1>1, <2>1, <2>2
<1>5. CASE Found(k) /\ ~Declared(k)
  <2>1. Described(k) = d /\ Declaration(k) = NoStack /\ MeantEnvFile(k) = d.envFile
    BY <1>1, <1>5 DEF Described, Declaration, MeantEnvFile
  <2> HIDE DEF d
  <2> QED BY <1>1, <1>2, <2>1
<1> QED BY <1>3, <1>4, <1>5

\* The compose files of a resolved stack are those that the tree and the manifest mean.
LEMMA FilesAreMeant ==
  ASSUME StagesInv, NEW k \in MeantStacks
  PROVE  FilesOf(Described(k)) = MeantFiles(k)
<1> DEFINE s == Described(k)
<1>1. s.root = Root(k) /\ s.files = (IF Found(k) THEN tree.dirs[k].compose ELSE doc.stacks[k].files)
  BY DescribedFields
<1> HIDE DEF s
<1>2. CASE Found(k)
  BY <1>1, <1>2 DEF FilesOf, MeantFiles, Found, s
<1>3. CASE ~Found(k)
  <2>1. Declaration(k) = doc.stacks[k]
    BY <1>3 DEF MeantStacks, Declaration, Declared
  <2>2. s.files = Declaration(k).files
    BY <1>1, <1>3, <2>1
  <2>3. CASE Declaration(k).files # None
    BY <1>3, <2>2, <2>3 DEF FilesOf, MeantFiles, s
  <2>4. CASE Declaration(k).files = None
    <3>1. MeantFiles(k) = IF ComposeIn(Root(k)) # None \/ Root(k) = None
                          THEN ComposeIn(Root(k)) ELSE <<"composeYaml">>
      BY <1>3, <2>4 DEF MeantFiles
    <3>2. CASE Root(k) = None
      BY <1>1, <2>2, <2>4, <3>1, <3>2 DEF FilesOf, ComposeIn, s
    <3>3. CASE Root(k) # None
      BY <1>1, <2>2, <2>4, <3>1, <3>3 DEF FilesOf, ComposeIn, s
    <3> QED BY <3>2, <3>3
  <2> QED BY <2>3, <2>4
<1> QED BY <1>2, <1>3

(***************************************************************************)
(* What DedupInline computes.  The library's induction cannot be used for  *)
(* it; a least counterexample can.                                         *)
(***************************************************************************)
\* Every nonempty set of natural numbers has a least element.
LEMMA LeastNatural ==
  ASSUME NEW T \in SUBSET Nat, T # {}
  PROVE  \E n \in T : \A m \in T : n <= m
<1>1. \E n \in T : \A m \in T : <<m, n>> \notin OpToRel(<, Nat)
  BY NatLessThanWellFounded, WFMin
<1>2. PICK n \in T : \A m \in T : <<m, n>> \notin OpToRel(<, Nat)
  BY <1>1
<1>3. ASSUME NEW m \in T, m < n PROVE FALSE
  <2>1. <<m, n>> \in OpToRel(<, Nat)
    BY SMTT(30), <1>3 DEF OpToRel
  <2> QED BY <1>2, <2>1
<1> QED BY SMTT(30), <1>3

\* A property that holds of the last place and goes from each place to the one before it
\* holds of the first: no place in S is left out.
LEMMA Downwards ==
  ASSUME NEW n \in Nat, NEW S, n + 1 \in S, \A i \in 1 .. n : i + 1 \in S => i \in S
  PROVE  \A i \in 1 .. n + 1 : i \in S
<1> DEFINE T == {d \in Nat : d <= n /\ n + 1 - d \notin S}
<1>1. ASSUME NEW i \in 1 .. n + 1, i \notin S PROVE FALSE
  <2>1. n + 1 - i \in T
    BY SMTT(30), <1>1
  <2>2. PICK d \in T : \A m \in T : d <= m
    BY <2>1, LeastNatural
  <2>3. d \in Nat /\ d <= n /\ n + 1 - d \notin S /\ d # 0
    BY SMTT(30), <2>2
  <2>4. n + 1 - (d - 1) \in S
    <3>1. d - 1 \in Nat /\ d - 1 <= n /\ ~(d <= d - 1)
      BY SMTT(30), <2>3
    <3> QED BY <2>2, <3>1
  <2>5. n + 1 - d \in 1 .. n /\ n + 1 - (d - 1) = (n + 1 - d) + 1
    BY SMTT(30), <2>3
  <2> QED BY <2>3, <2>4, <2>5
<1> QED BY <1>1

\* What the loop has kept when it has come down to entry i, given what it had kept before.
Kept(entries, f, i) ==
  IF i > Len(entries) THEN <<>>
  ELSE IF entries[i].key = "noKey" \/ \E j \in DOMAIN f[i + 1] : f[i + 1][j].key = entries[i].key
  THEN f[i + 1]
  ELSE <<entries[i]>> \o f[i + 1]

\* The recursive function exists.
LEMMA LoopEnds ==
  ASSUME NEW entries, Len(entries) \in Nat
  PROVE  \E f : f = [i \in 1 .. Len(entries) + 1 |-> Kept(entries, f, i)]
<1> DEFINE n == Len(entries)
           Unrolled(k, f) == f = [i \in k .. n + 1 |-> Kept(entries, f, i)]
           S == {k \in Nat : \E f : Unrolled(k, f)}
<1> HIDE DEF n
<1>0. n \in Nat
  BY DEF n
<1>1. n + 1 \in S
  <2> DEFINE f == [i \in n + 1 .. n + 1 |-> <<>>]
  <2>1. \A i \in n + 1 .. n + 1 : Kept(entries, f, i) = <<>>
    BY SMTT(30), <1>0 DEF Kept, n
  <2>2. Unrolled(n + 1, f)
    BY <2>1
  <2>3. n + 1 \in Nat
    BY SMTT(30), <1>0
  <2> QED BY <2>2, <2>3
<1>2. ASSUME NEW k \in 1 .. n, k + 1 \in S PROVE k \in S
  <2>1. PICK f : Unrolled(k + 1, f)
    BY <1>2
  <2> DEFINE g == [i \in k .. n + 1 |-> IF i = k THEN Kept(entries, f, k) ELSE f[i]]
  <2>2. \A i \in k .. n : i + 1 \in k + 1 .. n + 1 /\ i + 1 \in k .. n + 1 /\ i + 1 # k
    BY SMTT(30), <1>0
  <2>3. \A i \in k .. n : g[i + 1] = f[i + 1]
    BY <2>2
  <2>4. ASSUME NEW i \in k .. n + 1 PROVE Kept(entries, g, i) = Kept(entries, f, i)
    <3>1. CASE i > Len(entries)
      BY <3>1 DEF Kept
    <3>2. CASE ~(i > Len(entries))
      <4>1. i \in k .. n
        BY SMTT(30), <1>0, <3>2 DEF n
      <4>2. g[i + 1] = f[i + 1]
        BY <2>3, <4>1
      <4> HIDE DEF g
      <4> QED BY <4>2 DEF Kept
    <3> QED BY <3>1, <3>2
  <2>5. ASSUME NEW i \in k .. n + 1 PROVE g[i] = Kept(entries, f, i)
    <3>1. CASE i = k
      BY <3>1
    <3>2. CASE i # k
      <4>1. i \in k + 1 .. n + 1
        BY SMTT(30), <1>0, <3>2
      <4>2. f[i] = Kept(entries, f, i)
        BY <2>1, <4>1
      <4> QED BY <3>2, <4>2
    <3> QED BY <3>1, <3>2
  <2>6. g = [i \in k .. n + 1 |-> g[i]]
    OBVIOUS
  <2> HIDE DEF g
  <2>7. Unrolled(k, g)
    BY <2>4, <2>5, <2>6
  <2>8. k \in Nat
    BY SMTT(30), <1>0
  <2> QED BY <2>7, <2>8
<1> HIDE DEF S
<1>3. \A i \in 1 .. n + 1 : i \in S
  BY <1>0, <1>1, <1>2, Downwards
<1>4. 1 \in 1 .. n + 1
  BY SMTT(30), <1>0
<1>5. 1 \in S
  BY <1>3, <1>4
<1> QED BY <1>5 DEF S, n

\* The entries from i on that no later entry with the same variable replaces.
Lasting(entries, i) ==
  {j \in i .. Len(entries) :
     entries[j].key # "noKey" /\ \A m \in j + 1 .. Len(entries) : entries[m].key # entries[j].key}

\* A variable that is given after entry i has a last entry.
LEMMA LastIsLasting ==
  ASSUME NEW entries, Len(entries) \in Nat, NEW i \in 1 .. Len(entries), NEW m \in i + 1 .. Len(entries),
         entries[m].key # "noKey"
  PROVE  \E j \in Lasting(entries, i + 1) : entries[j].key = entries[m].key
<1> DEFINE n == Len(entries)
           T == {d \in Nat : d <= n /\ n - d \in i + 1 .. n /\ entries[n - d].key = entries[m].key}
<1>1. n - m \in T
  <2>1. n - m \in Nat /\ n - m <= n /\ n - (n - m) = m
    BY SMTT(30)
  <2> QED BY <2>1
<1>2. PICK d \in T : \A e \in T : d <= e
  BY <1>1, LeastNatural
<1>3. d \in Nat /\ d <= n /\ n - d \in i + 1 .. n /\ entries[n - d].key = entries[m].key
  BY <1>2
<1>4. ASSUME NEW l \in (n - d) + 1 .. n, entries[l].key = entries[m].key PROVE FALSE
  <2>1. n - l \in Nat /\ n - l <= n /\ n - (n - l) = l /\ l \in i + 1 .. n /\ ~(d <= n - l)
    BY SMTT(30), <1>3
  <2>2. n - l \in T
    BY <1>4, <2>1
  <2> QED BY <1>2, <2>1, <2>2
<1>5. n - d \in Lasting(entries, i + 1)
  BY <1>3, <1>4 DEF Lasting
<1> QED BY <1>3, <1>5

\* The element with n - 1 smaller ones is the only one.
LEMMA NthIs ==
  ASSUME NEW S \in SUBSET Nat, IsFiniteSet(S), NEW a \in S, NEW n,
         Cardinality({j \in S : j < a}) = n - 1
  PROVE  Nth(S, n) = a
<1>1. ASSUME NEW b \in S, NEW c \in S, b < c
      PROVE  Cardinality({j \in S : j < b}) # Cardinality({j \in S : j < c})
  <2>0. (\A j \in S : j < b => j < c) /\ ~(b < b)
    BY SMTT(30), <1>1
  <2>1. {j \in S : j < b} \in SUBSET {j \in S : j < c}
    BY <2>0
  <2>2. b \in {j \in S : j < c} /\ b \notin {j \in S : j < b}
    BY <1>1, <2>0
  <2>3. IsFiniteSet({j \in S : j < c})
    BY FS_Subset
  <2> QED BY <2>1, <2>2, <2>3, FS_Subset
<1>2. ASSUME NEW b \in S, Cardinality({j \in S : j < b}) = n - 1 PROVE b = a
  <2>1. a < b \/ b < a \/ a = b
    BY SMTT(30)
  <2> QED BY <1>1, <1>2, <2>1
<1> QED BY <1>2 DEF Nth

\* The list s holds the entries at the places S, in their order.
Lists(entries, S, s) ==
  /\ IsFiniteSet(S) /\ DOMAIN s = 1 .. Cardinality(S)
  /\ \E place \in [1 .. Cardinality(S) -> S] :
       /\ \A j \in S : \E n \in 1 .. Cardinality(S) : place[n] = j
       /\ \A n \in 1 .. Cardinality(S) :
            s[n] = entries[place[n]] /\ Cardinality({j \in S : j < place[n]}) = n - 1

\* An entry in front of the others.
LEMMA ListsMore ==
  ASSUME NEW E, NEW entries \in Seq(E), NEW S \in SUBSET Nat, NEW s \in Seq(E), Lists(entries, S, s),
         NEW i \in 1 .. Len(entries), \A j \in S : i < j
  PROVE  Lists(entries, S \cup {i}, <<entries[i]>> \o s)
<1> DEFINE c == Cardinality(S)
           U == S \cup {i}
           w == <<entries[i]>> \o s
<1>0. i \notin S /\ ~(i < i) /\ \A j \in S : ~(j < i)
  BY SMTT(30)
<1>1. IsFiniteSet(S) /\ c \in Nat /\ DOMAIN s = 1 .. c
  BY FS_CardinalityType DEF Lists
<1>2. IsFiniteSet(U) /\ Cardinality(U) = c + 1
  BY <1>1, <1>0, FS_AddElement
<1>3. PICK place \in [1 .. c -> S] :
        /\ \A j \in S : \E n \in 1 .. c : place[n] = j
        /\ \A n \in 1 .. c : s[n] = entries[place[n]] /\ Cardinality({j \in S : j < place[n]}) = n - 1
  BY DEF Lists
<1> HIDE DEF c
<1>4. /\ DOMAIN w = 1 .. c + 1 /\ w[1] = entries[i]
      /\ \A n \in 1 .. c : w[n + 1] = s[n]
  <2>1. entries[i] \in E
    BY SMTT(30)
  <2>2. Len(s) = c
    BY SMTT(30), <1>1
  <2> QED BY SMTT(30), <1>1, <2>1, <2>2
<1> DEFINE more == [n \in 1 .. c + 1 |-> IF n = 1 THEN i ELSE place[n - 1]]
<1>5. \A n \in 1 .. c + 1 : n = 1 \/ (n # 1 /\ n - 1 \in 1 .. c /\ (n - 1) + 1 = n)
  BY SMTT(30), <1>1
<1>6. \A n \in 1 .. c : n + 1 \in 1 .. c + 1 /\ n + 1 # 1 /\ (n + 1) - 1 = n
  BY SMTT(30), <1>1
<1>7. 1 \in 1 .. c + 1 /\ more[1] = i
  BY SMTT(30), <1>1
<1>8. \A n \in 1 .. c : more[n + 1] = place[n]
  BY <1>6
<1>9. more \in [1 .. c + 1 -> U]
  BY <1>5
<1> HIDE DEF more, w
<1>10. ASSUME NEW j \in U PROVE \E n \in 1 .. c + 1 : more[n] = j
  <2>1. CASE j = i
    BY <1>7, <2>1
  <2>2. CASE j \in S
    <3>1. PICK n \in 1 .. c : place[n] = j
      BY <1>3, <2>2
    <3> QED BY <1>6, <1>8, <3>1
  <2> QED BY <2>1, <2>2
<1>11. Cardinality({j \in U : j < more[1]}) = 1 - 1
  <2>1. {j \in U : j < i} = {}
    BY <1>0
  <2>2. Cardinality({}) = 1 - 1
    BY SMTT(30), FS_EmptySet
  <2> QED BY <1>7, <2>1, <2>2
<1>12. ASSUME NEW n \in 1 .. c PROVE Cardinality({j \in U : j < more[n + 1]}) = (n + 1) - 1
  <2> DEFINE V == {j \in S : j < place[n]}
  <2>1. place[n] \in S
    BY <1>3
  <2>2. {j \in U : j < place[n]} = V \cup {i} /\ i \notin V
    BY <1>0, <2>1
  <2>3. IsFiniteSet(V) /\ Cardinality(V) = n - 1
    BY <1>1, <1>3, FS_Subset
  <2> HIDE DEF V
  <2>4. Cardinality(V \cup {i}) = Cardinality(V) + 1
    BY <2>2, <2>3, FS_AddElement
  <2>5. (n - 1) + 1 = (n + 1) - 1
    BY SMTT(30), <1>1
  <2> QED BY <1>8, <2>2, <2>3, <2>4, <2>5
<1>13. ASSUME NEW n \in 1 .. c + 1
       PROVE  w[n] = entries[more[n]] /\ Cardinality({j \in U : j < more[n]}) = n - 1
  <2>1. CASE n = 1
    BY <1>4, <1>7, <1>11, <2>1
  <2>2. CASE n # 1
    <3>1. PICK l \in 1 .. c : n = l + 1
      BY <1>5, <2>2
    <3>2. w[n] = entries[place[l]] /\ more[n] = place[l]
      BY <1>3, <1>4, <1>8, <3>1
    <3>3. Cardinality({j \in U : j < more[l + 1]}) = (l + 1) - 1
      BY <1>12
    <3> QED BY <3>1, <3>2, <3>3
  <2> QED BY <2>1, <2>2
<1>14. Lists(entries, U, w)
  <2>1. DOMAIN w = 1 .. Cardinality(U) /\ more \in [1 .. Cardinality(U) -> U]
    BY <1>2, <1>4, <1>9
  <2>2. \A j \in U : \E n \in 1 .. Cardinality(U) : more[n] = j
    BY <1>2, <1>10
  <2>3. \A n \in 1 .. Cardinality(U) :
          w[n] = entries[more[n]] /\ Cardinality({j \in U : j < more[n]}) = n - 1
    BY <1>2, <1>13
  <2> HIDE DEF U
  <2> QED BY <1>2, <2>1, <2>2, <2>3 DEF Lists
<1> QED BY <1>14 DEF w

\* When the loop has come down to entry i it has kept the lasting entries from i on.
LEMMA LoopKeepsLasting ==
  ASSUME NEW E, NEW entries \in Seq(E), NEW f,
         f = [i \in 1 .. Len(entries) + 1 |-> Kept(entries, f, i)]
  PROVE  f[1] \in Seq(E) /\ Lists(entries, Lasting(entries, 1), f[1])
<1> DEFINE n == Len(entries)
           S == {i \in Nat : f[i] \in Seq(E) /\ Lists(entries, Lasting(entries, i), f[i])}
<1>1. n \in Nat
  BY SMTT(30)
<1>2. \A i \in 1 .. n + 1 : f[i] = Kept(entries, f, i)
  OBVIOUS
<1>3. n + 1 \in S
  <2>1. n + 1 \in 1 .. n + 1 /\ n + 1 > n /\ n + 1 \in Nat /\ n + 1 .. n = {} /\ 1 .. 0 = {}
    BY SMTT(30), <1>1
  <2>2. f[n + 1] = <<>>
    BY <1>2, <2>1 DEF Kept
  <2>3. Lasting(entries, n + 1) = {}
    BY <2>1 DEF Lasting
  <2>4. <<>> \in Seq(E) /\ DOMAIN <<>> = 1 .. 0
    BY SMTT(30)
  <2>5. Lists(entries, {}, <<>>)
    <3> DEFINE place == [m \in {} |-> m]
    <3>1. IsFiniteSet({}) /\ 1 .. Cardinality({}) = {} /\ DOMAIN <<>> = {}
      BY <2>1, <2>4, FS_EmptySet
    <3>2. place \in [{} -> {}]
      OBVIOUS
    <3> QED BY <3>1, <3>2 DEF Lists
  <2> QED BY <2>1, <2>2, <2>3, <2>4, <2>5
<1>4. ASSUME NEW i \in 1 .. n, i + 1 \in S PROVE i \in S
  <2> DEFINE later == Lasting(entries, i + 1)
             rest == f[i + 1]
             again == \E j \in DOMAIN rest : rest[j].key = entries[i].key
  <2>1. rest \in Seq(E) /\ Lists(entries, later, rest)
    BY <1>4
  <2>2. i \in Nat /\ i \in 1 .. n + 1 /\ ~(i > n) /\ i \in i .. n /\ i \notin i + 1 .. n
    BY SMTT(30), <1>1
  <2>3. f[i] = IF entries[i].key = "noKey" \/ again THEN rest ELSE <<entries[i]>> \o rest
    BY <1>2, <2>2 DEF Kept
  <2>4. \A j \in i .. n : j # i => j \in i + 1 .. n
    BY SMTT(30), <1>1
  <2>5. \A j \in i + 1 .. n : j \in i .. n /\ j \in Nat /\ i < j
    BY SMTT(30), <1>1
  <2>6. Lasting(entries, i) = IF i \in Lasting(entries, i) THEN later \cup {i} ELSE later
    <3>1. \A j \in later : j \in Lasting(entries, i)
      BY <2>5 DEF Lasting
    <3>2. \A j \in Lasting(entries, i) : j # i => j \in later
      BY <2>4 DEF Lasting
    <3>3. i \notin later
      BY <2>2 DEF Lasting
    <3> DEFINE these == Lasting(entries, i)
    <3> HIDE DEF later, these
    <3>4. CASE i \in these
      <4>1. these = later \cup {i}
        BY <3>1, <3>2, <3>4 DEF these
      <4> QED BY <3>4, <4>1 DEF these
    <3>5. CASE i \notin these
      <4>1. these = later
        BY <3>1, <3>2, <3>5 DEF these
      <4> QED BY <3>5, <4>1 DEF these
    <3> QED BY <3>4, <3>5
  <2>7. entries[i].key # "noKey" => (again <=> \E m \in i + 1 .. n : entries[m].key = entries[i].key)
    <3>1. ASSUME again PROVE \E m \in i + 1 .. n : entries[m].key = entries[i].key
      <4>1. PICK j \in DOMAIN rest : rest[j].key = entries[i].key
        BY <3>1
      <4>2. \E m \in later : rest[j] = entries[m]
        BY <2>1, <4>1 DEF Lists
      <4> QED BY <4>1, <4>2 DEF Lasting
    <3>2. ASSUME NEW m \in i + 1 .. n, entries[m].key = entries[i].key, entries[i].key # "noKey"
          PROVE  again
      <4>1. PICK j \in later : entries[j].key = entries[m].key
        BY <1>1, <3>2, LastIsLasting
      <4>2. PICK l \in DOMAIN rest : rest[l] = entries[j]
        <5> HIDE DEF later, rest
        <5>1. DOMAIN rest = 1 .. Cardinality(later)
          BY <2>1 DEF Lists
        <5>2. PICK place \in [1 .. Cardinality(later) -> later] :
                /\ \A p \in later : \E l \in 1 .. Cardinality(later) : place[l] = p
                /\ \A l \in 1 .. Cardinality(later) : rest[l] = entries[place[l]]
          BY <2>1 DEF Lists
        <5>3. PICK l \in 1 .. Cardinality(later) : place[l] = j
          BY <5>2
        <5>4. rest[l] = entries[j]
          BY <5>2, <5>3
        <5> QED BY <5>1, <5>4
      <4>3. rest[l].key = entries[i].key
        BY <3>2, <4>1, <4>2
      <4> QED BY <4>3
    <3> QED BY <3>1, <3>2
  <2>8. i \in Lasting(entries, i) <=> ~(entries[i].key = "noKey" \/ again)
    <3>1. i \in Lasting(entries, i)
          <=> entries[i].key # "noKey" /\ \A m \in i + 1 .. n : entries[m].key # entries[i].key
      BY <2>2 DEF Lasting
    <3> HIDE DEF again
    <3> QED BY <2>7, <3>1
  <2>9. CASE entries[i].key = "noKey" \/ again
    <3>1. f[i] = rest /\ Lasting(entries, i) = later
      BY <2>3, <2>6, <2>8, <2>9
    <3> QED BY <2>1, <2>2, <3>1
  <2>10. CASE ~(entries[i].key = "noKey" \/ again)
    <3>1. f[i] = <<entries[i]>> \o rest /\ Lasting(entries, i) = later \cup {i}
      BY <2>3, <2>6, <2>8, <2>10
    <3>2. later \in SUBSET Nat /\ \A j \in later : i < j
      BY <2>5 DEF Lasting
    <3> HIDE DEF later, rest
    <3>3. Lists(entries, later \cup {i}, <<entries[i]>> \o rest)
      BY <2>1, <3>2, ListsMore
    <3>4. <<entries[i]>> \o rest \in Seq(E)
      <4>1. entries[i] \in E
        BY SMTT(30)
      <4> QED BY SMTT(30), <2>1, <4>1
    <3> QED BY <2>2, <3>1, <3>3, <3>4
  <2> QED BY <2>9, <2>10
<1> HIDE DEF S
<1>5. \A i \in 1 .. n + 1 : i \in S
  BY <1>1, <1>3, <1>4, Downwards
<1>6. 1 \in 1 .. n + 1
  BY SMTT(30), <1>1
<1>7. 1 \in S
  BY <1>5, <1>6
<1> QED BY <1>7 DEF S

\* The loop keeps exactly the lasting entries, in their order.
LEMMA DedupKeepsLasting ==
  ASSUME NEW E, NEW entries \in Seq(E), Len(entries) > 1
  PROVE  LET S == Lasting(entries, 1) IN
         DedupInline(entries) = [n \in 1 .. Cardinality(S) |-> entries[Nth(S, n)]]
<1> DEFINE f == CHOOSE g : g = [i \in 1 .. Len(entries) + 1 |-> Kept(entries, g, i)]
           S == Lasting(entries, 1)
<1>1. DedupInline(entries) = f[1]
  BY DEF DedupInline, Kept
<1>2. Len(entries) \in Nat
  BY SMTT(30)
<1>3. f = [i \in 1 .. Len(entries) + 1 |-> Kept(entries, f, i)]
  BY <1>2, LoopEnds
<1> HIDE DEF f
<1>4. f[1] \in Seq(E) /\ Lists(entries, S, f[1])
  BY <1>3, LoopKeepsLasting
<1>5. S \in SUBSET Nat
  <2>1. 1 .. Len(entries) \in SUBSET Nat
    BY SMTT(30), <1>2
  <2> QED BY <2>1 DEF Lasting
<1> HIDE DEF S
<1>6. ASSUME NEW n \in 1 .. Cardinality(S) PROVE f[1][n] = entries[Nth(S, n)]
  <2>1. PICK a \in S : f[1][n] = entries[a] /\ Cardinality({j \in S : j < a}) = n - 1
    BY <1>4 DEF Lists
  <2>2. Nth(S, n) = a
    BY <1>4, <1>5, <2>1, NthIs DEF Lists
  <2> QED BY <2>1, <2>2
<1>7. f[1] = [n \in 1 .. Cardinality(S) |-> f[1][n]]
  <2>1. \A s \in Seq(E) : s = [n \in DOMAIN s |-> s[n]]
    BY SMTT(30)
  <2>2. DOMAIN f[1] = 1 .. Cardinality(S)
    BY <1>4 DEF Lists
  <2> QED BY <1>4, <2>1, <2>2
<1> QED BY <1>1, <1>6, <1>7 DEF S

\* The variables that a manifest gives are a list of entries.
LEMMA GivenEntries ==
  ASSUME StagesInv, NEW k
  PROVE  Given(Declaration(k).environment) \in Seq(Entries)
<1>1. CASE Declaration(k).environment = None
  BY SMTT(30), <1>1 DEF Given
<1>2. CASE Declaration(k).environment # None
  <2> DEFINE field == Declaration(k).environment
  <2>1. Declared(k)
    BY <1>2 DEF Declaration, NoStack
  <2>2. field \in Optional(Seq(Entries)) /\ field # <<>>
    BY <1>2, <2>1, ManifestAssumption DEF Declaration, Declared, StagesInv, None
  <2> HIDE DEF field
  <2>3. field \in Seq(Seq(Entries)) /\ Len(field) <= 1
    BY <2>2 DEF Optional
  <2>4. field[1] \in Seq(Entries)
    BY <2>2, <2>3, OptionalField
  <2> QED BY <1>2, <2>4 DEF field, Given
<1> QED BY <1>1, <1>2

\* Deduplication gives the variables that are meant.
LEMMA InlineIsMeant ==
  ASSUME StagesInv, NEW k
  PROVE  DedupInline(Given(Declaration(k).environment)) = MeantInline(k)
<1> DEFINE given == Given(Declaration(k).environment)
           last == {i \in DOMAIN given :
                      given[i].key # "noKey" /\ \A j \in i + 1 .. Len(given) : given[j].key # given[i].key}
<1>1. given \in Seq(Entries)
  BY GivenEntries
<1>2. MeantInline(k) =
        IF Len(given) > 1 THEN [n \in 1 .. Cardinality(last) |-> given[Nth(last, n)]] ELSE given
  BY DEF MeantInline
<1> HIDE DEF given
<1>3. CASE Len(given) > 1
  <2>1. DOMAIN given = 1 .. Len(given)
    BY SMTT(30), <1>1
  <2>2. last = Lasting(given, 1)
    BY <2>1 DEF Lasting
  <2>3. DedupInline(given) = [n \in 1 .. Cardinality(Lasting(given, 1)) |-> given[Nth(Lasting(given, 1), n)]]
    BY <1>1, <1>3, DedupKeepsLasting
  <2> HIDE DEF last
  <2> QED BY <1>2, <1>3, <2>2, <2>3 DEF given
<1>4. CASE ~(Len(given) > 1)
  BY <1>2, <1>4 DEF DedupInline, given
<1> QED BY <1>3, <1>4

\* Resolving a concatenation.
LEMMA ResolvingConcatenation ==
  ASSUME NEW base, NEW S, NEW q \in Seq(S), NEW r \in Seq(S)
  PROVE  ResolveAll(base, q \o r) = ResolveAll(base, q) \o ResolveAll(base, r)
<1> DEFINE w == q \o r
           R == {Resolve(base, x) : x \in S}
           a == ResolveAll(base, q)
           b == ResolveAll(base, r)
<1>1. /\ w \in Seq(S) /\ Len(w) = Len(q) + Len(r) /\ Len(q) \in Nat /\ Len(r) \in Nat
      /\ DOMAIN q = 1 .. Len(q) /\ DOMAIN r = 1 .. Len(r) /\ DOMAIN w = 1 .. Len(w)
      /\ \A i \in 1 .. Len(q) : w[i] = q[i] /\ q[i] \in S
      /\ \A i \in 1 .. Len(r) : w[Len(q) + i] = r[i] /\ r[i] \in S
  BY SMTT(30)
<1> HIDE DEF w
<1>2. /\ a = [i \in 1 .. Len(q) |-> Resolve(base, q[i])]
      /\ b = [i \in 1 .. Len(r) |-> Resolve(base, r[i])]
  BY <1>1 DEF ResolveAll
<1>3. /\ \A i \in 1 .. Len(q) : a[i] = Resolve(base, q[i]) /\ a[i] \in R
      /\ \A i \in 1 .. Len(r) : b[i] = Resolve(base, r[i]) /\ b[i] \in R
      /\ a = [i \in 1 .. Len(q) |-> a[i]] /\ b = [i \in 1 .. Len(r) |-> b[i]]
  BY <1>1, <1>2
<1> HIDE DEF a, b, R
<1>4. a \in Seq(R) /\ b \in Seq(R) /\ Len(a) = Len(q) /\ Len(b) = Len(r)
  BY SMTT(30), <1>1, <1>3
<1> DEFINE v == a \o b
<1>5. /\ v = [i \in 1 .. Len(q) + Len(r) |-> v[i]]
      /\ \A i \in 1 .. Len(q) : v[i] = a[i]
      /\ \A i \in 1 .. Len(r) : v[Len(q) + i] = b[i]
  <2>1. v \in Seq(R) /\ Joined(a, b, v)
    BY <1>4, Concatenated
  <2> HIDE DEF v
  <2>2. v = [i \in 1 .. Len(v) |-> v[i]]
    BY SMTT(30), <2>1
  <2> QED BY <1>4, <2>1, <2>2 DEF Joined
<1> HIDE DEF v
<1>6. \A i \in 1 .. Len(q) + Len(r) :
        i \in 1 .. Len(q) \/ (i - Len(q) \in 1 .. Len(r) /\ Len(q) + (i - Len(q)) = i)
  BY SMTT(30), <1>1
<1>7. ASSUME NEW i \in 1 .. Len(q) + Len(r) PROVE v[i] = Resolve(base, w[i])
  <2>1. CASE i \in 1 .. Len(q)
    <3>1. v[i] = a[i] /\ a[i] = Resolve(base, q[i]) /\ w[i] = q[i]
      BY <1>1, <1>3, <1>5, <2>1
    <3> QED BY <3>1
  <2>2. CASE i \notin 1 .. Len(q)
    <3>1. PICK j \in 1 .. Len(r) : i = Len(q) + j
      BY <1>6, <2>2
    <3>2. v[i] = b[j] /\ b[j] = Resolve(base, r[j]) /\ w[i] = r[j]
      BY <1>1, <1>3, <1>5, <3>1
    <3> QED BY <3>2
  <2> QED BY <2>1, <2>2
<1>8. ResolveAll(base, w) = [i \in 1 .. Len(q) + Len(r) |-> Resolve(base, w[i])]
  BY <1>1 DEF ResolveAll
<1>9. ResolveAll(base, w) = v
  BY <1>5, <1>7, <1>8
<1> QED BY <1>9 DEF v, w, a, b

\* Resolving leads to where the path leads.
LEMMA ResolvedAlone ==
  ASSUME NEW base, NEW p \in SecretPaths
  PROVE  /\ Resolve(base, p) = From(base, p)
         /\ ResolveAll(base, <<p>>) = <<Resolve(base, p)>> /\ ResolveAll(base, <<>>) = <<>>
<1> DEFINE names == SubSeq(base, 1, Len(base) - p.up) \o p.names
<1>1. Resolve(base, p) = From(base, p)
  <2>1. DOMAIN p = {"abs", "up", "names", "env"} /\ p = [i \in DOMAIN p |-> p[i]]
    BY SMTT(30) DEF SecretPaths
  <2>2. /\ Resolve(base, p) = IF p.abs THEN p ELSE [p EXCEPT !.abs = TRUE, !.up = 0, !.names = names]
        /\ From(base, p) = IF p.abs THEN p ELSE At(names, p.env)
    BY DEF Resolve, From
  <2> HIDE DEF names
  <2>3. [p EXCEPT !.abs = TRUE, !.up = 0, !.names = names] = At(names, p.env)
    <3> DEFINE l == [p EXCEPT !.abs = TRUE, !.up = 0, !.names = names]
               r == At(names, p.env)
    <3>1. /\ DOMAIN l = {"abs", "up", "names", "env"} /\ l = [i \in DOMAIN l |-> l[i]]
          /\ l.abs = TRUE /\ l.up = 0 /\ l.names = names /\ l.env = p.env
      <4>1. DOMAIN l = DOMAIN p
        BY SMTT(30)
      <4>2. l.abs = TRUE
        BY SMTT(30), <2>1
      <4>3. l.up = 0
        BY SMTT(30), <2>1
      <4>4. l.names = names
        BY SMTT(30), <2>1
      <4>5. l.env = p.env
        BY SMTT(30), <2>1
      <4>6. l = [i \in DOMAIN l |-> l[i]]
        OBVIOUS
      <4> QED BY <2>1, <4>1, <4>2, <4>3, <4>4, <4>5, <4>6
    <3>2. /\ DOMAIN r = {"abs", "up", "names", "env"} /\ r = [i \in DOMAIN r |-> r[i]]
          /\ r.abs = TRUE /\ r.up = 0 /\ r.names = names /\ r.env = p.env
      BY SMTT(30) DEF At
    <3> HIDE DEF l, r
    <3>3. \A i \in DOMAIN l : l[i] = r[i]
      BY <3>1, <3>2
    <3> QED BY <3>1, <3>2, <3>3 DEF l, r
  <2> QED BY <2>2, <2>3
<1>2. ResolveAll(base, <<>>) = <<>>
  BY SMTT(30) DEF ResolveAll
<1> DEFINE w == <<p>>
<1>3. DOMAIN w = {1} /\ w[1] = p
  BY SMTT(30)
<1> HIDE DEF w
<1>4. ResolveAll(base, w) = [i \in {1} |-> Resolve(base, p)]
  BY <1>3 DEF ResolveAll
<1> DEFINE x == Resolve(base, p)
<1> HIDE DEF x
<1>5. [i \in {1} |-> x] = <<x>>
  BY SMTT(30)
<1> QED BY <1>1, <1>2, <1>4, <1>5 DEF w, x

\* Two single elements make a pair.
LEMMA PairOf ==
  ASSUME NEW x, NEW y
  PROVE  <<x>> \o <<y>> = <<x, y>>
<1> DEFINE S == {x, y}
           q == <<x>>
           r == <<y>>
           w == q \o r
<1>1. q \in Seq(S) /\ Len(q) = 1 /\ q[1] = x /\ r \in Seq(S) /\ Len(r) = 1 /\ r[1] = y
  BY SMTT(30)
<1>2. 1 \in 1 .. 1 /\ 1 + 1 = 2
  BY SMTT(30)
<1> HIDE DEF S, q, r
<1>3. w \in Seq(S) /\ Len(w) = 2 /\ w[1] = x /\ w[2] = y
  <2>1. w \in Seq(S) /\ Joined(q, r, w)
    BY <1>1, Concatenated
  <2> HIDE DEF w
  <2> QED BY <1>1, <1>2, <2>1 DEF Joined
<1> HIDE DEF w
<1>4. w = <<w[1], w[2]>>
  BY SMTT(30), <1>3
<1> QED BY <1>3, <1>4 DEF w, q, r

\* The secrets of a stack lead to the files that are meant.
LEMMA SecretsAreMeant ==
  ASSUME StagesInv, NEW k
  PROVE  ResolveAll(IF Root(k) # None THEN Root(k)[1] ELSE <<>>,
                    (IF Found(k) THEN SecretsOf(k) ELSE <<>>) \o Given(Declaration(k).secrets))
         = MeantSecrets(k)
<1> DEFINE base == IF Root(k) # None THEN Root(k)[1] ELSE <<>>
           given == Given(Declaration(k).secrets)
           p == Path(1, <<"secretsEnv">>, TRUE)
           q == Path(0, <<"secretsEnv">>, TRUE)
           a == IF Found(k) /\ k[1] \in tree.secrets THEN <<p>> ELSE <<>>
           b == IF Found(k) /\ tree.dirs[k].secrets THEN <<q>> ELSE <<>>
           sops == IF Found(k) THEN SecretsOf(k) ELSE <<>>
<1>1. p \in SecretPaths /\ q \in SecretPaths
  <2>1. <<"secretsEnv">> \in Seq(STRING) \cup {<<"secretsEnv">>}
    OBVIOUS
  <2>2. 0 \in Nat /\ 1 \in Nat
    BY SMTT(30)
  <2> QED BY <2>1, <2>2, PathsAreSecrets
<1>2. given \in Seq(SecretPaths)
  BY GivenSecrets
<1>3. sops = a \o b
  <2>1. CASE Found(k)
    BY <2>1 DEF SecretsOf
  <2>2. CASE ~Found(k)
    <3>1. <<>> \o <<>> = <<>>
      BY SMTT(30)
    <3> QED BY <2>2, <3>1
  <2> QED BY <2>1, <2>2
<1>4. Found(k) => /\ Resolve(base, p) = At(<<k[1], "secretsEnv">>, TRUE)
                  /\ Resolve(base, q) = At(k \o <<"secretsEnv">>, TRUE)
  <2>1. SUFFICES ASSUME Found(k) PROVE /\ Resolve(base, p) = At(<<k[1], "secretsEnv">>, TRUE)
                                       /\ Resolve(base, q) = At(k \o <<"secretsEnv">>, TRUE)
    OBVIOUS
  <2>2. base = k
    BY SMTT(30), <2>1 DEF Root, None
  <2>3. k \in Seq(STRING) /\ Len(k) = 2
    BY <2>1, ManifestAssumption DEF Found, StagesInv
  <2>4. SubSeq(k, 1, Len(k) - 1) \o <<"secretsEnv">> = <<k[1], "secretsEnv">>
    <3> DEFINE s == SubSeq(k, 1, Len(k) - 1)
    <3>1. s \in Seq(STRING) /\ Len(s) = 1 /\ s[1] = k[1] /\ s # <<>> /\ Len(s) <= 1
      BY SMTT(30), <2>3
    <3>2. s = <<k[1]>>
      BY <3>1, OptionalField
    <3> HIDE DEF s
    <3> QED BY <3>2, PairOf DEF s
  <2>5. SubSeq(k, 1, Len(k) - 0) \o <<"secretsEnv">> = k \o <<"secretsEnv">>
    <3>1. SubSeq(k, 1, Len(k) - 0) = k
      BY SMTT(30), <2>3
    <3> QED BY <3>1
  <2>6. Resolve(k, p) = From(k, p) /\ Resolve(k, q) = From(k, q)
    BY <1>1, ResolvedAlone
  <2>7. /\ From(k, p) = At(SubSeq(k, 1, Len(k) - 1) \o <<"secretsEnv">>, TRUE)
        /\ From(k, q) = At(SubSeq(k, 1, Len(k) - 0) \o <<"secretsEnv">>, TRUE)
    BY SMTT(30) DEF From, Path
  <2> QED BY <2>2, <2>4, <2>5, <2>6, <2>7
<1>5. ResolveAll(base, given) = Below(base, given)
  <2>1. \A i \in DOMAIN given : given[i] \in SecretPaths
    <3> HIDE DEF given
    <3> QED BY SMTT(30), <1>2
  <2> HIDE DEF given, base
  <2>2. \A i \in DOMAIN given : Resolve(base, given[i]) = From(base, given[i])
    BY <2>1, ResolvedAlone
  <2> QED BY <2>2 DEF ResolveAll, Below
<1> DEFINE pp == At(<<k[1], "secretsEnv">>, TRUE)
           qq == At(k \o <<"secretsEnv">>, TRUE)
<1>6. MeantSecrets(k) = ((IF Found(k) /\ k[1] \in tree.secrets THEN <<pp>> ELSE <<>>)
                         \o (IF Found(k) /\ tree.dirs[k].secrets THEN <<qq>> ELSE <<>>)) \o Below(base, given)
  BY DEF MeantSecrets
<1> HIDE DEF p, q, pp, qq, base, given
<1>7. /\ <<p>> \in Seq(SecretPaths) /\ <<q>> \in Seq(SecretPaths) /\ <<>> \in Seq(SecretPaths)
  BY SMTT(30), <1>1
<1>8. a \in Seq(SecretPaths) /\ b \in Seq(SecretPaths)
  BY <1>7
<1>9. /\ ResolveAll(base, a) = (IF Found(k) /\ k[1] \in tree.secrets THEN <<pp>> ELSE <<>>)
      /\ ResolveAll(base, b) = (IF Found(k) /\ tree.dirs[k].secrets THEN <<qq>> ELSE <<>>)
  BY <1>1, <1>4, ResolvedAlone DEF pp, qq
<1> HIDE DEF a, b, sops
<1>10. a \o b \in Seq(SecretPaths)
  BY SMTT(30), <1>8
<1>11. ResolveAll(base, (a \o b) \o given) = (ResolveAll(base, a) \o ResolveAll(base, b)) \o ResolveAll(base, given)
  <2>1. ResolveAll(base, (a \o b) \o given) = ResolveAll(base, a \o b) \o ResolveAll(base, given)
    BY <1>2, <1>10, ResolvingConcatenation
  <2>2. ResolveAll(base, a \o b) = ResolveAll(base, a) \o ResolveAll(base, b)
    BY <1>8, ResolvingConcatenation
  <2> QED BY <2>1, <2>2
<1>12. ResolveAll(base, sops \o given) = MeantSecrets(k)
  BY <1>3, <1>5, <1>6, <1>9, <1>11
<1> QED BY <1>12 DEF base, sops, given

\* Merging a normalised stack with its declaration again changes nothing of this.
LEMMA ResolvedIsAsMeant ==
  ASSUME StagesInv, NEW k \in MeantStacks
  PROVE  AsMeant(k, Resolved(k))
<1> DEFINE s == Described(k)
           n == Normalised(s)
           e == doc.stacks[k]
<1>1. /\ DOMAIN s = DOMAIN NoStack /\ s.root = Root(k) /\ s.secrets = Declaration(k).secrets
      /\ s.sops = (IF Found(k) THEN SecretsOf(k) ELSE <<>>)
  BY DescribedFields
<1>2. /\ s.envFile = MeantEnvFile(k) /\ s.profiles = Declaration(k).profiles
      /\ s.project = Declaration(k).project /\ s.environment = Declaration(k).environment
  BY DescribedRest
<1>3. FilesOf(s) = MeantFiles(k)
  BY FilesAreMeant
<1>4. Resolved(k) = IF Found(k) /\ Declared(k) THEN Merged(n, e) ELSE n
  BY DEF Resolved
<1> HIDE DEF s
<1>5. /\ DOMAIN n = DOMAIN NoStack /\ n.root = s.root /\ n.files = FilesOf(s) /\ n.sops = ResolvedSecrets(s)
      /\ n.envFile = s.envFile /\ n.profiles = s.profiles /\ n.project = s.project /\ n.inline = Inline(s)
  BY <1>1, NormalisedFields, NormalisedRest
<1>6. Inline(s) = MeantInline(k)
  BY <1>2, InlineIsMeant DEF Inline
<1>7. ResolvedSecrets(s) = MeantSecrets(k)
  BY <1>1, SecretsAreMeant DEF ResolvedSecrets
<1>8. AsMeant(k, n)
  BY <1>1, <1>2, <1>3, <1>5, <1>6, <1>7 DEF AsMeant
<1> HIDE DEF n, e
<1>9. CASE Found(k) /\ Declared(k)
  <2> DEFINE m == Merged(n, e)
  <2>1. /\ m.root = n.root /\ m.files = n.files /\ m.sops = n.sops
        /\ m.envFile = n.envFile /\ m.inline = n.inline
        /\ m.profiles = IF e.profiles # None THEN e.profiles ELSE n.profiles
        /\ m.project = IF e.project # None THEN e.project ELSE n.project
    BY <1>5, MergedFields, MergedRest
  <2>2. Declaration(k) = e
    BY <1>9 DEF Declaration, e
  <2>3. m.profiles = n.profiles /\ m.project = n.project
    BY <1>8, <2>1, <2>2 DEF AsMeant
  <2> HIDE DEF m
  <2>4. AsMeant(k, m)
    BY <1>8, <2>1, <2>3 DEF AsMeant
  <2> QED BY <1>4, <1>9, <2>4 DEF m
<1> QED BY <1>4, <1>8, <1>9

(***************************************************************************)
(* The theorems.                                                           *)
(***************************************************************************)
\* Every step of the loader keeps the invariant.
THEOREM LoadInvariance == Spec => []LoadInv
<1>1. ASSUME LoadInv, [Next]_vars PROVE LoadInv'
  <2>1. CASE DiscoverFails
    BY <1>1, <2>1, EndsUnread DEF DiscoverFails, LoadInv
  <2>2. CASE Next
    BY <1>1, <2>1, <2>2, LocateKeeps, DiscoverKeeps, NormaliseStackKeeps, MergeFilesetsKeeps,
       NormaliseFilesetKeeps, ValidateKeeps, StacksNormalisedKeeps, FilesetsMergedKeeps,
       ResolveTargetsKeeps, StutterKeeps DEF Next, Loop, Terminated
  <2> QED BY <1>1, <2>2, StutterKeeps
<1> QED BY InitLoads, <1>1, PTL DEF Spec

\* For every directory tree, manifest and target, and in whatever order the maps are visited,
\* loading succeeds exactly when the manifest is valid.
THEOREM LoadingIsExact == Spec => []AcceptedIffValid
<1>1. LoadInv => AcceptedIffValid
  BY DEF LoadInv, AcceptedIffValid
<1> QED BY <1>1, LoadInvariance, PTL

\* A command gets the filesets of exactly the stacks that it gets.
THEOREM FilesetsComeWithStacks == Spec => []FilesetsFollowTheirStacks
<1>1. LoadInv => FilesetsFollowTheirStacks
  BY DEF LoadInv, StagesInv, FilesetsFollowTheirStacks
<1> QED BY <1>1, LoadInvariance, PTL

\* A command gets each stack normalised exactly once, whatever the loops met first, and
\* without a target all of them.
THEOREM StacksComeResolved == Spec => []StacksAreResolved
<1>1. LoadInv => StacksAreResolved
  BY DEF LoadInv, StagesInv, StacksAreResolved
<1> QED BY <1>1, LoadInvariance, PTL

\* In whatever order the maps are visited, and through the repeated merging, a command sees
\* each stack with the root, the files, the profiles, the project, the environment and the
\* absolute paths of secrets that the tree and the manifest mean.
THEOREM StacksComeAsMeant == Spec => []StacksAreAsMeant
<1>1. LoadInv => StacksAreAsMeant
  <2>1. SUFFICES ASSUME LoadInv, result = "ok" PROVE StacksAreAsMeant
    BY DEF StacksAreAsMeant
  <2>2. StagesInv /\ StacksAreResolved
    BY <2>1 DEF LoadInv, StagesInv, StacksAreResolved
  <2>3. ASSUME NEW k \in DOMAIN config.stacks PROVE k \in MeantStacks /\ AsMeant(k, config.stacks[k])
    BY <2>1, <2>2, ResolvedIsAsMeant DEF StacksAreResolved
  <2> QED BY <2>1, <2>2, <2>3 DEF StacksAreResolved, StacksAreAsMeant, AsMeant
<1> QED BY <1>1, LoadInvariance, PTL
=============================================================================
