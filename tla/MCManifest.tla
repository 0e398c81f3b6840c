----------------------------- MODULE MCManifest -----------------------------
(***************************************************************************)
(* Two contexts: stacks x/web and x/api are found in the tree, y/old is    *)
(* declared with a root elsewhere, and any of them may be augmented.       *)
(***************************************************************************)
EXTENDS Manifest

Place(flag, inFlag, here, below, tty, picked) ==
  [flag |-> flag, inFlag |-> inFlag, here |-> here, below |-> below, tty |-> tty, picked |-> picked]

MCPlaces ==
  {Place(<<"file">>, <<>>, <<>>, 0, FALSE, FALSE), Place(<<"dir">>, <<"dir", "file">>, <<"file">>, 1, FALSE, FALSE),
   Place(None, <<>>, <<"dir", "file">>, 1, TRUE, TRUE), Place(None, <<>>, <<"dir">>, 2, TRUE, TRUE),
   Place(None, <<>>, <<>>, 2, FALSE, FALSE)}

Dir(compose, secrets, env, volumes) ==
  [compose |-> compose, secrets |-> secrets, env |-> env, volumes |-> volumes]

Web == <<"x", "web">>
Api == <<"x", "api">>
Old == <<"y", "old">>

Tree(secrets, api, legacy, binds) ==
  [secrets |-> secrets, binds |-> binds,
   dirs |-> [k \in {Web, Api, <<"legacy">>} |->
     CASE k = Web -> Dir(<<"composeYaml">>, TRUE, TRUE, {"conf"})
       [] k = Api -> api
       [] OTHER -> legacy]]

Empty == Dir(None, FALSE, FALSE, {"conf"})
Plain == Dir(<<"composeYml">>, FALSE, FALSE, {"conf", "data"})

MCTrees ==
  {Tree(s, api, legacy, {}) : s \in {{}, {"x"}}, api \in {Empty, Plain}, legacy \in {Empty, Plain}}
  \cup {Tree({}, Plain, Plain, {b}) : b \in {<<<<Api>>, "composeYml">>, <<<<<<"legacy">>>>, "composeYml">>,
                                             <<<<<<"legacy">>>>, "override">>, <<None, "override">>}}

Var1(v) == [key |-> "A", value |-> v]
Fileset(source, path, mode, owner) ==
  [source |-> source, volume |-> <<"old", "etc">>, path |-> path, mode |-> mode, owner |-> owner]

\* The augmentation of x/web, with repeated variables and a malformed entry.
Augmented(sops) ==
  [NoStack EXCEPT !.profiles = <<"prod">>, !.project = <<"p">>,
     !.environment = <<<<Var1("1"), [key |-> "B", value |-> "2"], [key |-> "noKey", value |-> "3"], Var1("4")>>>>,
     !.secrets = <<<<Path(0, <<"more">>, sops), Path(1, <<"sharedEnv">>, TRUE), At(<<"hostEnv">>, TRUE)>>>>,
     !.filesets = [n \in {"conf"} |-> Fileset(None, None, <<"cold">>, None)]]

\* A stack of its own, with a fileset.
Legacy(fs) ==
  [NoStack EXCEPT !.root = <<<<"legacy">>>>, !.environment = <<<<Var1("1")>>>>,
     !.secrets = <<<<Path(0, <<"sEnv">>, TRUE)>>>>, !.filesets = [n \in {"etc"} |-> fs]]

\* Without a root: the files are taken from the working directory.
Rootless == [NoStack EXCEPT !.files = <<"base", "override">>]

Good == Fileset(<<Old>>, None, None, None)

Doc(contexts, stacks, deployments) ==
  [yaml |-> TRUE, identifier |-> TRUE, contexts |-> contexts, stacks |-> stacks, deployments |-> deployments,
   sops |-> TRUE, blankHosts |-> {}]

Stacks(web, old) == [k \in {Web, Old} |-> IF k = Web THEN web ELSE old]
Groups == [d \in {"all", "one"} |->
             IF d = "all" THEN [contexts |-> {"x", "y"}, stacks |-> {}]
             ELSE [contexts |-> {}, stacks |-> {Web}]]

MCDocuments ==
  {Doc({"x", "y"}, Stacks(Augmented(TRUE), Legacy(fs)), Groups) :
     fs \in {Good, Fileset(None, None, None, None), Fileset(<<Old>>, <<"rel">>, None, None),
             Fileset(<<Old>>, None, <<"warm">>, None), Fileset(<<Old>>, None, <<"cold">>, <<"invalid">>)}}
  \cup {Doc({"x", "y"}, Stacks(Augmented(FALSE), Legacy(Good)), Groups),
         Doc({"x"}, Stacks(Augmented(TRUE), Legacy(Good)), <<>>),
         Doc({"x", "y"}, <<>>, Groups),
         Doc({"x"}, <<>>, Groups),
         Doc({}, <<>>, <<>>),
         Doc({"x", "y"}, [k \in {<<"y", "a", "b">>} |-> NoStack], Groups),
         Doc({"x", "y"}, [k \in {Old} |-> NoStack], Groups),
         Doc({"x", "y"}, [k \in {Old} |-> Rootless], Groups),
         Doc({"x", "y"}, [k \in {Old} |-> [Rootless EXCEPT !.root = <<<<"legacy">>>>]], Groups),
         Doc({"x", "y"}, [k \in {<<"y", "Old">>} |-> NoStack], Groups),
         Doc({"x", "Prod"}, <<>>, <<>>),
         [Doc({"x", "y"}, <<>>, Groups) EXCEPT !.blankHosts = {"y"}],
         [Doc({"x", "y"}, <<>>, Groups) EXCEPT !.identifier = FALSE],
         [Doc({"x", "y"}, <<>>, Groups) EXCEPT !.yaml = FALSE],
         [Doc({"x", "y"}, <<>>, Groups) EXCEPT !.sops = FALSE]}

Target(contexts, stacks, deployment) ==
  [contexts |-> contexts, stacks |-> stacks, deployment |-> deployment]

MCTargets ==
  {NoTarget, Target({"x"}, {}, None), Target({"y"}, {Web}, None), Target({}, {Web, Old}, None),
   Target({}, {<<"y", "y", "old">>}, None), Target({}, {}, <<"all">>), Target({}, {Api}, <<"one">>), Target({}, {}, <<"none">>),
   Target({"z"}, {}, None)}
=============================================================================
