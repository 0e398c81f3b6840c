------------------------------ MODULE MCImages ------------------------------
(***************************************************************************)
(* Two stacks on two contexts: web and db share two compose files, job has *)
(* one of its own.  Tag 1 is a prefix of tag 10.                           *)
(***************************************************************************)
EXTENDS Images

MCServices == {"web", "db", "job"}
MCJobOrder == <<"db", "web", "job">>
MCStackOrder == <<"app", "cron">>
MCStackOf == [s \in MCServices |-> IF s = "job" THEN "cron" ELSE "app"]
MCContextOf == [st \in {"app", "cron"} |-> IF st = "app" THEN "x" ELSE "y"]
MCFilesOf == [st \in {"app", "cron"} |-> IF st = "app" THEN <<"base", "override">> ELSE <<"cron">>]

T1 == <<"1">>
T10 == <<"1", "0">>
T2 == <<"2">>
MCPushable == {<<"r", T1>>}
MCTagOrder == <<T1, T10, T2>>
MCVersion == [t \in {T1, T10, T2} |-> CASE t = T1 -> 1 [] t = T2 -> 2 [] OTHER -> 10]

Ref(r, t) == [repo |-> r, tag |-> t]
Compose(base, override, cron) ==
  [base |-> [web |-> base[1], db |-> base[2], job |-> NoLine],
   override |-> [web |-> override[1], db |-> override[2], job |-> NoLine],
   cron |-> [web |-> NoLine, db |-> NoLine, job |-> cron]]

\* web in both files, a variable, a reference that is a prefix of another one.
TwoFiles == Compose(<<Ref("r", T1), Ref("q", T1)>>, <<Ref("r", T1), NoLine>>, NoLine)
Variable == Compose(<<Ref("r", Var), Ref("r", T2)>>, <<NoLine, NoLine>>, NoLine)
Overlapping == Compose(<<Ref("r", T1), Ref("r", T10)>>, <<NoLine, NoLine>>, NoLine)
ThreeServices == Compose(<<Ref("r", T1), Ref("q", T1)>>, <<NoLine, NoLine>>, Ref("r", T1))
SameImage == Compose(<<Ref("r", T1), Ref("r", T1)>>, <<NoLine, NoLine>>, NoLine)
NoImages == Compose(<<NoLine, NoLine>>, <<NoLine, NoLine>>, NoLine)

Patterns(web, db) == [web |-> web, db |-> db, job |-> NoPattern]
Opt(cmd, flag, names) ==
  [cmd |-> cmd, dryRun |-> flag = "dry-run", recreate |-> flag = "recreate", named |-> names]

\* The registry is at the third push of every tag that it has.
Remote == [r |-> [t \in {T1, T10, T2} |-> 3], q |-> [t \in {T1, T10, T2} |-> IF t = T1 THEN 3 ELSE 0]]
\* Everything is pulled in x, nothing in y.
Local == [x |-> Remote, y |-> [q |-> [t \in {T1, T10, T2} |-> 0], r |-> [t \in {T1, T10, T2} |-> 0]]]
Runs(w, d, j) == [web |-> w, db |-> d, job |-> j]

Scenario(o, l, p, run, a) ==
  [opt |-> o, line |-> l, pattern |-> p, running |-> run, stored |-> Local, digests |-> Remote,
   auth |-> a]

MCScenarios ==
  {Scenario(Opt("upgrade", "", {}), TwoFiles, Patterns({T2}, NoPattern), Runs(3, 3, 0), TRUE),
   Scenario(Opt("upgrade", "dry-run", {}), TwoFiles, Patterns({T2}, NoPattern), Runs(3, 3, 0), FALSE)}
  \cup {Scenario(Opt("upgrade", "", n), l, Patterns({T2, T10}, {T10}), Runs(3, 3, 0), FALSE) :
           l \in {Variable, Overlapping}, n \in {{}, {"web"}}}
  \cup {Scenario(Opt("pull", f, {}), ThreeServices, Patterns(NoPattern, NoPattern), Runs(2, 3, 2), FALSE) :
           f \in {"", "dry-run", "recreate"}}
  \cup {Scenario(Opt("pull", "recreate", {"web"}), TwoFiles, Patterns(NoPattern, NoPattern),
                  Runs(2, 2, 0), TRUE),
         Scenario(Opt("check", "", {}), SameImage, Patterns(NoPattern, NoPattern), Runs(2, 0, 0), TRUE),
         Scenario(Opt("check", "", {"typo"}), SameImage, Patterns({T2}, {T2}), Runs(2, 0, 0), TRUE),
         Scenario(Opt("check", "", {}), NoImages, Patterns({T2}, {T2}), Runs(0, 0, 0), TRUE)}
=============================================================================
