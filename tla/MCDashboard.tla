---------------------------- MODULE MCDashboard ----------------------------
(***************************************************************************)
(* Stack b of the first context sets container_name for its service db;    *)
(* stack x of another context has a service web.  On the daemon of the     *)
(* first context the name web may belong to the service web of a stack     *)
(* that is no longer in the manifest, or to an unlabelled container.       *)
(***************************************************************************)
EXTENDS Dashboard

MCServiceOf == [i \in {"b/db", "x/web"} |-> IF i = "b/db" THEN "db" ELSE "web"]

MCNameOf == [i \in {"b/db", "x/web"} |-> IF i = "b/db" THEN "data" ELSE NoName]

MCLabel == [o \in {"b/db", "old/web", "other"} |->
              CASE o = "b/db" -> "db" [] o = "old/web" -> "web" [] o = "other" -> NoName]

MCRunsAs == [o \in {"b/db", "old/web", "other"} |-> IF o = "b/db" THEN {"data"} ELSE {"web"}]
=============================================================================
