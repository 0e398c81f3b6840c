------------------------------ MODULE MCDestroy ------------------------------
(* Two contexts; stack "web" has the fileset volume "web_conf", which every  *)
(* container mounts, and one network, which every container joins; "data"    *)
(* belongs to no fileset.                                                    *)
EXTENDS Destroy

MCContexts == {"x", "y"}
MCOneProject == {"web"}
MCTwoProjects == {"web", "api"}
MCNetworks == {"front"}
MCVolumes == {"web_conf", "data"}
MCOwns == [p \in Projects |-> IF p = "web" THEN {"web_conf"} ELSE {}]
MCMounts == [o \in Owners |-> {"web_conf"}]
MCJoins == [o \in Owners |-> MCNetworks]
=============================================================================
