---------------------------- MODULE MCReconcile ----------------------------
(* Stack "s" owns the compose network "c"; "n" is a context network.  The   *)
(* second configuration has two stacks that share a service name.           *)
EXTENDS Reconcile

MCVolumes == {"v"}
MCNetworks == {"n", "c"}
MCOneStack == {"s"}
MCTwoStacks == {"s", "t"}
MCServices == {"web"}
MCTwoServices == {"web", "db"}
MCComposeNet == [s \in Stacks |-> "c"]
=============================================================================
