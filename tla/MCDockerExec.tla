---------------------------- MODULE MCDockerExec ----------------------------
(* Three commands over one slot, in the mixes that differ: retried commands, *)
(* commands that must not be retried, and probes.                            *)
EXTENDS DockerExec

MCCalls == 1..3
MCWorkloads == {<<"plain", "plain", "probe">>, <<"plain", "stdin", "stream">>}
=============================================================================
