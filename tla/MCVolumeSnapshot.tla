-------------------------- MODULE MCVolumeSnapshot --------------------------
(* Files and containers are interchangeable. *)
EXTENDS VolumeSnapshot, TLC

MCSymmetry == Permutations(Files) \cup Permutations(Containers)
=============================================================================
