----------------------------- MODULE MCVolumes -----------------------------
(* Instances of Volumes for TLC. *)
EXTENDS Volumes
=============================================================================
