------------------------------- MODULE MCVirtio -------------------------------
(***************************************************************************)
(* Instances of Virtio for TLC.  The index wraps after two laps of the      *)
(* rings, which is the least that tells a full ring from an empty one.      *)
(***************************************************************************)
EXTENDS Virtio
=============================================================================
