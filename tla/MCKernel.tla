------------------------------- MODULE MCKernel -------------------------------
(***************************************************************************)
(* Instances of Kernel for TLC.  Task 0 is the boot thread, so MAX_TASKS =  *)
(* 4 leaves three slots for spawned tasks: a receiver and two senders, or a *)
(* supervisor, a victim and a petitioner.                                   *)
(***************************************************************************)
EXTENDS Kernel, TLC

(* Notification bits are compared only for equality. *)
BitSymmetry == Permutations(Bits)
=============================================================================
