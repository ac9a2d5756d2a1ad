------------------------------ MODULE MCInterrupts ------------------------------
(***************************************************************************)
(* Instances of Interrupts for TLC: the boot thread, a kernel task and an   *)
(* EL0 task; the counter runs far enough for the handler to be on time, to  *)
(* be late, and to be a whole interval late.                                *)
(***************************************************************************)
EXTENDS Interrupts
=============================================================================
