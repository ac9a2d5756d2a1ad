------------------------------- MODULE MCFrames -------------------------------
(***************************************************************************)
(* Instances of FrameAllocator for TLC: three bitmap words of two frames,   *)
(* two bytes to a frame, one frame below RAM.                               *)
(***************************************************************************)
EXTENDS FrameAllocator

(* No memory at all, less than the guess, more than the bitmap, elsewhere *)
MemoryMaps == {<<2, 0>>, <<2, 7>>, <<2, 10>>, <<2, 99>>, <<4, 10>>}

(* Inside a frame, across two, across the end of the image, below RAM, beyond
   it, and ending in the last frame of the address space *)
ReservedRegions == {<<9, 1>>, <<7, 2>>, <<3, 3>>, <<1, 2>>, <<11, 9>>, <<20, 3>>}
=============================================================================
