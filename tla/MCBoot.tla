-------------------------------- MODULE MCBoot --------------------------------
(* Machines for Boot: RAM is guessed to be pages 16..31 of an address space   *)
(* of 64, and the kernel takes up to 40 of them.                              *)
EXTENDS Boot

At(base, n) == [base |-> base, n |-> n]
NoBlob == At(0, 0)
Machine(blob, memory, reservations, devices) ==
  [blob |-> blob, memory |-> memory, reservations |-> reservations, devices |-> devices]

Usual == At(30, 1)
Console == At(5, 1)   \* inside the bootstrap window
Far == At(9, 2)       \* needs a table of its own

MCMachines ==
  \* the memory the tree describes: none, a little less, too little, as guessed,
  \* more, more than the kernel can use, somewhere else
  {Machine(Usual, memory, <<>>, <<Console, Far>>) :
     memory \in {At(16, 0), At(16, 15), At(16, 8), At(16, 16), At(16, 22), At(16, 38), At(16, 60), At(40, 8)}}
  \* where the blob is: nowhere, two pages, behind the image, behind the tables,
  \* across the end of the guess, outside it
  \cup {Machine(blob, At(16, 38), <<>>, <<Far>>) :
     blob \in {NoBlob, At(29, 2), At(20, 1), At(28, 1), At(31, 2), At(40, 2)}}
  \* what else is reserved: a page, pages that overlap the blob, no RAM
  \cup {Machine(Usual, At(16, 22), reservations, <<Console>>) :
     reservations \in {<<At(33, 1)>>, <<At(29, 2), At(35, 1)>>, <<At(60, 1)>>}}
  \* a device across the end of the window, devices that share a table or a page
  \cup {Machine(Usual, At(16, 22), <<>>, devices) :
     devices \in {<<At(7, 2)>>, <<At(3, 2)>>, <<Far, At(12, 4)>>, <<Far, At(10, 1)>>}}
=============================================================================
