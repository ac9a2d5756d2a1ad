------------------------------- MODULE MCLeases -------------------------------
(***************************************************************************)
(* An instance of Leases for TLC: two-byte pages, three to a space, the     *)
(* frames of a space out of order, so that a lease can straddle a page      *)
(* boundary, end in an unmapped page, and be copied in uneven chunks.       *)
(***************************************************************************)
EXTENDS Leases

CONSTANTS owner, borrower, other

ThreeTasks == {owner, borrower, other}

Spaces ==
  [t \in ThreeTasks |->
     CASE t = owner    -> [p \in 0 .. 2 |-> CASE p = 0 -> "rw" [] p = 1 -> "rw" [] p = 2 -> "ro"]
       [] t = borrower -> [p \in 0 .. 2 |-> CASE p = 0 -> "ro" [] p = 1 -> "rw" [] p = 2 -> "rw"]
       [] t = other    -> [p \in 0 .. 2 |-> CASE p = 0 -> "rw" [] p = 1 -> "none" [] p = 2 -> "ro"]]

ScatteredFrames ==
  [t \in ThreeTasks |->
     CASE t = owner    -> [p \in 0 .. 2 |-> CASE p = 0 -> 4 [] p = 1 -> 0 [] p = 2 -> 7]
       [] t = borrower -> [p \in 0 .. 2 |-> CASE p = 0 -> 2 [] p = 1 -> 6 [] p = 2 -> 1]
       [] t = other    -> [p \in 0 .. 2 |-> CASE p = 0 -> 3 [] p = 1 -> 8 [] p = 2 -> 5]]

Lease(base, len, attrs) == [base |-> base, len |-> len, attrs |-> attrs]

(* Across two pages, two leases at once, not writable, past the end, empty *)
Tables ==
  {<<Lease(1, 3, {"read", "write"})>>,
   <<Lease(3, 2, {"read"}), Lease(0, 2, {"write"})>>,
   <<Lease(3, 2, {"write"})>>,
   <<Lease(5, 3, {"read"})>>,
   <<Lease(1, 0, {"read"})>>}

Message(out, outLen, replyBuf, replyCap) ==
  [out |-> out, outLen |-> outLen, replyBuf |-> replyBuf, replyCap |-> replyCap]

(* One that fits everybody, one whose reply buffer straddles a page, one too long *)
Bodies == {Message(0, 1, 1, 1), Message(0, 2, 1, 2), Message(0, 3, 1, 1)}
=============================================================================
