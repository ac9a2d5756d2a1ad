---------------------------- MODULE FrameAllocator ----------------------------
(***************************************************************************)
(* The physical frame allocator (kernel/src/frames.rs): a bitmap with one   *)
(* bit per frame the kernel could ever track, two counters, the length of   *)
(* RAM, and the boot-time calls that correct the first guess at it          *)
(* (adopt_memory_map in main.rs).                                           *)
(*                                                                         *)
(* Every section under the ALLOCATOR lock is one step.  alloc zeroes its    *)
(* frames after it has let go of the lock and returns when they are all     *)
(* zeroed, and free_contiguous takes the lock once per frame, so both are   *)
(* several steps and others run between.                                    *)
(***************************************************************************)
EXTENDS Integers, FiniteSets

CONSTANTS
  FRAME_SIZE,    \* bytes in a frame
  WORD,          \* frames per bitmap word (64)
  MAX_FRAMES,    \* frames the bitmap can track
  RAM_BASE,      \* physical address of frame 0
  ADDRESSES,     \* 2^64: one past the last physical address
  IMAGE_FRAMES,  \* frames of the kernel image, at the bottom of RAM
  GUESS,         \* frames of DEFAULT_RAM_SIZE
  STACK_FRAMES,  \* frames in a kernel stack, allocated in one piece
  Maps,          \* the <<base, size>> a device tree may report as memory
  Regions,       \* the <<base, length>> it may report as reserved
  MaxClaims      \* bound: allocations being zeroed at the same time

ASSUME FrameAssumption ==
  /\ {FRAME_SIZE, WORD, IMAGE_FRAMES, STACK_FRAMES} \subseteq Nat \ {0}
  /\ {MAX_FRAMES, RAM_BASE, ADDRESSES, GUESS, MaxClaims} \subseteq Nat
  /\ MAX_FRAMES % WORD = 0 /\ RAM_BASE % FRAME_SIZE = 0 /\ ADDRESSES % FRAME_SIZE = 0
  /\ IMAGE_FRAMES <= GUESS /\ GUESS <= MAX_FRAMES
  /\ RAM_BASE + MAX_FRAMES * FRAME_SIZE < ADDRESSES
  /\ Maps \subseteq Nat \X Nat /\ Regions \subseteq Nat \X Nat

VARIABLES
  bits,       \* the set bits: frames taken, reserved or past the end of RAM
  free,       \* Bitmap::free
  reserved,   \* Bitmap::reserved
  ramFrames,  \* RAM_LENGTH, in frames
  booted,     \* adopt has been called
  result,     \* what the last adopt or reserve_range came to
  kept,       \* history: frames reserved so far, the image included
  claimed,    \* runs marked taken and not yet returned
  zeroed,     \* [claimed -> Nat]: how many of their frames are zeroed so far
  owned,      \* runs their owner has
  returning,  \* what is left of runs being handed back
  dirty       \* frames that hold something other than zeros

frameVars == <<bits, free, reserved, ramFrames, booted, result, kept, claimed, zeroed,
               owned, returning, dirty>>

Frames == 0 .. MAX_FRAMES - 1
Ram == 0 .. ramFrames - 1
Interval(first, end) == first .. end - 1     \* Rust's first..end
Run(first, count) == [first |-> first, count |-> count]
FramesOf(r) == Interval(r.first, r.first + r.count)
Runs == claimed \cup owned \cup returning
Taken == UNION {FramesOf(r) : r \in Runs}

-----------------------------------------------------------------------------
(* The word-wise range operations *)
NextMultipleOf(n) == ((n + WORD - 1) \div WORD) * WORD
WholeWords(first, end) == {f \in Frames : f \div WORD \in Interval(first, end)}

(* Variant: the partial word at the end of the range is forgotten. *)
RangeWithoutTail(start, end) ==
  LET whole == NextMultipleOf(start)
  IN  {f \in Interval(start, end) : f < whole}
      \cup IF whole >= end THEN {} ELSE WholeWords(whole \div WORD, end \div WORD)

(***************************************************************************)
(* The frames set_range and clear_range touch: bit by bit up to the first   *)
(* multiple of WORD, whole words from there, and the tail bit by bit.       *)
(***************************************************************************)
RangeTouched(start, end) ==
  LET whole == NextMultipleOf(start)
  IN  {f \in Interval(start, end) : f < whole}
      \cup IF whole >= end THEN {}
           ELSE WholeWords(whole \div WORD, end \div WORD)
                \cup Interval((end \div WORD) * WORD, end)

SetRange(b, start, end) == b \cup RangeTouched(start, end)
ClearRange(b, start, end) == b \ RangeTouched(start, end)

(* first_clear: the lowest frame whose bit is clear *)
Clear == Frames \ bits
FirstClear == CHOOSE f \in Clear : \A g \in Clear : f <= g

(* Variant: a taken frame does not start the run afresh. *)
ContiguousFitsBroken(count) == {f \in Ram \ bits : f + count <= ramFrames}

(* alloc_contiguous: where a run of count clear frames of RAM starts *)
ContiguousFits(count) ==
  {f \in Ram : f + count <= ramFrames /\ Interval(f, f + count) \cap bits = {}}
FirstFit(count) == CHOOSE f \in ContiguousFits(count) : \A g \in ContiguousFits(count) : f <= g

-----------------------------------------------------------------------------
(* init, on the guess made before the device tree can be read *)
Init ==
  /\ bits = SetRange(SetRange({}, 0, IMAGE_FRAMES), GUESS, MAX_FRAMES)
  /\ free = GUESS - IMAGE_FRAMES
  /\ reserved = IMAGE_FRAMES
  /\ ramFrames = GUESS
  /\ booted = FALSE
  /\ result = "ok"
  /\ kept = Interval(0, IMAGE_FRAMES)
  /\ claimed = {} /\ zeroed = <<>> /\ owned = {} /\ returning = {}
  /\ dirty = Frames

(* Variant: the search moves on, but only the first frame of a run is marked. *)
ClaimMarksFirst(r) ==
  /\ Cardinality(claimed) < MaxClaims
  /\ bits' = bits \cup {r.first}
  /\ free' = free - r.count
  /\ claimed' = claimed \cup {r}
  /\ zeroed' = [s \in claimed \cup {r} |-> IF s = r THEN 0 ELSE zeroed[s]]
  /\ UNCHANGED <<reserved, ramFrames, booted, result, kept, owned, returning, dirty>>

(* The locked section of alloc and alloc_contiguous *)
Claim(r) ==
  /\ Cardinality(claimed) < MaxClaims
  /\ bits' = bits \cup FramesOf(r)
  /\ free' = free - r.count
  /\ claimed' = claimed \cup {r}
  /\ zeroed' = [s \in claimed \cup {r} |-> IF s = r THEN 0 ELSE zeroed[s]]
  /\ UNCHANGED <<reserved, ramFrames, booted, result, kept, owned, returning, dirty>>

Alloc == Clear # {} /\ Claim(Run(FirstClear, 1))

AllocContiguous(count) ==
  ContiguousFits(count) # {} /\ Claim(Run(FirstFit(count), count))

(* write_bytes, outside the lock: the next frame of the run *)
ZeroNext(r) ==
  /\ r \in claimed /\ zeroed[r] < r.count
  /\ dirty' = dirty \ {r.first + zeroed[r]}
  /\ zeroed' = [zeroed EXCEPT ![r] = @ + 1]
  /\ UNCHANGED <<bits, free, reserved, ramFrames, booted, result, kept, claimed, owned, returning>>

(* alloc returns what it has zeroed. *)
Return(r) ==
  /\ r \in claimed /\ zeroed[r] = r.count
  /\ claimed' = claimed \ {r} /\ owned' = owned \cup {r}
  /\ zeroed' = [s \in claimed \ {r} |-> zeroed[s]]
  /\ UNCHANGED <<bits, free, reserved, ramFrames, booted, result, kept, returning, dirty>>

(* The owner of a run writes to it (external: paging, tasks, virtqueue). *)
Scribble(r) ==
  /\ r \in owned
  /\ dirty' = dirty \cup FramesOf(r)
  /\ UNCHANGED <<bits, free, reserved, ramFrames, booted, result, kept, claimed, zeroed, owned,
                 returning>>

(* Its owner calls free or free_contiguous and has it no more. *)
GiveBack(r) ==
  /\ r \in owned
  /\ owned' = owned \ {r} /\ returning' = returning \cup {r}
  /\ UNCHANGED <<bits, free, reserved, ramFrames, booted, result, kept, claimed, zeroed, dirty>>

(* Variant: the whole run is counted with its first frame. *)
FreeCountsRun(r) ==
  /\ r \in returning
  /\ bits' = bits \ {r.first}
  /\ free' = free + r.count
  /\ returning' = (returning \ {r}) \cup
                  (IF r.count = 1 THEN {} ELSE {Run(r.first + 1, r.count - 1)})
  /\ UNCHANGED <<reserved, ramFrames, booted, result, kept, claimed, zeroed, owned, dirty>>

(* free: one frame, one locked section *)
Free(r) ==
  /\ r \in returning
  /\ bits' = bits \ {r.first}
  /\ free' = free + 1
  /\ returning' = (returning \ {r}) \cup
                  (IF r.count = 1 THEN {} ELSE {Run(r.first + 1, r.count - 1)})
  /\ UNCHANGED <<reserved, ramFrames, booted, result, kept, claimed, zeroed, owned, dirty>>

-----------------------------------------------------------------------------
Refuse(why) ==
  /\ result' = why
  /\ UNCHANGED <<bits, free, reserved, ramFrames, kept, claimed, zeroed, owned, returning, dirty>>

(* adopt, called once, with what the tree says about memory *)
Truncated(size) ==
  LET frames == size \div FRAME_SIZE IN IF frames < MAX_FRAMES THEN frames ELSE MAX_FRAMES

AdoptElsewhere(base) == base # RAM_BASE /\ Refuse("OutsideRam")

Grow(new) ==
  /\ new > ramFrames
  /\ bits' = ClearRange(bits, ramFrames, new)
  /\ free' = free + (new - ramFrames)
  /\ ramFrames' = new
  /\ result' = "ok"
  /\ UNCHANGED <<reserved, kept, claimed, zeroed, owned, returning, dirty>>

Shrink(new) ==
  /\ new <= ramFrames
  /\ Interval(new, ramFrames) \cap bits = {}
  /\ bits' = SetRange(bits, new, ramFrames)
  /\ free' = free - (ramFrames - new)
  /\ ramFrames' = new
  /\ result' = "ok"
  /\ UNCHANGED <<reserved, kept, claimed, zeroed, owned, returning, dirty>>

ShrinkRefused(new) ==
  /\ new <= ramFrames
  /\ Interval(new, ramFrames) \cap bits # {}
  /\ Refuse("AlreadyTaken")

Adopt(base, size) ==
  /\ ~booted /\ booted' = TRUE
  /\ \/ AdoptElsewhere(base)
     \/ /\ base = RAM_BASE
        /\ LET new == Truncated(size) IN Grow(new) \/ Shrink(new) \/ ShrinkRefused(new)

-----------------------------------------------------------------------------
(***************************************************************************)
(* reserve_range: the byte range rounded outwards to frames, in 64-bit      *)
(* arithmetic.  The sum is checked; rounding it up is not, and a range that *)
(* ends in the very last frame of the address space overflows there, which  *)
(* panics (by the overflow check, or without one by the bounds check on     *)
(* the bitmap that the wrapped end leads to).                               *)
(***************************************************************************)
StartOf(base) == (base \div FRAME_SIZE) * FRAME_SIZE
EndOf(base, len) == ((base + len + FRAME_SIZE - 1) \div FRAME_SIZE) * FRAME_SIZE
EndOverflows(base, len) == base + len < ADDRESSES /\ EndOf(base, len) >= ADDRESSES
OutsideRam(base, len) ==
  \/ base + len >= ADDRESSES
  \/ StartOf(base) < RAM_BASE
  \/ EndOf(base, len) > RAM_BASE + ramFrames * FRAME_SIZE
Wanted(base, len) ==
  Interval((StartOf(base) - RAM_BASE) \div FRAME_SIZE, (EndOf(base, len) - RAM_BASE) \div FRAME_SIZE)

RefuseTaken(wanted) ==
  wanted \cap bits # {} /\ Refuse("AlreadyTaken") /\ UNCHANGED booted

Reserve(wanted) ==
  /\ wanted \cap bits = {}
  /\ bits' = bits \cup wanted
  /\ kept' = kept \cup wanted
  /\ reserved' = reserved + Cardinality(wanted)
  /\ free' = free - Cardinality(wanted)
  /\ result' = "ok"
  /\ UNCHANGED <<ramFrames, booted, claimed, zeroed, owned, returning, dirty>>

ReserveRange(base, len) ==
  /\ booted /\ len > 0
  /\ \/ EndOverflows(base, len) /\ Refuse("panic") /\ UNCHANGED booted
     \/ /\ ~EndOverflows(base, len) /\ OutsideRam(base, len)
        /\ Refuse("OutsideRam") /\ UNCHANGED booted
     \/ /\ ~EndOverflows(base, len) /\ ~OutsideRam(base, len)
        /\ LET wanted == Wanted(base, len) IN RefuseTaken(wanted) \/ Reserve(wanted)

(* A panic halts the machine for good. *)
Up == result # "panic"
Halted == ~Up /\ UNCHANGED frameVars

(* adopt_memory_map: a memory node with a size is adopted, then each region of
   the tree is reserved, one call after another.  A refusal is only a warning. *)
AdoptMap == \E m \in Maps : m[2] # 0 /\ Adopt(m[1], m[2])
ReserveRegions == \E g \in Regions : ReserveRange(g[1], g[2])

Next ==
  \/ Up /\ Alloc
  \/ Up /\ AllocContiguous(STACK_FRAMES)
  \/ \E r \in Runs : Up /\ (ZeroNext(r) \/ Return(r) \/ Scribble(r) \/ GiveBack(r) \/ Free(r))
  \/ Up /\ AdoptMap
  \/ Up /\ ReserveRegions
  \/ Halted

Spec == Init /\ [][Next]_frameVars

-----------------------------------------------------------------------------
(***************************************************************************)
(* No frame has two owners: the runs handed out, being zeroed or being      *)
(* handed back are disjoint from each other and from everything reserved,   *)
(* and all of them lie in RAM, whatever alloc, free_contiguous, adopt and   *)
(* reserve_range did in between.                                            *)
(***************************************************************************)
NoTwoOwners ==
  /\ \A r \in Runs : FramesOf(r) \subseteq Ram \ kept
  /\ \A r, s \in Runs : r # s => FramesOf(r) \cap FramesOf(s) = {}
  /\ Cardinality(Runs) = Cardinality(claimed) + Cardinality(owned) + Cardinality(returning)
  /\ kept \subseteq Ram

(***************************************************************************)
(* The bitmap says exactly who is taken, and the counters agree with it: no *)
(* frame leaks out of the pool, comes back twice, or is counted wrongly     *)
(* across a grown, shrunk or refused memory map.                            *)
(***************************************************************************)
BitmapAgrees ==
  /\ bits = kept \cup Taken \cup (Frames \ Ram)
  /\ free = Cardinality(Frames \ bits)
  /\ reserved = Cardinality(kept)

(***************************************************************************)
(* alloc: "Always zeroed".  The frames are zeroed one after another with    *)
(* the lock released, while others claim, write, free and reserve; the run  *)
(* is clean when it reaches its owner because nobody else has any of it.    *)
(***************************************************************************)
ArrivesZeroed ==
  [][\A r \in owned' \ owned : FramesOf(r) \cap dirty = {}]_frameVars

(* set_range and clear_range touch every frame of a range and no other. *)
RangesAreExact ==
  \A start, end \in 0 .. MAX_FRAMES :
    /\ SetRange(bits, start, end) = bits \cup Interval(start, end)
    /\ ClearRange(bits, start, end) = bits \ Interval(start, end)

=============================================================================
