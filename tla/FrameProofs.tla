------------------------------ MODULE FrameProofs ------------------------------
(***************************************************************************)
(* Proofs about FrameAllocator for every size of frame, word, bitmap, image *)
(* and stack, every memory map and every set of reserved regions.           *)
(***************************************************************************)
EXTENDS FrameAllocator, FiniteSetTheorems, WellFoundedInduction, TLAPS

(* The constants, one by one *)
LEMMA Sizes ==
  /\ FRAME_SIZE \in Nat /\ FRAME_SIZE > 0 /\ WORD \in Nat /\ WORD > 0
  /\ IMAGE_FRAMES \in Nat /\ IMAGE_FRAMES > 0 /\ STACK_FRAMES \in Nat /\ STACK_FRAMES > 0
  /\ MAX_FRAMES \in Nat /\ RAM_BASE \in Nat /\ ADDRESSES \in Nat /\ GUESS \in Nat
  /\ IMAGE_FRAMES <= GUESS /\ GUESS <= MAX_FRAMES
BY FrameAssumption

-----------------------------------------------------------------------------
(* Whole words *)

(* A product with a larger factor is larger. *)
LEMMA Products ==
  ASSUME NEW m \in Int, NEW n \in Int, NEW k \in Nat, k > 0
  PROVE  m <= n <=> m * k <= n * k
OBVIOUS

(* Division by a positive number, as a quotient and a remainder *)
LEMMA Quotient ==
  ASSUME NEW n \in Nat, NEW k \in Nat, k > 0
  PROVE  /\ n \div k \in Nat
         /\ (n \div k) * k <= n /\ n < (n \div k) * k + k
OBVIOUS

(* The multiples of k up to n are those of the numbers up to n \div k. *)
LEMMA Multiples ==
  ASSUME NEW n \in Nat, NEW k \in Nat, k > 0, NEW m \in Nat
  PROVE  m <= n \div k <=> m * k <= n
<1> DEFINE q == n \div k
<1>1. q \in Nat /\ q * k <= n /\ n < q * k + k
  BY Quotient
<1> HIDE DEF q
<1>2. m <= q => m * k <= q * k
  BY <1>1, Products
<1>3. ~(m <= q) => (q + 1) * k <= m * k
  <2>1. q + 1 \in Int /\ (~(m <= q) => q + 1 <= m)
    BY <1>1
  <2> QED BY <2>1, Products
<1>4. (q + 1) * k = q * k + k
  BY <1>1
<1>5. m * k \in Nat /\ q * k \in Nat
  BY <1>1
<1>6. m <= q <=> m * k <= n
  BY <1>1, <1>2, <1>3, <1>4, <1>5
<1> QED BY <1>6 DEF q

(* next_multiple_of: the first multiple of WORD at or above n *)
LEMMA RoundedUp ==
  ASSUME NEW n \in Nat
  PROVE  /\ NextMultipleOf(n) \in Nat /\ n <= NextMultipleOf(n)
         /\ \E k \in Nat : NextMultipleOf(n) = k * WORD
<1> DEFINE k == (n + WORD - 1) \div WORD
<1>1. n + WORD - 1 \in Nat /\ WORD \in Nat /\ WORD > 0
  BY Sizes
<1>2. k \in Nat /\ k * WORD <= n + WORD - 1 /\ n + WORD - 1 < k * WORD + WORD
  BY <1>1, Quotient
<1>3. NextMultipleOf(n) = k * WORD
  BY DEF NextMultipleOf
<1> HIDE DEF k
<1>4. k * WORD \in Nat
  BY <1>1, <1>2
<1> QED BY <1>1, <1>2, <1>3, <1>4

(* Whole words from a multiple of WORD on are the frames between. *)
LEMMA WordsBetween ==
  ASSUME NEW k \in Nat, NEW e \in Nat, NEW f \in Frames
  PROVE  f \in WholeWords((k * WORD) \div WORD, e) <=> k * WORD <= f /\ f < e * WORD
<1>1. WORD \in Nat /\ WORD > 0 /\ f \in Nat
  BY Sizes DEF Frames
<1>2. (k * WORD) \div WORD = k
  <2> DEFINE q == (k * WORD) \div WORD
  <2>1. k * WORD \in Nat
    BY <1>1
  <2>2. q \in Nat /\ q * WORD <= k * WORD
    BY <1>1, <2>1, Quotient
  <2>3. k <= q
    BY <1>1, <2>1, Multiples
  <2>4. q <= k
    <3> HIDE DEF q
    <3> QED BY <1>1, <2>2, Products
  <2> HIDE DEF q
  <2>5. q = k
    BY <2>2, <2>3, <2>4
  <2> QED BY <2>5 DEF q
<1>3. f \div WORD \in Nat
  BY <1>1, Quotient
<1>4. k <= f \div WORD <=> k * WORD <= f
  BY <1>1, Multiples
<1>5. e <= f \div WORD <=> e * WORD <= f
  BY <1>1, Multiples
<1>6. f \in WholeWords(k, e) <=> k <= f \div WORD /\ ~(e <= f \div WORD)
  BY <1>3 DEF WholeWords, Interval
<1>7. e * WORD \in Nat
  BY <1>1
<1> QED BY <1>1, <1>2, <1>4, <1>5, <1>6, <1>7

(***************************************************************************)
(* The bits before the first whole word, the whole words and the bits after *)
(* the last one are the range, whichever of the three are empty.            *)
(***************************************************************************)
LEMMA RangeIsExact ==
  ASSUME NEW start \in 0 .. MAX_FRAMES, NEW end \in 0 .. MAX_FRAMES
  PROVE  RangeTouched(start, end) = Interval(start, end)
<1>1. /\ MAX_FRAMES \in Nat /\ start \in Nat /\ end \in Nat /\ end <= MAX_FRAMES
      /\ WORD \in Nat /\ WORD > 0
  BY Sizes
<1> DEFINE whole == NextMultipleOf(start)
           e == end \div WORD
<1>2. whole \in Nat /\ start <= whole
  BY <1>1, RoundedUp
<1>3. PICK k \in Nat : whole = k * WORD
  BY <1>1, RoundedUp
<1>4. e \in Nat /\ e * WORD <= end
  BY <1>1, Quotient
<1>5. e * WORD \in Nat
  BY <1>1, <1>4
<1> HIDE DEF whole, e
<1>6. RangeTouched(start, end) =
        {f \in Interval(start, end) : f < whole}
        \cup IF whole >= end THEN {}
             ELSE WholeWords(whole \div WORD, e) \cup Interval(e * WORD, end)
  BY DEF RangeTouched, whole, e
<1>7. CASE whole >= end
  BY <1>1, <1>2, <1>6, <1>7 DEF Interval
<1>8. CASE ~(whole >= end)
  <2>1. WholeWords(whole \div WORD, e) = {f \in Frames : whole <= f /\ f < e * WORD}
    <3>1. WholeWords(whole \div WORD, e) \subseteq Frames
      BY DEF WholeWords
    <3>2. \A f \in Frames : f \in WholeWords(whole \div WORD, e)
                            <=> whole <= f /\ f < e * WORD
      BY <1>3, <1>4, WordsBetween
    <3> QED BY <3>1, <3>2
  <2>2. whole <= e * WORD
    <3>1. k * WORD <= end
      BY <1>1, <1>2, <1>3, <1>8
    <3>2. k <= e
      BY <3>1, <1>1, Multiples DEF e
    <3> QED BY <3>2, <1>1, <1>3, <1>4, Products
  <2>3. RangeTouched(start, end) =
          {f \in Interval(start, end) : f < whole}
          \cup {f \in Frames : whole <= f /\ f < e * WORD} \cup Interval(e * WORD, end)
    BY <1>6, <1>8, <2>1
  <2> QED BY <2>2, <2>3, <1>1, <1>2, <1>4, <1>5 DEF Interval, Frames
<1> QED BY <1>7, <1>8

(* set_range and clear_range in terms of the range alone *)
LEMMA ExactRanges ==
  ASSUME NEW b, NEW start \in 0 .. MAX_FRAMES, NEW end \in 0 .. MAX_FRAMES
  PROVE  /\ SetRange(b, start, end) = b \cup Interval(start, end)
         /\ ClearRange(b, start, end) = b \ Interval(start, end)
BY RangeIsExact DEF SetRange, ClearRange

(***************************************************************************)
(* set_range and clear_range touch every frame of a range and no other, for *)
(* every word size: the partial word at either end, a range inside one word *)
(* and an empty range included.                                             *)
(***************************************************************************)
THEOREM RangesExact == Spec => []RangesAreExact
<1>1. RangesAreExact
  BY ExactRanges DEF RangesAreExact
<1> QED BY <1>1, PTL

-----------------------------------------------------------------------------
(* The inductive invariant *)

RunSet == [first : Nat, count : Nat \ {0}]
Apart(r, s) == FramesOf(r) \cap FramesOf(s) = {}

(* A run is in one place at a time, and there are finitely many. *)
RunsTyped ==
  /\ claimed \subseteq RunSet /\ owned \subseteq RunSet /\ returning \subseteq RunSet
  /\ IsFiniteSet(claimed) /\ IsFiniteSet(owned) /\ IsFiniteSet(returning)
  /\ claimed \cap owned = {} /\ claimed \cap returning = {} /\ owned \cap returning = {}

(***************************************************************************)
(* NoTwoOwners and BitmapAgrees need each other: a run is claimed where the *)
(* bitmap is clear, so a clear bit must be nobody's; and a bit is cleared   *)
(* when a run is given back, so its frame must have no other run.           *)
(***************************************************************************)
FrameInv ==
  /\ ramFrames \in 0 .. MAX_FRAMES
  /\ RunsTyped
  /\ \A r \in Runs : FramesOf(r) \subseteq Ram \ kept
  /\ \A r, s \in Runs : r # s => Apart(r, s)
  /\ kept \subseteq Ram
  /\ BitmapAgrees

(* A run has frames, as many as it counts. *)
LEMMA RunFacts ==
  ASSUME NEW r \in RunSet
  PROVE  /\ r.first \in FramesOf(r) /\ FramesOf(r) # {} /\ FramesOf(r) \subseteq Nat
         /\ IsFiniteSet(FramesOf(r)) /\ Cardinality(FramesOf(r)) = r.count
<1>1. r.first \in Nat /\ r.count \in Nat /\ r.count > 0
  BY DEF RunSet
<1> DEFINE last == (r.first + r.count) - 1
<1>2. FramesOf(r) = r.first .. last
  BY DEF FramesOf, Interval
<1>3. last \in Int /\ r.first \in Int /\ r.first <= last /\ (last - r.first) + 1 = r.count
  BY <1>1
<1> HIDE DEF last
<1>4. /\ IsFiniteSet(r.first .. last)
      /\ Cardinality(r.first .. last) = IF r.first > last THEN 0 ELSE (last - r.first) + 1
  BY <1>3, FS_Interval
<1> QED BY <1>1, <1>2, <1>3, <1>4

(* There are finitely many frames. *)
LEMMA FramesFinite == IsFiniteSet(Frames) /\ Frames \subseteq Nat
<1>1. 0 \in Int /\ MAX_FRAMES - 1 \in Int
  BY Sizes
<1> QED BY <1>1, FS_Interval, Sizes DEF Frames

(* The clear bits, when clear ones are set and when set ones are cleared *)
LEMMA ClearBits ==
  ASSUME NEW b, NEW T, T \subseteq Frames
  PROVE  /\ IsFiniteSet(T) /\ Cardinality(T) \in Nat
         /\ T \cap b = {} => Cardinality(Frames \ (b \cup T)) =
                                Cardinality(Frames \ b) - Cardinality(T)
         /\ T \subseteq b => Cardinality(Frames \ (b \ T)) =
                               Cardinality(Frames \ b) + Cardinality(T)
<1>1. IsFiniteSet(T) /\ Cardinality(T) \in Nat
  BY FramesFinite, FS_Subset, FS_CardinalityType
<1>2. IsFiniteSet(Frames \ b) /\ Cardinality(Frames \ b) \in Nat
  BY FramesFinite, FS_Difference, FS_CardinalityType
<1>3. ASSUME T \cap b = {}
      PROVE  Cardinality(Frames \ (b \cup T)) = Cardinality(Frames \ b) - Cardinality(T)
  <2>1. Frames \ (b \cup T) = (Frames \ b) \ T /\ (Frames \ b) \cap T = T
    BY <1>3
  <2>2. Cardinality((Frames \ b) \ T) =
          Cardinality(Frames \ b) - Cardinality((Frames \ b) \cap T)
    BY <1>2, FS_Difference
  <2> QED BY <2>1, <2>2
<1>4. ASSUME T \subseteq b
      PROVE  Cardinality(Frames \ (b \ T)) = Cardinality(Frames \ b) + Cardinality(T)
  <2>1. Frames \ (b \ T) = (Frames \ b) \cup T /\ (Frames \ b) \cap T = {}
    BY <1>4
  <2>2. Cardinality((Frames \ b) \cup T) =
          Cardinality(Frames \ b) + (Cardinality(T) - Cardinality((Frames \ b) \cap T))
    BY <1>1, <1>2, FS_Union
  <2>3. Cardinality({}) = 0
    BY FS_EmptySet
  <2>4. Cardinality(Frames \ (b \ T)) = Cardinality(Frames \ b) + (Cardinality(T) - 0)
    BY <2>1, <2>2, <2>3
  <2> QED BY <1>1, <1>2, <2>4
<1> QED BY <1>1, <1>3, <1>4

(* The invariant, frame by frame and run by run *)
LEMMA Parts ==
  ASSUME FrameInv
  PROVE  /\ ramFrames \in Nat /\ ramFrames <= MAX_FRAMES /\ Ram \subseteq Frames
         /\ Runs \subseteq RunSet /\ IsFiniteSet(Runs)
         /\ bits \subseteq Frames /\ kept \subseteq bits /\ Taken \subseteq bits
         /\ bits = kept \cup Taken \cup (Frames \ Ram)
         /\ free \in Nat /\ reserved \in Nat /\ IsFiniteSet(kept)
<1>1. ramFrames \in Nat /\ ramFrames <= MAX_FRAMES /\ Ram \subseteq Frames
  BY Sizes DEF FrameInv, Ram, Frames
<1>2. Runs \subseteq RunSet
  BY DEF FrameInv, RunsTyped, Runs
<1>3. IsFiniteSet(Runs)
  <2>1. IsFiniteSet(claimed \cup owned)
    BY FS_Union DEF FrameInv, RunsTyped
  <2> QED BY <2>1, FS_Union DEF FrameInv, RunsTyped, Runs
<1>4. bits = kept \cup Taken \cup (Frames \ Ram)
  BY DEF FrameInv, BitmapAgrees
<1>5. kept \subseteq Ram /\ Taken \subseteq Ram
  BY DEF FrameInv, Taken
<1>6. IsFiniteSet(kept) /\ IsFiniteSet(Frames \ bits)
  BY <1>1, <1>5, FramesFinite, FS_Subset, FS_Difference
<1>7. free \in Nat /\ reserved \in Nat
  BY <1>6, FS_CardinalityType DEF FrameInv, BitmapAgrees
<1> QED BY <1>1, <1>2, <1>3, <1>4, <1>5, <1>6, <1>7

(* A run in no other run's frames is none of them. *)
LEMMA NewRun ==
  ASSUME FrameInv, NEW r \in RunSet, FramesOf(r) \cap Taken = {}
  PROVE  r \notin Runs /\ \A s \in Runs : Apart(r, s)
<1>1. FramesOf(r) # {}
  BY RunFacts
<1> QED BY <1>1 DEF Taken, Apart

(***************************************************************************)
(* alloc and alloc_contiguous: frames whose bits are clear are nobody's.    *)
(***************************************************************************)
LEMMA ClaimKeeps ==
  ASSUME FrameInv, NEW r \in RunSet, FramesOf(r) \subseteq Ram, FramesOf(r) \cap bits = {},
         Claim(r)
  PROVE  FrameInv'
<1>1. /\ bits' = bits \cup FramesOf(r) /\ free' = free - r.count
      /\ claimed' = claimed \cup {r} /\ owned' = owned /\ returning' = returning
      /\ reserved' = reserved /\ ramFrames' = ramFrames /\ kept' = kept
  BY DEF Claim
<1>2. r \notin Runs /\ \A s \in Runs : Apart(r, s)
  BY Parts, NewRun
<1>3. Runs' = Runs \cup {r} /\ Ram' = Ram
  BY <1>1 DEF Runs, Ram
<1>4. RunsTyped'
  <2>1. IsFiniteSet(claimed \cup {r})
    BY FS_AddElement DEF FrameInv, RunsTyped
  <2> QED BY <1>1, <1>2, <2>1 DEF FrameInv, RunsTyped, Runs
<1>5. \A s \in Runs' : FramesOf(s) \subseteq Ram' \ kept'
  BY <1>1, <1>3, Parts DEF FrameInv
<1>6. \A s, t \in Runs' : s # t => Apart(s, t)
  BY <1>2, <1>3 DEF FrameInv, Apart
<1>7. Taken' = Taken \cup FramesOf(r)
  BY <1>3 DEF Taken
<1>8. BitmapAgrees'
  <2>1. bits' = kept' \cup Taken' \cup (Frames \ Ram')
    BY <1>1, <1>3, <1>7, Parts
  <2>2. free' = Cardinality(Frames \ bits')
    <3>1. FramesOf(r) \subseteq Frames /\ Cardinality(FramesOf(r)) = r.count
      BY Parts, RunFacts
    <3>2. Cardinality(Frames \ (bits \cup FramesOf(r))) =
            Cardinality(Frames \ bits) - Cardinality(FramesOf(r))
      BY <3>1, ClearBits
    <3>3. free = Cardinality(Frames \ bits)
      BY DEF FrameInv, BitmapAgrees
    <3> QED BY <1>1, <3>1, <3>2, <3>3
  <2>3. reserved' = Cardinality(kept')
    BY <1>1 DEF FrameInv, BitmapAgrees
  <2> QED BY <2>1, <2>2, <2>3 DEF BitmapAgrees
<1> QED BY <1>1, <1>3, <1>4, <1>5, <1>6, <1>8 DEF FrameInv, Apart

(* A nonempty set of naturals has a least element. *)
LEMMA Smallest ==
  ASSUME NEW T \in SUBSET Nat, T # {}
  PROVE  \E n \in T : \A m \in T : n <= m
<1> DEFINE R == OpToRel(<, Nat)
<1>1. IsWellFoundedOn(R, Nat)
  BY NatLessThanWellFounded
<1>2. PICK x \in T : \A y \in T : ~ (<<y, x>> \in R)
  <2> HIDE DEF R
  <2> QED BY <1>1, WFMin
<1>3. ASSUME NEW y \in T PROVE x <= y
  <2>1. <<y, x>> \notin {ss \in Nat \X Nat : ss[1] < ss[2]}
    BY <1>2 DEF OpToRel
  <2> QED BY <2>1
<1> QED BY <1>3

(* first_clear finds a frame of RAM that is nobody's whenever there is one. *)
LEMMA AllocKeeps ==
  ASSUME FrameInv, Alloc
  PROVE  FrameInv'
<1>1. Clear \in SUBSET Nat /\ Clear # {}
  BY FramesFinite DEF Alloc, Clear
<1>2. FirstClear \in Clear
  <2>1. \E f \in Clear : \A g \in Clear : f <= g
    BY <1>1, Smallest
  <2> QED BY <2>1 DEF FirstClear
<1> DEFINE r == Run(FirstClear, 1)
<1>3. FirstClear \in Frames /\ FirstClear \in Nat /\ FirstClear \notin bits
  BY <1>2, FramesFinite DEF Clear
<1>4. r.first = FirstClear /\ r.count = 1 /\ r \in RunSet
  BY <1>3 DEF Run, RunSet
<1> HIDE DEF r
<1>5. FramesOf(r) = {FirstClear}
  BY <1>3, <1>4 DEF FramesOf, Interval
<1>6. FirstClear \in Ram
  BY <1>3, Parts
<1>7. Claim(r)
  BY DEF Alloc, r
<1> QED BY <1>3, <1>4, <1>5, <1>6, <1>7, ClaimKeeps

(* alloc_contiguous finds a run of RAM that is nobody's whenever there is one. *)
LEMMA AllocContiguousKeeps ==
  ASSUME FrameInv, NEW count \in Nat, count > 0, AllocContiguous(count)
  PROVE  FrameInv'
<1>1. ContiguousFits(count) \in SUBSET Nat /\ ContiguousFits(count) # {}
  BY Parts DEF AllocContiguous, ContiguousFits, Ram
<1>2. FirstFit(count) \in ContiguousFits(count)
  <2>1. \E f \in ContiguousFits(count) : \A g \in ContiguousFits(count) : f <= g
    <3> HIDE DEF ContiguousFits
    <3> QED BY <1>1, Smallest
  <2> QED BY <2>1 DEF FirstFit
<1> DEFINE f == FirstFit(count)
           r == Run(f, count)
<1>3. /\ f \in Nat /\ f + count <= ramFrames /\ Interval(f, f + count) \cap bits = {}
  BY <1>2, Parts DEF ContiguousFits, Ram
<1> HIDE DEF f
<1>4. r.first = f /\ r.count = count /\ r \in RunSet
  BY <1>3 DEF Run, RunSet
<1> HIDE DEF r
<1>5. FramesOf(r) = Interval(f, f + count)
  BY <1>4 DEF FramesOf
<1>6. FramesOf(r) \subseteq Ram
  BY <1>3, <1>5, Parts DEF Interval, Ram
<1>7. Claim(r)
  BY DEF AllocContiguous, f, r
<1> QED BY <1>3, <1>4, <1>5, <1>6, <1>7, ClaimKeeps

(* What is in which hands may change without a frame changing owner. *)
LEMMA SameRunsKeep ==
  ASSUME FrameInv, Runs' = Runs, RunsTyped',
         UNCHANGED <<bits, free, reserved, ramFrames, kept>>
  PROVE  FrameInv'
<1>1. Ram' = Ram
  BY DEF Ram
<1>2. Taken' = Taken
  BY DEF Taken
<1> QED BY <1>1, <1>2 DEF FrameInv, BitmapAgrees

(* A run passes from its allocation to its owner, and from there to free. *)
LEMMA HandOnKeeps ==
  ASSUME FrameInv, NEW r \in Runs, ZeroNext(r) \/ Return(r) \/ Scribble(r) \/ GiveBack(r)
  PROVE  FrameInv'
<1>1. /\ UNCHANGED <<bits, free, reserved, ramFrames, kept>>
  BY DEF ZeroNext, Return, Scribble, GiveBack
<1>2. CASE Return(r)
  <2>1. Runs' = Runs
    BY <1>2 DEF Return, Runs
  <2>2. IsFiniteSet(claimed \ {r}) /\ IsFiniteSet(owned \cup {r})
    BY FS_AddElement, FS_RemoveElement DEF FrameInv, RunsTyped
  <2>3. RunsTyped'
    BY <1>2, <2>2 DEF Return, FrameInv, RunsTyped
  <2> QED BY <1>1, <2>1, <2>3, SameRunsKeep
<1>3. CASE GiveBack(r)
  <2>1. Runs' = Runs
    BY <1>3 DEF GiveBack, Runs
  <2>2. IsFiniteSet(owned \ {r}) /\ IsFiniteSet(returning \cup {r})
    BY FS_AddElement, FS_RemoveElement DEF FrameInv, RunsTyped
  <2>3. RunsTyped'
    BY <1>3, <2>2 DEF GiveBack, FrameInv, RunsTyped
  <2> QED BY <1>1, <2>1, <2>3, SameRunsKeep
<1>4. CASE ZeroNext(r) \/ Scribble(r)
  <2>1. UNCHANGED <<claimed, owned, returning>>
    BY <1>4 DEF ZeroNext, Scribble
  <2> QED BY <1>1, <2>1, SameRunsKeep DEF Runs, FrameInv, RunsTyped
<1> QED BY <1>2, <1>3, <1>4

(***************************************************************************)
(* free: the frame given back leaves its run, and is in no other.           *)
(***************************************************************************)
LEMMA FreeKeeps ==
  ASSUME FrameInv, NEW r \in Runs, Free(r)
  PROVE  FrameInv'
<1> DEFINE rest == IF r.count = 1 THEN {} ELSE {Run(r.first + 1, r.count - 1)}
<1>1. /\ r \in returning /\ bits' = bits \ {r.first} /\ free' = free + 1
      /\ returning' = (returning \ {r}) \cup rest
      /\ claimed' = claimed /\ owned' = owned
      /\ reserved' = reserved /\ ramFrames' = ramFrames /\ kept' = kept
  BY DEF Free
<1>2. r \in RunSet /\ r.first \in Nat /\ r.count \in Nat /\ r.count > 0
  BY Parts DEF RunSet
<1>3. /\ rest \subseteq RunSet /\ IsFiniteSet(rest)
      /\ UNION {FramesOf(s) : s \in rest} = FramesOf(r) \ {r.first}
      /\ \A s, t \in rest : s = t
  <2>1. CASE r.count = 1
    <3>1. rest = {}
      BY <2>1
    <3>2. FramesOf(r) \ {r.first} = {}
      BY <1>2, <2>1 DEF FramesOf, Interval
    <3> QED BY <3>1, <3>2, FS_EmptySet
  <2>2. CASE r.count # 1
    <3> DEFINE s == Run(r.first + 1, r.count - 1)
    <3>1. s \in RunSet /\ s.first = r.first + 1 /\ s.count = r.count - 1
      BY <1>2, <2>2 DEF Run, RunSet
    <3>2. rest = {s}
      BY <2>2
    <3> HIDE DEF s, rest
    <3>3. FramesOf(s) = FramesOf(r) \ {r.first}
      BY <1>2, <3>1 DEF FramesOf, Interval
    <3>4. IsFiniteSet({s})
      BY FS_Singleton
    <3> QED BY <3>1, <3>2, <3>3, <3>4
  <2> QED BY <2>1, <2>2
<1> HIDE DEF rest
<1>4. \A s \in rest : FramesOf(s) \subseteq FramesOf(r)
  BY <1>3
<1>5. \A s \in rest : s \notin Runs \ {r}
  <2> SUFFICES ASSUME NEW s \in rest, s \in Runs \ {r} PROVE FALSE
    OBVIOUS
  <2>1. FramesOf(s) # {}
    BY <1>3, RunFacts
  <2>2. Apart(r, s)
    BY DEF FrameInv
  <2> QED BY <1>4, <2>1, <2>2 DEF Apart
<1>6. r \notin claimed /\ r \notin owned
  BY <1>1 DEF FrameInv, RunsTyped
<1>7. Runs' = (Runs \ {r}) \cup rest /\ Ram' = Ram
  BY <1>1, <1>6 DEF Runs, Ram
<1>8. RunsTyped'
  <2>1. IsFiniteSet((returning \ {r}) \cup rest)
    <3>1. IsFiniteSet(returning \ {r})
      BY FS_RemoveElement DEF FrameInv, RunsTyped
    <3> QED BY <1>3, <3>1, FS_Union
  <2>2. rest \cap claimed = {} /\ rest \cap owned = {}
    BY <1>5, <1>6 DEF Runs
  <2> QED BY <1>1, <1>3, <2>1, <2>2 DEF FrameInv, RunsTyped
<1>9. \A s \in Runs' : FramesOf(s) \subseteq Ram' \ kept'
  BY <1>1, <1>4, <1>7 DEF FrameInv
<1>10. \A s, t \in Runs' : s # t => Apart(s, t)
  BY <1>3, <1>4, <1>7 DEF FrameInv, Apart
<1>11. r.first \in FramesOf(r) /\ FramesOf(r) \subseteq Ram \ kept
  BY <1>2, RunFacts DEF FrameInv
<1>12. Taken' = Taken \ {r.first}
  <2>1. Taken' = (UNION {FramesOf(s) : s \in Runs \ {r}}) \cup (FramesOf(r) \ {r.first})
    BY <1>3, <1>7 DEF Taken
  <2>2. \A s \in Runs \ {r} : r.first \notin FramesOf(s)
    BY <1>11 DEF FrameInv, Apart
  <2>3. Taken = (UNION {FramesOf(s) : s \in Runs \ {r}}) \cup FramesOf(r)
    BY DEF Taken
  <2> QED BY <2>1, <2>2, <2>3
<1>13. BitmapAgrees'
  <2>1. bits' = kept' \cup Taken' \cup (Frames \ Ram')
    BY <1>1, <1>7, <1>11, <1>12, Parts
  <2>2. free' = Cardinality(Frames \ bits')
    <3>1. {r.first} \subseteq Frames /\ {r.first} \subseteq bits
      BY <1>11, Parts DEF Taken
    <3>2. Cardinality(Frames \ (bits \ {r.first})) =
            Cardinality(Frames \ bits) + Cardinality({r.first})
      BY <3>1, ClearBits
    <3>3. Cardinality({r.first}) = 1
      BY FS_Singleton
    <3>4. free = Cardinality(Frames \ bits)
      BY DEF FrameInv, BitmapAgrees
    <3> QED BY <1>1, <3>2, <3>3, <3>4
  <2>3. reserved' = Cardinality(kept')
    BY <1>1 DEF FrameInv, BitmapAgrees
  <2> QED BY <2>1, <2>2, <2>3 DEF BitmapAgrees
<1> QED BY <1>1, <1>7, <1>8, <1>9, <1>10, <1>13 DEF FrameInv, Apart

(* The memory map may move the end of RAM past nobody's frames. *)
LEMMA MovedEnd ==
  ASSUME FrameInv, NEW new \in 0 .. MAX_FRAMES, ramFrames' = new,
         Interval(new, ramFrames) \cap (kept \cup Taken) = {},
         UNCHANGED <<kept, reserved, claimed, owned, returning>>,
         bits' = kept \cup Taken \cup (Frames \ Interval(0, new)),
         free' = Cardinality(Frames \ bits')
  PROVE  FrameInv'
<1>1. Ram' = Interval(0, new) /\ Ram = Interval(0, ramFrames)
  BY DEF Ram, Interval
<1>2. Runs' = Runs /\ Taken' = Taken
  BY DEF Runs, Taken
<1>3. kept \subseteq Ram /\ Taken \subseteq Ram
  BY DEF FrameInv, Taken
<1>4. \A f \in Ram : f \notin Interval(new, ramFrames) => f \in Ram'
  BY <1>1, Parts, Sizes DEF Interval
<1>5. kept \subseteq Ram' /\ Taken \subseteq Ram'
  BY <1>3, <1>4
<1>6. \A r \in Runs' : FramesOf(r) \subseteq Ram' \ kept'
  BY <1>2, <1>5 DEF FrameInv, Taken
<1>7. BitmapAgrees'
  BY <1>1, <1>2 DEF FrameInv, BitmapAgrees
<1> QED BY <1>2, <1>5, <1>6, <1>7 DEF FrameInv, RunsTyped, Apart

(* How many frames a range has *)
LEMMA RangeSize ==
  ASSUME NEW a \in Nat, NEW b \in Nat, a <= b
  PROVE  Cardinality(Interval(a, b)) = b - a
<1>1. a \in Int /\ b - 1 \in Int
  OBVIOUS
<1>2. Cardinality(a .. (b - 1)) = IF a > b - 1 THEN 0 ELSE ((b - 1) - a) + 1
  BY <1>1, FS_Interval
<1> QED BY <1>2 DEF Interval

(* adopt clears the bits of the memory the guess left out. *)
LEMMA GrowKeeps ==
  ASSUME FrameInv, NEW new \in 0 .. MAX_FRAMES, Grow(new)
  PROVE  FrameInv'
<1> DEFINE more == Interval(ramFrames, new)
<1>1. /\ new > ramFrames /\ bits' = ClearRange(bits, ramFrames, new)
      /\ free' = free + (new - ramFrames) /\ ramFrames' = new
      /\ UNCHANGED <<kept, reserved, claimed, owned, returning>>
  BY DEF Grow
<1>2. bits' = bits \ more
  <2>1. ramFrames \in 0 .. MAX_FRAMES
    BY DEF FrameInv
  <2> QED BY <1>1, <2>1, ExactRanges
<1>3. ramFrames \in Nat /\ new \in Nat /\ new <= MAX_FRAMES /\ MAX_FRAMES \in Nat
  BY Parts, Sizes
<1>4. /\ more \subseteq Frames \ Ram /\ Interval(new, ramFrames) = {}
      /\ (Frames \ Ram) \ more = Frames \ Interval(0, new)
  BY <1>1, <1>3 DEF Interval, Frames, Ram
<1>5. kept \subseteq Ram /\ Taken \subseteq Ram
  BY DEF FrameInv, Taken
<1>6. bits' = kept \cup Taken \cup (Frames \ Interval(0, new))
  BY <1>2, <1>4, <1>5, Parts
<1>7. free' = Cardinality(Frames \ bits')
  <2>1. more \subseteq Frames /\ more \subseteq bits
    BY <1>4, Parts
  <2>2. Cardinality(Frames \ (bits \ more)) = Cardinality(Frames \ bits) + Cardinality(more)
    <3> HIDE DEF more
    <3> QED BY <2>1, ClearBits
  <2>3. Cardinality(more) = new - ramFrames
    BY <1>1, <1>3, RangeSize
  <2>4. free = Cardinality(Frames \ bits)
    BY DEF FrameInv, BitmapAgrees
  <2> QED BY <1>1, <1>2, <2>2, <2>3, <2>4
<1> QED BY <1>1, <1>4, <1>6, <1>7, MovedEnd

(* adopt sets the bits of memory that is not there, once it knows them clear. *)
LEMMA ShrinkKeeps ==
  ASSUME FrameInv, NEW new \in 0 .. MAX_FRAMES, Shrink(new)
  PROVE  FrameInv'
<1> DEFINE less == Interval(new, ramFrames)
<1>1. /\ new <= ramFrames /\ less \cap bits = {} /\ bits' = SetRange(bits, new, ramFrames)
      /\ free' = free - (ramFrames - new) /\ ramFrames' = new
      /\ UNCHANGED <<kept, reserved, claimed, owned, returning>>
  BY DEF Shrink
<1>2. bits' = bits \cup less
  <2>1. ramFrames \in 0 .. MAX_FRAMES
    BY DEF FrameInv
  <2> QED BY <1>1, <2>1, ExactRanges
<1>3. ramFrames \in Nat /\ new \in Nat /\ ramFrames <= MAX_FRAMES /\ MAX_FRAMES \in Nat
  BY Parts, Sizes
<1>4. less \subseteq Frames /\ (Frames \ Ram) \cup less = Frames \ Interval(0, new)
  BY <1>1, <1>3 DEF Interval, Frames, Ram
<1>5. bits' = kept \cup Taken \cup (Frames \ Interval(0, new))
  BY <1>2, <1>4, Parts
<1>6. less \cap (kept \cup Taken) = {}
  BY <1>1, Parts
<1>7. free' = Cardinality(Frames \ bits')
  <2>1. Cardinality(Frames \ (bits \cup less)) = Cardinality(Frames \ bits) - Cardinality(less)
    <3> HIDE DEF less
    <3> QED BY <1>1, <1>4, ClearBits
  <2>2. Cardinality(less) = ramFrames - new
    BY <1>1, <1>3, RangeSize
  <2>3. free = Cardinality(Frames \ bits)
    BY DEF FrameInv, BitmapAgrees
  <2> QED BY <1>1, <1>2, <2>1, <2>2, <2>3
<1> QED BY <1>1, <1>5, <1>6, <1>7, MovedEnd

(* A call that is refused changes nothing but its result. *)
LEMMA RefuseKeeps ==
  ASSUME FrameInv, NEW why, Refuse(why)
  PROVE  FrameInv'
<1>1. UNCHANGED <<bits, free, reserved, ramFrames, kept, claimed, owned, returning>>
  BY DEF Refuse
<1>2. Runs' = Runs
  BY <1>1 DEF Runs
<1>3. RunsTyped'
  BY <1>1 DEF FrameInv, RunsTyped
<1> QED BY <1>1, <1>2, <1>3, SameRunsKeep

(* adopt, whatever the tree reports *)
LEMMA AdoptKeeps ==
  ASSUME FrameInv, NEW base \in Nat, NEW size \in Nat, Adopt(base, size)
  PROVE  FrameInv'
<1> DEFINE new == Truncated(size)
<1>1. new \in 0 .. MAX_FRAMES
  <2>1. size \div FRAME_SIZE \in Nat
    BY Sizes, Quotient
  <2> QED BY <2>1, Sizes DEF Truncated
<1>2. AdoptElsewhere(base) \/ Grow(new) \/ Shrink(new) \/ ShrinkRefused(new)
  BY DEF Adopt
<1> HIDE DEF new
<1> QED BY <1>1, <1>2, GrowKeeps, ShrinkKeeps, RefuseKeeps DEF AdoptElsewhere, ShrinkRefused

(* reserve_range takes frames of RAM that are nobody's. *)
LEMMA ReserveKeeps ==
  ASSUME FrameInv, NEW want, want \subseteq Ram, Reserve(want)
  PROVE  FrameInv'
<1>1. /\ want \cap bits = {} /\ bits' = bits \cup want /\ kept' = kept \cup want
      /\ reserved' = reserved + Cardinality(want) /\ free' = free - Cardinality(want)
      /\ UNCHANGED <<ramFrames, claimed, owned, returning>>
  BY DEF Reserve
<1>2. Runs' = Runs /\ Taken' = Taken /\ Ram' = Ram
  BY <1>1 DEF Runs, Taken, Ram
<1>3. want \cap kept = {} /\ want \cap Taken = {} /\ want \subseteq Frames
  BY <1>1, Parts
<1>4. \A r \in Runs' : FramesOf(r) \subseteq Ram' \ kept'
  BY <1>1, <1>2, <1>3 DEF FrameInv, Taken
<1>5. BitmapAgrees'
  <2>1. bits' = kept' \cup Taken' \cup (Frames \ Ram')
    BY <1>1, <1>2, Parts
  <2>2. free' = Cardinality(Frames \ bits')
    <3>1. Cardinality(Frames \ (bits \cup want)) = Cardinality(Frames \ bits) - Cardinality(want)
      BY <1>1, <1>3, ClearBits
    <3>2. free = Cardinality(Frames \ bits)
      BY DEF FrameInv, BitmapAgrees
    <3> QED BY <1>1, <3>1, <3>2
  <2>3. reserved' = Cardinality(kept')
    <3>1. IsFiniteSet(want) /\ Cardinality(want) \in Nat
      BY <1>3, ClearBits
    <3>2. IsFiniteSet(kept) /\ reserved \in Nat
      BY Parts
    <3>3. kept \cap want = {} /\ Cardinality({}) = 0
      BY <1>3, FS_EmptySet
    <3>4. Cardinality(kept \cup want) =
            Cardinality(kept) + (Cardinality(want) - Cardinality(kept \cap want))
      BY <3>1, <3>2, FS_Union
    <3>5. Cardinality(kept \cup want) = reserved + (Cardinality(want) - 0)
      BY <3>3, <3>4 DEF FrameInv, BitmapAgrees
    <3> QED BY <1>1, <3>1, <3>2, <3>5
  <2> QED BY <2>1, <2>2, <2>3 DEF BitmapAgrees
<1>6. kept' \subseteq Ram'
  BY <1>1, <1>2 DEF FrameInv
<1> QED BY <1>1, <1>2, <1>4, <1>5, <1>6 DEF FrameInv, RunsTyped, Apart

(* A range that passes the checks of reserve_range, rounded outwards, is in RAM. *)
LEMMA WantedInRam ==
  ASSUME FrameInv, NEW base \in Nat, NEW len \in Nat, ~OutsideRam(base, len)
  PROVE  Wanted(base, len) \subseteq Ram
<1> DEFINE top == base + len + FRAME_SIZE - 1
           q == base \div FRAME_SIZE
           p == (base + len + FRAME_SIZE - 1) \div FRAME_SIZE
           from == StartOf(base)
           to == EndOf(base, len)
<1>1. FRAME_SIZE \in Nat /\ FRAME_SIZE > 0 /\ RAM_BASE \in Nat /\ ramFrames \in Nat
  BY Sizes, Parts
<1>2. q \in Nat /\ q * FRAME_SIZE <= base
  BY <1>1, Quotient
<1>3. top \in Nat
  BY <1>1
<1>4. p \in Nat /\ p * FRAME_SIZE <= top /\ top < p * FRAME_SIZE + FRAME_SIZE
  BY <1>1, <1>3, Quotient
<1>5. from = q * FRAME_SIZE /\ to = p * FRAME_SIZE
  BY DEF StartOf, EndOf
<1>6. q * FRAME_SIZE \in Nat /\ p * FRAME_SIZE \in Nat
  BY <1>1, <1>2, <1>4
<1>7. base + len <= to
  <2>1. base + len + FRAME_SIZE - 1 < p * FRAME_SIZE + FRAME_SIZE
    BY <1>4
  <2> HIDE DEF p, to, top
  <2> QED BY <1>1, <1>5, <1>6, <2>1
<1>8. ~(from < RAM_BASE) /\ ~(to > RAM_BASE + ramFrames * FRAME_SIZE)
  BY DEF OutsideRam
<1> HIDE DEF top, q, p, from, to
<1>9. ramFrames * FRAME_SIZE \in Nat
  BY <1>1
<1>10. /\ from - RAM_BASE \in Nat /\ to - RAM_BASE \in Nat
       /\ to - RAM_BASE <= ramFrames * FRAME_SIZE
  BY <1>1, <1>2, <1>5, <1>6, <1>7, <1>8, <1>9
<1> DEFINE s == (from - RAM_BASE) \div FRAME_SIZE
           e == (to - RAM_BASE) \div FRAME_SIZE
<1>11. s \in Nat /\ e \in Nat /\ e * FRAME_SIZE <= to - RAM_BASE
  BY <1>1, <1>10, Quotient
<1>12. Wanted(base, len) = Interval(s, e)
  BY DEF Wanted, from, to
<1> HIDE DEF s, e
<1>13. e * FRAME_SIZE \in Nat
  BY <1>1, <1>11
<1>14. e * FRAME_SIZE <= ramFrames * FRAME_SIZE
  BY <1>9, <1>10, <1>11, <1>13
<1>15. e <= ramFrames
  BY <1>1, <1>11, <1>14, Products
<1> QED BY <1>1, <1>11, <1>12, <1>15 DEF Interval, Ram

(* reserve_range, whatever region the tree lists *)
LEMMA ReserveRangeKeeps ==
  ASSUME FrameInv, NEW base \in Nat, NEW len \in Nat, ReserveRange(base, len)
  PROVE  FrameInv'
<1>1. CASE Refuse("panic") \/ Refuse("OutsideRam") \/ Refuse("AlreadyTaken")
  BY <1>1, RefuseKeeps
<1>2. CASE ~OutsideRam(base, len) /\ Reserve(Wanted(base, len))
  BY <1>2, WantedInRam, ReserveKeeps
<1> QED BY <1>1, <1>2 DEF ReserveRange, RefuseTaken

(* init: only the image is taken, and everything past the guess. *)
LEMMA FrameInvInit ==
  ASSUME Init
  PROVE  FrameInv
<1> DEFINE image == Interval(0, IMAGE_FRAMES)
           past == Interval(GUESS, MAX_FRAMES)
<1>1. /\ bits = SetRange(SetRange({}, 0, IMAGE_FRAMES), GUESS, MAX_FRAMES)
      /\ free = GUESS - IMAGE_FRAMES /\ reserved = IMAGE_FRAMES /\ ramFrames = GUESS
      /\ kept = image /\ claimed = {} /\ owned = {} /\ returning = {}
  BY DEF Init
<1>2. /\ 0 \in 0 .. MAX_FRAMES /\ IMAGE_FRAMES \in 0 .. MAX_FRAMES
      /\ GUESS \in 0 .. MAX_FRAMES /\ MAX_FRAMES \in 0 .. MAX_FRAMES
  BY Sizes
<1>3. bits = image \cup past
  <2>1. SetRange({}, 0, IMAGE_FRAMES) = {} \cup image
    <3>1. RangeTouched(0, IMAGE_FRAMES) = image
      BY <1>2, RangeIsExact, Zenon
    <3> QED BY <3>1 DEF SetRange
  <2>2. {} \cup image = image
    OBVIOUS
  <2>3. \A b : SetRange(b, GUESS, MAX_FRAMES) = b \cup past
    <3>1. RangeTouched(GUESS, MAX_FRAMES) = past
      BY <1>2, RangeIsExact, Zenon
    <3> QED BY <3>1 DEF SetRange
  <2> QED BY <1>1, <2>1, <2>2, <2>3
<1>4. image \subseteq Ram /\ Frames \ Ram = past
  BY <1>1, Sizes DEF Interval, Ram, Frames
<1>5. Runs = {} /\ Taken = {}
  BY <1>1 DEF Runs, Taken
<1>6. BitmapAgrees
  <2>1. bits = kept \cup Taken \cup (Frames \ Ram)
    BY <1>1, <1>3, <1>4, <1>5
  <2>2. Frames \ bits = Interval(IMAGE_FRAMES, GUESS)
    BY <1>3, Sizes DEF Interval, Frames
  <2>3. Cardinality(Interval(IMAGE_FRAMES, GUESS)) = GUESS - IMAGE_FRAMES
    BY Sizes, RangeSize
  <2>4. Cardinality(Interval(0, IMAGE_FRAMES)) = IMAGE_FRAMES - 0
    BY Sizes, RangeSize
  <2>5. reserved = Cardinality(kept)
    BY <1>1, <2>4, Sizes
  <2> QED BY <1>1, <2>1, <2>2, <2>3, <2>5 DEF BitmapAgrees
<1>7. RunsTyped
  BY <1>1, FS_EmptySet DEF RunsTyped
<1> QED BY <1>1, <1>2, <1>4, <1>5, <1>6, <1>7 DEF FrameInv

(* Every call of the allocator keeps the invariant. *)
LEMMA FrameInvStep ==
  ASSUME FrameInv, [Next]_frameVars
  PROVE  FrameInv'
<1>1. CASE Alloc
  BY <1>1, AllocKeeps
<1>2. CASE AllocContiguous(STACK_FRAMES)
  BY <1>2, AllocContiguousKeeps, Sizes
<1>3. CASE \E r \in Runs : ZeroNext(r) \/ Return(r) \/ Scribble(r) \/ GiveBack(r) \/ Free(r)
  BY <1>3, HandOnKeeps, FreeKeeps
<1>4. CASE AdoptMap
  <2>1. PICK m \in Maps : Adopt(m[1], m[2])
    BY <1>4 DEF AdoptMap
  <2>2. m[1] \in Nat /\ m[2] \in Nat
    BY FrameAssumption
  <2> QED BY <2>1, <2>2, AdoptKeeps
<1>5. CASE ReserveRegions
  <2>1. PICK g \in Regions : ReserveRange(g[1], g[2])
    BY <1>5 DEF ReserveRegions
  <2>2. g[1] \in Nat /\ g[2] \in Nat
    BY FrameAssumption
  <2> QED BY <2>1, <2>2, ReserveRangeKeeps
<1>6. CASE UNCHANGED frameVars
  BY <1>6, SameRunsKeep DEF frameVars, Runs, FrameInv, RunsTyped
<1> QED BY <1>1, <1>2, <1>3, <1>4, <1>5, <1>6 DEF Next, Halted

(* The inductive invariant holds in every behaviour. *)
LEMMA FrameInvAlways == Spec => []FrameInv
<1>1. Init => FrameInv
  BY FrameInvInit
<1>2. FrameInv /\ [Next]_frameVars => FrameInv'
  BY FrameInvStep
<1> QED BY <1>1, <1>2, PTL DEF Spec

(* A run is counted once, whichever hands it is in. *)
LEMMA RunsCounted ==
  ASSUME RunsTyped
  PROVE  Cardinality(Runs) = Cardinality(claimed) + Cardinality(owned) + Cardinality(returning)
<1> DEFINE held == claimed \cup owned
<1>1. /\ Cardinality(claimed) \in Nat /\ Cardinality(owned) \in Nat
      /\ Cardinality(returning) \in Nat
  BY FS_CardinalityType DEF RunsTyped
<1>2. Cardinality({}) = 0
  BY FS_EmptySet
<1>3. /\ IsFiniteSet(held)
      /\ Cardinality(held) =
           Cardinality(claimed) + (Cardinality(owned) - Cardinality(claimed \cap owned))
  BY FS_Union DEF RunsTyped
<1>4. Cardinality(held) = Cardinality(claimed) + Cardinality(owned)
  <2>1. claimed \cap owned = {}
    BY DEF RunsTyped
  <2>2. Cardinality(held) = Cardinality(claimed) + (Cardinality(owned) - 0)
    BY <1>2, <1>3, <2>1
  <2> QED BY <1>1, <2>2
<1>5. held \cap returning = {} /\ Runs = held \cup returning
  BY DEF RunsTyped, Runs
<1> HIDE DEF held
<1>6. Cardinality(held \cup returning) =
        Cardinality(held) + (Cardinality(returning) - Cardinality(held \cap returning))
  BY <1>3, FS_Union DEF RunsTyped
<1>7. Cardinality(Runs) = Cardinality(held) + (Cardinality(returning) - 0)
  BY <1>2, <1>5, <1>6
<1> QED BY <1>1, <1>4, <1>7

(***************************************************************************)
(* No frame ever has two owners: alloc, alloc_contiguous, free_contiguous   *)
(* frame by frame, adopt and reserve_range, interleaved in any order, keep  *)
(* the runs disjoint, in RAM and away from everything reserved.             *)
(***************************************************************************)
THEOREM OneOwner == Spec => []NoTwoOwners
<1>1. FrameInv => NoTwoOwners
  BY RunsCounted DEF FrameInv, NoTwoOwners, Apart
<1> QED BY <1>1, FrameInvAlways, PTL

(***************************************************************************)
(* The bitmap says exactly who is taken and the two counters agree with it, *)
(* across every grown, shrunk or refused memory map.                        *)
(***************************************************************************)
THEOREM BitmapExact == Spec => []BitmapAgrees
<1>1. FrameInv => BitmapAgrees
  BY DEF FrameInv
<1> QED BY <1>1, FrameInvAlways, PTL

(***************************************************************************)
(* Zeroing runs with the lock released, one frame after another.  What has  *)
(* been zeroed of a run stays zero until the run is returned: whoever else  *)
(* writes has a run apart from it.                                          *)
(***************************************************************************)
ZeroedPart(r) == Interval(r.first, r.first + zeroed[r])

ZeroedSoFar ==
  /\ zeroed \in [claimed -> Nat]
  /\ \A r \in claimed : zeroed[r] <= r.count /\ ZeroedPart(r) \cap dirty = {}

(* A claim starts with nothing zeroed. *)
LEMMA ClaimStartsZeroing ==
  ASSUME ZeroedSoFar, NEW r \in RunSet, Claim(r)
  PROVE  ZeroedSoFar'
<1>1. /\ claimed' = claimed \cup {r} /\ dirty' = dirty
      /\ zeroed' = [s \in claimed \cup {r} |-> IF s = r THEN 0 ELSE zeroed[s]]
  BY DEF Claim
<1>2. zeroed' \in [claimed' -> Nat]
  BY <1>1 DEF ZeroedSoFar
<1>3. ASSUME NEW s \in claimed'
      PROVE  zeroed'[s] <= s.count /\ ZeroedPart(s)' \cap dirty' = {}
  <2>1. CASE s = r
    <3>1. zeroed'[s] = 0 /\ s.first \in Nat /\ s.count \in Nat
      BY <1>1, <2>1 DEF RunSet
    <3> QED BY <3>1 DEF ZeroedPart, Interval
  <2>2. CASE s # r
    <3>1. s \in claimed /\ zeroed'[s] = zeroed[s]
      BY <1>1, <1>3, <2>2
    <3> QED BY <1>1, <3>1 DEF ZeroedSoFar, ZeroedPart
  <2> QED BY <2>1, <2>2
<1> QED BY <1>2, <1>3 DEF ZeroedSoFar

(* Each frame zeroed is the next after those zeroed before. *)
LEMMA ZeroNextKeeps ==
  ASSUME FrameInv, ZeroedSoFar, NEW r, ZeroNext(r)
  PROVE  ZeroedSoFar'
<1>1. /\ r \in claimed /\ zeroed[r] < r.count /\ claimed' = claimed
      /\ dirty' = dirty \ {r.first + zeroed[r]}
      /\ zeroed' = [zeroed EXCEPT ![r] = @ + 1]
  BY DEF ZeroNext
<1>2. r.first \in Nat /\ r.count \in Nat /\ zeroed[r] \in Nat
  BY <1>1 DEF FrameInv, RunsTyped, RunSet, ZeroedSoFar
<1>3. zeroed' \in [claimed' -> Nat]
  BY <1>1, <1>2 DEF ZeroedSoFar
<1>4. ASSUME NEW s \in claimed'
      PROVE  zeroed'[s] <= s.count /\ ZeroedPart(s)' \cap dirty' = {}
  <2>1. CASE s = r
    <3>1. zeroed'[s] = zeroed[r] + 1
      BY <1>1, <2>1 DEF ZeroedSoFar
    <3>2. ZeroedPart(s)' = ZeroedPart(r) \cup {r.first + zeroed[r]}
      <4>1. ZeroedPart(s)' = r.first .. (r.first + (zeroed[r] + 1)) - 1
        BY <2>1, <3>1 DEF ZeroedPart, Interval
      <4>2. ZeroedPart(r) = r.first .. (r.first + zeroed[r]) - 1
        BY DEF ZeroedPart, Interval
      <4> QED BY <1>2, <4>1, <4>2
    <3>3. ZeroedPart(r) \cap dirty = {}
      BY <1>1 DEF ZeroedSoFar
    <3> QED BY <1>1, <1>2, <2>1, <3>1, <3>2, <3>3
  <2>2. CASE s # r
    <3>1. s \in claimed /\ zeroed'[s] = zeroed[s]
      BY <1>1, <1>4, <2>2 DEF ZeroedSoFar
    <3> QED BY <1>1, <3>1 DEF ZeroedSoFar, ZeroedPart
  <2> QED BY <2>1, <2>2
<1> QED BY <1>3, <1>4 DEF ZeroedSoFar

(* An owner's writes miss every run still being zeroed. *)
LEMMA ScribbleMisses ==
  ASSUME FrameInv, ZeroedSoFar, NEW r, Scribble(r)
  PROVE  ZeroedSoFar'
<1>1. r \in owned /\ dirty' = dirty \cup FramesOf(r) /\ claimed' = claimed /\ zeroed' = zeroed
  BY DEF Scribble
<1>2. ASSUME NEW s \in claimed
      PROVE  zeroed[s] <= s.count /\ ZeroedPart(s) \cap dirty' = {}
  <2>1. s # r /\ Apart(s, r)
    BY <1>1 DEF FrameInv, RunsTyped, Runs
  <2>2. zeroed[s] \in Nat /\ zeroed[s] <= s.count /\ ZeroedPart(s) \cap dirty = {}
    BY DEF ZeroedSoFar
  <2>3. s.first \in Nat /\ s.count \in Nat
    BY DEF FrameInv, RunsTyped, RunSet
  <2>4. ZeroedPart(s) \subseteq FramesOf(s)
    BY <2>2, <2>3 DEF ZeroedPart, FramesOf, Interval
  <2> QED BY <1>1, <2>1, <2>2, <2>4 DEF Apart
<1>3. \A s \in claimed : ZeroedPart(s)' = ZeroedPart(s)
  BY <1>1 DEF ZeroedPart
<1> QED BY <1>1, <1>2, <1>3 DEF ZeroedSoFar

(* A run returned is zeroed no more. *)
LEMMA ReturnKeeps ==
  ASSUME ZeroedSoFar, NEW r, Return(r)
  PROVE  ZeroedSoFar'
BY DEF Return, ZeroedSoFar, ZeroedPart

LEMMA ZeroedStep ==
  ASSUME FrameInv, ZeroedSoFar, [Next]_frameVars
  PROVE  ZeroedSoFar'
<1>1. ASSUME UNCHANGED <<claimed, zeroed, dirty>> PROVE ZeroedSoFar'
  BY <1>1 DEF ZeroedSoFar, ZeroedPart
<1>2. CASE Alloc
  <2>1. PICK f \in Frames : Claim(Run(f, 1))
    <3>1. FirstClear \in Clear
      <4>1. Clear \in SUBSET Nat /\ Clear # {}
        BY <1>2, FramesFinite DEF Alloc, Clear
      <4>2. \E f \in Clear : \A g \in Clear : f <= g
        BY <4>1, Smallest
      <4> QED BY <4>2 DEF FirstClear
    <3> QED BY <1>2, <3>1 DEF Alloc, Clear
  <2>2. Run(f, 1) \in RunSet
    BY FramesFinite DEF Run, RunSet
  <2> QED BY <2>1, <2>2, ClaimStartsZeroing
<1>3. CASE AllocContiguous(STACK_FRAMES)
  <2>1. PICK f \in Nat : Claim(Run(f, STACK_FRAMES))
    <3>1. ContiguousFits(STACK_FRAMES) \in SUBSET Nat /\ ContiguousFits(STACK_FRAMES) # {}
      BY <1>3, Parts DEF AllocContiguous, ContiguousFits, Ram
    <3>2. FirstFit(STACK_FRAMES) \in ContiguousFits(STACK_FRAMES)
      <4>1. \E f \in ContiguousFits(STACK_FRAMES) :
               \A g \in ContiguousFits(STACK_FRAMES) : f <= g
        <5> HIDE DEF ContiguousFits
        <5> QED BY <3>1, Smallest
      <4> QED BY <4>1 DEF FirstFit
    <3> QED BY <1>3, <3>1, <3>2 DEF AllocContiguous
  <2>2. Run(f, STACK_FRAMES) \in RunSet
    BY Sizes DEF Run, RunSet
  <2> QED BY <2>1, <2>2, ClaimStartsZeroing
<1>4. CASE \E r \in Runs : ZeroNext(r) \/ Return(r) \/ Scribble(r)
  BY <1>4, ZeroNextKeeps, ReturnKeeps, ScribbleMisses
<1>5. CASE \E r \in Runs : GiveBack(r) \/ Free(r)
  BY <1>1, <1>5 DEF GiveBack, Free
<1>6. CASE AdoptMap
  BY <1>1, <1>6 DEF AdoptMap, Adopt, AdoptElsewhere, Grow, Shrink, ShrinkRefused, Refuse
<1>7. CASE ReserveRegions
  BY <1>1, <1>7 DEF ReserveRegions, ReserveRange, Reserve, RefuseTaken, Refuse
<1>8. CASE UNCHANGED frameVars
  BY <1>1, <1>8 DEF frameVars
<1> QED BY <1>2, <1>3, <1>4, <1>5, <1>6, <1>7, <1>8 DEF Next, Halted

LEMMA ZeroedAlways == Spec => []ZeroedSoFar
<1>1. Init => ZeroedSoFar
  BY DEF Init, ZeroedSoFar
<1>2. FrameInv /\ ZeroedSoFar /\ [Next]_frameVars => ZeroedSoFar'
  BY ZeroedStep
<1> QED BY <1>1, <1>2, FrameInvAlways, PTL DEF Spec

(***************************************************************************)
(* A run reaches its owner with every frame zeroed, though it is zeroed     *)
(* frame by frame after the lock has been released, with other owners       *)
(* writing to their memory in between: it rests on no frame having two.     *)
(***************************************************************************)
THEOREM Zeroed == Spec => ArrivesZeroed
<1>1. FrameInv /\ ZeroedSoFar /\ [Next]_frameVars =>
        [\A r \in owned' \ owned : FramesOf(r) \cap dirty = {}]_frameVars
  <2> SUFFICES ASSUME ZeroedSoFar, Next, NEW r \in owned' \ owned
               PROVE  FramesOf(r) \cap dirty = {}
    OBVIOUS
  <2>1. ASSUME NEW s, Return(s) PROVE FramesOf(r) \cap dirty = {}
    <3>1. r = s /\ r \in claimed /\ zeroed[r] = r.count
      BY <2>1 DEF Return
    <3> QED BY <3>1 DEF ZeroedSoFar, ZeroedPart, FramesOf
  <2>2. CASE \E s \in Runs : Return(s)
    BY <2>1, <2>2
  <2>3. CASE \E s \in Runs : ZeroNext(s) \/ Scribble(s) \/ GiveBack(s) \/ Free(s)
    BY <2>3 DEF ZeroNext, Scribble, GiveBack, Free
  <2>4. CASE Alloc \/ AllocContiguous(STACK_FRAMES)
    BY <2>4 DEF Alloc, AllocContiguous, Claim
  <2>5. CASE AdoptMap
    BY <2>5 DEF AdoptMap, Adopt, AdoptElsewhere, Grow, Shrink, ShrinkRefused, Refuse
  <2>6. CASE ReserveRegions
    BY <2>6 DEF ReserveRegions, ReserveRange, Reserve, RefuseTaken, Refuse
  <2>7. CASE Halted
    BY <2>7 DEF Halted, frameVars
  <2> QED BY <2>2, <2>3, <2>4, <2>5, <2>6, <2>7 DEF Next
<1> QED BY <1>1, FrameInvAlways, ZeroedAlways, PTL DEF Spec, ArrivesZeroed

=============================================================================
