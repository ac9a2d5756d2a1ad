------------------------------ MODULE LeasesProofs ------------------------------
(***************************************************************************)
(* Memory crosses address spaces only as agreed: for every page size, every *)
(* layout of the spaces, every message, lease and borrow.                   *)
(***************************************************************************)
EXTENDS Leases, WellFoundedInduction, TLAPS

-----------------------------------------------------------------------------
(* Pages and the bytes in them *)

(* A nonempty set of naturals has a least element: induction for what follows. *)
LEMMA LeastOf ==
  ASSUME NEW T \in SUBSET Nat, T # {}
  PROVE  \E n \in T : \A m \in T : n <= m
<1> DEFINE R == OpToRel(<, Nat)
<1>1. IsWellFoundedOn(R, Nat)
  BY NatLessThanWellFounded
<1>2. PICK x \in T : \A y \in T : ~ (<<y, x>> \in R)
  <2> HIDE DEF R
  <2> QED BY <1>1, WFMin
<1>3. ASSUME NEW y \in T PROVE x <= y
  <2>1. <<y, x>> \notin {ss \in Nat \X Nat : ss[1] < ss[2]}
    BY <1>2 DEF OpToRel
  <2> QED BY <2>1
<1> QED BY <1>3

(* A product with a positive factor grows with the other one. *)
LEMMA Multiples ==
  ASSUME NEW m \in Nat \ {0}, NEW q \in Int, NEW p \in Int
  PROVE  /\ m * q \in Int /\ m * p \in Int /\ (q \in Nat => m * q \in Nat)
         /\ m * (q - p) = (m * q) - (m * p)
         /\ q >= p + 1 => m * q >= (m * p) + m
         /\ q >= p => m * q >= m * p
<1>1. m * q \in Int /\ m * p \in Int /\ m * (q - p) = (m * q) - (m * p)
  OBVIOUS
<1>2. ASSUME NEW n \in Nat PROVE m * n \in Nat
  OBVIOUS
<1>3. ASSUME q >= p + 1 PROVE m * q >= (m * p) + m
  <2>1. q - (p + 1) \in Nat
    BY <1>3
  <2>2. m * (q - (p + 1)) >= 0
    BY <1>2, <2>1
  <2>3. m * (q - (p + 1)) = (m * q) - ((m * p) + m)
    OBVIOUS
  <2> QED BY <1>1, <2>2, <2>3
<1>4. ASSUME q >= p PROVE m * q >= m * p
  <2>1. q - p \in Nat
    BY <1>4
  <2>2. m * (q - p) >= 0
    BY <1>2, <2>1
  <2> QED BY <1>1, <2>2
<1> QED BY <1>1, <1>2, <1>3, <1>4

(* Division with remainder *)
LEMMA Division ==
  ASSUME NEW m \in Nat \ {0}, NEW a \in Nat
  PROVE  /\ a \div m \in Nat /\ (a % m) \in 0 .. m - 1
         /\ a = (m * (a \div m)) + (a % m)
OBVIOUS

(* ... and there is only one. *)
LEMMA DivisionUnique ==
  ASSUME NEW m \in Nat \ {0}, NEW q \in Int, NEW p \in Int, NEW r \in 0 .. m - 1,
         NEW x \in 0 .. m - 1, (m * q) + r = (m * p) + x
  PROVE  q = p /\ r = x
<1>1. m * q \in Int /\ m * p \in Int
  OBVIOUS
<1>2. q >= p + 1 => m * q >= (m * p) + m
  BY Multiples
<1>3. p >= q + 1 => m * p >= (m * q) + m
  BY Multiples
<1>4. q = p
  BY <1>1, <1>2, <1>3
<1> QED BY <1>1, <1>4

(* Bytes of one page stay together. *)
LEMMA SamePage ==
  ASSUME NEW m \in Nat \ {0}, NEW a \in Nat, NEW i \in Nat, i < m - (a % m)
  PROVE  (a + i) \div m = a \div m /\ ((a + i) % m) = (a % m) + i
<1>1. PICK q \in Nat, r \in 0 .. m - 1 : q = a \div m /\ r = (a % m) /\ a = (m * q) + r
  BY Division
<1>2. PICK p \in Nat, x \in 0 .. m - 1 :
        p = (a + i) \div m /\ x = ((a + i) % m) /\ a + i = (m * p) + x
  BY Division
<1>3. r + i \in 0 .. m - 1 /\ m * q \in Int /\ m * p \in Int
  BY <1>1
<1>4. (m * q) + (r + i) = (m * p) + x
  BY <1>1, <1>2, <1>3
<1>5. q = p /\ r + i = x
  BY <1>3, <1>4, DivisionUnique
<1> QED BY <1>1, <1>2, <1>5

(* The page of a byte further on is no earlier one. *)
LEMMA LaterPage ==
  ASSUME NEW m \in Nat \ {0}, NEW a \in Nat, NEW b \in Nat, a <= b
  PROVE  a \div m <= b \div m
<1>1. PICK q \in Nat, r \in 0 .. m - 1 : q = a \div m /\ a = (m * q) + r
  BY Division
<1>2. PICK p \in Nat, x \in 0 .. m - 1 : p = b \div m /\ b = (m * p) + x
  BY Division
<1>3. m * q \in Int /\ m * p \in Int /\ (q >= p + 1 => m * q >= (m * p) + m)
  BY Multiples
<1>4. q <= p
  BY <1>1, <1>2, <1>3
<1> QED BY <1>1, <1>2, <1>4

-----------------------------------------------------------------------------
(* Ranges and what they allow *)

(* The constants, with a name for each part of the assumption used often *)
LEMMA Sizes ==
  /\ PAGE_SIZE \in Nat \ {0} /\ VA_PAGES \in Nat \ {0} /\ FRAMES \in Nat \ {0}
  /\ KERNEL_BASE \in Nat /\ ADDRESSES \in Nat /\ KERNEL_BASE < ADDRESSES
  /\ MAX_MESSAGE \in Nat /\ MAX_BORROW \in Nat
  /\ MAX_MESSAGE <= VA_PAGES * PAGE_SIZE /\ MAX_BORROW <= VA_PAGES * PAGE_SIZE
BY LeaseAssumption

(* Every byte has a page. *)
LEMMA BytePage ==
  ASSUME NEW va \in Nat
  PROVE  PageOf(va) \in Pages /\ (va % PAGE_SIZE) \in 0 .. PAGE_SIZE - 1
<1>1. PICK q \in Nat : q = va \div PAGE_SIZE
  BY Sizes, Division
<1>2. (q % VA_PAGES) \in 0 .. VA_PAGES - 1
  BY Sizes, Division
<1>3. (va % PAGE_SIZE) \in 0 .. PAGE_SIZE - 1
  BY Sizes, Division
<1> QED BY <1>1, <1>2, <1>3 DEF PageOf, Pages

(***************************************************************************)
(* The page loop of user_range says what it is meant to say of every byte   *)
(* of the range, wherever in its pages the range starts and ends.           *)
(***************************************************************************)
LEMMA RangeIsEveryByte ==
  ASSUME NEW t, NEW va \in Nat, NEW len \in Nat, NEW allowed, UserRange(t, va, len, allowed)
  PROVE  /\ \A i \in 0 .. len - 1 : va + i < KERNEL_BASE /\ Permission[t][PageOf(va + i)] \in allowed
         /\ len # 0 => va + len <= KERNEL_BASE
<1>1. CASE len = 0
  BY <1>1
<1>2. CASE len # 0
  <2>1. /\ va + len <= KERNEL_BASE
        /\ \A page \in (va \div PAGE_SIZE) .. ((va + len - 1) \div PAGE_SIZE) :
             Permission[t][page % VA_PAGES] \in allowed
    BY <1>2 DEF UserRange
  <2>2. ASSUME NEW i \in 0 .. len - 1 PROVE Permission[t][PageOf(va + i)] \in allowed
    <3>1. PICK first \in Nat : first = va \div PAGE_SIZE
      BY Sizes, Division
    <3>2. PICK page \in Nat : page = (va + i) \div PAGE_SIZE
      <4>1. va + i \in Nat
        OBVIOUS
      <4> QED BY <4>1, Sizes, Division
    <3>3. va + len - 1 \in Nat
      BY <1>2
    <3>4. PICK last \in Nat : last = (va + len - 1) \div PAGE_SIZE
      BY <3>3, Sizes, Division
    <3>5. first <= page
      BY <3>1, <3>2, Sizes, LaterPage
    <3>6. page <= last
      <4>1. va + i \in Nat /\ va + i <= va + len - 1
        BY <1>2
      <4> QED BY <3>2, <3>3, <3>4, <4>1, Sizes, LaterPage
    <3>7. page \in first .. last
      BY <3>5, <3>6
    <3>8. Permission[t][page % VA_PAGES] \in allowed
      BY <2>1, <3>1, <3>4, <3>7
    <3> QED BY <3>2, <3>8 DEF PageOf
  <2>3. \A i \in 0 .. len - 1 : va + i < KERNEL_BASE
    BY <2>1, Sizes
  <2> QED BY <2>1, <2>2, <2>3
<1> QED BY <1>1, <1>2

(* So what user_readable and user_writable accept may be accessed byte by byte. *)
LEMMA RangeMayAll ==
  ASSUME NEW t, NEW va \in Nat, NEW len \in Nat
  PROVE  /\ UserReadable(t, va, len) => MayAll(t, va, len, "read")
         /\ UserWritable(t, va, len) => MayAll(t, va, len, "write")
<1>1. ASSUME UserReadable(t, va, len) PROVE MayAll(t, va, len, "read")
  BY <1>1, RangeIsEveryByte DEF UserReadable, MayAll, ByteAllows
<1>2. ASSUME UserWritable(t, va, len) PROVE MayAll(t, va, len, "write")
  BY <1>2, RangeIsEveryByte DEF UserWritable, MayAll, ByteAllows
<1> QED BY <1>1, <1>2

(* A part of a range that may be accessed *)
LEMMA MayPart ==
  ASSUME NEW t, NEW va \in Nat, NEW len \in Nat, NEW what, MayAll(t, va, len, what),
         NEW offset \in Nat, NEW size \in Nat, offset + size <= len
  PROVE  MayAll(t, va + offset, size, what)
<1>1. ASSUME NEW i \in 0 .. size - 1 PROVE ByteAllows(t, (va + offset) + i, what)
  <2>1. offset + i \in 0 .. len - 1 /\ (va + offset) + i = va + (offset + i)
    OBVIOUS
  <2> QED BY <2>1 DEF MayAll
<1> QED BY <1>1 DEF MayAll

(* ... and what may be accessed is mapped. *)
LEMMA MayMapped ==
  ASSUME NEW t \in Tasks, NEW va \in Nat, NEW what, ByteAllows(t, va, what) PROVE Mapped(t, va)
BY DEF ByteAllows, Mapped

-----------------------------------------------------------------------------
(* Where bytes are in memory *)

Physical == 0 .. (FRAMES * PAGE_SIZE) - 1

(* A byte is in the frame under its page. *)
LEMMA TranslateInMemory ==
  ASSUME NEW t \in Tasks, NEW va \in Nat
  PROVE  /\ Translate(t, va) \in Physical
         /\ FrameAt[t][PageOf(va)] \in Nat
         /\ Translate(t, va) = (PAGE_SIZE * FrameAt[t][PageOf(va)]) + (va % PAGE_SIZE)
<1>1. PICK f \in 0 .. FRAMES - 1 : f = FrameAt[t][PageOf(va)]
  BY BytePage, LeaseAssumption
<1>2. PICK r \in 0 .. PAGE_SIZE - 1 : r = (va % PAGE_SIZE)
  BY BytePage
<1>3. PAGE_SIZE * f \in Nat /\ f * PAGE_SIZE = PAGE_SIZE * f /\ FRAMES * PAGE_SIZE = PAGE_SIZE * FRAMES
      /\ PAGE_SIZE * FRAMES \in Nat
  BY Sizes
<1>4. PAGE_SIZE * FRAMES >= (PAGE_SIZE * f) + PAGE_SIZE
  BY Sizes, Multiples
<1>5. (PAGE_SIZE * f) + r \in Physical
  BY <1>3, <1>4, Sizes DEF Physical
<1> QED BY <1>1, <1>2, <1>3, <1>5 DEF Translate

(* Bytes of one page are as far apart in memory as in the space. *)
LEMMA TranslateChunk ==
  ASSUME NEW t \in Tasks, NEW va \in Nat, NEW i \in Nat, i < PAGE_SIZE - (va % PAGE_SIZE)
  PROVE  /\ Translate(t, va + i) = Translate(t, va) + i
         /\ Mapped(t, va) <=> Mapped(t, va + i)
<1>1. (va + i) \div PAGE_SIZE = va \div PAGE_SIZE /\ ((va + i) % PAGE_SIZE) = (va % PAGE_SIZE) + i
  BY Sizes, SamePage
<1>2. PageOf(va + i) = PageOf(va)
  BY <1>1 DEF PageOf
<1>3. PICK f \in Nat : f = FrameAt[t][PageOf(va)]
  BY TranslateInMemory
<1>4. PICK r \in Nat : r = (va % PAGE_SIZE)
  BY BytePage
<1>5. Translate(t, va) = (PAGE_SIZE * f) + r
  BY <1>3, <1>4, TranslateInMemory
<1>6. va + i \in Nat
  OBVIOUS
<1>7. Translate(t, va + i) = (PAGE_SIZE * f) + (r + i)
  BY <1>1, <1>2, <1>3, <1>4, <1>6, TranslateInMemory
<1>8. PAGE_SIZE * f \in Nat
  BY Sizes
<1> QED BY <1>2, <1>5, <1>7, <1>8 DEF Mapped

(* One place in memory is one byte of one page of one task. *)
LEMMA TranslateOnce ==
  ASSUME NEW t \in Tasks, NEW u \in Tasks, NEW va \in Nat, NEW wa \in Nat,
         Mapped(t, va), Mapped(u, wa), Translate(t, va) = Translate(u, wa)
  PROVE  t = u /\ PageOf(va) = PageOf(wa) /\ (va % PAGE_SIZE) = (wa % PAGE_SIZE)
<1>1. PICK f \in Nat, r \in 0 .. PAGE_SIZE - 1 :
        f = FrameAt[t][PageOf(va)] /\ r = (va % PAGE_SIZE) /\ Translate(t, va) = (PAGE_SIZE * f) + r
  BY TranslateInMemory, BytePage
<1>2. PICK g \in Nat, x \in 0 .. PAGE_SIZE - 1 :
        g = FrameAt[u][PageOf(wa)] /\ x = (wa % PAGE_SIZE) /\ Translate(u, wa) = (PAGE_SIZE * g) + x
  BY TranslateInMemory, BytePage
<1>3. f = g /\ r = x
  <2>1. (PAGE_SIZE * f) + r = (PAGE_SIZE * g) + x
    BY <1>1, <1>2
  <2>2. f \in Int /\ g \in Int
    OBVIOUS
  <2> QED BY <2>1, <2>2, Sizes, DivisionUnique
<1>4. PageOf(va) \in Pages /\ PageOf(wa) \in Pages
  BY BytePage
<1>5. t = u /\ PageOf(va) = PageOf(wa)
  BY <1>1, <1>2, <1>3, <1>4, FrameAssumption DEF Mapped
<1> QED BY <1>1, <1>2, <1>3, <1>5

(* Within the length of a space, different bytes have different pages or places in them. *)
LEMMA NoAlias ==
  ASSUME NEW va \in Nat, NEW len \in Nat, len <= VA_PAGES * PAGE_SIZE,
         NEW i \in 0 .. len - 1, NEW j \in 0 .. len - 1,
         PageOf(va + i) = PageOf(va + j), ((va + i) % PAGE_SIZE) = ((va + j) % PAGE_SIZE)
  PROVE  i = j
<1>1. va + i \in Nat /\ va + j \in Nat
  OBVIOUS
<1>2. PICK q \in Nat, r \in 0 .. PAGE_SIZE - 1 :
        /\ q = (va + i) \div PAGE_SIZE /\ r = ((va + i) % PAGE_SIZE)
        /\ va + i = (PAGE_SIZE * q) + r
  BY <1>1, Sizes, Division
<1>3. PICK p \in Nat : p = (va + j) \div PAGE_SIZE /\ va + j = (PAGE_SIZE * p) + r
  <2>1. /\ (va + j) \div PAGE_SIZE \in Nat
        /\ va + j = (PAGE_SIZE * ((va + j) \div PAGE_SIZE)) + ((va + j) % PAGE_SIZE)
    BY <1>1, Sizes, Division
  <2> QED BY <1>2, <2>1
<1>4. (q % VA_PAGES) = (p % VA_PAGES)
  BY <1>2, <1>3 DEF PageOf
<1>5. PICK a \in Nat, x \in 0 .. VA_PAGES - 1 : x = (q % VA_PAGES) /\ q = (VA_PAGES * a) + x
  <2>1. /\ q \div VA_PAGES \in Nat /\ (q % VA_PAGES) \in 0 .. VA_PAGES - 1
        /\ q = (VA_PAGES * (q \div VA_PAGES)) + (q % VA_PAGES)
    BY Sizes, Division
  <2> QED BY <2>1
<1>6. PICK b \in Nat : p = (VA_PAGES * b) + x
  <2>1. /\ p \div VA_PAGES \in Nat
        /\ p = (VA_PAGES * (p \div VA_PAGES)) + (p % VA_PAGES)
    BY Sizes, Division
  <2> QED BY <1>4, <1>5, <2>1
<1>7. PICK n \in Nat \ {0} : n = VA_PAGES * PAGE_SIZE
  BY Sizes
<1>8. PICK A \in Int, B \in Int : A = n * a /\ B = n * b
  BY <1>7
<1>9. PICK X \in Int : X = PAGE_SIZE * x
  BY Sizes
<1>10. PAGE_SIZE * q = A + X
  <2>1. PAGE_SIZE * ((VA_PAGES * a) + x) = ((VA_PAGES * PAGE_SIZE) * a) + (PAGE_SIZE * x)
    BY Sizes
  <2> QED BY <1>5, <1>7, <1>8, <1>9, <2>1
<1>11. PAGE_SIZE * p = B + X
  <2>1. PAGE_SIZE * ((VA_PAGES * b) + x) = ((VA_PAGES * PAGE_SIZE) * b) + (PAGE_SIZE * x)
    BY Sizes
  <2> QED BY <1>6, <1>7, <1>8, <1>9, <2>1
<1>12. i - j = A - B
  BY <1>2, <1>3, <1>8, <1>9, <1>10, <1>11
<1>13. (a >= b + 1 => A >= B + n) /\ (b >= a + 1 => B >= A + n)
  BY <1>7, <1>8, Multiples
<1>14. i - j < n /\ j - i < n
  BY <1>7
<1>15. a = b
  BY <1>8, <1>12, <1>13, <1>14
<1> QED BY <1>8, <1>12, <1>15

-----------------------------------------------------------------------------
(* The copy *)

(* The two sides of a copy do not overlap in memory, and neither folds onto itself. *)
Apart(s, srcVa, d, dstVa, len) ==
  \A i \in 0 .. len - 1 :
    /\ Translate(s, srcVa + i) \in Physical /\ Translate(d, dstVa + i) \in Physical
    /\ Mapped(s, srcVa + i) /\ Mapped(d, dstVa + i)
    /\ \A j \in 0 .. len - 1 :
         /\ Translate(s, srcVa + i) # Translate(d, dstVa + j)
         /\ Translate(d, dstVa + i) = Translate(d, dstVa + j) => i = j

(* Which is so for what the checks let through, by way of the frames of a space *)
LEMMA CheckedRangesApart ==
  ASSUME NEW s \in Tasks, NEW d \in Tasks, s # d, NEW srcVa \in Nat, NEW dstVa \in Nat,
         NEW len \in Nat, len <= VA_PAGES * PAGE_SIZE,
         MayAll(s, srcVa, len, "read"), MayAll(d, dstVa, len, "write")
  PROVE  Apart(s, srcVa, d, dstVa, len)
<1>1. ASSUME NEW i \in 0 .. len - 1
      PROVE  /\ srcVa + i \in Nat /\ dstVa + i \in Nat
             /\ Translate(s, srcVa + i) \in Physical /\ Translate(d, dstVa + i) \in Physical
             /\ Mapped(s, srcVa + i) /\ Mapped(d, dstVa + i)
  <2>1. srcVa + i \in Nat /\ dstVa + i \in Nat
    OBVIOUS
  <2>2. ByteAllows(s, srcVa + i, "read") /\ ByteAllows(d, dstVa + i, "write")
    BY DEF MayAll
  <2>3. Mapped(s, srcVa + i) /\ Mapped(d, dstVa + i)
    BY <2>1, <2>2, MayMapped
  <2>4. Translate(s, srcVa + i) \in Physical /\ Translate(d, dstVa + i) \in Physical
    BY <2>1, TranslateInMemory
  <2> QED BY <2>1, <2>3, <2>4
<1>2. ASSUME NEW i \in 0 .. len - 1, NEW j \in 0 .. len - 1
      PROVE  Translate(s, srcVa + i) # Translate(d, dstVa + j)
  BY <1>1, TranslateOnce
<1>3. ASSUME NEW i \in 0 .. len - 1, NEW j \in 0 .. len - 1,
             Translate(d, dstVa + i) = Translate(d, dstVa + j)
      PROVE  i = j
  <2>1. /\ PageOf(dstVa + i) = PageOf(dstVa + j)
        /\ ((dstVa + i) % PAGE_SIZE) = ((dstVa + j) % PAGE_SIZE)
    BY <1>1, <1>3, TranslateOnce
  <2> QED BY <2>1, NoAlias
<1> QED BY <1>1, <1>2, <1>3 DEF Apart

(* M is memory with the first e bytes moved. *)
MovedUpTo(M, s, srcVa, d, dstVa, e) ==
  /\ M = [pa \in Physical |-> M[pa]]
  /\ \A i \in 0 .. e - 1 : M[Translate(d, dstVa + i)] = mem[Translate(s, srcVa + i)]
  /\ \A pa \in Physical : (\A i \in 0 .. e - 1 : Translate(d, dstVa + i) # pa) => M[pa] = mem[pa]

(* With all of them moved it is the reference. *)
LEMMA MovedAll ==
  ASSUME NEW s, NEW d, NEW srcVa, NEW dstVa, NEW len \in Nat, NEW M,
         mem = [pa \in Physical |-> mem[pa]],
         Apart(s, srcVa, d, dstVa, len), MovedUpTo(M, s, srcVa, d, dstVa, len)
  PROVE  M = Moved(s, srcVa, d, dstVa, len)
<1> DEFINE At(pa, i) == Translate(d, dstVa + i) = pa
           Value(pa) ==
             IF \E i \in 0 .. len - 1 : At(pa, i)
             THEN mem[Translate(s, srcVa + (CHOOSE i \in 0 .. len - 1 : At(pa, i)))]
             ELSE mem[pa]
<1>1. DOMAIN mem = Physical
  OBVIOUS
<1>2. Moved(s, srcVa, d, dstVa, len) = [pa \in Physical |-> Value(pa)]
  BY <1>1 DEF Moved
<1>3. ASSUME NEW pa \in Physical PROVE M[pa] = Value(pa)
  <2>1. CASE \E i \in 0 .. len - 1 : At(pa, i)
    <3>1. PICK i \in 0 .. len - 1 : At(pa, i)
      BY <2>1
    <3>2. \A j \in 0 .. len - 1 : At(pa, j) => j = i
      BY <3>1 DEF Apart
    <3>3. (CHOOSE j \in 0 .. len - 1 : At(pa, j)) = i
      BY <3>1, <3>2
    <3>4. M[pa] = mem[Translate(s, srcVa + i)]
      BY <3>1 DEF MovedUpTo
    <3> QED BY <2>1, <3>3, <3>4
  <2>2. CASE ~ \E i \in 0 .. len - 1 : At(pa, i)
    BY <2>2 DEF MovedUpTo
  <2> QED BY <2>1, <2>2
<1>4. M = [pa \in Physical |-> M[pa]]
  BY DEF MovedUpTo
<1> HIDE DEF Value
<1>5. [pa \in Physical |-> M[pa]] = [pa \in Physical |-> Value(pa)]
  BY <1>3
<1> QED BY <1>2, <1>4, <1>5

(* A chunk is not empty, and lies in one page on either side. *)
LEMMA ChunkSize ==
  ASSUME NEW src \in Nat, NEW dst \in Nat, NEW left \in Nat \ {0}
  PROVE  /\ Chunk(src, dst, left) \in 1 .. left
         /\ Chunk(src, dst, left) <= PAGE_SIZE - (src % PAGE_SIZE)
         /\ Chunk(src, dst, left) <= PAGE_SIZE - (dst % PAGE_SIZE)
<1>1. PICK a \in 0 .. PAGE_SIZE - 1, b \in 0 .. PAGE_SIZE - 1 :
        a = (src % PAGE_SIZE) /\ b = (dst % PAGE_SIZE)
  BY BytePage
<1>2. PAGE_SIZE - a \in Nat \ {0} /\ PAGE_SIZE - b \in Nat \ {0}
  BY Sizes
<1>3. Chunk(src, dst, left) = Least(left, Least(PAGE_SIZE - a, PAGE_SIZE - b))
  BY <1>1 DEF Chunk
<1>4. ASSUME NEW x \in Nat \ {0}, NEW y \in Nat \ {0}
      PROVE  Least(x, y) \in Nat \ {0} /\ Least(x, y) <= x /\ Least(x, y) <= y
  BY DEF Least
<1>5. PICK m \in Nat \ {0} : m = Least(PAGE_SIZE - a, PAGE_SIZE - b)
                             /\ m <= PAGE_SIZE - a /\ m <= PAGE_SIZE - b
  BY <1>2, <1>4
<1>6. PICK c \in Nat \ {0} : c = Least(left, m) /\ c <= left /\ c <= m
  BY <1>4
<1>7. c \in 1 .. left /\ c <= PAGE_SIZE - a /\ c <= PAGE_SIZE - b
  BY <1>2, <1>5, <1>6
<1> QED BY <1>1, <1>3, <1>5, <1>6, <1>7

(* A turn that got further *)
Advances(s, srcVa, d, dstVa, len, e, last) ==
  \E n \in e + 1 .. len : \E N :
    /\ CopyChunk(s, srcVa, d, dstVa, len, last) = [done |-> n, mem |-> N, ok |-> TRUE]
    /\ MovedUpTo(N, s, srcVa, d, dstVa, n)

(* A turn of the loop moves some more of the bytes, and only them. *)
LEMMA ChunkMoves ==
  ASSUME NEW s \in Tasks, NEW d \in Tasks, NEW srcVa \in Nat, NEW dstVa \in Nat, NEW len \in Nat,
         mem = [pa \in Physical |-> mem[pa]], Apart(s, srcVa, d, dstVa, len),
         NEW e \in 0 .. len - 1, NEW M, MovedUpTo(M, s, srcVa, d, dstVa, e),
         NEW last, last = [done |-> e, mem |-> M, ok |-> TRUE]
  PROVE  Advances(s, srcVa, d, dstVa, len, e, last)
<1>1. PICK src \in Nat, dst \in Nat, left \in Nat \ {0} :
        src = srcVa + e /\ dst = dstVa + e /\ left = len - e
  OBVIOUS
<1>2. PICK size \in 1 .. left : /\ size = Chunk(src, dst, left)
                                /\ size <= PAGE_SIZE - (src % PAGE_SIZE)
                                /\ size <= PAGE_SIZE - (dst % PAGE_SIZE)
  BY ChunkSize
<1>3. PICK n \in e + 1 .. len : n = e + size
  BY <1>1
<1>4. PICK from \in Int, to \in Int : from = Translate(s, src) /\ to = Translate(d, dst)
  BY TranslateInMemory DEF Physical
<1>5. ASSUME NEW k \in 0 .. size - 1
      PROVE  /\ Translate(s, srcVa + (e + k)) = from + k
             /\ Translate(d, dstVa + (e + k)) = to + k
             /\ e + k \in 0 .. n - 1 /\ e + k \in 0 .. len - 1
  <2>1. k < PAGE_SIZE - (src % PAGE_SIZE) /\ k < PAGE_SIZE - (dst % PAGE_SIZE) /\ k \in Nat
    <3>1. (src % PAGE_SIZE) \in Int /\ (dst % PAGE_SIZE) \in Int /\ PAGE_SIZE \in Int
      BY BytePage, Sizes
    <3> QED BY <1>2, <3>1
  <2>2. Translate(s, src + k) = from + k /\ Translate(d, dst + k) = to + k
    BY <1>4, <2>1, TranslateChunk
  <2>3. srcVa + (e + k) = src + k /\ dstVa + (e + k) = dst + k
    BY <1>1
  <2>4. e + k \in 0 .. n - 1 /\ e + k \in 0 .. len - 1
    BY <1>1, <1>3
  <2> QED BY <2>2, <2>3, <2>4
<1>6. Mapped(s, src) /\ Mapped(d, dst)
  BY <1>1 DEF Apart
<1> DEFINE N == [pa \in Physical |->
                   IF pa \in to .. to + size - 1 /\ from + (pa - to) \in Physical
                   THEN M[from + (pa - to)] ELSE M[pa]]
<1>7. CopyChunk(s, srcVa, d, dstVa, len, last) = [done |-> n, mem |-> N, ok |-> TRUE]
  <2>1. last.ok = TRUE /\ last.done = e /\ last.mem = M /\ ~(last.done >= len)
    OBVIOUS
  <2>2. DOMAIN mem = Physical
    OBVIOUS
  <2> QED BY <1>1, <1>2, <1>3, <1>4, <1>6, <2>1, <2>2 DEF CopyChunk
<1>8. MovedUpTo(N, s, srcVa, d, dstVa, n)
  <2>1. ASSUME NEW i \in 0 .. n - 1 PROVE N[Translate(d, dstVa + i)] = mem[Translate(s, srcVa + i)]
    <3>1. i \in 0 .. len - 1
      OBVIOUS
    <3>2. PICK pa \in Physical : pa = Translate(d, dstVa + i)
      BY <3>1 DEF Apart
    <3>3. CASE i < e
      <4>1. i \in 0 .. e - 1
        BY <3>3
      <4>2. ASSUME NEW k \in 0 .. size - 1 PROVE pa # to + k
        BY <1>5, <3>1, <3>2, <3>3 DEF Apart
      <4>3. pa \notin to .. to + size - 1
        <5>1. ASSUME pa \in to .. to + size - 1 PROVE FALSE
          <6>1. pa - to \in 0 .. size - 1 /\ pa = to + (pa - to)
            BY <5>1
          <6> QED BY <4>2, <6>1
        <5> QED BY <5>1
      <4>4. N[pa] = M[pa]
        BY <4>3
      <4> QED BY <3>2, <4>1, <4>4 DEF MovedUpTo
    <3>4. CASE i >= e
      <4>1. PICK k \in 0 .. size - 1 : i = e + k
        <5>1. i - e \in 0 .. size - 1 /\ i = e + (i - e)
          BY <1>3, <3>4
        <5> QED BY <5>1
      <4>2. pa = to + k /\ Translate(s, srcVa + i) = from + k
        BY <1>5, <3>2, <4>1
      <4>3. PICK fa \in Physical : fa = from + k /\ fa = Translate(s, srcVa + i)
        BY <3>1, <4>2 DEF Apart
      <4>4. pa \in to .. to + size - 1 /\ from + (pa - to) = fa
        BY <4>2, <4>3
      <4>5. N[pa] = M[fa]
        BY <4>4
      <4>6. M[fa] = mem[fa]
        <5>1. \A j \in 0 .. e - 1 : j \in 0 .. len - 1 /\ Translate(d, dstVa + j) # fa
          BY <3>1, <4>3 DEF Apart
        <5> QED BY <5>1 DEF MovedUpTo
      <4> QED BY <3>2, <4>3, <4>5, <4>6
    <3> QED BY <3>3, <3>4
  <2>2. ASSUME NEW pa \in Physical, \A i \in 0 .. n - 1 : Translate(d, dstVa + i) # pa
        PROVE  N[pa] = mem[pa]
    <3>1. pa \notin to .. to + size - 1
      <4>1. ASSUME pa \in to .. to + size - 1 PROVE FALSE
        <5>1. pa - to \in 0 .. size - 1 /\ pa = to + (pa - to)
          BY <4>1
        <5> QED BY <1>5, <2>2, <5>1
      <4> QED BY <4>1
    <3>2. N[pa] = M[pa]
      BY <3>1
    <3>3. \A i \in 0 .. e - 1 : i \in 0 .. n - 1
      BY <1>3
    <3> QED BY <2>2, <3>2, <3>3 DEF MovedUpTo
  <2>3. N = [pa \in Physical |-> N[pa]]
    OBVIOUS
  <2> HIDE DEF N
  <2> QED BY <2>1, <2>2, <2>3 DEF MovedUpTo
<1> HIDE DEF N
<1> QED BY <1>7, <1>8 DEF Advances

(* turn is the loop of copy_across, m turns of it. *)
Turns(turn, m, s, srcVa, d, dstVa, len) ==
  turn = [n \in 0 .. m |->
            IF n = 0 THEN [done |-> 0, mem |-> mem, ok |-> TRUE]
            ELSE CopyChunk(s, srcVa, d, dstVa, len, turn[n - 1])]

(* The recursion has a solution: a loop of any length has one turn more. *)
LEMMA TurnsExist ==
  ASSUME NEW s, NEW srcVa, NEW d, NEW dstVa, NEW len \in Nat
  PROVE  \E turn : Turns(turn, len, s, srcVa, d, dstVa, len)
<1> DEFINE Start == [done |-> 0, mem |-> mem, ok |-> TRUE]
           Another(last) == CopyChunk(s, srcVa, d, dstVa, len, last)
           Upto(turn, m) == turn = [n \in 0 .. m |-> IF n = 0 THEN Start ELSE Another(turn[n - 1])]
           Bad == {m \in Nat : ~ \E turn : Upto(turn, m)}
<1> HIDE DEF Start, Another
<1>1. ASSUME Bad # {}
      PROVE  FALSE
  <2>1. PICK m \in Bad : \A l \in Bad : m <= l
    BY <1>1, LeastOf
  <2>2. m \in Nat /\ ~ \E turn : Upto(turn, m)
    BY <2>1
  <2>3. CASE m = 0
    <3>1. Upto([n \in 0 .. 0 |-> Start], 0)
      OBVIOUS
    <3> QED BY <2>2, <2>3, <3>1
  <2>4. CASE m # 0
    <3>1. m - 1 \in Nat /\ m - 1 \notin Bad
      BY <2>1, <2>2, <2>4
    <3>2. PICK turn : Upto(turn, m - 1)
      BY <3>1
    <3> DEFINE more == [n \in 0 .. m |-> IF n = m THEN Another(turn[m - 1]) ELSE turn[n]]
    <3>3. \A n \in 0 .. m - 1 : turn[n] = IF n = 0 THEN Start ELSE Another(turn[n - 1])
      BY <3>2
    <3>4. \A n \in 0 .. m - 1 : more[n] = turn[n]
      BY <3>1
    <3>5. \A n \in 0 .. m : more[n] = IF n = 0 THEN Start ELSE Another(more[n - 1])
      <4> TAKE n \in 0 .. m
      <4>1. CASE n = m
        BY <2>4, <3>1, <3>4, <4>1
      <4>2. CASE n # m
        <5>1. n \in 0 .. m - 1 /\ (n # 0 => n - 1 \in 0 .. m - 1)
          BY <3>1, <4>2
        <5> QED BY <3>3, <3>4, <5>1
      <4> QED BY <4>1, <4>2
    <3>6. Upto(more, m)
      <4>1. more = [n \in 0 .. m |-> more[n]]
        OBVIOUS
      <4> HIDE DEF more
      <4> QED BY <3>5, <4>1
    <3> QED BY <2>2, <3>6
  <2> QED BY <2>3, <2>4
<1>2. PICK turn : Upto(turn, len)
  BY <1>1
<1> QED BY <1>2 DEF Turns, Start, Another

(***************************************************************************)
(* copy_across moves exactly the bytes asked for, one place each, however   *)
(* the pages of the two spaces lie and wherever in them the ranges start:   *)
(* page by page is the same as byte by byte.                                *)
(***************************************************************************)
LEMMA CopyMoves ==
  ASSUME NEW s \in Tasks, NEW d \in Tasks, NEW srcVa \in Nat, NEW dstVa \in Nat, NEW len \in Nat,
         mem = [pa \in Physical |-> mem[pa]], Apart(s, srcVa, d, dstVa, len)
  PROVE  CopyAcross(s, srcVa, d, dstVa, len).mem = Moved(s, srcVa, d, dstVa, len)
<1>1. PICK turn : /\ Turns(turn, len, s, srcVa, d, dstVa, len)
                  /\ CopyAcross(s, srcVa, d, dstVa, len) = turn[len]
  <2>1. \E turn : Turns(turn, len, s, srcVa, d, dstVa, len)
    BY TurnsExist
  <2> DEFINE loop == CHOOSE turn : Turns(turn, len, s, srcVa, d, dstVa, len)
  <2>2. Turns(loop, len, s, srcVa, d, dstVa, len)
    BY <2>1, Zenon
  <2>3. CopyAcross(s, srcVa, d, dstVa, len) = loop[len]
    BY DEF CopyAcross, Turns
  <2> QED BY <2>2, <2>3
<1> DEFINE At(n) ==
             \E e \in 0 .. len : \E M :
               /\ turn[n] = [done |-> e, mem |-> M, ok |-> TRUE]
               /\ MovedUpTo(M, s, srcVa, d, dstVa, e)
               /\ n <= e \/ e = len
           Bad == {n \in 0 .. len : ~At(n)}
<1>2. turn[0] = [done |-> 0, mem |-> mem, ok |-> TRUE]
  BY <1>1 DEF Turns
<1>3. \A n \in 0 .. len : n # 0 => turn[n] = CopyChunk(s, srcVa, d, dstVa, len, turn[n - 1])
  BY <1>1 DEF Turns
<1>4. At(0)
  <2>1. MovedUpTo(mem, s, srcVa, d, dstVa, 0)
    <3>1. \A i : i \notin 0 .. 0 - 1
      OBVIOUS
    <3> QED BY <3>1 DEF MovedUpTo
  <2>2. 0 \in 0 .. len /\ 0 <= 0
    OBVIOUS
  <2> QED BY <1>2, <2>1, <2>2
<1>5. ASSUME NEW n \in 1 .. len, At(n - 1) PROVE At(n)
  <2>1. PICK e, M : /\ e \in 0 .. len /\ turn[n - 1] = [done |-> e, mem |-> M, ok |-> TRUE]
                    /\ MovedUpTo(M, s, srcVa, d, dstVa, e)
                    /\ n - 1 <= e \/ e = len
    BY <1>5
  <2> e \in 0 .. len
    BY <2>1
  <2>2. PICK last : last = turn[n - 1]
    OBVIOUS
  <2>3. turn[n] = CopyChunk(s, srcVa, d, dstVa, len, last)
    BY <1>3, <2>2
  <2>4. CASE e = len
    <3>1. last.done >= len
      BY <2>1, <2>2, <2>4
    <3>2. turn[n] = last
      BY <2>3, <3>1 DEF CopyChunk
    <3> QED BY <2>1, <2>2, <2>4, <3>2
  <2>5. CASE e # len
    <3>1. e \in 0 .. len - 1
      BY <2>5
    <3>2. PICK m, N : /\ m \in e + 1 .. len /\ turn[n] = [done |-> m, mem |-> N, ok |-> TRUE]
                      /\ MovedUpTo(N, s, srcVa, d, dstVa, m)
      <4>1. last = [done |-> e, mem |-> M, ok |-> TRUE]
        BY <2>1, <2>2
      <4>2. Advances(s, srcVa, d, dstVa, len, e, last)
        BY <2>1, <3>1, <4>1, ChunkMoves
      <4> QED BY <2>3, <4>2 DEF Advances
    <3>3. m \in 0 .. len /\ n <= m
      BY <2>1, <2>5, <3>1, <3>2
    <3> QED BY <3>2, <3>3
  <2> QED BY <2>4, <2>5
<1>6. Bad = {}
  <2>1. ASSUME Bad # {} PROVE FALSE
    <3>1. Bad \in SUBSET Nat
      OBVIOUS
    <3>2. PICK n \in Bad : \A l \in Bad : n <= l
      BY <2>1, <3>1, LeastOf
    <3>3. n \in 0 .. len /\ ~At(n)
      BY <3>2
    <3>4. n \in 1 .. len /\ n - 1 \in 0 .. len /\ n - 1 \notin Bad
      <4> HIDE DEF At
      <4>1. n # 0
        BY <1>4, <3>3
      <4>2. ~(n <= n - 1) /\ n - 1 \in 0 .. len
        BY <3>3, <4>1
      <4> QED BY <3>2, <3>3, <4>1, <4>2
    <3> HIDE DEF At
    <3> QED BY <1>5, <3>3, <3>4
  <2> QED BY <2>1
<1>7. At(len)
  <2> HIDE DEF At
  <2> QED BY <1>6
<1>8. PICK M : turn[len].mem = M /\ MovedUpTo(M, s, srcVa, d, dstVa, len)
  <2>1. PICK e, M : /\ e \in 0 .. len /\ turn[len] = [done |-> e, mem |-> M, ok |-> TRUE]
                    /\ MovedUpTo(M, s, srcVa, d, dstVa, e)
                    /\ len <= e \/ e = len
    BY <1>7
  <2>2. e = len
    BY <2>1
  <2> QED BY <2>1, <2>2
<1> QED BY <1>1, <1>8, MovedAll

(* So a copy between ranges that may be accessed is a move of bytes. *)
LEMMA CopyIsAgreed ==
  ASSUME NEW s \in Tasks, NEW d \in Tasks, s # d, NEW srcVa \in Nat, NEW dstVa \in Nat,
         NEW len \in Nat, len <= VA_PAGES * PAGE_SIZE, mem = [pa \in Physical |-> mem[pa]],
         MayAll(s, srcVa, len, "read"), MayAll(d, dstVa, len, "write"),
         mem' = CopyAcross(s, srcVa, d, dstVa, len).mem
  PROVE  /\ MovesBytes(s, srcVa, d, dstVa, len)
         /\ DOMAIN mem' = Physical /\ mem' = [pa \in Physical |-> mem'[pa]]
         /\ len = 0 => mem' = mem
<1>1. mem' = Moved(s, srcVa, d, dstVa, len)
  BY CheckedRangesApart, CopyMoves
<1>2. DOMAIN mem = Physical
  OBVIOUS
<1>3. mem' = [pa \in Physical |-> mem'[pa]]
  BY <1>1, <1>2 DEF Moved
<1>4. len = 0 => mem' = mem
  <2>1. ASSUME len = 0 PROVE \A i : i \notin 0 .. len - 1
    BY <2>1
  <2>2. ASSUME len = 0 PROVE mem' = [pa \in Physical |-> mem[pa]]
    BY <1>1, <1>2, <2>1, <2>2 DEF Moved
  <2> QED BY <2>2
<1> QED BY <1>1, <1>3, <1>4 DEF MovesBytes

-----------------------------------------------------------------------------
(***************************************************************************)
(* What is kept while a task is in a send: everything the checks of send    *)
(* established about its buffers and its leases.                            *)
(***************************************************************************)
Checked(t, x) ==
  \E kind \in {"SendWait", "ReplyWait"}, u \in Tasks \ {t}, message \in Messages,
     table \in LeaseTables :
    /\ x = [kind |-> kind, target |-> u, message |-> message, leases |-> table]
    /\ message.outLen <= MAX_MESSAGE /\ message.replyCap <= MAX_MESSAGE
    /\ MayAll(t, message.out, message.outLen, "read")
    /\ MayAll(t, message.replyBuf, message.replyCap, "write")
    /\ \A k \in DOMAIN table : \A what \in table[k].attrs :
         MayAll(t, table[k].base, table[k].len, what)

LeaseInv ==
  /\ mem = [pa \in Physical |-> mem[pa]]
  /\ sends = [t \in Tasks |-> sends[t]]
  /\ \A t \in Tasks : sends[t] = NoSend \/ Checked(t, sends[t])

(* The buffers of a message are addresses and lengths. *)
LEMMA MessageFields ==
  ASSUME NEW message \in Messages
  PROVE  /\ message.out \in Nat /\ message.outLen \in Nat
         /\ message.replyBuf \in Nat /\ message.replyCap \in Nat
<1>1. message \in [out : Addresses, outLen : Addresses, replyBuf : Addresses, replyCap : Addresses]
  <2>1. Messages \subseteq [out : Addresses, outLen : Addresses,
                            replyBuf : Addresses, replyCap : Addresses]
    BY LeaseAssumption, Zenon
  <2> QED BY <2>1, Zenon
<1>2. /\ message.out \in Addresses /\ message.outLen \in Addresses
      /\ message.replyBuf \in Addresses /\ message.replyCap \in Addresses
  BY <1>1
<1>3. \A a \in Addresses : a \in Nat
  BY Sizes DEF Addresses
<1> QED BY <1>2, <1>3

(* So is a lease. *)
LEMMA LeaseFields ==
  ASSUME NEW table \in LeaseTables, NEW k \in DOMAIN table
  PROVE  table[k].base \in Nat /\ table[k].len \in Nat
<1>1. PICK R : R = [base : Addresses, len : Addresses, attrs : SUBSET STRING]
  OBVIOUS
<1>2. table \in Seq(R)
  BY <1>1, LeaseAssumption
<1>3. table[k] \in R
  BY <1>2
<1>4. table[k].base \in Addresses /\ table[k].len \in Addresses
  BY <1>1, <1>3
<1> QED BY <1>4, Sizes DEF Addresses

(* The parts of what was checked, and that the task is in a send *)
LEMMA CheckedParts ==
  ASSUME NEW t \in Tasks, NEW x, Checked(t, x)
  PROVE  /\ x # NoSend /\ x.kind \in {"SendWait", "ReplyWait"} /\ x.target \in Tasks \ {t}
         /\ x.message \in Messages /\ x.leases \in LeaseTables
         /\ x.message.out \in Nat /\ x.message.outLen \in Nat
         /\ x.message.replyBuf \in Nat /\ x.message.replyCap \in Nat
         /\ x.message.outLen <= MAX_MESSAGE /\ x.message.replyCap <= MAX_MESSAGE
         /\ MayAll(t, x.message.out, x.message.outLen, "read")
         /\ MayAll(t, x.message.replyBuf, x.message.replyCap, "write")
         /\ \A k \in DOMAIN x.leases :
              /\ x.leases[k].base \in Nat /\ x.leases[k].len \in Nat
              /\ \A what \in x.leases[k].attrs : MayAll(t, x.leases[k].base, x.leases[k].len, what)
<1>1. PICK kind \in {"SendWait", "ReplyWait"}, u \in Tasks \ {t}, message \in Messages,
           table \in LeaseTables :
        /\ x = [kind |-> kind, target |-> u, message |-> message, leases |-> table]
        /\ message.outLen <= MAX_MESSAGE /\ message.replyCap <= MAX_MESSAGE
        /\ MayAll(t, message.out, message.outLen, "read")
        /\ MayAll(t, message.replyBuf, message.replyCap, "write")
        /\ \A k \in DOMAIN table : \A what \in table[k].attrs :
             MayAll(t, table[k].base, table[k].len, what)
  BY DEF Checked
<1>2. x.kind = kind /\ x.target = u /\ x.message = message /\ x.leases = table
  BY <1>1
<1>3. x # NoSend
  BY <1>2 DEF NoSend
<1>4. /\ message.out \in Nat /\ message.outLen \in Nat
      /\ message.replyBuf \in Nat /\ message.replyCap \in Nat
  BY MessageFields
<1>5. \A k \in DOMAIN table : table[k].base \in Nat /\ table[k].len \in Nat
  BY LeaseFields
<1> QED BY <1>1, <1>2, <1>3, <1>4, <1>5

(* Nobody is in a send at the start. *)
LEMMA LeaseInit == Init => LeaseInv
BY DEF Init, LeaseInv, Physical

(* The inputs of the borrow calls are addresses. *)
LEMMA Inputs ==
  /\ \A local \in Locals : local \in Nat
  /\ \A offset \in Offsets : offset \in Nat
  /\ \A len \in Lengths : len \in Nat
BY LeaseAssumption DEF Addresses

(* deliver: the shorter of the two lengths, checked again on both sides *)
LEMMA DeliverMoves ==
  ASSUME mem = [pa \in Physical |-> mem[pa]],
         NEW s \in Tasks, NEW d \in Tasks, s # d, NEW buf \in Nat, NEW len \in Nat,
         NEW dst \in Nat, NEW cap \in Nat, len <= MAX_MESSAGE, cap <= MAX_MESSAGE,
         Deliver(s, buf, len, d, dst, cap)
  PROVE  \E size \in Nat :
           /\ size <= len /\ size <= cap /\ size <= MAX_MESSAGE
           /\ MovesBytes(s, buf, d, dst, size)
           /\ mem' = [pa \in Physical |-> mem'[pa]]
           /\ size # 0 => size <= KERNEL_BASE
           /\ size = 0 => mem' = mem
<1>1. PICK size \in Nat : size = Least(len, cap) /\ size <= len /\ size <= cap
  BY DEF Least
<1>2. /\ UserReadable(s, buf, size) /\ UserWritable(d, dst, size)
      /\ mem' = CopyAcross(s, buf, d, dst, size).mem
  BY <1>1 DEF Deliver
<1>3. MayAll(s, buf, size, "read") /\ MayAll(d, dst, size, "write")
  BY <1>2, RangeMayAll
<1>4. size <= MAX_MESSAGE /\ size <= VA_PAGES * PAGE_SIZE
  <2>1. VA_PAGES * PAGE_SIZE \in Nat
    BY Sizes
  <2> QED BY <1>1, <2>1, Sizes
<1>5. MovesBytes(s, buf, d, dst, size) /\ mem' = [pa \in Physical |-> mem'[pa]]
      /\ (size = 0 => mem' = mem)
  BY <1>2, <1>3, <1>4, CopyIsAgreed
<1>6. size # 0 => size <= KERNEL_BASE
  <2>1. size # 0 => buf + size <= KERNEL_BASE
    BY <1>2, RangeIsEveryByte DEF UserReadable
  <2> QED BY <2>1, Sizes
<1> QED BY <1>1, <1>4, <1>5, <1>6

(***************************************************************************)
(* borrow: the address it computes does not wrap, because the lease was     *)
(* checked and the piece is inside it; a piece of no bytes moves none.      *)
(***************************************************************************)
LEMMA PieceOfLease ==
  ASSUME NEW t \in Tasks, NEW base \in Nat, NEW size \in Nat, NEW what, MayAll(t, base, size, what),
         NEW offset \in Nat, NEW len \in Nat, offset + len <= size
  PROVE  /\ ((base + offset) % ADDRESSES) \in Nat
         /\ MayAll(t, (base + offset) % ADDRESSES, len, what)
         /\ len # 0 => ((base + offset) % ADDRESSES) = base + offset /\ len <= KERNEL_BASE
<1>1. ADDRESSES \in Nat \ {0} /\ base + offset \in Nat
  BY Sizes
<1>2. ((base + offset) % ADDRESSES) \in Nat
  BY <1>1, Division
<1>3. CASE len = 0
  <2>1. \A i : i \notin 0 .. len - 1
    BY <1>3
  <2> QED BY <1>2, <1>3, <2>1 DEF MayAll
<1>4. CASE len # 0
  <2>1. MayAll(t, base + offset, len, what)
    BY MayPart
  <2>2. 0 \in 0 .. len - 1 /\ len - 1 \in 0 .. len - 1
    BY <1>4
  <2>3. (base + offset) + 0 < KERNEL_BASE /\ (base + offset) + (len - 1) < KERNEL_BASE
    BY <2>1, <2>2 DEF MayAll, ByteAllows
  <2>4. base + offset < ADDRESSES /\ len <= KERNEL_BASE
    BY <1>4, <2>3, Sizes
  <2>5. ((base + offset) % ADDRESSES) = base + offset
    BY <1>1, <2>4
  <2> QED BY <1>2, <2>1, <2>4, <2>5
<1> QED BY <1>3, <1>4

(***************************************************************************)
(* What a step may do to memory, and that the invariant is kept: one case   *)
(* for each way in which the copy was agreed.                               *)
(***************************************************************************)
Agreed ==
  mem' # mem => \E me, peer \in Tasks, local \in Locals, len \in 1 .. KERNEL_BASE :
                  AgreedCopy(me, peer, local, len)

(* The sends of the others stand. *)
LEMMA SendsKept ==
  ASSUME LeaseInv, NEW t \in Tasks, NEW x, x = NoSend \/ Checked(t, x),
         sends' = [sends EXCEPT ![t] = x], mem' = [pa \in Physical |-> mem'[pa]]
  PROVE  LeaseInv'
<1>1. /\ sends' = [u \in Tasks |-> sends'[u]] /\ sends'[t] = x
      /\ \A u \in Tasks \ {t} : sends'[u] = sends[u]
  BY DEF LeaseInv
<1>2. \A u \in Tasks : sends'[u] = NoSend \/ Checked(u, sends'[u])
  BY <1>1 DEF LeaseInv
<1>3. \A u \in Tasks : (sends[u] = NoSend \/ Checked(u, sends[u]))'
  BY <1>2 DEF Checked, MayAll, ByteAllows, NoSend
<1> QED BY <1>1, <1>3 DEF LeaseInv

(* send: the checks say byte by byte what they say page by page. *)
LEMMA SendStep ==
  ASSUME LeaseInv, NEW t \in Tasks, NEW u \in Tasks, NEW message \in Messages,
         NEW table \in LeaseTables, Send(t, u, message, table)
  PROVE  LeaseInv' /\ Agreed
<1>1. PICK x : x = [kind |-> "SendWait", target |-> u, message |-> message, leases |-> table]
  OBVIOUS
<1>2. /\ message.out \in Nat /\ message.outLen \in Nat
      /\ message.replyBuf \in Nat /\ message.replyCap \in Nat
  BY MessageFields
<1>3. /\ MayAll(t, message.out, message.outLen, "read")
      /\ MayAll(t, message.replyBuf, message.replyCap, "write")
  BY <1>2, RangeMayAll DEF Send
<1>4. ASSUME NEW k \in DOMAIN table, NEW what \in table[k].attrs
      PROVE  MayAll(t, table[k].base, table[k].len, what)
  <2>4. table[k].base \in Nat /\ table[k].len \in Nat
    BY LeaseFields
  <2>5. LeaseOK(t, table[k])
    BY DEF Send, CollectLeases
  <2>6. what \in {"read", "write"}
    BY <1>4, <2>5 DEF LeaseOK
  <2>7. CASE what = "read"
    BY <1>4, <2>4, <2>5, <2>7, RangeMayAll DEF LeaseOK
  <2>8. CASE what = "write"
    BY <1>4, <2>4, <2>5, <2>8, RangeMayAll DEF LeaseOK
  <2> QED BY <2>6, <2>7, <2>8
<1>5. Checked(t, x)
  <2>1. u \in Tasks \ {t} /\ "SendWait" \in {"SendWait", "ReplyWait"}
        /\ message.outLen <= MAX_MESSAGE /\ message.replyCap <= MAX_MESSAGE
    BY DEF Send
  <2> QED BY <1>1, <1>3, <1>4, <2>1 DEF Checked
<1>6. sends' = [sends EXCEPT ![t] = x] /\ mem' = mem
  BY <1>1 DEF Send
<1> QED BY <1>5, <1>6, SendsKept DEF Agreed, LeaseInv

(* abandon *)
LEMMA AbandonedStep ==
  ASSUME LeaseInv, NEW t \in Tasks, Abandoned(t) PROVE LeaseInv' /\ Agreed
BY SendsKept DEF Abandoned, Agreed, LeaseInv

(* A message is collected. *)
LEMMA ReceiveStep ==
  ASSUME LeaseInv, NEW t \in Tasks, NEW u \in Tasks, NEW buf \in Locals, NEW cap \in Lengths,
         Receive(u, t, buf, cap)
  PROVE  LeaseInv' /\ Agreed
<1>1. PICK x : x = sends[t]
  OBVIOUS
<1>2. x.kind = "SendWait" /\ x.target = u
  BY <1>1 DEF Receive
<1>3. Checked(t, x)
  BY <1>1, <1>2 DEF LeaseInv, NoSend
<1>4. PICK y : y = [x EXCEPT !.kind = "ReplyWait"]
  OBVIOUS
<1>5. Checked(t, y) /\ y.kind = "ReplyWait"
  <2>1. PICK kind \in {"SendWait", "ReplyWait"}, to \in Tasks \ {t}, message \in Messages,
             table \in LeaseTables :
          /\ x = [kind |-> kind, target |-> to, message |-> message, leases |-> table]
          /\ message.outLen <= MAX_MESSAGE /\ message.replyCap <= MAX_MESSAGE
          /\ MayAll(t, message.out, message.outLen, "read")
          /\ MayAll(t, message.replyBuf, message.replyCap, "write")
          /\ \A k \in DOMAIN table : \A what \in table[k].attrs :
               MayAll(t, table[k].base, table[k].len, what)
    BY <1>3 DEF Checked
  <2>2. y = [kind |-> "ReplyWait", target |-> to, message |-> message, leases |-> table]
    BY <1>4, <2>1
  <2>3. "ReplyWait" \in {"SendWait", "ReplyWait"} /\ y.kind = "ReplyWait"
    BY <2>2
  <2> QED BY <2>1, <2>2, <2>3 DEF Checked
<1>6. sends' = [sends EXCEPT ![t] = y]
  BY <1>1, <1>4 DEF Receive
<1>7. buf \in Nat /\ cap \in Nat /\ cap <= MAX_MESSAGE
  BY Inputs DEF Receive
<1>8. /\ x.message.out \in Nat /\ x.message.outLen \in Nat /\ x.message.outLen <= MAX_MESSAGE
      /\ t # u
  BY <1>2, <1>3, CheckedParts
<1>9. Deliver(t, x.message.out, x.message.outLen, u, buf, cap)
  BY <1>1 DEF Receive
<1>10. PICK size \in Nat :
         /\ size <= x.message.outLen /\ size <= MAX_MESSAGE
         /\ MovesBytes(t, x.message.out, u, buf, size)
         /\ mem' = [pa \in Physical |-> mem'[pa]]
         /\ size # 0 => size <= KERNEL_BASE
         /\ size = 0 => mem' = mem
  BY <1>7, <1>8, <1>9, DeliverMoves DEF LeaseInv
<1>11. LeaseInv'
  BY <1>5, <1>6, <1>10, SendsKept
<1>12. ASSUME mem' # mem PROVE AgreedCopy(u, t, buf, size) /\ size \in 1 .. KERNEL_BASE
  <2>1. size \in 1 .. KERNEL_BASE
    BY <1>10, <1>12, Sizes
  <2>2. ~Runs(t) /\ sends'[t].kind = "ReplyWait"
    BY <1>1, <1>3, <1>5, <1>6, CheckedParts DEF Runs, LeaseInv
  <2>3. /\ sends[t].target = u /\ sends[t].kind = "SendWait"
        /\ size <= sends[t].message.outLen /\ MovesBytes(t, sends[t].message.out, u, buf, size)
    BY <1>1, <1>2, <1>10
  <2> QED BY <1>10, <2>1, <2>2, <2>3 DEF AgreedCopy
<1> QED BY <1>11, <1>12 DEF Agreed

(* A reply is delivered. *)
LEMMA ReplyStep ==
  ASSUME LeaseInv, NEW t \in Tasks, NEW u \in Tasks, NEW data \in Locals, NEW len \in Lengths,
         Reply(u, t, data, len)
  PROVE  LeaseInv' /\ Agreed
<1>1. PICK x : x = sends[t]
  OBVIOUS
<1>2. x.kind = "ReplyWait" /\ x.target = u
  BY <1>1 DEF Reply
<1>3. Checked(t, x)
  BY <1>1, <1>2 DEF LeaseInv, NoSend
<1>4. sends' = [sends EXCEPT ![t] = NoSend]
  BY DEF Reply
<1>5. data \in Nat /\ len \in Nat /\ len <= MAX_MESSAGE
  BY Inputs DEF Reply
<1>6. /\ x.message.replyBuf \in Nat /\ x.message.replyCap \in Nat
      /\ x.message.replyCap <= MAX_MESSAGE /\ t # u
  BY <1>2, <1>3, CheckedParts
<1>7. Deliver(u, data, len, t, x.message.replyBuf, x.message.replyCap)
  BY <1>1 DEF Reply
<1>8. PICK size \in Nat :
         /\ size <= x.message.replyCap /\ size <= MAX_MESSAGE
         /\ MovesBytes(u, data, t, x.message.replyBuf, size)
         /\ mem' = [pa \in Physical |-> mem'[pa]]
         /\ size # 0 => size <= KERNEL_BASE
         /\ size = 0 => mem' = mem
  BY <1>5, <1>6, <1>7, DeliverMoves DEF LeaseInv
<1>9. LeaseInv'
  BY <1>4, <1>8, SendsKept
<1>10. ASSUME mem' # mem PROVE AgreedCopy(u, t, data, size) /\ size \in 1 .. KERNEL_BASE
  <2>1. size \in 1 .. KERNEL_BASE
    BY <1>8, <1>10, Sizes
  <2>2. ~Runs(t) /\ sends'[t] = NoSend
    BY <1>1, <1>3, <1>4, CheckedParts DEF Runs, LeaseInv
  <2>3. /\ sends[t].target = u /\ sends[t].kind = "ReplyWait"
        /\ size <= sends[t].message.replyCap /\ MovesBytes(u, data, t, sends[t].message.replyBuf, size)
    BY <1>1, <1>2, <1>8
  <2> QED BY <1>8, <2>1, <2>2, <2>3 DEF AgreedCopy
<1> QED BY <1>9, <1>10 DEF Agreed

(* A borrow *)
LEMMA BorrowStep ==
  ASSUME LeaseInv, NEW me \in Tasks, NEW peer \in Tasks, NEW k, NEW offset \in Offsets,
         NEW local \in Locals, NEW len \in Lengths, Borrow(me, peer, k, offset, local, len)
  PROVE  LeaseInv' /\ Agreed
<1>1. PICK x : x = sends[peer]
  OBVIOUS
<1>2. x.kind = "ReplyWait" /\ x.target = me /\ k \in DOMAIN x.leases
  BY <1>1 DEF Borrow, LeaseIsOurs
<1>3. Checked(peer, x)
  BY <1>1, <1>2 DEF LeaseInv, NoSend
<1>4. PICK lease : lease = x.leases[k]
  OBVIOUS
<1>5. /\ lease.base \in Nat /\ lease.len \in Nat /\ peer # me /\ x # NoSend
      /\ \A what \in lease.attrs : MayAll(peer, lease.base, lease.len, what)
  BY <1>2, <1>3, <1>4, CheckedParts
<1>6. local \in Nat /\ offset \in Nat /\ len \in Nat
  BY Inputs
<1>7. len <= MAX_BORROW /\ offset + len <= lease.len /\ sends' = sends
  BY <1>1, <1>4 DEF Borrow, Fits
<1>8. len <= VA_PAGES * PAGE_SIZE
  <2>1. VA_PAGES * PAGE_SIZE \in Nat
    BY Sizes
  <2> QED BY <1>6, <1>7, <2>1, Sizes
<1>9. PICK va : va = (lease.base + offset) % ADDRESSES
  OBVIOUS
<1>10. ASSUME NEW what \in lease.attrs
       PROVE  /\ va \in Nat /\ MayAll(peer, va, len, what)
              /\ len # 0 => va = lease.base + offset /\ len <= KERNEL_BASE
  BY <1>5, <1>6, <1>7, <1>9, PieceOfLease
<1>11. ASSUME "write" \in lease.attrs, UserReadable(me, local, len),
              mem' = CopyAcross(me, local, peer, va, len).mem
       PROVE  /\ MovesBytes(me, local, peer, va, len) /\ mem' = [pa \in Physical |-> mem'[pa]]
              /\ len = 0 => mem' = mem
  <2>1. MayAll(me, local, len, "read")
    BY <1>6, <1>11, RangeMayAll
  <2>2. va \in Nat /\ MayAll(peer, va, len, "write")
    BY <1>10, <1>11
  <2> QED BY <1>5, <1>6, <1>8, <1>11, <2>1, <2>2, CopyIsAgreed DEF LeaseInv
<1>12. ASSUME "read" \in lease.attrs, UserWritable(me, local, len),
              mem' = CopyAcross(peer, va, me, local, len).mem
       PROVE  /\ MovesBytes(peer, va, me, local, len) /\ mem' = [pa \in Physical |-> mem'[pa]]
              /\ len = 0 => mem' = mem
  <2>1. MayAll(me, local, len, "write")
    BY <1>6, <1>12, RangeMayAll
  <2>2. va \in Nat /\ MayAll(peer, va, len, "read")
    BY <1>10, <1>12
  <2> QED BY <1>5, <1>6, <1>8, <1>12, <2>1, <2>2, CopyIsAgreed DEF LeaseInv
<1>13. /\ mem' = [pa \in Physical |-> mem'[pa]] /\ (len = 0 => mem' = mem)
       /\ \/ "write" \in lease.attrs /\ MovesBytes(me, local, peer, va, len)
          \/ "read" \in lease.attrs /\ MovesBytes(peer, va, me, local, len)
  <2>1. BorrowWrite(me, peer, lease, offset, local, len)
          \/ BorrowRead(me, peer, lease, offset, local, len)
    BY <1>1, <1>4 DEF Borrow
  <2> QED BY <1>9, <1>11, <1>12, <2>1 DEF BorrowWrite, BorrowRead
<1>14. LeaseInv'
  <2>1. sends' = [sends EXCEPT ![peer] = x]
    BY <1>1, <1>7 DEF LeaseInv
  <2> QED BY <1>3, <1>13, <2>1, SendsKept
<1>15. ASSUME mem' # mem PROVE AgreedCopy(me, peer, local, len) /\ len \in 1 .. KERNEL_BASE
  <2>1. len # 0
    BY <1>13, <1>15
  <2>2. va = lease.base + offset /\ len <= KERNEL_BASE
    BY <1>10, <1>13, <2>1
  <2>3. len \in 1 .. KERNEL_BASE /\ offset \in 0 .. lease.len - len
    BY <1>5, <1>6, <1>7, <2>1, <2>2, Sizes
  <2>4. /\ ~Runs(peer) /\ sends[peer].target = me /\ sends[peer].kind = "ReplyWait"
        /\ k \in DOMAIN sends[peer].leases /\ lease = sends[peer].leases[k]
    BY <1>1, <1>2, <1>4, <1>5 DEF Runs
  <2>5. \/ "write" \in lease.attrs /\ MovesBytes(me, local, peer, lease.base + offset, len)
        \/ "read" \in lease.attrs /\ MovesBytes(peer, lease.base + offset, me, local, len)
    BY <1>13, <2>2
  <2> QED BY <1>7, <2>3, <2>4, <2>5 DEF AgreedCopy
<1> QED BY <1>14, <1>15 DEF Agreed

(* Every step *)
LEMMA LeaseStep ==
  ASSUME LeaseInv, [Next]_leaseVars
  PROVE  LeaseInv' /\ Agreed
<1>1. CASE UNCHANGED leaseVars
  <2>1. LeaseInv'
    BY <1>1 DEF leaseVars, LeaseInv, Checked, MayAll, ByteAllows, NoSend
  <2> QED BY <1>1, <2>1 DEF leaseVars, Agreed
<1> QED BY <1>1, SendStep, AbandonedStep, ReceiveStep, ReplyStep, BorrowStep DEF Next

(* So it holds in every reachable state. *)
LEMMA LeaseInvAlways == Spec => []LeaseInv
<1>1. LeaseInv /\ [Next]_leaseVars => LeaseInv'
  BY LeaseStep
<1> QED BY <1>1, LeaseInit, PTL DEF Spec

(***************************************************************************)
(* send's one check of its buffers and leases (user_range in paging.rs) is  *)
(* still good when they are used: each byte of them is one its owner may    *)
(* access that way, for every layout of the spaces.                         *)
(***************************************************************************)
THEOREM CheckedOnceIsEnough == Spec => []SentBuffersAccessible
<1>1. ASSUME LeaseInv PROVE SentBuffersAccessible
  <2> SUFFICES ASSUME NEW t \in Tasks, ~Runs(t)
               PROVE  /\ MayAll(t, sends[t].message.out, sends[t].message.outLen, "read")
                      /\ MayAll(t, sends[t].message.replyBuf, sends[t].message.replyCap, "write")
                      /\ \A k \in DOMAIN sends[t].leases : \A what \in sends[t].leases[k].attrs :
                           MayAll(t, sends[t].leases[k].base, sends[t].leases[k].len, what)
    BY DEF SentBuffersAccessible
  <2>1. Checked(t, sends[t])
    BY <1>1 DEF LeaseInv, Runs
  <2> QED BY <2>1, CheckedParts
<1> QED BY <1>1, LeaseInvAlways, PTL

(***************************************************************************)
(* copy_across and borrow: memory changes only as a message, a reply or a   *)
(* lease agreed, and exactly those bytes move: copying page by page, in     *)
(* chunks that end where either page does, is copying byte by byte.         *)
(***************************************************************************)
THEOREM AgreedBytesMove == Spec => OnlyAgreedBytesMove
<1>1. LeaseInv /\ [Next]_leaseVars =>
        [mem' # mem => \E me, peer \in Tasks, local \in Locals, len \in 1 .. KERNEL_BASE :
                         AgreedCopy(me, peer, local, len)]_leaseVars
  BY LeaseStep DEF Agreed
<1> QED BY <1>1, LeaseInvAlways, PTL DEF Spec, OnlyAgreedBytesMove

=============================================================================
