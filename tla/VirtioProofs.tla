----------------------------- MODULE VirtioProofs -----------------------------
(***************************************************************************)
(* Proofs about the virtio transport and its virtqueue for every queue      *)
(* size, index width, chain length and set of features, whatever order the  *)
(* device finishes requests in and however often the indices wrap.          *)
(***************************************************************************)
EXTENDS Virtio, FiniteSetTheorems, WellFoundedInduction, TLAPS

-----------------------------------------------------------------------------
(* Arithmetic of indices that wrap *)

(* A nonempty set of naturals has a least element: induction for what follows. *)
LEMMA LeastOf ==
  ASSUME NEW T \in SUBSET Nat, T # {}
  PROVE  \E n \in T : \A m \in T : n <= m
<1> DEFINE R == OpToRel(<, Nat)
<1>1. IsWellFoundedOn(R, Nat)
  BY NatLessThanWellFounded
<1>2. PICK x \in T : \A y \in T : ~ (<<y, x>> \in R)
  <2> HIDE DEF R
  <2> QED BY <1>1, WFMin
<1>3. ASSUME NEW y \in T PROVE x <= y
  <2>1. <<y, x>> \notin {ss \in Nat \X Nat : ss[1] < ss[2]}
    BY <1>2 DEF OpToRel
  <2> QED BY <2>1
<1> QED BY <1>3

(* A nonzero multiple of m is at least m away from zero. *)
LEMMA Multiples ==
  ASSUME NEW m \in Nat \ {0}, NEW q \in Int
  PROVE  /\ m * q \in Int
         /\ q >= 1 => m * q >= m
         /\ q <= -1 => m * q <= -m
<1>1. m * q \in Int /\ m * (q - 1) = m * q - m /\ m * (q + 1) = m * q + m
  OBVIOUS
<1>2. ASSUME q >= 1 PROVE m * q >= m
  <2>1. q - 1 \in Nat
    BY <1>2
  <2>2. m * (q - 1) >= 0
    BY <2>1
  <2> QED BY <1>1, <2>2
<1>3. ASSUME q <= -1 PROVE m * q <= -m
  <2>1. -(q + 1) \in Nat
    BY <1>3
  <2>2. m * (-(q + 1)) >= 0
    BY <2>1
  <2>3. m * (-(q + 1)) = -(m * (q + 1))
    OBVIOUS
  <2> QED BY <1>1, <2>2, <2>3
<1> QED BY <1>1, <1>2, <1>3

(* Division with remainder has an answer, *)
LEMMA Division ==
  ASSUME NEW m \in Nat \ {0}, NEW a \in Nat
  PROVE  \E q \in Int : /\ a = m * q + (a % m) /\ m * q \in Int
                        /\ a % m \in 0 .. m - 1
<1> DEFINE p == a \div m
<1>1. p \in Int /\ a % m \in 0 .. m - 1 /\ a = m * p + (a % m)
  OBVIOUS
<1>2. m * p \in Int
  BY <1>1
<1> HIDE DEF p
<1> USE <1>1, <1>2
<1> WITNESS p \in Int
<1> QED OBVIOUS

(* and only one. *)
LEMMA Remainder ==
  ASSUME NEW m \in Nat \ {0}, NEW a \in Nat, NEW q \in Int, NEW r \in 0 .. m - 1,
         a = m * q + r
  PROVE  a % m = r
<1> DEFINE p == a \div m
           s == a % m
<1>1. p \in Int /\ s \in 0 .. m - 1 /\ a = m * p + s
  OBVIOUS
<1> HIDE DEF p, s
<1>2. m * (q - p) = m * q - m * p /\ m * q \in Int /\ m * p \in Int
  BY <1>1
<1>3. m * (q - p) = s - r
  BY <1>1, <1>2
<1>4. q - p = 0
  BY <1>1, <1>3, Multiples
<1>5. m * (q - p) = 0
  BY <1>4
<1> QED BY <1>1, <1>3, <1>5 DEF s

(* Adding whole laps changes no remainder. *)
LEMMA Laps ==
  ASSUME NEW m \in Nat \ {0}, NEW a \in Nat, NEW b \in Nat, NEW q \in Int, b = a + m * q
  PROVE  b % m = a % m
<1>1. PICK p \in Int : a = m * p + (a % m)
  BY Division
<1>2. a % m \in 0 .. m - 1 /\ m * (p + q) = m * p + m * q /\ p + q \in Int
  BY <1>1
<1>3. m * p \in Int /\ m * q \in Int
  BY <1>1
<1>4. b = m * (p + q) + (a % m)
  BY <1>1, <1>2, <1>3
<1> QED BY <1>2, <1>4, Remainder

(* Within one lap, different offsets are different places. *)
LEMMA OneLap ==
  ASSUME NEW m \in Nat \ {0}, NEW i \in Nat, NEW j \in 0 .. m - 1, NEW k \in 0 .. m - 1,
         (i + j) % m = (i + k) % m
  PROVE  j = k
<1> DEFINE a == i + j
           b == i + k
<1>0. a \in Nat /\ b \in Nat
  OBVIOUS
<1>1. PICK p \in Int : a = m * p + (a % m)
  BY <1>0, Division
<1>2. PICK q \in Int : b = m * q + (b % m)
  BY <1>0, Division
<1>3. m * (p - q) = m * p - m * q /\ m * p \in Int /\ m * q \in Int /\ (i + j) % m \in Int
  BY <1>1, <1>2
<1>4. m * (p - q) = j - k
  BY <1>1, <1>2, <1>3
<1>5. p - q = 0
  BY <1>1, <1>2, <1>4, Multiples
<1>6. m * (p - q) = 0
  BY <1>5
<1> QED BY <1>4, <1>6

(***************************************************************************)
(* The rings are indexed by free running indices: since a lap of the index  *)
(* is a whole number of laps of the ring, wrapping the one never disturbs   *)
(* the other.                                                               *)
(***************************************************************************)
LEMMA Wrapping ==
  ASSUME NEW i \in 0 .. INDICES - 1, NEW j \in Nat
  PROVE  /\ Succ(i) \in 0 .. INDICES - 1 /\ (i + j) % INDICES \in 0 .. INDICES - 1
         /\ i % INDICES = i
         /\ Position((i + j) % INDICES) = (i + j) % QUEUE_SIZE
         /\ Succ((i + j) % INDICES) = (i + (j + 1)) % INDICES
         /\ (Succ(i) + j) % INDICES = (i + (j + 1)) % INDICES
         /\ (Succ(i) + j) % QUEUE_SIZE = (i + (j + 1)) % QUEUE_SIZE
         /\ (i + j) % QUEUE_SIZE \in Descriptors
<1>1. INDICES \in Nat \ {0} /\ QUEUE_SIZE \in Nat \ {0} /\ i \in Nat /\ i + j \in Nat /\ i + 1 \in Nat
  BY QueueAssumption
<1>2. PICK c \in Int : INDICES = QUEUE_SIZE * c
  <2>1. INDICES % QUEUE_SIZE = 0
    BY QueueAssumption
  <2>2. INDICES = QUEUE_SIZE * (INDICES \div QUEUE_SIZE) + (INDICES % QUEUE_SIZE)
    BY <1>1
  <2> QED BY <1>1, <2>1, <2>2
<1>3. ASSUME NEW a \in Nat
      PROVE  \E q \in Int : /\ a = (a % INDICES) + INDICES * q
                            /\ a = (a % INDICES) + QUEUE_SIZE * (c * q)
                            /\ a % INDICES \in 0 .. INDICES - 1
  <2>1. PICK q \in Int : a = INDICES * q + (a % INDICES) /\ a % INDICES \in 0 .. INDICES - 1
    BY <1>1, <1>3, Division
  <2>2. INDICES * q = QUEUE_SIZE * (c * q) /\ INDICES * q \in Int
    BY <1>1, <1>2
  <2> DEFINE r == a % INDICES
  <2>3. r \in Int /\ a = INDICES * q + r
    BY <1>1, <2>1
  <2>4. a = r + INDICES * q /\ a = r + QUEUE_SIZE * (c * q)
    <3> HIDE DEF r
    <3> QED BY <2>2, <2>3
  <2> QED BY <2>1, <2>4
<1>4. Succ(i) \in 0 .. INDICES - 1 /\ (i + j) % INDICES \in 0 .. INDICES - 1
  BY <1>1 DEF Succ
<1>5. Position((i + j) % INDICES) = (i + j) % QUEUE_SIZE
  <2>1. PICK q \in Int : i + j = ((i + j) % INDICES) + QUEUE_SIZE * (c * q)
    BY <1>1, <1>3
  <2>2. c * q \in Int /\ (i + j) % INDICES \in Nat
    BY <1>1, <1>4
  <2> QED BY <1>1, <2>1, <2>2, Laps DEF Position
<1>6. Succ((i + j) % INDICES) = (i + (j + 1)) % INDICES
  <2>1. PICK q \in Int : i + j = ((i + j) % INDICES) + INDICES * q
    BY <1>1, <1>3
  <2>2. INDICES * q \in Int /\ ((i + j) % INDICES) + 1 \in Nat /\ i + (j + 1) \in Nat
    BY <1>1, <1>4
  <2>3. i + (j + 1) = (((i + j) % INDICES) + 1) + INDICES * q
    <3> DEFINE r == (i + j) % INDICES
               w == INDICES * q
    <3>1. r \in Int /\ w \in Int /\ i + j = r + w
      BY <1>4, <2>1, <2>2
    <3> HIDE DEF r, w
    <3>2. i + (j + 1) = (r + 1) + w
      BY <3>1
    <3> QED BY <3>2 DEF r, w
  <2> QED BY <1>1, <2>2, <2>3, Laps DEF Succ
<1>7. PICK q \in Int : /\ i + 1 = Succ(i) + INDICES * q
                       /\ i + 1 = Succ(i) + QUEUE_SIZE * (c * q)
  BY <1>1, <1>3 DEF Succ
<1>8. /\ Succ(i) + j \in Nat /\ i + (j + 1) \in Nat
      /\ INDICES * q \in Int /\ c * q \in Int /\ QUEUE_SIZE * (c * q) \in Int
  BY <1>1, <1>4
<1>9. /\ i + (j + 1) = (Succ(i) + j) + INDICES * q
      /\ i + (j + 1) = (Succ(i) + j) + QUEUE_SIZE * (c * q)
  BY <1>4, <1>7, <1>8
<1>10. (Succ(i) + j) % INDICES = (i + (j + 1)) % INDICES
  BY <1>1, <1>8, <1>9, Laps
<1>11. (Succ(i) + j) % QUEUE_SIZE = (i + (j + 1)) % QUEUE_SIZE
  BY <1>1, <1>8, <1>9, Laps
<1>12. i % INDICES = i /\ (i + j) % QUEUE_SIZE \in Descriptors
  BY <1>1 DEF Descriptors
<1> QED BY <1>4, <1>5, <1>6, <1>10, <1>11, <1>12

-----------------------------------------------------------------------------
(* Lists threaded through a table *)

(* What is numbered from 0 without repetition has as many members as numbers. *)
LEMMA Numbered ==
  ASSUME NEW n \in Nat, NEW g, NEW S, S = {g[k] : k \in 0 .. n - 1},
         \A j, k \in 0 .. n - 1 : g[j] = g[k] => j = k
  PROVE  IsFiniteSet(S) /\ Cardinality(S) = n
<1> DEFINE h == [k \in 0 .. n - 1 |-> g[k]]
<1>1. h \in Surjection(0 .. n - 1, S) /\ h \in Injection(0 .. n - 1, S)
  BY DEF Surjection, Injection, IsInjective
<1>2. IsFiniteSet(0 .. n - 1) /\ Cardinality(0 .. n - 1) = n
  BY FS_Interval
<1> HIDE DEF h
<1> QED BY <1>1, <1>2, FS_Surjection

(* The descriptors are QUEUE_SIZE many; a proper part of them is fewer. *)
LEMMA DescriptorCount ==
  /\ IsFiniteSet(Descriptors) /\ Cardinality(Descriptors) = QUEUE_SIZE
  /\ \A S \in SUBSET Descriptors :
       /\ IsFiniteSet(S) /\ Cardinality(S) \in Nat /\ Cardinality(S) <= QUEUE_SIZE
       /\ S # Descriptors => Cardinality(S) < QUEUE_SIZE
<1>1. IsFiniteSet(Descriptors) /\ Cardinality(Descriptors) = QUEUE_SIZE
  BY QueueAssumption, FS_Interval DEF Descriptors
<1>2. QUEUE_SIZE \in Nat
  BY QueueAssumption
<1>3. ASSUME NEW S \in SUBSET Descriptors
      PROVE  /\ IsFiniteSet(S) /\ Cardinality(S) \in Nat /\ Cardinality(S) <= QUEUE_SIZE
             /\ S # Descriptors => Cardinality(S) < QUEUE_SIZE
  <2>1. IsFiniteSet(S) /\ Cardinality(S) <= QUEUE_SIZE /\ (Cardinality(S) = QUEUE_SIZE => S = Descriptors)
    BY <1>1, FS_Subset
  <2>2. Cardinality(S) \in Nat
    BY <2>1, FS_CardinalityType
  <2> QED BY <1>2, <2>1, <2>2
<1> QED BY <1>1, <1>3

(* f visits n different descriptors along the links of step, from h to Nil. *)
Visits(f, step, h, n) ==
  /\ f \in [0 .. n -> 0 .. QUEUE_SIZE]
  /\ f[0] = h /\ f[n] = Nil
  /\ \A k \in 0 .. n - 1 : f[k] \in Descriptors /\ f[k + 1] = step[f[k]]
  /\ \A j, k \in 0 .. n - 1 : f[j] = f[k] => j = k

Threaded(step, h, n, S) ==
  \E f : Visits(f, step, h, n) /\ S = {f[k] : k \in 0 .. n - 1}

(* A walk that visits the members of S threads them. *)
LEMMA ThreadIntro ==
  ASSUME NEW step, NEW h, NEW n, NEW S, NEW f, Visits(f, step, h, n), S = {f[k] : k \in 0 .. n - 1}
  PROVE  Threaded(step, h, n, S)
BY DEF Threaded

(* at is the walk that ListFrom and ChainFrom take, over the links of step. *)
Follows(at, step, h) ==
  at = [k \in 0 .. QUEUE_SIZE |->
          IF k = 0 THEN h ELSE IF at[k - 1] \in Descriptors THEN step[at[k - 1]] ELSE Nil]

(* The recursion has a solution: a walk of any length can be continued. *)
LEMMA WalkExists ==
  ASSUME NEW step, NEW h
  PROVE  \E at : Follows(at, step, h)
<1> DEFINE Upto(at, m) ==
             at = [k \in 0 .. m |->
                     IF k = 0 THEN h ELSE IF at[k - 1] \in Descriptors THEN step[at[k - 1]] ELSE Nil]
           Bad == {m \in Nat : ~ \E at : Upto(at, m)}
<1>1. ASSUME Bad # {}
      PROVE  FALSE
  <2>1. PICK m \in Bad : \A l \in Bad : m <= l
    BY <1>1, LeastOf
  <2>2. m \in Nat /\ ~ \E at : Upto(at, m)
    BY <2>1
  <2>3. CASE m = 0
    <3>1. Upto([k \in 0 .. 0 |-> h], 0)
      OBVIOUS
    <3> QED BY <2>2, <2>3, <3>1
  <2>4. CASE m # 0
    <3>1. m - 1 \in Nat /\ m - 1 \notin Bad
      BY <2>1, <2>2, <2>4
    <3>2. PICK at : Upto(at, m - 1)
      BY <3>1
    <3> DEFINE more == [k \in 0 .. m |->
                          IF k = m THEN IF at[m - 1] \in Descriptors THEN step[at[m - 1]] ELSE Nil
                          ELSE at[k]]
    <3>3. \A k \in 0 .. m - 1 :
            at[k] = IF k = 0 THEN h ELSE IF at[k - 1] \in Descriptors THEN step[at[k - 1]] ELSE Nil
      BY <3>2
    <3>4. \A k \in 0 .. m - 1 : more[k] = at[k]
      BY <3>1
    <3>5. \A k \in 0 .. m :
            more[k] = IF k = 0 THEN h ELSE IF more[k - 1] \in Descriptors THEN step[more[k - 1]] ELSE Nil
      <4> TAKE k \in 0 .. m
      <4>1. CASE k = m
        BY <2>4, <3>1, <3>4, <4>1
      <4>2. CASE k # m
        <5>1. k \in 0 .. m - 1 /\ (k # 0 => k - 1 \in 0 .. m - 1)
          BY <3>1, <4>2
        <5> QED BY <3>3, <3>4, <5>1
      <4> QED BY <4>1, <4>2
    <3>6. Upto(more, m)
      <4>1. more = [k \in 0 .. m |-> more[k]]
        OBVIOUS
      <4> HIDE DEF more
      <4> QED BY <3>5, <4>1
    <3> QED BY <2>2, <3>6
  <2> QED BY <2>3, <2>4
<1>2. QUEUE_SIZE \in Nat
  BY QueueAssumption
<1>3. PICK at : Upto(at, QUEUE_SIZE)
  BY <1>1, <1>2
<1> QED BY <1>3 DEF Follows

(* A threaded list has no more members than there are descriptors. *)
LEMMA ThreadSize ==
  ASSUME NEW step, NEW h, NEW n \in Nat, NEW S, Threaded(step, h, n, S)
  PROVE  /\ S \in SUBSET Descriptors /\ Cardinality(S) = n /\ n <= QUEUE_SIZE
         /\ n > 0 => h \in S
<1>1. PICK f : Visits(f, step, h, n) /\ S = {f[k] : k \in 0 .. n - 1}
  BY DEF Threaded
<1>2. S \in SUBSET Descriptors
  BY <1>1 DEF Visits
<1>3. Cardinality(S) = n
  BY <1>1, Numbered DEF Visits
<1>4. n > 0 => h \in S
  BY <1>1 DEF Visits
<1> QED BY <1>2, <1>3, <1>4, DescriptorCount

(***************************************************************************)
(* A walk along a threaded list meets its members one by one and then Nil   *)
(* for ever.                                                                *)
(***************************************************************************)
LEMMA WalkMeets ==
  ASSUME NEW step, NEW h, NEW n \in Nat, NEW f, Visits(f, step, h, n),
         NEW at, Follows(at, step, h)
  PROVE  /\ n <= QUEUE_SIZE
         /\ \A k \in 0 .. QUEUE_SIZE : at[k] = IF k <= n THEN f[k] ELSE Nil
<1>1. n <= QUEUE_SIZE /\ QUEUE_SIZE \in Nat /\ Nil \notin Descriptors
  <2>1. Threaded(step, h, n, {f[k] : k \in 0 .. n - 1})
    BY DEF Threaded
  <2> QED BY <2>1, ThreadSize, QueueAssumption DEF Nil, Descriptors
<1> DEFINE Bad == {k \in 0 .. QUEUE_SIZE : at[k] # IF k <= n THEN f[k] ELSE Nil}
<1>2. ASSUME NEW k \in 0 .. QUEUE_SIZE
      PROVE  at[k] = IF k = 0 THEN h ELSE IF at[k - 1] \in Descriptors THEN step[at[k - 1]] ELSE Nil
  BY DEF Follows
<1>3. ASSUME Bad # {}
      PROVE  FALSE
  <2>0. Bad \in SUBSET Nat
    BY <1>1
  <2>1. PICK k \in Bad : \A j \in Bad : k <= j
    BY <1>3, <2>0, LeastOf
  <2>2. k \in 0 .. QUEUE_SIZE /\ at[k] # IF k <= n THEN f[k] ELSE Nil
    BY <2>1
  <2>3. k # 0
    BY <1>2, <2>2 DEF Visits
  <2>4. k - 1 \in 0 .. QUEUE_SIZE /\ k - 1 \notin Bad
    BY <1>1, <2>1, <2>2, <2>3
  <2>5. at[k - 1] = IF k - 1 <= n THEN f[k - 1] ELSE Nil
    BY <2>4
  <2>6. CASE k <= n
    <3>1. k - 1 \in 0 .. n - 1 /\ (k - 1) + 1 = k
      BY <2>2, <2>3, <2>6
    <3>2. f[k - 1] \in Descriptors /\ f[k] = step[f[k - 1]]
      BY <3>1 DEF Visits
    <3> QED BY <1>2, <2>2, <2>3, <2>5, <2>6, <3>1, <3>2
  <2>7. CASE k > n
    <3>1. at[k - 1] = Nil
      <4>1. k - 1 <= n => k - 1 = n
        BY <1>1, <2>2, <2>7
      <4> QED BY <2>5, <4>1 DEF Visits
    <3> QED BY <1>1, <1>2, <2>2, <2>3, <2>7, <3>1
  <2> QED BY <2>2, <2>6, <2>7
<1>4. \A k \in 0 .. QUEUE_SIZE : at[k] = IF k <= n THEN f[k] ELSE Nil
  BY <1>3
<1> QED BY <1>1, <1>4

(* A list is as it was while the links of its own members are. *)
LEMMA ThreadFrame ==
  ASSUME NEW step, NEW more, NEW h, NEW n \in Nat, NEW S, Threaded(step, h, n, S),
         \A d \in S : more[d] = step[d]
  PROVE  Threaded(more, h, n, S)
<1>1. PICK f : Visits(f, step, h, n) /\ S = {f[k] : k \in 0 .. n - 1}
  BY DEF Threaded
<1>2. \A k \in 0 .. n - 1 : more[f[k]] = step[f[k]]
  BY <1>1
<1>3. Visits(f, more, h, n)
  BY <1>1, <1>2 DEF Visits
<1> QED BY <1>1, <1>3 DEF Threaded

(* cut has the links of step along f, up to the m-th, where it ends. *)
CutBehind(cut, step, f, m) ==
  (\A k \in 0 .. m - 2 : cut[f[k]] = step[f[k]]) /\ cut[f[m - 1]] = Nil

(* The first m of a walk *)
FirstOf(f, m) == {f[k] : k \in 0 .. m - 1}

(* add: the first m of a list, cut off behind the last, *)
LEMMA ThreadFront ==
  ASSUME NEW step, NEW cut, NEW h, NEW n \in Nat, NEW m \in 1 .. n, NEW f, Visits(f, step, h, n),
         CutBehind(cut, step, f, m)
  PROVE  Threaded(cut, h, m, FirstOf(f, m))
<1>0. QUEUE_SIZE \in Nat /\ m \in Nat /\ n - m \in Nat
  BY QueueAssumption
<1> DEFINE g == [k \in 0 .. m |-> IF k = m THEN Nil ELSE f[k]]
<1>1. g \in [0 .. m -> 0 .. QUEUE_SIZE] /\ g[0] = h /\ g[m] = Nil
  <2>1. Nil \in 0 .. QUEUE_SIZE /\ \A k \in 0 .. m : k \in 0 .. n
    BY <1>0 DEF Nil
  <2>2. \A k \in 0 .. m : f[k] \in 0 .. QUEUE_SIZE
    BY <2>1 DEF Visits
  <2>3. 0 # m /\ 0 \in 0 .. m /\ m \in 0 .. m
    BY <1>0
  <2> QED BY <2>1, <2>2, <2>3 DEF Visits
<1>2. \A k \in 0 .. m - 1 : g[k] = f[k] /\ k \in 0 .. n - 1
  BY <1>0
<1>3. ASSUME NEW k \in 0 .. m - 1 PROVE g[k] \in Descriptors /\ g[k + 1] = cut[g[k]]
  <2>1. CASE k = m - 1
    BY <1>0, <1>1, <1>2, <2>1 DEF Visits, CutBehind
  <2>2. CASE k # m - 1
    <3>1. k \in 0 .. m - 2 /\ k + 1 \in 0 .. m - 1
      BY <1>0, <2>2
    <3>2. f[k + 1] = cut[f[k]] /\ f[k] \in Descriptors
      BY <1>2, <3>1 DEF Visits, CutBehind
    <3> QED BY <1>2, <3>1, <3>2
  <2> QED BY <2>1, <2>2
<1> HIDE DEF g
<1>4. \A j, k \in 0 .. m - 1 : g[j] = g[k] => j = k
  BY <1>2 DEF Visits
<1>5. FirstOf(f, m) = {g[k] : k \in 0 .. m - 1}
  BY <1>2 DEF FirstOf
<1>6. Visits(g, cut, h, m)
  BY <1>1, <1>3, <1>4 DEF Visits
<1> QED BY <1>5, <1>6, ThreadIntro

(* and what is left of it *)
LEMMA ThreadRest ==
  ASSUME NEW step, NEW h, NEW n \in Nat, NEW m \in 1 .. n, NEW f, Visits(f, step, h, n),
         NEW T, T = {f[k] : k \in m .. n - 1}
  PROVE  Threaded(step, f[m], n - m, T)
<1>0. QUEUE_SIZE \in Nat /\ m \in Nat /\ n - m \in Nat
  BY QueueAssumption
<1> DEFINE g == [k \in 0 .. n - m |-> f[m + k]]
<1>1. \A k \in 0 .. n - m : m + k \in 0 .. n /\ g[k] = f[m + k]
  BY <1>0
<1>2. g \in [0 .. n - m -> 0 .. QUEUE_SIZE] /\ g[0] = f[m] /\ g[n - m] = Nil
  <2>1. m + 0 = m /\ m + (n - m) = n
    BY <1>0
  <2>2. \A k \in 0 .. n - m : f[m + k] \in 0 .. QUEUE_SIZE
    BY <1>1 DEF Visits
  <2> QED BY <1>0, <1>1, <2>1, <2>2 DEF Visits
<1>3. ASSUME NEW k \in 0 .. (n - m) - 1 PROVE g[k] \in Descriptors /\ g[k + 1] = step[g[k]]
  <2>1. m + k \in 0 .. n - 1 /\ (m + k) + 1 = m + (k + 1) /\ k \in 0 .. n - m /\ k + 1 \in 0 .. n - m
    BY <1>0
  <2> QED BY <1>1, <2>1 DEF Visits
<1>4. ASSUME NEW j \in 0 .. (n - m) - 1, NEW k \in 0 .. (n - m) - 1, g[j] = g[k]
      PROVE  j = k
  <2>1. m + j \in 0 .. n - 1 /\ m + k \in 0 .. n - 1
    BY <1>0
  <2>2. m + j = m + k
    BY <1>1, <1>4, <2>1 DEF Visits
  <2> QED BY <1>0, <2>2
<1>5. {f[k] : k \in m .. n - 1} = {g[k] : k \in 0 .. (n - m) - 1}
  <2>1. ASSUME NEW k \in m .. n - 1 PROVE \E j \in 0 .. (n - m) - 1 : f[k] = g[j]
    <3>1. k - m \in 0 .. (n - m) - 1 /\ k - m \in 0 .. n - m /\ m + (k - m) = k
      BY <1>0
    <3>2. g[k - m] = f[k]
      BY <1>1, <3>1
    <3> HIDE DEF g
    <3> QED BY <3>1, <3>2
  <2>2. ASSUME NEW k \in 0 .. (n - m) - 1 PROVE m + k \in m .. n - 1 /\ g[k] = f[m + k]
    BY <1>0
  <2> HIDE DEF g
  <2> QED BY <2>1, <2>2
<1> HIDE DEF g
<1>6. Visits(g, step, f[m], n - m)
  BY <1>2, <1>3, <1>4 DEF Visits
<1> QED BY <1>5, <1>6, ThreadIntro

(* recycle: a list whose last link is made to point at another list *)
LEMMA ThreadJoin ==
  ASSUME NEW first, NEW step, NEW join, NEW h, NEW i,
         NEW m \in Nat \ {0}, NEW n \in Nat, NEW f, NEW g,
         Visits(f, first, h, m), Visits(g, step, i, n),
         \A j \in 0 .. m - 1, k \in 0 .. n - 1 : f[j] # g[k],
         \A k \in 0 .. m - 2 : join[f[k]] = f[k + 1],
         join[f[m - 1]] = i,
         \A k \in 0 .. n - 1 : join[g[k]] = step[g[k]]
  PROVE  Threaded(join, h, m + n, {f[k] : k \in 0 .. m - 1} \cup {g[k] : k \in 0 .. n - 1})
<1> DEFINE w == [k \in 0 .. m + n |-> IF k < m THEN f[k] ELSE g[k - m]]
<1>1. QUEUE_SIZE \in Nat /\ m \in Nat /\ m + n \in Nat
  BY QueueAssumption
<1>2. /\ \A k \in 0 .. m - 1 : w[k] = f[k]
      /\ \A k \in m .. m + n : k - m \in 0 .. n /\ w[k] = g[k - m]
  BY <1>1
<1>3. w[0] = h /\ w[m + n] = Nil
  <2>1. 0 \in 0 .. m - 1 /\ m + n \in m .. m + n /\ (m + n) - m = n
    BY <1>1
  <2> HIDE DEF w
  <2> QED BY <1>2, <2>1 DEF Visits
<1>4. w \in [0 .. m + n -> 0 .. QUEUE_SIZE]
  <2>1. ASSUME NEW k \in 0 .. m + n PROVE w[k] \in 0 .. QUEUE_SIZE
    <3>1. CASE k < m
      <4>1. k \in 0 .. m - 1 /\ k \in 0 .. m
        BY <1>1, <3>1
      <4> HIDE DEF w
      <4> QED BY <1>2, <4>1 DEF Visits
    <3>2. CASE ~(k < m)
      <4>1. k \in m .. m + n
        BY <1>1, <3>2
      <4> HIDE DEF w
      <4> QED BY <1>2, <4>1 DEF Visits
    <3> QED BY <3>1, <3>2
  <2>2. w = [k \in 0 .. m + n |-> w[k]]
    OBVIOUS
  <2> HIDE DEF w
  <2> QED BY <2>1, <2>2
<1> HIDE DEF w
<1>5. ASSUME NEW k \in 0 .. (m + n) - 1 PROVE w[k] \in Descriptors /\ w[k + 1] = join[w[k]]
  <2>1. CASE k < m - 1
    <3>1. k \in 0 .. m - 2 /\ k \in 0 .. m - 1 /\ k + 1 \in 0 .. m - 1
      BY <1>1, <2>1
    <3> QED BY <1>2, <3>1 DEF Visits
  <2>2. CASE k = m - 1
    <3>1. k \in 0 .. m - 1 /\ k + 1 \in m .. m + n /\ (k + 1) - m = 0
      BY <1>1, <2>2
    <3> QED BY <1>2, <2>2, <3>1 DEF Visits
  <2>3. CASE k > m - 1
    <3>1. /\ k \in m .. m + n /\ k + 1 \in m .. m + n
          /\ k - m \in 0 .. n - 1 /\ (k + 1) - m = (k - m) + 1
      BY <1>1, <2>3
    <3> QED BY <1>2, <3>1 DEF Visits
  <2> QED BY <1>1, <2>1, <2>2, <2>3
<1>6. ASSUME NEW j \in 0 .. (m + n) - 1
      PROVE  \/ j \in 0 .. m - 1 /\ w[j] = f[j]
             \/ j \in m .. m + n /\ j - m \in 0 .. n - 1 /\ w[j] = g[j - m]
  BY <1>1, <1>2
<1>7. ASSUME NEW j \in 0 .. (m + n) - 1, NEW k \in 0 .. (m + n) - 1, w[j] = w[k]
      PROVE  j = k
  <2>1. CASE j \in 0 .. m - 1 /\ k \in 0 .. m - 1
    BY <1>2, <1>7, <2>1 DEF Visits
  <2>2. CASE j \notin 0 .. m - 1 /\ k \notin 0 .. m - 1
    <3>1. j - m = k - m
      BY <1>6, <1>7, <2>2 DEF Visits
    <3> QED BY <1>1, <3>1
  <2>3. CASE j \in 0 .. m - 1 /\ k \notin 0 .. m - 1
    BY <1>2, <1>6, <1>7, <2>3
  <2>4. CASE j \notin 0 .. m - 1 /\ k \in 0 .. m - 1
    BY <1>2, <1>6, <1>7, <2>4
  <2> QED BY <2>1, <2>2, <2>3, <2>4
<1>8. {f[k] : k \in 0 .. m - 1} \cup {g[k] : k \in 0 .. n - 1} = {w[k] : k \in 0 .. (m + n) - 1}
  <2>1. ASSUME NEW k \in 0 .. m - 1 PROVE k \in 0 .. (m + n) - 1 /\ w[k] = f[k]
    BY <1>1, <1>2
  <2>2. ASSUME NEW k \in 0 .. n - 1 PROVE m + k \in 0 .. (m + n) - 1 /\ w[m + k] = g[k]
    <3>1. m + k \in m .. m + n /\ (m + k) - m = k /\ m + k \in 0 .. (m + n) - 1
      BY <1>1
    <3> QED BY <1>2, <3>1
  <2>3. {f[k] : k \in 0 .. m - 1} \subseteq {w[k] : k \in 0 .. (m + n) - 1}
    BY <2>1
  <2>4. {g[k] : k \in 0 .. n - 1} \subseteq {w[k] : k \in 0 .. (m + n) - 1}
    BY <2>2
  <2>5. \A k \in 0 .. (m + n) - 1 :
          w[k] \in {f[j] : j \in 0 .. m - 1} \cup {g[j] : j \in 0 .. n - 1}
    BY <1>6
  <2> QED BY <2>3, <2>4, <2>5
<1>9. Visits(w, join, h, m + n)
  BY <1>3, <1>4, <1>5, <1>7 DEF Visits
<1> QED BY <1>8, <1>9, ThreadIntro

-----------------------------------------------------------------------------
(* Rings read between two indices *)

(* The place in a ring of the entry j places past an index *)
Spot(index, j) == (index + j) % QUEUE_SIZE

(* The n entries of ring from an index on are the members of H, each once. *)
Holds(ring, index, n, H) ==
  /\ \A j, k \in 0 .. n - 1 : ring[Spot(index, j)] = ring[Spot(index, k)] => j = k
  /\ H = {ring[Spot(index, j)] : j \in 0 .. n - 1}

(* Spots move along with the index, also where it wraps, and are apart within a lap. *)
LEMMA SpotFacts ==
  ASSUME NEW i \in 0 .. INDICES - 1, NEW j \in Nat
  PROVE  /\ Spot(i, j) \in Descriptors /\ Spot(i, 0) = Position(i)
         /\ Position((i + j) % INDICES) = Spot(i, j)
         /\ Spot(Succ(i), j) = Spot(i, j + 1)
         /\ \A k \in 0 .. QUEUE_SIZE - 1 :
              j < QUEUE_SIZE /\ Spot(i, j) = Spot(i, k) => j = k
<1>1. QUEUE_SIZE \in Nat \ {0} /\ i \in Nat /\ i + 0 = i
  BY QueueAssumption
<1>2. \A k \in 0 .. QUEUE_SIZE - 1 : j < QUEUE_SIZE /\ Spot(i, j) = Spot(i, k) => j = k
  <2> SUFFICES ASSUME NEW k \in 0 .. QUEUE_SIZE - 1, j < QUEUE_SIZE, Spot(i, j) = Spot(i, k)
               PROVE  j = k
    OBVIOUS
  <2>1. j \in 0 .. QUEUE_SIZE - 1 /\ (i + j) % QUEUE_SIZE = (i + k) % QUEUE_SIZE
    BY <1>1 DEF Spot
  <2> QED BY <1>1, <2>1, OneLap
<1> QED BY <1>1, <1>2, Wrapping DEF Spot, Position

(* The entries are as many as their numbers, so fewer than all unless all are there. *)
LEMMA HoldsSize ==
  ASSUME NEW ring, NEW i, NEW n \in Nat, NEW H \in SUBSET Descriptors, Holds(ring, i, n, H)
  PROVE  n <= QUEUE_SIZE /\ (H # Descriptors => n < QUEUE_SIZE)
<1> DEFINE g == [j \in 0 .. n - 1 |-> ring[Spot(i, j)]]
<1>1. \A j \in 0 .. n - 1 : g[j] = ring[Spot(i, j)]
  OBVIOUS
<1> HIDE DEF g
<1>2. H = {g[j] : j \in 0 .. n - 1} /\ \A j, k \in 0 .. n - 1 : g[j] = g[k] => j = k
  BY <1>1 DEF Holds
<1>3. Cardinality(H) = n
  BY <1>2, Numbered
<1> QED BY <1>3, DescriptorCount

(* Writing the entry behind the last: add in its ring, the device in the other *)
LEMMA RingPush ==
  ASSUME NEW ring \in [Descriptors -> Descriptors], NEW i \in 0 .. INDICES - 1,
         NEW n \in 0 .. QUEUE_SIZE - 1, NEW H, Holds(ring, i, n, H), NEW x, x \notin H
  PROVE  Holds([ring EXCEPT ![Spot(i, n)] = x], i, n + 1, H \cup {x})
<1> DEFINE more == [ring EXCEPT ![Spot(i, n)] = x]
<1>1. QUEUE_SIZE \in Nat /\ n \in Nat
  BY QueueAssumption
<1>2. \A j \in 0 .. n : Spot(i, j) \in Descriptors
  BY <1>1, SpotFacts
<1>3. ASSUME NEW j \in 0 .. n - 1 PROVE Spot(i, j) # Spot(i, n)
  <2>1. j \in Nat /\ j < QUEUE_SIZE /\ n \in 0 .. QUEUE_SIZE - 1 /\ j # n
    BY <1>1
  <2> QED BY <2>1, SpotFacts
<1>4. more[Spot(i, n)] = x /\ \A j \in 0 .. n - 1 : more[Spot(i, j)] = ring[Spot(i, j)]
  <2>1. n \in 0 .. n /\ \A j \in 0 .. n - 1 : j \in 0 .. n
    BY <1>1
  <2> QED BY <1>2, <1>3, <2>1
<1> HIDE DEF more
<1>5. \A j \in 0 .. (n + 1) - 1 : j = n \/ j \in 0 .. n - 1
  BY <1>1
<1>6. \A j \in 0 .. n - 1 : ring[Spot(i, j)] \in H
  BY DEF Holds
<1>7. \A j, k \in 0 .. (n + 1) - 1 : more[Spot(i, j)] = more[Spot(i, k)] => j = k
  <2> TAKE j, k \in 0 .. (n + 1) - 1
  <2>1. CASE j = n \/ k = n
    BY <1>4, <1>5, <1>6, <2>1
  <2>2. CASE j # n /\ k # n
    BY <1>4, <1>5, <2>2 DEF Holds
  <2> QED BY <2>1, <2>2
<1>8. H \cup {x} = {more[Spot(i, j)] : j \in 0 .. (n + 1) - 1}
  <2>1. H = {ring[Spot(i, j)] : j \in 0 .. n - 1}
    BY DEF Holds
  <2>2. n \in 0 .. (n + 1) - 1 /\ \A j \in 0 .. n - 1 : j \in 0 .. (n + 1) - 1
    BY <1>1
  <2>3. ASSUME NEW y \in H PROVE \E j \in 0 .. (n + 1) - 1 : y = more[Spot(i, j)]
    BY <1>4, <2>1, <2>2
  <2>4. \A j \in 0 .. (n + 1) - 1 : more[Spot(i, j)] \in H \cup {x}
    BY <1>4, <1>5, <1>6
  <2> QED BY <1>4, <2>2, <2>3, <2>4
<1> QED BY <1>7, <1>8 DEF Holds, more

(* Reading the first entry and moving the index past it *)
LEMMA RingPop ==
  ASSUME NEW ring, NEW i \in 0 .. INDICES - 1, NEW n \in Nat \ {0}, NEW H, Holds(ring, i, n, H)
  PROVE  /\ ring[Position(i)] \in H
         /\ Holds(ring, Succ(i), n - 1, H \ {ring[Position(i)]})
<1>1. Spot(i, 0) = Position(i) /\ 0 \in 0 .. n - 1
  BY SpotFacts
<1>2. H = {ring[Spot(i, j)] : j \in 0 .. n - 1} /\ ring[Position(i)] \in H
  BY <1>1 DEF Holds
<1>3. ASSUME NEW j \in 0 .. (n - 1) - 1
      PROVE  j + 1 \in 0 .. n - 1 /\ j + 1 # 0 /\ Spot(Succ(i), j) = Spot(i, j + 1)
  BY SpotFacts
<1>4. ASSUME NEW j \in 0 .. (n - 1) - 1, NEW k \in 0 .. (n - 1) - 1,
             ring[Spot(Succ(i), j)] = ring[Spot(Succ(i), k)]
      PROVE  j = k
  <2>1. j + 1 = k + 1
    BY <1>3, <1>4 DEF Holds
  <2> QED BY <2>1
<1>5. ASSUME NEW y \in H \ {ring[Position(i)]}
      PROVE  \E j \in 0 .. (n - 1) - 1 : y = ring[Spot(Succ(i), j)]
  <2>1. PICK k \in 0 .. n - 1 : y = ring[Spot(i, k)]
    BY <1>2
  <2>2. k # 0
    BY <1>1, <1>5, <2>1
  <2>3. k - 1 \in 0 .. (n - 1) - 1 /\ (k - 1) + 1 = k
    BY <2>1, <2>2
  <2> QED BY <1>3, <2>1, <2>3
<1>6. ASSUME NEW j \in 0 .. (n - 1) - 1
      PROVE  ring[Spot(Succ(i), j)] \in H \ {ring[Position(i)]}
  BY <1>1, <1>2, <1>3, <1>6 DEF Holds
<1>7. H \ {ring[Position(i)]} = {ring[Spot(Succ(i), j)] : j \in 0 .. (n - 1) - 1}
  BY <1>5, <1>6
<1> QED BY <1>2, <1>4, <1>7 DEF Holds

-----------------------------------------------------------------------------
(***************************************************************************)
(* The inductive invariant of the queue.  The table: the free descriptors,  *)
(* which are those in no request, are threaded from free_head through       *)
(* exactly free_count links; the descriptors of each request are threaded   *)
(* from its head along the links flagged NEXT; and requests are apart.      *)
(***************************************************************************)
Requests == [head : Descriptors, descriptors : SUBSET Descriptors]

Busy == UNION {r.descriptors : r \in requests}

(* The links a device follows: next where NEXT is set, else the end *)
Chain == [d \in Descriptors |-> IF chained[d] THEN next[d] ELSE Nil]

TableInv ==
  /\ next \in [Descriptors -> 0 .. QUEUE_SIZE] /\ chained \in [Descriptors -> BOOLEAN]
  /\ freeCount \in 0 .. QUEUE_SIZE
  /\ requests \in SUBSET Requests
  /\ Threaded(next, freeHead, freeCount, Descriptors \ Busy)
  /\ \A r \in requests : \E n \in Nat \ {0} : Threaded(Chain, r.head, n, r.descriptors)
  /\ \A r, s \in requests : r # s => r.descriptors \cap s.descriptors = {}

RingType ==
  /\ availRing \in [Descriptors -> Descriptors] /\ usedRing \in [Descriptors -> Descriptors]
  /\ availIndex \in 0 .. INDICES - 1 /\ usedIndex \in 0 .. INDICES - 1
  /\ deviceIndex \in 0 .. INDICES - 1 /\ lastUsed \in 0 .. INDICES - 1
  /\ adding \in BOOLEAN /\ finishing \in BOOLEAN

Flying == {r.head : r \in inFlight}
One(b) == IF b THEN 1 ELSE 0

(***************************************************************************)
(* The rings: a entries are published and not taken by the device, u are    *)
(* published by it and not taken by the driver, one more on either side may *)
(* be written and not published; and every request is in the one ring, with *)
(* the device, or in the other ring, in one place only.                     *)
(***************************************************************************)
Accounted(a, u, A, U) ==
  /\ availIndex = (deviceIndex + a) % INDICES
  /\ usedIndex = (lastUsed + u) % INDICES
  /\ Holds(availRing, deviceIndex, a + One(adding), A)
  /\ Holds(usedRing, lastUsed, u + One(finishing), U)
  /\ A \cap U = {} /\ A \cap Flying = {} /\ U \cap Flying = {}
  /\ (A \cup U) \cup Flying = Outstanding

RingInv ==
  /\ inFlight \subseteq requests
  /\ live => \E a, u \in Nat : \E A, U \in SUBSET Descriptors : Accounted(a, u, A, U)

QueueInv == TableInv /\ RingType /\ RingInv

(* ListFrom and ChainFrom are the walks along next and along the chain links. *)
LEMMA WalksFollow ==
  ASSUME NEW h
  PROVE  Follows(ListFrom(h), next, h) /\ Follows(ChainFrom(h), Chain, h)
<1>1. Follows(ListFrom(h), next, h)
  <2>1. PICK at : Follows(at, next, h)
    BY WalkExists
  <2> QED BY <2>1 DEF Follows, ListFrom
<1>2. Follows(ChainFrom(h), Chain, h)
  <2> DEFINE Along(at) ==
               at = [k \in 0 .. QUEUE_SIZE |->
                       IF k = 0 THEN h
                       ELSE IF at[k - 1] \in Descriptors /\ chained[at[k - 1]] THEN next[at[k - 1]]
                       ELSE Nil]
  <2>1. ASSUME NEW at PROVE Follows(at, Chain, h) <=> Along(at)
    <3>1. \A x : (IF x \in Descriptors THEN Chain[x] ELSE Nil)
                   = (IF x \in Descriptors /\ chained[x] THEN next[x] ELSE Nil)
      BY DEF Chain
    <3> QED BY <3>1 DEF Follows
  <2>2. PICK at : Follows(at, Chain, h)
    BY WalkExists
  <2>3. Along(at)
    BY <2>1, <2>2
  <2>4. Along(ChainFrom(h))
    BY <2>3 DEF ChainFrom
  <2> QED BY <2>1, <2>4
<1> QED BY <1>1, <1>2

(* What ChainLength, ChainSet and the last of the chain are for a request *)
LEMMA ChainReads ==
  ASSUME TableInv, NEW r \in requests
  PROVE  \E n \in Nat \ {0} : \E f :
           /\ Visits(f, Chain, r.head, n) /\ r.descriptors = {f[k] : k \in 0 .. n - 1}
           /\ ChainLength(r.head) = n /\ ChainSet(r.head) = r.descriptors
           /\ ChainFrom(r.head)[n - 1] = f[n - 1]
<1>1. PICK n \in Nat \ {0} : Threaded(Chain, r.head, n, r.descriptors)
  BY DEF TableInv
<1>2. PICK f : Visits(f, Chain, r.head, n) /\ r.descriptors = {f[k] : k \in 0 .. n - 1}
  BY <1>1 DEF Threaded
<1> DEFINE at == ChainFrom(r.head)
<1>3. /\ n <= QUEUE_SIZE /\ \A k \in 0 .. QUEUE_SIZE : at[k] = IF k <= n THEN f[k] ELSE Nil
  <2>1. Follows(at, Chain, r.head)
    BY WalksFollow
  <2>2. n \in Nat
    BY <1>1
  <2> HIDE DEF at
  <2> QED BY <1>2, <2>1, <2>2, WalkMeets
<1>4. ChainLength(r.head) = n
  <2>1. \A k \in 0 .. n - 1 : f[k] # Nil
    BY <1>2, QueueAssumption DEF Visits, Descriptors, Nil
  <2>2. f[n] = Nil
    BY <1>2 DEF Visits
  <2>3. {k \in 0 .. QUEUE_SIZE : ChainFrom(r.head)[k] # Nil} = 0 .. n - 1
    <3> HIDE DEF at
    <3>1. {k \in 0 .. QUEUE_SIZE : at[k] # Nil} = 0 .. n - 1
      BY <1>3, <2>1, <2>2, QueueAssumption
    <3> QED BY <3>1 DEF at
  <2>4. Cardinality(0 .. n - 1) = n
    BY FS_Interval
  <2> QED BY <2>3, <2>4 DEF ChainLength
<1>5. \A k \in 0 .. n - 1 : at[k] = f[k]
  BY <1>3, QueueAssumption
<1>6. ChainSet(r.head) = r.descriptors
  <2>1. ChainSet(r.head) = {at[k] : k \in 0 .. n - 1}
    BY <1>4 DEF ChainSet
  <2> HIDE DEF at
  <2> QED BY <1>2, <1>5, <2>1
<1>7. at[n - 1] = f[n - 1]
  BY <1>5
<1> QED BY <1>2, <1>4, <1>6, <1>7

(* Where a request is, its head tells: a head is a member of its own chain only. *)
LEMMA HeadsApart ==
  ASSUME TableInv
  PROVE  /\ Outstanding \subseteq Descriptors /\ Outstanding \subseteq Busy
         /\ Busy \subseteq Descriptors
         /\ \A r, s \in requests : r.head = s.head => r = s
         /\ \A r \in requests : r = Request(r.head, r.descriptors)
<1>1. ASSUME NEW r \in requests PROVE r.head \in r.descriptors /\ r \in Requests
  <2>1. PICK n \in Nat \ {0} : Threaded(Chain, r.head, n, r.descriptors)
    BY DEF TableInv
  <2>2. n \in Nat /\ n > 0
    BY <2>1
  <2> QED BY <2>1, <2>2, ThreadSize DEF TableInv
<1>2. \A r, s \in requests : r.head = s.head => r = s
  BY <1>1 DEF TableInv
<1>3. \A r \in requests : r = Request(r.head, r.descriptors)
  BY <1>1 DEF Requests, Request
<1> QED BY <1>1, <1>2, <1>3 DEF Outstanding, Busy, Requests

-----------------------------------------------------------------------------
(* new threads the whole table. *)
LEMMA NewTable ==
  ASSUME NEW nxt, nxt = [d \in Descriptors |-> d + 1]
  PROVE  /\ nxt \in [Descriptors -> 0 .. QUEUE_SIZE]
         /\ Threaded(nxt, 0, QUEUE_SIZE, Descriptors)
<1>1. QUEUE_SIZE \in Nat \ {0}
  BY QueueAssumption
<1> DEFINE f == [k \in 0 .. QUEUE_SIZE |-> k]
<1>2. Visits(f, nxt, 0, QUEUE_SIZE)
  BY <1>1 DEF Visits, Descriptors, Nil
<1>3. \A k \in 0 .. QUEUE_SIZE - 1 : f[k] = k
  BY <1>1
<1> HIDE DEF f
<1>4. Descriptors = {f[k] : k \in 0 .. QUEUE_SIZE - 1}
  BY <1>3 DEF Descriptors
<1>5. Threaded(nxt, 0, QUEUE_SIZE, Descriptors)
  BY <1>2, <1>4, ThreadIntro
<1>6. \A d \in Descriptors : d + 1 \in 0 .. QUEUE_SIZE
  BY <1>1 DEF Descriptors
<1> QED BY <1>5, <1>6

(* A table just threaded, with no request, has every descriptor free. *)
LEMMA FreshTable ==
  ASSUME NEW nxt, NEW ch, NEW head, NEW count, NEW reqs,
         nxt = [d \in Descriptors |-> d + 1], ch = [d \in Descriptors |-> FALSE],
         head = 0, count = QUEUE_SIZE, reqs = {}
  PROVE  /\ nxt \in [Descriptors -> 0 .. QUEUE_SIZE] /\ ch \in [Descriptors -> BOOLEAN]
         /\ count \in 0 .. QUEUE_SIZE /\ reqs \in SUBSET Requests
         /\ Threaded(nxt, head, count, Descriptors \ UNION {r.descriptors : r \in reqs})
<1>1. Descriptors \ UNION {r.descriptors : r \in reqs} = Descriptors
  OBVIOUS
<1>2. Threaded(nxt, head, count, Descriptors) /\ nxt \in [Descriptors -> 0 .. QUEUE_SIZE]
  BY NewTable
<1>3. count \in 0 .. QUEUE_SIZE /\ ch \in [Descriptors -> BOOLEAN]
  BY QueueAssumption
<1> QED BY <1>1, <1>2, <1>3

(***************************************************************************)
(* add: the first n of the free list become a request of their own, and the *)
(* rest is still the free list.                                             *)
(***************************************************************************)
LEMMA AddTable ==
  ASSUME TableInv, NEW n \in 1 .. MaxChain, Add(n)
  PROVE  /\ TableInv' /\ freeHead \in Descriptors \ Busy
         /\ \E q : q.head = freeHead /\ requests' = requests \cup {q}
<1>1. /\ n \in Nat \ {0} /\ freeCount \in Nat /\ n \in 1 .. freeCount /\ freeCount <= QUEUE_SIZE
      /\ QUEUE_SIZE \in Nat
  BY QueueAssumption DEF Add, TableInv
<1>2. PICK f : /\ Visits(f, next, freeHead, freeCount)
               /\ Descriptors \ Busy = {f[k] : k \in 0 .. freeCount - 1}
  BY DEF TableInv, Threaded
<1>3. \A k \in 0 .. freeCount : ListFrom(freeHead)[k] = f[k]
  <2> DEFINE at == ListFrom(freeHead)
  <2>1. Follows(at, next, freeHead)
    BY WalksFollow
  <2> HIDE DEF at
  <2>2. \A k \in 0 .. QUEUE_SIZE : at[k] = IF k <= freeCount THEN f[k] ELSE Nil
    BY <1>1, <1>2, <2>1, WalkMeets
  <2>3. \A k \in 0 .. freeCount : at[k] = f[k]
    BY <1>1, <2>2
  <2> QED BY <2>3 DEF at
<1> DEFINE used == {f[k] : k \in 0 .. n - 1}
           last == f[n - 1]
           q == Request(freeHead, used)
<1>4. {ListFrom(freeHead)[k] : k \in 0 .. n - 1} = used /\ ListFrom(freeHead)[n - 1] = last
  <2>1. \A k \in 0 .. n - 1 : k \in 0 .. freeCount
    BY <1>1
  <2> QED BY <1>1, <1>3, <2>1
<1>5. /\ chained' = [d \in Descriptors |-> IF d \in used THEN d # last ELSE chained[d]]
      /\ freeHead' = next[last] /\ freeCount' = freeCount - n
      /\ requests' = requests \cup {q} /\ next' = next
  BY <1>4 DEF Add
<1>6. /\ \A k \in 0 .. n - 1 : f[k] \in Descriptors /\ k \in 0 .. freeCount - 1
      /\ last \in used /\ freeHead' = f[n] /\ f[0] = freeHead /\ 0 \in 0 .. n - 1
  <2>1. n - 1 \in 0 .. freeCount - 1 /\ (n - 1) + 1 = n /\ n - 1 \in 0 .. n - 1
    BY <1>1
  <2>2. \A k \in 0 .. n - 1 : k \in 0 .. freeCount - 1
    BY <1>1
  <2>3. \A k \in 0 .. n - 1 : f[k] \in Descriptors
    BY <1>2, <2>2 DEF Visits
  <2>4. freeHead' = f[n] /\ f[0] = freeHead
    BY <1>2, <1>5, <2>1 DEF Visits
  <2>5. 0 \in 0 .. n - 1
    BY <1>1
  <2> QED BY <2>1, <2>2, <2>3, <2>4, <2>5
<1>7. used \subseteq Descriptors \ Busy /\ freeHead \in used
  BY <1>2, <1>6
<1>8. /\ \A k \in 0 .. n - 2 : Chain'[f[k]] = next[f[k]]
      /\ Chain'[last] = Nil
      /\ \A d \in Descriptors \ used : Chain'[d] = Chain[d]
  <2>1. Chain' = [d \in Descriptors |-> IF chained'[d] THEN next[d] ELSE Nil]
    BY <1>5 DEF Chain
  <2>2. last \in Descriptors /\ ~chained'[last]
    BY <1>5, <1>6, <1>7
  <2>3. ASSUME NEW k \in 0 .. n - 2 PROVE Chain'[f[k]] = next[f[k]]
    <3>1. k \in 0 .. n - 1 /\ n - 1 \in 0 .. freeCount - 1 /\ k # n - 1
      BY <1>1
    <3>2. f[k] \in used /\ f[k] # last /\ f[k] \in Descriptors
      BY <1>2, <1>6, <3>1 DEF Visits
    <3>3. chained'[f[k]]
      BY <1>5, <3>2
    <3> QED BY <2>1, <3>2, <3>3
  <2>4. ASSUME NEW d \in Descriptors \ used PROVE Chain'[d] = Chain[d]
    <3>1. chained'[d] = chained[d]
      BY <1>5, <2>4
    <3> QED BY <2>1, <3>1 DEF Chain
  <2> QED BY <2>1, <2>2, <2>3, <2>4
<1>9. /\ Threaded(Chain', freeHead, n, used)
      /\ Threaded(next, f[n], freeCount - n, {f[k] : k \in n .. freeCount - 1})
  <2>1. PICK cut : cut = Chain'
    OBVIOUS
  <2>2. CutBehind(cut, next, f, n)
    BY <1>8, <2>1 DEF CutBehind
  <2>3. PICK S, T : S = {f[k] : k \in 0 .. n - 1} /\ T = {f[k] : k \in n .. freeCount - 1}
    OBVIOUS
  <2>4. Threaded(cut, freeHead, n, S) /\ Threaded(next, f[n], freeCount - n, T)
    <3> HIDE DEF used, last, q
    <3>1. Threaded(cut, freeHead, n, S)
      <4>1. Threaded(cut, freeHead, n, FirstOf(f, n))
        BY <1>1, <1>2, <2>2, ThreadFront
      <4>2. S = FirstOf(f, n)
        BY <2>3 DEF FirstOf
      <4> QED BY <4>1, <4>2
    <3>2. Threaded(next, f[n], freeCount - n, T)
      BY <1>1, <1>2, <2>3, ThreadRest
    <3> QED BY <3>1, <3>2
  <2> QED BY <2>1, <2>3, <2>4
<1>10. Busy' = Busy \cup used
  <2>1. q.descriptors = used
    BY DEF Request
  <2>2. Busy' = UNION {r.descriptors : r \in requests \cup {q}}
    BY <1>5 DEF Busy
  <2> HIDE DEF q, used
  <2> QED BY <2>1, <2>2 DEF Busy
<1>11. {f[k] : k \in n .. freeCount - 1} = Descriptors \ Busy'
  <2>1. ASSUME NEW k \in n .. freeCount - 1 PROVE f[k] \in (Descriptors \ Busy) \ used
    <3>1. k \in 0 .. freeCount - 1 /\ \A j \in 0 .. n - 1 : j # k /\ j \in 0 .. freeCount - 1
      BY <1>1
    <3> QED BY <1>2, <3>1 DEF Visits
  <2>2. ASSUME NEW d \in (Descriptors \ Busy) \ used PROVE \E k \in n .. freeCount - 1 : d = f[k]
    <3>1. PICK k \in 0 .. freeCount - 1 : d = f[k]
      BY <1>2
    <3>2. k \in n .. freeCount - 1
      BY <1>1, <3>1
    <3> QED BY <3>1, <3>2
  <2> QED BY <1>10, <2>1, <2>2
<1>12. Threaded(next, freeHead, freeCount, Descriptors \ Busy)'
  BY <1>5, <1>6, <1>9, <1>11
<1>13. ASSUME NEW r \in requests'
       PROVE  /\ r \in Requests /\ \E m \in Nat \ {0} : Threaded(Chain', r.head, m, r.descriptors)
              /\ r = q \/ (r \in requests /\ r.descriptors \subseteq Busy)
  <2>1. CASE r = q
    BY <1>1, <1>7, <1>9, <2>1 DEF Request, Requests
  <2>2. CASE r \in requests
    <3>1. r.descriptors \subseteq Busy /\ r \in Requests
      BY <2>2 DEF Busy, TableInv
    <3>2. PICK m \in Nat \ {0} : Threaded(Chain, r.head, m, r.descriptors)
      BY <2>2 DEF TableInv
    <3>3. \A d \in r.descriptors : Chain'[d] = Chain[d]
      BY <1>7, <1>8, <3>1 DEF Requests
    <3>4. m \in Nat
      BY <3>2
    <3>5. Threaded(Chain', r.head, m, r.descriptors)
      BY <3>2, <3>3, <3>4, ThreadFrame
    <3> QED BY <2>2, <3>1, <3>2, <3>5
  <2> QED BY <1>5, <2>1, <2>2
<1>14. \A r, s \in requests' : r # s => r.descriptors \cap s.descriptors = {}
  <2>1. q.descriptors = used /\ used \cap Busy = {}
    BY <1>7 DEF Request
  <2> QED BY <1>13, <2>1 DEF TableInv
<1>15. freeCount' \in 0 .. QUEUE_SIZE /\ chained' \in [Descriptors -> BOOLEAN]
  <2>1. \A d \in Descriptors : (IF d \in used THEN d # last ELSE chained[d]) \in BOOLEAN
    BY DEF TableInv
  <2> QED BY <1>1, <1>5, <2>1
<1>16. TableInv'
  BY <1>5, <1>12, <1>13, <1>14, <1>15 DEF TableInv
<1>17. q.head = freeHead
  BY DEF Request
<1> QED BY <1>5, <1>7, <1>16, <1>17

(***************************************************************************)
(* recycle: the chain of a request goes in front of the free list.          *)
(***************************************************************************)
LEMMA RecycleTable ==
  ASSUME TableInv, NEW q \in requests, Recycle(q.head), chained' = chained,
         requests' = requests \ {q}
  PROVE  TableInv'
<1>1. PICK n, f :
        /\ n \in Nat \ {0} /\ Visits(f, Chain, q.head, n) /\ q.descriptors = {f[k] : k \in 0 .. n - 1}
        /\ ChainLength(q.head) = n /\ ChainFrom(q.head)[n - 1] = f[n - 1]
  BY ChainReads
<1> n \in Nat \ {0}
  BY <1>1
<1>2. freeCount \in Nat /\ QUEUE_SIZE \in Nat /\ n \in Nat
  BY <1>1, QueueAssumption DEF TableInv
<1>3. PICK g : /\ Visits(g, next, freeHead, freeCount)
               /\ Descriptors \ Busy = {g[k] : k \in 0 .. freeCount - 1}
  BY DEF TableInv, Threaded
<1> DEFINE last == f[n - 1]
<1>4. next' = [next EXCEPT ![last] = freeHead] /\ freeHead' = q.head /\ freeCount' = freeCount + n
  BY <1>1 DEF Recycle
<1>5. /\ \A k \in 0 .. n - 1 : f[k] \in q.descriptors /\ f[k] \in Descriptors
      /\ n - 1 \in 0 .. n - 1
  BY <1>1 DEF Visits
<1>6. q.descriptors \subseteq Busy /\ q.descriptors \subseteq Descriptors
  BY DEF Busy, TableInv, Requests
<1>7. /\ next'[last] = freeHead
      /\ \A d \in Descriptors : d # last => next'[d] = next[d]
  BY <1>4, <1>5 DEF TableInv
<1>8. ASSUME NEW k \in 0 .. n - 2 PROVE next'[f[k]] = f[k + 1]
  <2>1. k \in 0 .. n - 1 /\ k + 1 \in 0 .. n - 1 /\ k # n - 1
    BY <1>2
  <2>2. f[k] # last /\ f[k] \in Descriptors /\ f[k + 1] = Chain[f[k]] /\ f[k + 1] \in Descriptors
    BY <1>1, <1>5, <2>1 DEF Visits
  <2>3. Nil \notin Descriptors
    BY QueueAssumption DEF Nil, Descriptors
  <2>4. Chain[f[k]] = next[f[k]]
    BY <2>2, <2>3 DEF Chain
  <2> QED BY <1>7, <2>2, <2>4
<1>9. \A k \in 0 .. freeCount - 1 : g[k] \in Descriptors \ Busy
  BY <1>3
<1>10. /\ \A j \in 0 .. n - 1, k \in 0 .. freeCount - 1 : f[j] # g[k]
       /\ \A k \in 0 .. freeCount - 1 : next'[g[k]] = next[g[k]]
  BY <1>5, <1>6, <1>7, <1>9
<1>11. Threaded(next', q.head, n + freeCount, q.descriptors \cup (Descriptors \ Busy))
  <2>1. Threaded(next', q.head, n + freeCount,
                 {f[k] : k \in 0 .. n - 1} \cup {g[k] : k \in 0 .. freeCount - 1})
    BY <1>1, <1>2, <1>3, <1>7, <1>8, <1>10, ThreadJoin
  <2> QED BY <1>1, <1>3, <2>1
<1>12. ASSUME NEW r \in requests'
       PROVE  /\ r \in requests /\ r \in Requests /\ r.descriptors \cap q.descriptors = {}
              /\ \E m \in Nat \ {0} : Threaded(Chain', r.head, m, r.descriptors)
  <2>1. r \in requests /\ r \in Requests /\ r.descriptors \cap q.descriptors = {}
    BY DEF TableInv
  <2>2. PICK m \in Nat \ {0} : Threaded(Chain, r.head, m, r.descriptors)
    BY <2>1 DEF TableInv
  <2>3. \A d \in r.descriptors : Chain'[d] = Chain[d]
    <3>1. Chain' = [d \in Descriptors |-> IF chained[d] THEN next'[d] ELSE Nil]
      BY DEF Chain
    <3>2. \A d \in r.descriptors : d \in Descriptors /\ d # last
      BY <1>5, <2>1 DEF Requests
    <3> QED BY <1>7, <3>1, <3>2 DEF Chain
  <2>4. m \in Nat
    BY <2>2
  <2>5. Threaded(Chain', r.head, m, r.descriptors)
    BY <2>2, <2>3, <2>4, ThreadFrame
  <2> QED BY <2>1, <2>2, <2>5
<1>13. q.descriptors \cup (Descriptors \ Busy) = Descriptors \ Busy'
  <2>1. Busy = Busy' \cup q.descriptors
    BY DEF Busy
  <2>2. Busy' \cap q.descriptors = {}
    BY <1>12 DEF Busy
  <2> QED BY <1>6, <2>1, <2>2
<1>14. n + freeCount <= QUEUE_SIZE /\ freeCount' = n + freeCount /\ n + freeCount \in Nat
  BY <1>2, <1>4, <1>11, ThreadSize
<1>15. next' \in [Descriptors -> 0 .. QUEUE_SIZE]
  <2>1. freeHead \in 0 .. QUEUE_SIZE
    BY <1>2, <1>3 DEF Visits
  <2> QED BY <1>4, <2>1 DEF TableInv
<1>16. Threaded(next, freeHead, freeCount, Descriptors \ Busy)'
  BY <1>4, <1>11, <1>13, <1>14
<1>17. freeCount' \in 0 .. QUEUE_SIZE /\ chained' \in [Descriptors -> BOOLEAN]
  BY <1>2, <1>14 DEF TableInv
<1>18. \A r, s \in requests' : r # s => r.descriptors \cap s.descriptors = {}
  BY <1>12 DEF TableInv
<1>19. requests' \in SUBSET Requests
  BY <1>12
<1> QED BY <1>12, <1>15, <1>16, <1>17, <1>18, <1>19 DEF TableInv

-----------------------------------------------------------------------------
(* Steps of the driver and of the device, ring by ring *)

(* The counters, before and after a step of one of them *)
LEMMA OneFacts == One(TRUE) = 1 /\ One(FALSE) = 0
BY DEF One

(* What a step does not mention *)
LEMMA TableKept ==
  ASSUME TableInv, UNCHANGED <<next, chained, freeHead, freeCount, requests>>
  PROVE  TableInv'
<1>1. Chain' = Chain /\ Busy' = Busy
  BY DEF Chain, Busy
<1> QED BY <1>1 DEF TableInv

(* The account there is while the queue is live *)
LEMMA AccountFacts ==
  ASSUME QueueInv, live
  PROVE  \E a, u \in Nat, A, U \in SUBSET Descriptors : Accounted(a, u, A, U)
BY DEF QueueInv, RingInv

(* The account after a step, from its parts *)
LEMMA AccountNext ==
  ASSUME NEW a \in Nat, NEW u \in Nat,
         NEW A \in SUBSET Descriptors, NEW U \in SUBSET Descriptors,
         availIndex' = (deviceIndex' + a) % INDICES, usedIndex' = (lastUsed' + u) % INDICES,
         Holds(availRing', deviceIndex', a + One(adding'), A),
         Holds(usedRing', lastUsed', u + One(finishing'), U),
         A \cap U = {}, A \cap Flying' = {}, U \cap Flying' = {},
         (A \cup U) \cup Flying' = Outstanding', inFlight' \subseteq requests'
  PROVE  RingInv'
<1>1. Accounted(a, u, A, U)'
  BY DEF Accounted
<1> QED BY <1>1 DEF RingInv

(* add writes the head of the new request behind the last published entry. *)
LEMMA AddQueue ==
  ASSUME QueueInv, NEW n \in 1 .. MaxChain, Add(n)
  PROVE  QueueInv'
<1>1. TableInv /\ RingType /\ RingInv /\ live /\ adding = FALSE
  BY DEF QueueInv, Add, RingType
<1>2. TableInv' /\ freeHead \in Descriptors \ Busy
  BY <1>1, AddTable
<1>3. PICK q : q.head = freeHead /\ requests' = requests \cup {q}
  BY <1>1, AddTable
<1>4. PICK a \in Nat, u \in Nat, A \in SUBSET Descriptors, U \in SUBSET Descriptors :
        Accounted(a, u, A, U)
  BY <1>1, AccountFacts
<1>5. PICK h : h = freeHead
  OBVIOUS
<1>6. Outstanding' = Outstanding \cup {h} /\ h \notin Outstanding /\ h \in Descriptors
  BY <1>1, <1>2, <1>3, <1>5, HeadsApart DEF Outstanding
<1>7. h \notin A /\ h \notin U /\ h \notin Flying
  BY <1>4, <1>6 DEF Accounted
<1>8. Holds(availRing, deviceIndex, a, A)
  <2>1. One(adding) = 0
    BY <1>1, OneFacts
  <2>2. a + One(adding) = a
    BY <1>4, <2>1
  <2> QED BY <1>4, <2>2 DEF Accounted
<1>9. a \in 0 .. QUEUE_SIZE - 1
  BY <1>4, <1>6, <1>7, <1>8, HoldsSize, QueueAssumption
<1>10. Position(availIndex) = Spot(deviceIndex, a)
  BY <1>1, <1>4, SpotFacts DEF Accounted, RingType
<1>11. /\ availRing' = [availRing EXCEPT ![Spot(deviceIndex, a)] = h] /\ adding' = TRUE
       /\ UNCHANGED <<availIndex, lastUsed, usedRing, usedIndex, deviceIndex, inFlight, finishing, live>>
  BY <1>5, <1>10 DEF Add, deviceVars
<1>12. Holds(availRing', deviceIndex', a + One(adding'), A \cup {h})
  <2>1. Holds([availRing EXCEPT ![Spot(deviceIndex, a)] = h], deviceIndex, a + 1, A \cup {h})
    BY <1>1, <1>7, <1>8, <1>9, RingPush DEF RingType
  <2>2. a + One(adding') = a + 1
    BY <1>11, OneFacts
  <2> QED BY <1>11, <2>1, <2>2
<1>13. RingInv'
  <2> DEFINE B == A \cup {h}
  <2>1. Flying' = Flying
    BY <1>11 DEF Flying
  <2>2. /\ B \in SUBSET Descriptors /\ B \cap U = {} /\ B \cap Flying' = {} /\ U \cap Flying' = {}
        /\ (B \cup U) \cup Flying' = Outstanding'
    BY <1>4, <1>6, <1>7, <2>1 DEF Accounted
  <2>3. inFlight' \subseteq requests'
    BY <1>1, <1>3, <1>11 DEF RingInv
  <2>4. /\ availIndex' = (deviceIndex' + a) % INDICES /\ usedIndex' = (lastUsed' + u) % INDICES
        /\ Holds(usedRing', lastUsed', u + One(finishing'), U)
    BY <1>4, <1>11 DEF Accounted
  <2>5. Holds(availRing', deviceIndex', a + One(adding'), B)
    BY <1>12
  <2> HIDE DEF B
  <2> QED BY <1>4, <2>2, <2>3, <2>4, <2>5, AccountNext
<1>14. RingType'
  BY <1>1, <1>6, <1>11 DEF RingType
<1> QED BY <1>2, <1>13, <1>14 DEF QueueInv

(* The index moves over the entry just written. *)
LEMMA PublishQueue ==
  ASSUME QueueInv, Publish
  PROVE  QueueInv'
<1>1. TableInv /\ RingType /\ RingInv /\ live /\ adding = TRUE
  BY DEF QueueInv, Publish, RingType
<1>2. /\ availIndex' = Succ(availIndex) /\ adding' = FALSE
      /\ UNCHANGED <<next, chained, freeHead, freeCount, lastUsed, requests, availRing,
                     usedRing, usedIndex, deviceIndex, inFlight, finishing, live>>
  BY DEF Publish, driverVars, deviceVars
<1>3. PICK a \in Nat, u \in Nat, A \in SUBSET Descriptors, U \in SUBSET Descriptors :
        Accounted(a, u, A, U)
  BY <1>1, AccountFacts
<1>4. availIndex' = (deviceIndex + (a + 1)) % INDICES /\ availIndex' \in 0 .. INDICES - 1
  BY <1>1, <1>2, <1>3, Wrapping DEF Accounted, RingType
<1>5. (a + 1) + One(adding') = a + One(adding) /\ a + 1 \in Nat
  <2>1. One(adding') = 0 /\ One(adding) = 1
    BY <1>1, <1>2, OneFacts
  <2> QED BY <1>3, <2>1
<1>6. Flying' = Flying /\ Outstanding' = Outstanding /\ inFlight' \subseteq requests'
  BY <1>1, <1>2 DEF Flying, Outstanding, RingInv
<1>7. RingInv'
  <2>1. Holds(availRing', deviceIndex', (a + 1) + One(adding'), A)
    BY <1>2, <1>3, <1>5 DEF Accounted
  <2>2. availIndex' = (deviceIndex' + (a + 1)) % INDICES
    BY <1>2, <1>4
  <2>3. /\ usedIndex' = (lastUsed' + u) % INDICES
        /\ Holds(usedRing', lastUsed', u + One(finishing'), U)
        /\ A \cap U = {} /\ A \cap Flying' = {} /\ U \cap Flying' = {}
        /\ (A \cup U) \cup Flying' = Outstanding'
    BY <1>2, <1>3, <1>6 DEF Accounted
  <2> QED BY <1>3, <1>5, <1>6, <2>1, <2>2, <2>3, AccountNext
<1>8. RingType' /\ TableInv'
  BY <1>1, <1>2, <1>4, TableKept DEF RingType
<1> QED BY <1>7, <1>8 DEF QueueInv

(* take_used returns a request the device has finished, and only that one. *)
LEMMA TakeUsedQueue ==
  ASSUME QueueInv, TakeUsed
  PROVE  /\ QueueInv'
         /\ \E q \in requests \ inFlight : requests' = requests \ {q}
<1>1. TableInv /\ RingType /\ RingInv /\ live
  BY DEF QueueInv, TakeUsed
<1>2. PICK h : h = UsedHead
  OBVIOUS
<1>3. /\ lastUsed' = Succ(lastUsed) /\ Recycle(h) /\ lastUsed # usedIndex
      /\ requests' = {r \in requests : r.head # h}
      /\ UNCHANGED <<chained, availRing, availIndex, adding, usedRing, usedIndex, deviceIndex,
                     inFlight, finishing, live>>
  BY <1>2 DEF TakeUsed, UsedReady, availVars, deviceVars
<1>4. PICK a \in Nat, u \in Nat, A \in SUBSET Descriptors, U \in SUBSET Descriptors :
        Accounted(a, u, A, U)
  BY <1>1, AccountFacts
<1> DEFINE n == u + One(finishing)
<1>5. u # 0
  <2>1. lastUsed + 0 = lastUsed /\ lastUsed % INDICES = lastUsed
    BY <1>1, Wrapping DEF RingType
  <2> QED BY <1>3, <1>4, <2>1 DEF Accounted
<1>6. n \in Nat \ {0} /\ n - 1 = (u - 1) + One(finishing) /\ u - 1 \in Nat /\ (u - 1) + 1 = u
  BY <1>4, <1>5 DEF One
<1>7. h \in U /\ Holds(usedRing, Succ(lastUsed), n - 1, U \ {h})
  <2>1. Holds(usedRing, lastUsed, n, U)
    BY <1>4 DEF Accounted
  <2> HIDE DEF n
  <2> QED BY <1>1, <1>2, <1>6, <2>1, RingPop DEF RingType, UsedHead
<1>8. h \in Outstanding /\ h \notin Flying /\ h \notin A
  BY <1>4, <1>7 DEF Accounted
<1>9. PICK q \in requests : q.head = h
  BY <1>8 DEF Outstanding
<1>10. requests' = requests \ {q} /\ q \notin inFlight
  BY <1>1, <1>3, <1>8, <1>9, HeadsApart DEF Flying
<1>11. TableInv'
  BY <1>1, <1>3, <1>9, <1>10, RecycleTable
<1>12. Outstanding' = Outstanding \ {h} /\ Flying' = Flying
  BY <1>3 DEF Outstanding, Flying
<1>13. usedIndex = (Succ(lastUsed) + (u - 1)) % INDICES /\ Succ(lastUsed) \in 0 .. INDICES - 1
  BY <1>1, <1>4, <1>6, Wrapping DEF RingType, Accounted
<1>14. RingInv'
  <2> DEFINE V == U \ {h}
  <2>1. /\ V \in SUBSET Descriptors /\ A \cap V = {} /\ A \cap Flying' = {} /\ V \cap Flying' = {}
        /\ (A \cup V) \cup Flying' = Outstanding'
    BY <1>4, <1>7, <1>8, <1>12 DEF Accounted
  <2>2. Holds(usedRing', lastUsed', (u - 1) + One(finishing'), V)
    BY <1>3, <1>6, <1>7
  <2>3. Holds(availRing', deviceIndex', a + One(adding'), A)
    BY <1>3, <1>4 DEF Accounted
  <2>4. /\ availIndex' = (deviceIndex' + a) % INDICES
        /\ usedIndex' = (lastUsed' + (u - 1)) % INDICES
    BY <1>3, <1>4, <1>13 DEF Accounted
  <2>5. inFlight' \subseteq requests'
    BY <1>1, <1>3, <1>10 DEF RingInv
  <2> HIDE DEF V
  <2> QED BY <1>4, <1>6, <2>1, <2>2, <2>3, <2>4, <2>5, AccountNext
<1>15. RingType'
  BY <1>1, <1>3, <1>13 DEF RingType
<1> QED BY <1>10, <1>11, <1>14, <1>15 DEF QueueInv

(* The device takes the oldest entry published: a request, whole, it has not yet. *)
LEMMA DeviceTakeQueue ==
  ASSUME QueueInv, DeviceTake
  PROVE  QueueInv'
<1>1. TableInv /\ RingType /\ RingInv /\ live
  BY DEF QueueInv, DeviceTake
<1>2. PICK h : h = availRing[Position(deviceIndex)]
  OBVIOUS
<1>3. /\ deviceIndex # availIndex /\ deviceIndex' = Succ(deviceIndex)
      /\ inFlight' = inFlight \cup {Request(h, ChainSet(h))}
      /\ UNCHANGED <<next, chained, freeHead, freeCount, lastUsed, requests, availRing,
                     availIndex, adding, usedRing, usedIndex, finishing, live>>
  BY <1>2 DEF DeviceTake, driverVars, availVars
<1>4. PICK a \in Nat, u \in Nat, A \in SUBSET Descriptors, U \in SUBSET Descriptors :
        Accounted(a, u, A, U)
  BY <1>1, AccountFacts
<1> DEFINE n == a + One(adding)
<1>5. a # 0
  <2>1. deviceIndex + 0 = deviceIndex /\ deviceIndex % INDICES = deviceIndex
    BY <1>1, Wrapping DEF RingType
  <2> QED BY <1>3, <1>4, <2>1 DEF Accounted
<1>6. n \in Nat \ {0} /\ n - 1 = (a - 1) + One(adding) /\ a - 1 \in Nat /\ (a - 1) + 1 = a
  BY <1>4, <1>5 DEF One
<1>7. h \in A /\ Holds(availRing, Succ(deviceIndex), n - 1, A \ {h})
  <2>1. Holds(availRing, deviceIndex, n, A)
    BY <1>4 DEF Accounted
  <2> HIDE DEF n
  <2> QED BY <1>1, <1>2, <1>6, <2>1, RingPop DEF RingType
<1>8. PICK q \in requests : q.head = h
  BY <1>4, <1>7 DEF Accounted, Outstanding
<1>9. q = Request(h, ChainSet(h))
  <2>1. ChainSet(q.head) = q.descriptors
    BY <1>1, <1>8, ChainReads
  <2>2. q = Request(q.head, q.descriptors)
    BY <1>1, <1>8, HeadsApart
  <2> QED BY <1>8, <2>1, <2>2
<1>10. inFlight' = inFlight \cup {q}
  BY <1>3, <1>9
<1>11. Outstanding' = Outstanding /\ Flying' = Flying \cup {h} /\ inFlight' \subseteq requests'
  BY <1>1, <1>3, <1>8, <1>10 DEF Outstanding, Flying, RingInv
<1>12. /\ availIndex = (Succ(deviceIndex) + (a - 1)) % INDICES
       /\ Succ(deviceIndex) \in 0 .. INDICES - 1
  BY <1>1, <1>4, <1>6, Wrapping DEF RingType, Accounted
<1>13. RingInv'
  <2> DEFINE B == A \ {h}
  <2>1. /\ B \in SUBSET Descriptors /\ B \cap U = {} /\ B \cap Flying' = {} /\ U \cap Flying' = {}
        /\ (B \cup U) \cup Flying' = Outstanding'
    BY <1>4, <1>7, <1>11 DEF Accounted
  <2>2. Holds(availRing', deviceIndex', (a - 1) + One(adding'), B)
    BY <1>3, <1>6, <1>7
  <2>3. Holds(usedRing', lastUsed', u + One(finishing'), U)
    BY <1>3, <1>4 DEF Accounted
  <2>4. /\ availIndex' = (deviceIndex' + (a - 1)) % INDICES
        /\ usedIndex' = (lastUsed' + u) % INDICES
    BY <1>3, <1>4, <1>12 DEF Accounted
  <2> HIDE DEF B
  <2> QED BY <1>4, <1>6, <1>11, <2>1, <2>2, <2>3, <2>4, AccountNext
<1>14. RingType' /\ TableInv'
  BY <1>1, <1>3, <1>12, TableKept DEF RingType
<1> QED BY <1>13, <1>14 DEF QueueInv

(***************************************************************************)
(* The device writes a finished request behind the last used entry.  There  *)
(* is room, as that ring never holds more than the requests that are out.   *)
(***************************************************************************)
LEMMA DeviceFinishQueue ==
  ASSUME QueueInv, NEW r, DeviceFinish(r)
  PROVE  QueueInv'
<1>1. TableInv /\ RingType /\ RingInv /\ live /\ finishing = FALSE /\ r \in inFlight
  BY DEF QueueInv, DeviceFinish, RingType
<1>2. PICK h : h = r.head
  OBVIOUS
<1>3. PICK a \in Nat, u \in Nat, A \in SUBSET Descriptors, U \in SUBSET Descriptors :
        Accounted(a, u, A, U)
  BY <1>1, AccountFacts
<1>4. r \in requests /\ h \in Flying /\ h \in Descriptors /\ h \notin A /\ h \notin U
  <2>1. r \in requests /\ h \in Flying
    BY <1>1, <1>2 DEF RingInv, Flying
  <2>2. h \in Outstanding
    BY <1>2, <2>1 DEF Outstanding
  <2>3. h \in Descriptors
    BY <1>1, <2>2, HeadsApart
  <2> QED BY <1>3, <2>1, <2>3 DEF Accounted
<1>5. Holds(usedRing, lastUsed, u, U)
  <2>1. One(finishing) = 0
    BY <1>1, OneFacts
  <2>2. u + One(finishing) = u
    BY <1>3, <2>1
  <2> QED BY <1>3, <2>2 DEF Accounted
<1>6. u \in 0 .. QUEUE_SIZE - 1
  BY <1>3, <1>4, <1>5, HoldsSize, QueueAssumption
<1>7. Position(usedIndex) = Spot(lastUsed, u)
  BY <1>1, <1>3, SpotFacts DEF Accounted, RingType
<1>8. /\ usedRing' = [usedRing EXCEPT ![Spot(lastUsed, u)] = h] /\ finishing' = TRUE
      /\ inFlight' = inFlight \ {r}
      /\ UNCHANGED <<next, chained, freeHead, freeCount, lastUsed, requests, availRing,
                     availIndex, adding, usedIndex, deviceIndex, live>>
  BY <1>2, <1>7 DEF DeviceFinish, driverVars, availVars
<1>9. Holds(usedRing', lastUsed', u + One(finishing'), U \cup {h})
  <2>1. Holds([usedRing EXCEPT ![Spot(lastUsed, u)] = h], lastUsed, u + 1, U \cup {h})
    BY <1>1, <1>4, <1>5, <1>6, RingPush DEF RingType
  <2>2. u + One(finishing') = u + 1
    BY <1>8, OneFacts
  <2> QED BY <1>8, <2>1, <2>2
<1>10. Outstanding' = Outstanding /\ inFlight' \subseteq requests'
  BY <1>1, <1>8 DEF Outstanding, RingInv
<1>11. Flying' = Flying \ {h}
  <2>1. ASSUME NEW s \in inFlight' PROVE s \in inFlight /\ s.head # h
    BY <1>1, <1>2, <1>4, <1>8, HeadsApart DEF RingInv
  <2>2. ASSUME NEW s \in inFlight, s.head # h PROVE s \in inFlight'
    BY <1>2, <1>8, <2>2
  <2> QED BY <2>1, <2>2 DEF Flying
<1>12. RingInv'
  <2> DEFINE V == U \cup {h}
  <2>1. /\ V \in SUBSET Descriptors /\ A \cap V = {} /\ A \cap Flying' = {} /\ V \cap Flying' = {}
        /\ (A \cup V) \cup Flying' = Outstanding'
    BY <1>3, <1>4, <1>10, <1>11 DEF Accounted
  <2>2. Holds(usedRing', lastUsed', u + One(finishing'), V)
    BY <1>9
  <2>3. Holds(availRing', deviceIndex', a + One(adding'), A)
    BY <1>3, <1>8 DEF Accounted
  <2>4. /\ availIndex' = (deviceIndex' + a) % INDICES
        /\ usedIndex' = (lastUsed' + u) % INDICES
    BY <1>3, <1>8 DEF Accounted
  <2> HIDE DEF V
  <2> QED BY <1>3, <1>10, <2>1, <2>2, <2>3, <2>4, AccountNext
<1>13. RingType' /\ TableInv'
  BY <1>1, <1>4, <1>8, TableKept DEF RingType
<1> QED BY <1>12, <1>13 DEF QueueInv

(* The used index moves over the entry just written. *)
LEMMA DevicePublishQueue ==
  ASSUME QueueInv, DevicePublish
  PROVE  QueueInv'
<1>1. TableInv /\ RingType /\ RingInv /\ live /\ finishing = TRUE
  BY DEF QueueInv, DevicePublish, RingType
<1>2. /\ usedIndex' = Succ(usedIndex) /\ finishing' = FALSE
      /\ UNCHANGED <<next, chained, freeHead, freeCount, lastUsed, requests, availRing,
                     availIndex, adding, usedRing, deviceIndex, inFlight, live>>
  BY DEF DevicePublish, driverVars, availVars
<1>3. PICK a \in Nat, u \in Nat, A \in SUBSET Descriptors, U \in SUBSET Descriptors :
        Accounted(a, u, A, U)
  BY <1>1, AccountFacts
<1>4. usedIndex' = (lastUsed + (u + 1)) % INDICES /\ usedIndex' \in 0 .. INDICES - 1
  BY <1>1, <1>2, <1>3, Wrapping DEF Accounted, RingType
<1>5. (u + 1) + One(finishing') = u + One(finishing) /\ u + 1 \in Nat
  <2>1. One(finishing') = 0 /\ One(finishing) = 1
    BY <1>1, <1>2, OneFacts
  <2> QED BY <1>3, <2>1
<1>6. Flying' = Flying /\ Outstanding' = Outstanding /\ inFlight' \subseteq requests'
  BY <1>1, <1>2 DEF Flying, Outstanding, RingInv
<1>7. RingInv'
  <2>1. Holds(usedRing', lastUsed', (u + 1) + One(finishing'), U)
    BY <1>2, <1>3, <1>5 DEF Accounted
  <2>2. usedIndex' = (lastUsed' + (u + 1)) % INDICES
    BY <1>2, <1>4
  <2>3. /\ availIndex' = (deviceIndex' + a) % INDICES
        /\ Holds(availRing', deviceIndex', a + One(adding'), A)
        /\ A \cap U = {} /\ A \cap Flying' = {} /\ U \cap Flying' = {}
        /\ (A \cup U) \cup Flying' = Outstanding'
    BY <1>2, <1>3, <1>6 DEF Accounted
  <2> QED BY <1>3, <1>5, <1>6, <2>1, <2>2, <2>3, AccountNext
<1>8. RingType' /\ TableInv'
  BY <1>1, <1>2, <1>4, TableKept DEF RingType
<1> QED BY <1>7, <1>8 DEF QueueInv

(* The queue is given up, and a reset empties what the device knows of it. *)
LEMMA QueueEnds ==
  ASSUME QueueInv, Release \/ DeviceForgets
  PROVE  QueueInv'
<1>1. TableInv /\ RingType /\ RingInv
  BY DEF QueueInv
<1>2. /\ live' = FALSE /\ UNCHANGED <<next, chained, freeHead, freeCount, lastUsed, requests,
                                      availRing, availIndex, adding, usedRing, usedIndex>>
      /\ inFlight' \subseteq inFlight /\ finishing' \in {finishing, FALSE}
      /\ deviceIndex' \in {deviceIndex, 0}
  BY DEF Release, DeviceForgets, driverVars, availVars, deviceVars
<1>3. TableInv'
  BY <1>1, <1>2, TableKept
<1>4. RingInv'
  BY <1>1, <1>2 DEF RingInv
<1>5. 0 \in 0 .. INDICES - 1
  BY QueueAssumption
<1>6. deviceIndex' \in 0 .. INDICES - 1 /\ finishing' \in BOOLEAN
  BY <1>1, <1>2, <1>5 DEF RingType
<1>7. RingType'
  BY <1>1, <1>2, <1>6 DEF RingType
<1> QED BY <1>3, <1>4, <1>7 DEF QueueInv

(* Rings of zeroes hold nothing. *)
LEMMA EmptyRings ==
  /\ EmptyRing \in [Descriptors -> Descriptors] /\ 0 \in 0 .. INDICES - 1
  /\ \A i : Holds(EmptyRing, i, 0, {})
<1>1. 0 \in Descriptors /\ 0 \in 0 .. INDICES - 1
  BY QueueAssumption DEF Descriptors
<1>2. \A j : j \notin 0 .. 0 - 1
  OBVIOUS
<1> QED BY <1>1, <1>2 DEF EmptyRing, Holds

(* What the device knows of a queue, when it was reset and given none *)
DeviceBlank == deviceIndex = 0 /\ inFlight = {} /\ finishing = FALSE

(***************************************************************************)
(* new starts the account at nothing, which is right only for a device that *)
(* has itself been reset: its own index is not among what new writes.       *)
(***************************************************************************)
LEMMA NewQueueInv ==
  ASSUME DeviceBlank, New
  PROVE  QueueInv'
<1>1. /\ next' = [d \in Descriptors |-> d + 1] /\ chained' = [d \in Descriptors |-> FALSE]
      /\ freeHead' = 0 /\ freeCount' = QUEUE_SIZE /\ requests' = {}
      /\ availRing' = EmptyRing /\ availIndex' = 0 /\ usedRing' = EmptyRing /\ usedIndex' = 0
      /\ lastUsed' = 0 /\ adding' = FALSE
      /\ deviceIndex' = 0 /\ inFlight' = {} /\ finishing' = FALSE
  BY DEF New, DeviceBlank
<1>2. TableInv'
  <2>1. /\ next' \in [Descriptors -> 0 .. QUEUE_SIZE] /\ chained' \in [Descriptors -> BOOLEAN]
        /\ freeCount' \in 0 .. QUEUE_SIZE /\ requests' \in SUBSET Requests
        /\ Threaded(next', freeHead', freeCount', Descriptors \ UNION {r.descriptors : r \in requests'})
    BY <1>1, FreshTable
  <2> QED BY <1>1, <2>1 DEF TableInv, Busy
<1>3. RingType'
  BY <1>1, EmptyRings DEF RingType
<1>4. RingInv'
  <2>1. Flying' = {} /\ Outstanding' = {}
    BY <1>1 DEF Flying, Outstanding
  <2>2. 0 + One(adding') = 0 /\ 0 + One(finishing') = 0
    BY <1>1 DEF One
  <2>3. 0 % INDICES = 0 /\ 0 + 0 = 0
    BY EmptyRings, Wrapping
  <2>4. /\ Holds(availRing', deviceIndex', 0 + One(adding'), {})
        /\ Holds(usedRing', lastUsed', 0 + One(finishing'), {})
    BY <1>1, <2>2, EmptyRings
  <2>5. availIndex' = (deviceIndex' + 0) % INDICES /\ usedIndex' = (lastUsed' + 0) % INDICES
    BY <1>1, <2>3
  <2>6. {} \in SUBSET Descriptors /\ inFlight' \subseteq requests' /\ 0 \in Nat
    BY <1>1
  <2>7. {} \cap {} = {} /\ {} \cap Flying' = {} /\ ({} \cup {}) \cup Flying' = Outstanding'
    BY <2>1
  <2> QED BY <2>4, <2>5, <2>6, <2>7, AccountNext
<1> QED BY <1>2, <1>3, <1>4 DEF QueueInv

(* Before the first driver *)
LEMMA QueueInitInv ==
  ASSUME QueueInit
  PROVE  QueueInv /\ DeviceBlank /\ ~live
<1>1. TableInv
  <2>1. /\ next \in [Descriptors -> 0 .. QUEUE_SIZE] /\ chained \in [Descriptors -> BOOLEAN]
        /\ freeCount \in 0 .. QUEUE_SIZE /\ requests \in SUBSET Requests
        /\ Threaded(next, freeHead, freeCount, Descriptors \ UNION {r.descriptors : r \in requests})
    BY FreshTable DEF QueueInit
  <2> QED BY <2>1 DEF QueueInit, TableInv, Busy
<1>2. RingType
  BY EmptyRings DEF RingType, QueueInit
<1> QED BY <1>1, <1>2 DEF QueueInit, QueueInv, RingInv, DeviceBlank

-----------------------------------------------------------------------------
(***************************************************************************)
(* The handshake, place by place.  A device in reset knows nothing of a     *)
(* queue, and what it is told after that, until the driver builds one, says *)
(* nothing of a queue either; a reset still to come is awaited by a driver  *)
(* in one of the two loops; and from the choice on both sides hold the same *)
(* features.                                                                *)
(***************************************************************************)
Clean == ~live /\ DeviceBlank /\ ~interrupt

HandshakeInv ==
  /\ pc \in {"untouched", "idle", "acknowledge", "driver", "choose", "confirm", "agreed"} => Clean
  /\ pc \in {"reset", "stop"} => resetting = (status # {}) /\ (status = {} => Clean) /\ ~live
  /\ pc \notin {"reset", "stop"} => ~resetting
  /\ pc = "idle" => status = {}
  /\ pc \in {"driver", "choose"} => status = Driven
  /\ pc = "confirm" => status \in {Confirmed, Driven}
  /\ pc \in {"agreed", "queue"} => status = Confirmed
  /\ pc = "up" => status = Working
  /\ pc \in {"queue", "up"} => live
  /\ pc = "released" => ~live /\ status # {}
  /\ pc \in {"choose", "confirm", "agreed", "queue", "up"} =>
       driverFeatures = agreed /\ VERSION_1 \in agreed /\ agreed \subseteq offered

VirtioInv == QueueInv /\ HandshakeInv

(* A device that drops or keeps FEATURES_OK tells the two apart. *)
LEMMA StatusFacts ==
  /\ "FEATURES_OK" \in Confirmed /\ "FEATURES_OK" \notin Driven
  /\ Confirmed \cup {"DRIVER_OK"} = Working
  /\ Confirmed # {} /\ Driven # {} /\ Acknowledged # {} /\ Working # {}
  /\ "DRIVER_OK" \notin Confirmed /\ "DRIVER_OK" \notin Driven /\ "DRIVER_OK" \notin Acknowledged
BY DEF Confirmed, Driven, Working, Acknowledged

(* The queue is kept by every step: its own, or one that leaves it alone. *)
LEMMA QueueKept ==
  ASSUME QueueInv, UNCHANGED queueVars
  PROVE  QueueInv'
<1>1. /\ UNCHANGED <<next, chained, freeHead, freeCount, requests>>
      /\ UNCHANGED <<availRing, availIndex, adding, usedRing, usedIndex, lastUsed, live,
                     deviceIndex, inFlight, finishing>>
  BY DEF queueVars, driverVars, availVars, deviceVars
<1>2. TableInv'
  BY <1>1, TableKept DEF QueueInv
<1>3. RingType' /\ RingInv'
  BY <1>1 DEF QueueInv, RingType, RingInv, Accounted, Flying, Outstanding
<1> QED BY <1>2, <1>3 DEF QueueInv

(* What becomes of the queue in a step of the transport *)
QueueStep ==
  \/ UNCHANGED queueVars
  \/ pc = "agreed" /\ New
  \/ Publish
  \/ \E n \in 1 .. MaxChain : Add(n)
  \/ TakeUsed
  \/ Release
  \/ DeviceTake
  \/ \E r \in inFlight : DeviceFinish(r)
  \/ DevicePublish
  \/ DeviceForgets

(* Every step of the transport does to its queue one of these. *)
LEMMA QueueSteps ==
  ASSUME [Next]_vars
  PROVE  QueueStep
<1>1. CASE UNCHANGED vars
  BY <1>1 DEF vars, QueueStep
<1>2. CASE Driver
  <2>1. CASE NewQueue
    BY <2>1 DEF NewQueue, QueueStep
  <2>2. CASE AddRequest
    BY <2>2 DEF AddRequest, QueueStep
  <2>3. CASE Poll
    BY <2>3 DEF Poll, QueueStep
  <2>4. CASE ReleaseQueue
    BY <2>4 DEF ReleaseQueue, QueueStep
  <2>5. CASE Halted
    BY <2>5, <1>1 DEF Halted
  <2>6. CASE \/ Negotiate \/ SayAcknowledge \/ SayDriver \/ Legacy \/ ChooseFeatures
             \/ SayFeaturesOk \/ Confirm \/ FeaturesRefused \/ NoQueue \/ SetDriverOk
             \/ Notify \/ GiveUp \/ AckRead \/ AckWrite \/ Stop \/ Stopped
    <3>1. UNCHANGED queueVars
      BY <2>6 DEF Negotiate, SayAcknowledge, SayDriver, Legacy, ChooseFeatures, SayFeaturesOk,
                  Confirm, FeaturesRefused, NoQueue, SetDriverOk, Notify, GiveUp, AckRead,
                  AckWrite, Stop, Stopped, Fail
    <3> QED BY <3>1 DEF QueueStep
  <2> QED BY <1>2, <2>1, <2>2, <2>3, <2>4, <2>5, <2>6 DEF Driver
<1>3. CASE DeviceReset
  BY <1>3 DEF DeviceReset, QueueStep
<1>4. CASE DeviceLooks
  BY <1>4 DEF DeviceLooks, QueueStep
<1>5. CASE \E d \in Descriptors : DeviceWorks(d)
  BY <1>5 DEF DeviceWorks, QueueStep
<1>6. CASE DeviceAnswers
  BY <1>6 DEF DeviceAnswers, QueueStep
<1> QED BY <1>1, <1>2, <1>3, <1>4, <1>5, <1>6 DEF Next

(* The queue's invariant survives each of them; new needs what the handshake says. *)
LEMMA QueueInductive ==
  ASSUME VirtioInv, [Next]_vars
  PROVE  QueueInv'
<1>1. QueueInv /\ QueueStep
  BY QueueSteps DEF VirtioInv
<1>2. CASE pc = "agreed" /\ New
  BY <1>2, NewQueueInv DEF VirtioInv, HandshakeInv, Clean
<1>3. CASE UNCHANGED queueVars
  BY <1>1, <1>3, QueueKept
<1>4. CASE Publish \/ \E n \in 1 .. MaxChain : Add(n)
  BY <1>1, <1>4, PublishQueue, AddQueue
<1>5. CASE TakeUsed
  BY <1>1, <1>5, TakeUsedQueue
<1>6. CASE Release \/ DeviceForgets
  BY <1>1, <1>6, QueueEnds
<1>7. CASE DeviceTake \/ (\E r \in inFlight : DeviceFinish(r)) \/ DevicePublish
  BY <1>1, <1>7, DeviceTakeQueue, DeviceFinishQueue, DevicePublishQueue
<1> QED BY <1>1, <1>2, <1>3, <1>4, <1>5, <1>6, <1>7 DEF QueueStep

(* Each place of the handshake is entered as HandshakeInv says it is. *)
LEMMA HandshakeInductive ==
  ASSUME HandshakeInv, [Next]_vars
  PROVE  HandshakeInv'
<1> DEFINE kept == UNCHANGED <<live, deviceIndex, inFlight, finishing>>
<1>1. UNCHANGED queueVars => kept
  BY DEF queueVars, deviceVars
<1>2. UNCHANGED noticeVars => UNCHANGED interrupt
  BY DEF noticeVars
<1>3. CASE UNCHANGED vars
  BY <1>1, <1>2, <1>3
     DEF vars, handshakeVars, registerVars, HandshakeInv, Clean, DeviceBlank
<1>4. CASE Negotiate
  BY <1>1, <1>2, <1>4 DEF Negotiate, WriteReset, HandshakeInv, Clean, DeviceBlank
<1>5. CASE SayAcknowledge
  <2>1. ~resetting
    BY <1>5, Zenon DEF SayAcknowledge, ResetComplete, HandshakeInv
  <2>2. Clean
    BY <1>5 DEF SayAcknowledge, ResetComplete, HandshakeInv
  <2> QED BY <1>1, <1>2, <1>5, <2>1, <2>2 DEF SayAcknowledge, HandshakeInv, Clean, DeviceBlank
<1>6. CASE SayDriver
  BY <1>1, <1>2, <1>6 DEF SayDriver, HandshakeInv, Clean, DeviceBlank
<1>7. CASE Legacy \/ FeaturesRefused
  BY <1>7 DEF Legacy, FeaturesRefused, Fail, HandshakeInv
<1>8. CASE ChooseFeatures
  BY <1>1, <1>2, <1>8 DEF ChooseFeatures, HandshakeInv, Clean, DeviceBlank
<1>9. CASE SayFeaturesOk
  BY <1>1, <1>2, <1>9 DEF SayFeaturesOk, handshakeVars, HandshakeInv, Clean, DeviceBlank
<1>10. CASE Confirm
  BY <1>1, <1>2, <1>10, StatusFacts
     DEF Confirm, handshakeVars, registerVars, HandshakeInv, Clean, DeviceBlank
<1>11. CASE NewQueue
  BY <1>11 DEF NewQueue, New, handshakeVars, registerVars, HandshakeInv
<1>12. CASE NoQueue \/ GiveUp
  BY <1>12 DEF NoQueue, GiveUp, Ready, registerVars, HandshakeInv
<1>13. CASE SetDriverOk
  BY <1>1, <1>13, StatusFacts DEF SetDriverOk, handshakeVars, HandshakeInv
<1>14. CASE AddRequest
  <2>1. UNCHANGED live
    BY <1>14 DEF AddRequest, Publish, Add
  <2> QED BY <1>14, <2>1 DEF AddRequest, Ready, handshakeVars, registerVars, HandshakeInv
<1>15. CASE Notify \/ AckRead \/ AckWrite
  BY <1>1, <1>15 DEF Notify, AckRead, AckWrite, Ready, handshakeVars, registerVars, HandshakeInv
<1>16. CASE Poll
  BY <1>16 DEF Poll, Ready, TakeUsed, handshakeVars, registerVars, HandshakeInv
<1>17. CASE ReleaseQueue
  BY <1>17, StatusFacts DEF ReleaseQueue, Ready, Release, registerVars, HandshakeInv
<1>18. CASE Stop
  BY <1>1, <1>2, <1>18, StatusFacts DEF Stop, WriteReset, HandshakeInv, Clean, DeviceBlank
<1>19. CASE Stopped
  <2>1. ~resetting
    BY <1>19, Zenon DEF Stopped, ResetComplete, HandshakeInv
  <2>2. Clean /\ status = {}
    BY <1>19 DEF Stopped, ResetComplete, HandshakeInv
  <2> QED BY <1>1, <1>2, <1>19, <2>1, <2>2
          DEF Stopped, registerVars, HandshakeInv, Clean, DeviceBlank
<1>20. CASE DeviceReset
  BY <1>20 DEF DeviceReset, DeviceForgets, HandshakeInv, Clean, DeviceBlank
<1>21. CASE DeviceLooks
  BY <1>21 DEF DeviceLooks, DeviceTake, handshakeVars, registerVars, HandshakeInv, Clean
<1>22. CASE \E d \in Descriptors : DeviceWorks(d)
  BY <1>22 DEF DeviceWorks, DeviceFinish, handshakeVars, registerVars, HandshakeInv, Clean
<1>23. CASE DeviceAnswers
  BY <1>23 DEF DeviceAnswers, DevicePublish, handshakeVars, registerVars, HandshakeInv, Clean
<1> QED
  BY <1>3, <1>4, <1>5, <1>6, <1>7, <1>8, <1>9, <1>10, <1>11, <1>12, <1>13, <1>14, <1>15, <1>16,
     <1>17, <1>18, <1>19, <1>20, <1>21, <1>22, <1>23 DEF Next, Driver, Halted

(* The inductive invariant of the transport and its queue *)
LEMMA VirtioInvariant == Spec => []VirtioInv
<1>1. Init => VirtioInv
  <2> SUFFICES ASSUME Init PROVE VirtioInv
    OBVIOUS
  <2>1. QueueInv /\ DeviceBlank /\ ~live
    BY QueueInitInv DEF Init
  <2>2. HandshakeInv
    BY <2>1 DEF Init, HandshakeInv, Clean
  <2> QED BY <2>1, <2>2 DEF VirtioInv
<1>2. VirtioInv /\ [Next]_vars => VirtioInv'
  BY QueueInductive, HandshakeInductive DEF VirtioInv
<1> QED BY <1>1, <1>2, PTL DEF Spec

-----------------------------------------------------------------------------
(***************************************************************************)
(* The descriptors on the free list and in the chains still out are all     *)
(* there are, each in one place, whatever sizes the chains have, in         *)
(* whatever order the device finishes them, and wherever the indices wrap   *)
(* (kernel/src/virtqueue.rs, add, take_used and recycle).                   *)
(***************************************************************************)
THEOREM DescriptorsAccountedFor == Spec => []DescriptorsPartitioned
<1>1. VirtioInv => DescriptorsPartitioned
  <2> SUFFICES ASSUME VirtioInv PROVE DescriptorsPartitioned
    OBVIOUS
  <2>1. TableInv
    BY DEF VirtioInv, QueueInv
  <2>2. freeCount \in Nat /\ freeCount <= QUEUE_SIZE
    BY <2>1, QueueAssumption DEF TableInv
  <2>3. PICK f : /\ Visits(f, next, freeHead, freeCount)
                 /\ Descriptors \ Busy = {f[k] : k \in 0 .. freeCount - 1}
    BY <2>1 DEF TableInv, Threaded
  <2> DEFINE at == ListFrom(freeHead)
  <2>4. \A k \in 0 .. freeCount - 1 : at[k] = f[k]
    <3>1. Follows(at, next, freeHead)
      BY WalksFollow
    <3> HIDE DEF at
    <3>2. \A k \in 0 .. QUEUE_SIZE : at[k] = IF k <= freeCount THEN f[k] ELSE Nil
      BY <2>2, <2>3, <3>1, WalkMeets
    <3> QED BY <2>2, <3>2, QueueAssumption
  <2> DEFINE freed == {at[k] : k \in 0 .. freeCount - 1}
  <2>5. freed = Descriptors \ Busy
    <3> HIDE DEF at
    <3> QED BY <2>3, <2>4
  <2>6. Cardinality(Descriptors \ Busy) = freeCount
    BY <2>2, <2>1, ThreadSize DEF TableInv
  <2>7. Busy \subseteq Descriptors
    BY <2>1, HeadsApart
  <2>8. \A r, s \in requests : r # s => r.descriptors \cap s.descriptors = {}
    BY <2>1 DEF TableInv
  <2> HIDE DEF at
  <2>9. /\ Cardinality(freed) = freeCount /\ freed \cap Busy = {} /\ freed \cup Busy = Descriptors
    BY <2>5, <2>6, <2>7
  <2> QED BY <2>8, <2>9 DEF DescriptorsPartitioned, Busy, at
<1> QED BY <1>1, VirtioInvariant, PTL

(***************************************************************************)
(* What the device works on is a request add queued, and the chain it reads *)
(* is the one add wrote (kernel/src/virtqueue.rs, add and recycle: neither  *)
(* touches a chain that is out).                                            *)
(***************************************************************************)
THEOREM DeviceReadsWhatWasQueued == Spec => []DeviceSeesTheRequest
<1>1. VirtioInv => DeviceSeesTheRequest
  <2> SUFFICES ASSUME VirtioInv PROVE DeviceSeesTheRequest
    OBVIOUS
  <2>1. TableInv /\ RingInv
    BY DEF VirtioInv, QueueInv
  <2>2. \A r \in requests : ChainSet(r.head) = r.descriptors
    BY <2>1, ChainReads
  <2> QED BY <2>1, <2>2 DEF DeviceSeesTheRequest, RingInv
<1> QED BY <1>1, VirtioInvariant, PTL

(***************************************************************************)
(* Each advance of last_used returns one request that was out and that the  *)
(* device had finished (kernel/src/virtqueue.rs, take_used).                *)
(***************************************************************************)
THEOREM FinishedOnce == Spec => EachFinishesOnce
<1> DEFINE Once == live /\ live' /\ lastUsed' # lastUsed =>
                     \E r \in requests \ inFlight : requests' = requests \ {r}
<1>1. ASSUME VirtioInv, [Next]_vars PROVE [Once]_queueVars
  <2>1. QueueInv /\ QueueStep
    BY <1>1, QueueSteps DEF VirtioInv
  <2>2. CASE TakeUsed
    BY <2>1, <2>2, TakeUsedQueue
  <2>3. CASE pc = "agreed" /\ New
    BY <1>1, <2>3 DEF VirtioInv, HandshakeInv, Clean
  <2>4. CASE \/ Publish \/ (\E n \in 1 .. MaxChain : Add(n)) \/ Release \/ DeviceTake
             \/ (\E r \in inFlight : DeviceFinish(r)) \/ DevicePublish \/ DeviceForgets
    <3>1. lastUsed' = lastUsed
      BY <2>4 DEF Publish, Add, Release, DeviceTake, DeviceFinish, DevicePublish, DeviceForgets,
                  driverVars
    <3> QED BY <3>1
  <2> QED BY <2>1, <2>2, <2>3, <2>4 DEF QueueStep
<1> QED BY <1>1, VirtioInvariant, PTL DEF Spec, EachFinishesOnce

(***************************************************************************)
(* A driver that uses the device has one that was reset, knows it is driven *)
(* and agreed to the features in use (kernel/src/virtio.rs, negotiate).     *)
(***************************************************************************)
THEOREM HandshakeAgreed == Spec => []DeviceAgrees
<1>1. VirtioInv => DeviceAgrees
  BY DEF VirtioInv, HandshakeInv, DeviceAgrees
<1> QED BY <1>1, VirtioInvariant, PTL

(***************************************************************************)
(* Between two drivers the device is in reset and holds nothing of the one  *)
(* before (kernel/src/virtio.rs, reset and its loop).                       *)
(***************************************************************************)
THEOREM DeviceLeftClean == Spec => []LeftAsFound
<1>1. VirtioInv => LeftAsFound
  BY DEF VirtioInv, HandshakeInv, Clean, DeviceBlank, LeftAsFound
<1> QED BY <1>1, VirtioInvariant, PTL

=============================================================================
