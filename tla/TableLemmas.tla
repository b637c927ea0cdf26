----------------------------- MODULE TableLemmas -----------------------------
(***************************************************************************)
(* Facts about the operators the file system models share, for the proofs. *)
(***************************************************************************)
EXTENDS Integers, FiniteSetsExt, FiniteSetTheorems, TLAPS

\* The scans for the first free entry of a table (inode_alloc,
\* data_block_alloc, add_to_open_file_table, add_dir_entry) return an entry of
\* the set they scan for.  The least element is found through the intervals
\* 0 .. n for n in S, because the strict subset relation on finite sets is
\* well founded.
LEMMA MinIn ==
    ASSUME NEW S \in SUBSET Nat, S # {}
    PROVE  Min(S) \in S
<1> DEFINE T == {0 .. n : n \in S}
           R == StrictSubsetOrdering(Nat)
<1>1. IsWellFoundedOn(R, FiniteSubsetsOf(Nat))
  BY FS_StrictSubsetOrderingWellFounded
<1>2. T \subseteq FiniteSubsetsOf(Nat)
  <2>1. SUFFICES ASSUME NEW n \in S PROVE 0 .. n \in FiniteSubsetsOf(Nat)
    OBVIOUS
  <2>2. IsFiniteSet(0 .. n)  BY FS_Interval
  <2> QED  BY <2>2 DEF FiniteSubsetsOf
<1>3. T # {}  OBVIOUS
<1>4. PICK t \in T : \A u \in T : <<u, t>> \notin R
  <2> HIDE DEF R, T
  <2> QED  BY <1>1, <1>2, <1>3, WFMin, Zenon
<1>5. PICK x \in S : t = 0 .. x  OBVIOUS
<1>6. \A y \in S : x <= y
  <2> SUFFICES ASSUME NEW y \in S, y < x PROVE FALSE  OBVIOUS
  <2>1. <<0 .. y, 0 .. x>> \notin R  BY <1>4, <1>5
  <2>2. (0 .. y) \subseteq (0 .. x) /\ (0 .. y) # (0 .. x)  OBVIOUS
  <2>3. 0 .. y \in SUBSET Nat /\ 0 .. x \in SUBSET Nat  OBVIOUS
  <2> QED  BY <2>1, <2>2, <2>3 DEF StrictSubsetOrdering
<1> QED  BY <1>6 DEF Min

\* The largest of finitely many numbers, the same way: the numbers above the
\* least of all sets of numbers above one of them are none.
LEMMA MaxIn ==
    ASSUME NEW S \in SUBSET Nat, IsFiniteSet(S), S # {}
    PROVE  Max(S) \in S /\ \A y \in S : y <= Max(S)
<1> DEFINE Above(n) == {y \in S : y > n}
           T == {Above(n) : n \in S}
           R == StrictSubsetOrdering(Nat)
<1>1. IsWellFoundedOn(R, FiniteSubsetsOf(Nat))
  BY FS_StrictSubsetOrderingWellFounded
<1>2. T \subseteq FiniteSubsetsOf(Nat)
  <2>1. SUFFICES ASSUME NEW n \in S PROVE Above(n) \in FiniteSubsetsOf(Nat)
    OBVIOUS
  <2>2. Above(n) \subseteq S  OBVIOUS
  <2>3. IsFiniteSet(Above(n))  BY <2>2, FS_Subset
  <2> QED  BY <2>2, <2>3 DEF FiniteSubsetsOf
<1>3. T # {}  OBVIOUS
<1>4. PICK t \in T : \A u \in T : <<u, t>> \notin R
  <2> HIDE DEF R, T
  <2> QED  BY <1>1, <1>2, <1>3, WFMin, Zenon
<1>5. PICK x \in S : t = Above(x)  OBVIOUS
<1>6. \A y \in S : x >= y
  <2> SUFFICES ASSUME NEW y \in S, y > x PROVE FALSE  OBVIOUS
  <2>1. <<Above(y), Above(x)>> \notin R  BY <1>4, <1>5
  <2>2. Above(y) \subseteq Above(x) /\ Above(y) # Above(x)
    <3>1. y \in Above(x) /\ y \notin Above(y)  OBVIOUS
    <3>2. \A z \in S : z > y => z > x  OBVIOUS
    <3> QED  BY <3>1, <3>2
  <2>3. Above(y) \in SUBSET Nat /\ Above(x) \in SUBSET Nat  OBVIOUS
  <2> QED  BY <2>1, <2>2, <2>3 DEF StrictSubsetOrdering
<1>7. Max(S) \in S /\ \A y \in S : Max(S) >= y  BY <1>6 DEF Max
<1> QED  BY <1>7

\* The smaller of two numbers (the room in a block and what is asked for).
LEMMA MinPair ==
    ASSUME NEW a \in Nat, NEW b \in Nat
    PROVE  Min({a, b}) \in Nat /\ Min({a, b}) <= a /\ Min({a, b}) <= b
<1>1. CASE a <= b
  <2>1. a \in {a, b} /\ \A y \in {a, b} : a <= y  BY <1>1
  <2> QED  BY <2>1 DEF Min
<1>2. CASE b < a
  <2>1. b \in {a, b} /\ \A y \in {a, b} : b <= y  BY <1>2
  <2> QED  BY <2>1 DEF Min
<1> QED  BY <1>1, <1>2

\* Addresses in different blocks differ: b * size + k with k < size is in
\* block b and in no other (fs_data is an array of blocks).
LEMMA BlocksDisjoint ==
    ASSUME NEW size \in Nat \ {0}, NEW b \in Nat, NEW c \in Nat, b # c,
           NEW k \in 0 .. size - 1, NEW m \in 0 .. size - 1
    PROVE  b * size + k # c * size + m
<1>1. ASSUME NEW d \in Nat, NEW e \in Nat, d < e
      PROVE  d * size + size <= e * size
  <2> DEFINE f == e - d - 1
  <2>1. f \in Nat /\ e = d + 1 + f  BY <1>1
  <2>2. e * size = d * size + size + f * size  BY <2>1
  <2>3. f * size \in Nat /\ d * size \in Nat
    <3> HIDE DEF f
    <3> QED  BY <2>1
  <2> QED  BY <2>2, <2>3
<1>2. b * size \in Nat /\ c * size \in Nat  OBVIOUS
<1>3. CASE b < c  BY <1>1, <1>2, <1>3
<1>4. CASE c < b  BY <1>1, <1>2, <1>4
<1> QED  BY <1>3, <1>4

\* A number has one remainder.
LEMMA ModUnique ==
    ASSUME NEW c \in Nat \ {0}, NEW q \in Int, NEW r \in 0 .. c - 1
    PROVE  (c * q + r) % c = r
<1> DEFINE x == c * q + r
           p == x \div c
           s == x % c
<1>1. x \in Int  OBVIOUS
<1> HIDE DEF x
<1>2. p \in Int /\ s \in 0 .. c - 1 /\ x = c * p + s  BY <1>1
<1> HIDE DEF p, s
<1> DEFINE d == q - p
<1>3. d \in Int /\ q = p + d  BY <1>2
<1> HIDE DEF d
<1>4. c * q = c * p + c * d  BY <1>2, <1>3
<1>5. c * d \in Int /\ c * p \in Int  BY <1>2, <1>3
<1>6. c * d = s - r
  BY <1>2, <1>4, <1>5 DEF x
<1>7. d = 0
  <2>1. ASSUME d >= 1 PROVE FALSE
    <3>1. PICK e \in Nat : d = e + 1
      <4>1. d - 1 \in Nat /\ d = (d - 1) + 1  BY <1>3, <2>1
      <4> QED  BY <4>1
    <3>2. c * d = c * e + c /\ c * e \in Nat  BY <3>1
    <3> QED  BY <1>2, <1>6, <3>2
  <2>2. ASSUME d <= -1 PROVE FALSE
    <3>1. PICK e \in Nat : d = -1 - e
      <4>1. -1 - d \in Nat /\ d = -1 - (-1 - d)  BY <1>3, <2>2
      <4> QED  BY <4>1
    <3>2. c * d = -c - c * e /\ c * e \in Nat  BY <3>1
    <3> QED  BY <1>2, <1>6, <3>2
  <2> QED  BY <1>3, <2>1, <2>2
<1>8. c * 0 = 0  OBVIOUS
<1>9. s = r
  BY <1>2, <1>6, <1>7, <1>8
<1> QED  BY <1>9 DEF s, x

\* Counting on modulo c: the indices of the ring and the size of the queue are
\* advanced from their reduced values (pcq_enqueue, pcq_dequeue).
LEMMA ModAdd ==
    ASSUME NEW c \in Nat \ {0}, NEW x \in Int, NEW k \in Int
    PROVE  ((x % c) + k) % c = (x + k) % c
<1> DEFINE q == x \div c
           r == x % c
<1>1. q \in Int /\ r \in 0 .. c - 1 /\ x = c * q + r  OBVIOUS
<1> HIDE DEF q, r
<1> DEFINE p == (r + k) \div c
           s == (r + k) % c
<1>2. p \in Int /\ s \in 0 .. c - 1 /\ r + k = c * p + s
  <2>1. r + k \in Int  BY <1>1
  <2> QED  BY <2>1
<1> HIDE DEF p, s
<1>3. x + k = c * (q + p) + s
  <2>1. c * (q + p) = c * q + c * p  BY <1>1, <1>2
  <2>2. c * q \in Int /\ c * p \in Int  BY <1>1, <1>2
  <2> QED  BY <1>1, <1>2, <2>1, <2>2
<1>4. q + p \in Int  BY <1>1, <1>2
<1>5. (x + k) % c = s  BY <1>2, <1>3, <1>4, ModUnique
<1> QED  BY <1>5 DEF s, r

\* The same for single steps in either direction.
LEMMA ModStep ==
    ASSUME NEW c \in Nat \ {0}, NEW x \in Int, NEW k \in {-1, 1}
    PROVE  ((x % c) + k) % c = (x + k) % c
<1>1. k \in Int  OBVIOUS
<1> QED  BY <1>1, ModAdd, Zenon

\* Two numbers less than c apart have different remainders: the ring's slots in
\* use are different slots.
LEMMA ModDistinct ==
    ASSUME NEW c \in Nat \ {0}, NEW x \in Int, NEW k \in 1 .. c - 1
    PROVE  (x + k) % c # x % c
<1> DEFINE q == x \div c
           r == x % c
<1>1. q \in Int /\ r \in 0 .. c - 1 /\ x = c * q + r  OBVIOUS
<1>2. (x + k) % c = (r + k) % c
  <2>1. k \in Int  OBVIOUS
  <2>2. ((x % c) + k) % c = (x + k) % c  BY <2>1, ModAdd, Zenon
  <2> QED  BY <2>2
<1> HIDE DEF q, r
<1>3. c * 0 = 0 /\ c * 1 = c  OBVIOUS
<1>4. CASE r + k <= c - 1
  <2>1. r + k \in 0 .. c - 1 /\ r + k = c * 0 + (r + k)  BY <1>1, <1>3, <1>4
  <2>2. (r + k) % c = r + k  BY <2>1, ModUnique
  <2> QED  BY <1>1, <1>2, <2>2 DEF r
<1>5. CASE r + k >= c
  <2>1. r + k - c \in 0 .. c - 1 /\ r + k = c * 1 + (r + k - c)
    BY <1>1, <1>3, <1>5
  <2>2. (r + k) % c = r + k - c  BY <2>1, ModUnique
  <2> QED  BY <1>1, <1>2, <2>2 DEF r
<1> QED  BY <1>1, <1>4, <1>5

\* A number below c is its own remainder.
LEMMA ModSmall ==
    ASSUME NEW c \in Nat \ {0}, NEW r \in 0 .. c - 1
    PROVE  r % c = r
<1>1. c * 0 + r = r  OBVIOUS
<1> QED  BY <1>1, ModUnique

\* A whole turn of the ring leads back to the same slot.
LEMMA ModWhole ==
    ASSUME NEW c \in Nat \ {0}, NEW x \in Int
    PROVE  (x + c) % c = x % c
<1> DEFINE q == x \div c
           r == x % c
<1>1. q \in Int /\ r \in 0 .. c - 1 /\ x = c * q + r  OBVIOUS
<1> HIDE DEF q, r
<1>2. x + c = c * (q + 1) + r /\ q + 1 \in Int  BY <1>1
<1>3. (c * (q + 1) + r) % c = r  BY <1>1, <1>2, ModUnique
<1> QED  BY <1>2, <1>3 DEF r

=============================================================================
