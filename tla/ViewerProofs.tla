---------------------------- MODULE ViewerProofs ----------------------------
(***************************************************************************)
(* Proofs about what memaviz draws, for every block size, every view and   *)
(* any number of loaded blocks.                                            *)
(***************************************************************************)
EXTENDS MCAlgorithms, RecursionLemmas, FiniteSetTheorems, TLAPS

-----------------------------------------------------------------------------
(* Division, and the larger of two numbers.                                 *)

\* What division towards zero leaves.
LEMMA Divided ==
  ASSUME NEW a \in Nat, NEW m \in Nat \ {0}
  PROVE  /\ a \div m \in Nat /\ (a \div m) * m <= a /\ a < (a \div m) * m + m
         /\ (a \div m) * m \in Nat
  OBVIOUS

\* A smaller multiple is one of a smaller number.
LEMMA TimesLess ==
  ASSUME NEW x \in Int, NEW y \in Int, NEW m \in Nat \ {0}, x * m < y * m
  PROVE  x < y
<1>1. SUFFICES ASSUME y <= x PROVE FALSE
  OBVIOUS
<1>2. y * m <= x * m /\ x * m \in Int /\ y * m \in Int
  BY <1>1
<1> QED
  BY <1>2

\* The maximum of two numbers.
LEMMA Larger ==
  ASSUME NEW a \in Int, NEW b \in Int
  PROVE  Max({a, b}) = IF a >= b THEN a ELSE b
<1>1. \E x \in {a, b} : \A y \in {a, b} : x >= y
  OBVIOUS
<1>2. /\ Max({a, b}) \in {a, b}
      /\ \A y \in {a, b} : Max({a, b}) >= y
  BY <1>1, Zenon DEF Max
<1> QED
  BY <1>2

-----------------------------------------------------------------------------
(* The first block drawn, and how many.                                     *)

\* The first block drawn is the one the view starts in, or block 0 when the
\* view starts before the trace.
LEMMA FirstDrawn ==
  ASSUME NEW start \in Int, NEW f, f = Max({Quotient(start, PerBlock), 0})
  PROVE  /\ f \in Nat /\ f * PerBlock \in Nat
         /\ f = 0 \/ f * PerBlock <= start
         /\ start < f * PerBlock + PerBlock
<1>0. PerBlock \in Nat \ {0}
  BY ViewAssumption
<1>1. CASE start >= 0
  <2>1. start \in Nat
    BY <1>1
  <2>2. PICK q : q = start \div PerBlock
    OBVIOUS
  <2>3. /\ q \in Nat /\ q * PerBlock <= start /\ start < q * PerBlock + PerBlock
        /\ q * PerBlock \in Nat
    BY <1>0, <2>1, <2>2, Divided
  <2>4. Quotient(start, PerBlock) = q
    BY <1>1, <2>2 DEF Quotient
  <2>5. f = q
    BY <2>3, <2>4, Larger
  <2> QED
    BY <2>3, <2>5
<1>2. CASE ~ (start >= 0)
  <2>1. -start \in Nat
    BY <1>2
  <2>2. PICK q : q = (-start) \div PerBlock
    OBVIOUS
  <2>3. q \in Nat
    BY <1>0, <2>1, <2>2, Divided
  <2>4. Quotient(start, PerBlock) = -q
    BY <1>2, <2>2 DEF Quotient
  <2>5. f = 0
    BY <2>3, <2>4, Larger
  <2> QED
    BY <1>0, <1>2, <2>5
<1> QED
  BY <1>1, <1>2

\* The blocks wanted cover the records shown wherever in its first block the
\* view starts: one more than fit for the rest of the division, and one for
\* the place in the first block.
LEMMA Wanted ==
  ASSUME NEW n \in Nat \ {0}, NEW w, w = Max({BlocksInView(n), 1})
  PROVE  /\ w \in Nat \ {0} /\ w * PerBlock \in Nat
         /\ n + PerBlock < w * PerBlock
<1>0. PerBlock \in Nat \ {0}
  BY ViewAssumption
<1>1. PICK q : q = n \div PerBlock
  OBVIOUS
<1>2. q \in Nat /\ n < q * PerBlock + PerBlock /\ q * PerBlock \in Nat
  BY <1>0, <1>1, Divided
<1>3. BlocksInView(n) = q + 2
  BY <1>1 DEF BlocksInView, Quotient
<1>4. w = q + 2
  BY <1>2, <1>3, Larger
<1>5. (q + 2) * PerBlock = q * PerBlock + 2 * PerBlock
  BY <1>0, <1>2
<1> QED
  BY <1>0, <1>2, <1>4, <1>5

\* Wherever the view is, the blocks drawn are loaded ones, and each loaded
\* block with a record in view is among them (ProgramData.Draw).
THEOREM InViewDrawn ==
  ASSUME NEW start \in Int, NEW n \in Nat \ {0}, NEW loaded \in Nat
  PROVE  VisibleDrawn(start, n, loaded)
<1>0. PerBlock \in Nat \ {0}
  BY ViewAssumption
<1>1. PICK f, w : f = Max({Quotient(start, PerBlock), 0}) /\ w = Max({BlocksInView(n), 1})
  OBVIOUS
<1>2. /\ f \in Nat /\ f * PerBlock \in Nat
      /\ f = 0 \/ f * PerBlock <= start
      /\ start < f * PerBlock + PerBlock
  BY <1>1, FirstDrawn
<1>3. w \in Nat \ {0} /\ w * PerBlock \in Nat /\ n + PerBlock < w * PerBlock
  BY <1>1, Wanted
<1>4. PICK c : c = IF f + w >= loaded THEN loaded - f ELSE w
  OBVIOUS
<1>5. DrawnBlocks(start, n, loaded) = {b \in f..(f + c - 1) : c > 0}
  BY <1>1, <1>4, Zenon DEF DrawnBlocks
<1>6. c \in Int /\ (f + c <= loaded \/ c <= 0)
  BY <1>2, <1>3, <1>4
<1>7. DrawnBlocks(start, n, loaded) \subseteq 0..(loaded - 1)
  BY <1>2, <1>3, <1>4, <1>5
<1>8. ASSUME NEW b \in 0..(loaded - 1),
             b * PerBlock < start + n, start < (b + 1) * PerBlock
      PROVE  b \in DrawnBlocks(start, n, loaded)
  <2>1. f <= b
    <3>1. CASE f * PerBlock <= start
      <4>1. f * PerBlock < (b + 1) * PerBlock /\ (b + 1) * PerBlock \in Int
        BY <1>0, <1>2, <1>8, <3>1
      <4>2. f < b + 1
        BY <1>0, <1>2, <4>1, TimesLess
      <4> QED
        BY <1>2, <4>2
    <3> QED
      BY <1>2, <3>1
  <2>2. b < f + w
    <3>1. (f + w) * PerBlock = f * PerBlock + w * PerBlock /\ b * PerBlock \in Int
      BY <1>0, <1>2, <1>3
    <3>2. b * PerBlock < (f + w) * PerBlock
      BY <1>0, <1>2, <1>3, <1>8, <3>1
    <3> QED
      BY <1>0, <1>2, <1>3, <3>2, TimesLess
  <2> QED
    BY <1>2, <1>3, <1>4, <1>5, <2>1, <2>2
<1> QED
  BY <1>7, <1>8 DEF VisibleDrawn

-----------------------------------------------------------------------------
(* Pages in order.                                                          *)

\* s lists the n pages of S in order: the i-th has i pages up to it.
IsOrder(s, n, S) ==
  /\ n \in Nat /\ s \in [1..n -> S] /\ Len(s) = n /\ DOMAIN s = 1..n /\ Range(s) = S
  /\ \A i \in 1..n : Cardinality({q \in S : q <= s[i]}) = i
  /\ \A i \in 1..n, j \in 1..n : i < j => s[i] < s[j]

\* InOrder puts a finite set of pages in order.
LEMMA Ranked ==
  ASSUME NEW S, S \subseteq Nat, IsFiniteSet(S), NEW n, n = Cardinality(S),
         NEW s, s = InOrder(S)
  PROVE  IsOrder(s, n, S)
<1> DEFINE Upto(p) == {q \in S : q <= p}
           rank == [p \in S |-> Cardinality(Upto(p))]
<1>1. n \in Nat
  BY FS_CardinalityType
<1>2. ASSUME NEW p \in S
      PROVE  /\ IsFiniteSet(Upto(p)) /\ Cardinality(Upto(p)) \in 1..n
             /\ p \in Upto(p) /\ p \in Nat
  <2>1. p \in Nat /\ p \in Upto(p) /\ Upto(p) \in SUBSET S
    OBVIOUS
  <2>2. IsFiniteSet(Upto(p)) /\ Cardinality(Upto(p)) <= n
    BY <2>1, FS_Subset
  <2>3. Cardinality(Upto(p)) \in Nat
    BY <2>2, FS_CardinalityType
  <2>4. Cardinality(Upto(p)) # 0
    BY <2>1, <2>2, FS_EmptySet
  <2> QED
    BY <1>1, <2>1, <2>2, <2>3, <2>4
<1>3. ASSUME NEW p \in S, NEW q \in S, p < q
      PROVE  Cardinality(Upto(p)) < Cardinality(Upto(q))
  <2>1. p \in Nat /\ q \in Nat
    BY <1>2
  <2>2. Upto(p) \in SUBSET Upto(q) /\ q \in Upto(q) /\ q \notin Upto(p)
    <3>1. ASSUME NEW x \in S, x <= p PROVE x <= q
      <4>1. x \in Nat
        OBVIOUS
      <4> QED
        BY <1>3, <2>1, <3>1, <4>1
    <3>2. q <= q /\ ~(q <= p)
      BY <1>3, <2>1
    <3> QED
      BY <3>1, <3>2
  <2>3. PICK a, b : a = Upto(p) /\ b = Upto(q)
    OBVIOUS
  <2>4. IsFiniteSet(b) /\ Cardinality(a) \in 1..n /\ Cardinality(b) \in 1..n
    BY <1>2, <2>3
  <2>5. a \in SUBSET b /\ a # b
    BY <2>2, <2>3
  <2>6. Cardinality(a) <= Cardinality(b) /\ Cardinality(a) # Cardinality(b)
    BY <2>4, <2>5, FS_Subset
  <2> QED
    BY <2>3, <2>4, <2>6
<1>4. rank \in [S -> 1..n]
  BY <1>2
<1>5. ASSUME NEW p \in S, NEW q \in S, rank[p] = rank[q]
      PROVE  p = q
  <2>1. p \in Nat /\ q \in Nat
    BY <1>2
  <2>2. PICK a, b : a = Cardinality(Upto(p)) /\ b = Cardinality(Upto(q))
    OBVIOUS
  <2>3. a \in 1..n /\ a = b
    BY <1>2, <1>5, <2>2
  <2>4. /\ p < q => a < b
        /\ q < p => b < a
    BY <1>3, <2>2
  <2> QED
    BY <2>1, <2>3, <2>4
<1>6. rank \in Injection(S, 1..n)
  <2> HIDE DEF rank
  <2> QED
    BY <1>4, <1>5, Zenon DEF Injection, IsInjective
<1>7. IsFiniteSet(1..n) /\ Cardinality(1..n) = n
  BY <1>1, FS_Interval
<1>8. rank \in Surjection(S, 1..n)
  <2> HIDE DEF rank
  <2> QED
    BY <1>6, <1>7, FS_Injection
<1>9. \A i \in 1..n : \E p \in S : rank[p] = i
  <2> HIDE DEF rank
  <2> QED
    BY <1>8, Zenon DEF Surjection
<1>10. s = [i \in 1..n |-> CHOOSE p \in S : Cardinality(Upto(p)) = i]
  BY DEF InOrder
<1>11. ASSUME NEW i \in 1..n
       PROVE  s[i] \in S /\ Cardinality(Upto(s[i])) = i
  <2>1. \E p \in S : Cardinality(Upto(p)) = i
    BY <1>9
  <2>2. s[i] = CHOOSE p \in S : Cardinality(Upto(p)) = i
    BY <1>10
  <2> HIDE DEF Upto
  <2> QED
    BY <2>1, <2>2
<1>12. s \in [1..n -> S] /\ DOMAIN s = 1..n
  BY <1>10, <1>11
<1>13. ASSUME NEW p \in S
       PROVE  \E i \in 1..n : s[i] = p
  <2>1. rank[p] \in 1..n
    BY <1>4
  <2>2. PICK i \in 1..n : i = rank[p]
    BY <2>1
  <2>3. s[i] \in S /\ rank[s[i]] = i
    BY <1>11
  <2>4. s[i] = p
    BY <1>5, <2>2, <2>3
  <2> QED
    BY <2>4
<1>14. Range(s) = S
  BY <1>12, <1>13 DEF Range
<1>15. ASSUME NEW i \in 1..n, NEW j \in 1..n, i < j
       PROVE  s[i] < s[j]
  <2>1. /\ s[i] \in Nat /\ s[j] \in Nat /\ s[i] \in S /\ s[j] \in S
        /\ Cardinality(Upto(s[i])) = i /\ Cardinality(Upto(s[j])) = j
    BY <1>11
  <2>2. s[i] # s[j]
    BY <1>15, <2>1
  <2>3. s[j] < s[i] => j < i
    BY <1>3, <2>1
  <2> QED
    BY <1>1, <1>15, <2>1, <2>2, <2>3
<1>16. Len(s) = n
  BY <1>1, <1>12
<1> QED
  BY <1>1, <1>11, <1>12, <1>14, <1>15, <1>16 DEF IsOrder

-----------------------------------------------------------------------------
(* Inactive pages.                                                          *)

\* What % gives, and around a word.
LEMMA Multiple ==
  ASSUME NEW k \in Nat, NEW x \in Nat, NEW m \in Nat, x < m
  PROVE  (k * m + x) % m = x
<1>1. m \in Nat \ {0} /\ x \in 0..(m - 1)
  OBVIOUS
<1>2. PICK a : a = k * m + x
  OBVIOUS
<1>3. a \in Nat /\ k * m \in Nat
  BY <1>1, <1>2
<1>4. PICK q : q = a \div m
  OBVIOUS
<1>5. q \in Nat /\ q * m \in Nat /\ q * m <= a /\ a < q * m + m /\ a = q * m + (a % m)
  BY <1>1, <1>3, <1>4, Divided
<1>6. (q + 1) * m = q * m + m /\ (k + 1) * m = k * m + m
  BY <1>1, <1>5
<1>7. k * m < (q + 1) * m /\ q * m < (k + 1) * m
  BY <1>1, <1>2, <1>3, <1>5, <1>6
<1>8. k < q + 1 /\ q < k + 1
  BY <1>1, <1>5, <1>7, TimesLess
<1>9. q = k
  BY <1>5, <1>8
<1>10. a % m \in Nat
  BY <1>1, <1>3
<1> QED
  BY <1>2, <1>3, <1>5, <1>9, <1>10

\* A number below m, one m further, and two.
LEMMA AroundWord ==
  ASSUME NEW x \in Nat, NEW m \in Nat, x < m
  PROVE  x % m = x /\ (x + m) % m = x /\ (x + m + m) % m = x
<1>1. 0 * m + x = x /\ 1 * m + x = x + m /\ 2 * m + x = x + m + m
  OBVIOUS
<1>2. (0 * m + x) % m = x /\ (1 * m + x) % m = x /\ (2 * m + x) % m = x
  BY Multiple
<1> QED
  BY <1>1, <1>2

\* Two functions that begin alike and go on alike are the same up to n.
Alike(f, g, n) ==
  f[0] = g[0] /\ \A i \in 1..n : f[i - 1] = g[i - 1] => f[i] = g[i]

LEMMA SameUpTo ==
  ASSUME NEW n \in Nat, NEW f, NEW g, Alike(f, g, n)
  PROVE  \A i \in 0..n : f[i] = g[i]
<1>1. f[0] = g[0]
  BY DEF Alike
<1>2. \A i \in 1..n : f[i - 1] = g[i - 1] => f[i] = g[i]
  BY DEF Alike
<1> QED
  BY ONLY n \in Nat, <1>1, <1>2, StepByStep

\* The running total after i pages is the number of inactive pages before the
\* i-th, in uint64: one less than none when the pages are the first i.
Inactive(s, i) ==
  IF i = 0 THEN 0 ELSE IF s[i] = i - 1 THEN Word - 1 ELSE s[i] - i

\* What the loop over the active pages has summed up after each of them.
LEMMA TotalAt ==
  ASSUME NEW n \in Nat, NEW s, Len(s) = n,
         \A i \in 1..n : s[i] \in Nat /\ i - 1 <= s[i] /\ s[i] < Word,
         \A i \in 1..n, j \in 1..n : i < j => s[i] < s[j]
  PROVE  \A i \in 0..n : RunningTotal(s)[i] = Inactive(s, i)
<1> DEFINE Body(t) == [i \in 0..Len(s) |->
                         IF i = 0 THEN 0 ELSE (t[i - 1] + Gap(s, i) + Word) % Word]
           t == CHOOSE t : t = Body(t)
           g == [i \in 0..n |-> Inactive(s, i)]
<1>0. Word \in Nat \ {0}
  BY ViewAssumption
<1>1. g[0] = 0
  BY DEF Inactive
<1>2. ASSUME NEW i \in 1..n
      PROVE  g[i] = (g[i - 1] + Gap(s, i) + Word) % Word
  <2>1. s[i] \in Nat /\ i - 1 <= s[i] /\ s[i] < Word /\ i \in Nat /\ i - 1 \in 0..n
    OBVIOUS
  <2>2. g[i] = IF s[i] = i - 1 THEN Word - 1 ELSE s[i] - i
    BY <2>1 DEF Inactive
  <2>3. PICK x : x = g[i - 1] + Gap(s, i) + Word
    OBVIOUS
  <2>4. \/ x = g[i]
        \/ x = g[i] + Word
        \/ x = g[i] + Word + Word
    <3>1. CASE i = 1
      <4>1. Gap(s, i) = s[i] - 1 /\ g[i - 1] = 0
        BY <1>1, <3>1 DEF Gap
      <4>2. PICK b, v : b = g[i] /\ v = s[i]
        OBVIOUS
      <4>3. x = 0 + (v - 1) + Word
        BY <2>3, <4>1, <4>2
      <4>4. v \in Nat /\ b = IF v = 0 THEN Word - 1 ELSE v - 1
        BY <2>1, <2>2, <3>1, <4>2
      <4>5. x = b \/ x = b + Word \/ x = b + Word + Word
        <5> HIDE DEF g
        <5> QED
          BY <1>0, <4>3, <4>4
      <4> QED
        BY <4>2, <4>5
    <3>2. CASE i # 1
      <4>1. i - 1 \in 1..n /\ i - 1 < i /\ i - 1 # 0
        BY <3>2
      <4>2. /\ s[i - 1] \in Nat /\ (i - 1) - 1 <= s[i - 1] /\ s[i - 1] < s[i]
            /\ Gap(s, i) = s[i] - s[i - 1] - 1
        BY <3>2, <4>1 DEF Gap
      <4>3. g[i - 1] = IF s[i - 1] = (i - 1) - 1 THEN Word - 1 ELSE s[i - 1] - (i - 1)
        BY <2>1, <4>1 DEF Inactive
      <4>4. PICK a, b, u, v : a = g[i - 1] /\ b = g[i] /\ u = s[i - 1] /\ v = s[i]
        OBVIOUS
      <4>5. x = a + (v - u - 1) + Word
        BY <2>3, <4>2, <4>4
      <4>6. /\ u \in Nat /\ v \in Nat /\ (i - 1) - 1 <= u /\ u < v
            /\ a = IF u = (i - 1) - 1 THEN Word - 1 ELSE u - (i - 1)
            /\ b = IF v = i - 1 THEN Word - 1 ELSE v - i
        BY <2>1, <2>2, <4>2, <4>3, <4>4
      <4>7. x = b \/ x = b + Word \/ x = b + Word + Word
        <5> HIDE DEF g
        <5> QED
          BY <1>0, <2>1, <4>5, <4>6
      <4> QED
        BY <4>4, <4>7
    <3> QED
      BY <3>1, <3>2
  <2>5. g[i] \in Nat /\ g[i] < Word
    <3>1. PICK b, v : b = g[i] /\ v = s[i]
      OBVIOUS
    <3>2. v \in Nat /\ i - 1 <= v /\ v < Word /\ b = IF v = i - 1 THEN Word - 1 ELSE v - i
      BY <2>1, <2>2, <3>1
    <3>3. b \in Nat /\ b < Word
      <4> HIDE DEF g
      <4> QED
        BY <1>0, <2>1, <3>2
    <3> QED
      BY <3>1, <3>3
  <2> HIDE DEF g
  <2> QED
    BY <1>0, <2>3, <2>4, <2>5, AroundWord
<1>3. g = Body(g)
  <2>1. \A i \in 0..n : i # 0 => i \in 1..n
    OBVIOUS
  <2>2. g = [i \in 0..n |-> g[i]]
    OBVIOUS
  <2>3. \A i \in 0..n :
          g[i] = IF i = 0 THEN 0 ELSE (g[i - 1] + Gap(s, i) + Word) % Word
    <3> HIDE DEF g
    <3> QED
      BY <1>1, <1>2, <2>1
  <2> HIDE DEF g
  <2> QED
    BY <2>2, <2>3
<1>4. t = Body(t)
  <2>1. \E u : u = Body(u)
    <3> HIDE DEF Body
    <3> QED
      BY <1>3
  <2> HIDE DEF Body
  <2> QED
    BY <2>1
<1>5. RunningTotal(s) = t
  BY DEF RunningTotal
<1> HIDE DEF t
<1>6. t[0] = 0 /\ \A i \in 1..n : t[i] = (t[i - 1] + Gap(s, i) + Word) % Word
  <2>1. /\ 0 \in 0..Len(s) /\ \A i \in 1..n : i \in 0..Len(s) /\ i # 0
    OBVIOUS
  <2> QED
    BY <1>4, <2>1
<1>7. \A i \in 0..n : t[i] = g[i]
  <2> HIDE DEF g
  <2>1. Alike(t, g, n)
    BY <1>1, <1>2, <1>6 DEF Alike
  <2> QED
    BY <2>1, SameUpTo
<1> QED
  BY <1>5, <1>7

\* A block has no more pages than records.
LEMMA FewPages ==
  ASSUME NEW addrs \in Seq(0..(Word - 1)), NEW hide
  PROVE  /\ ActivePages(addrs, hide) \subseteq Nat /\ IsFiniteSet(ActivePages(addrs, hide))
         /\ Cardinality(ActivePages(addrs, hide)) \in 0..Len(addrs)
         /\ \A p \in ActivePages(addrs, hide) : p < Word
<1>0. PageSize \in Nat \ {0} /\ Word \in Nat \ {0}
  BY ViewAssumption
<1>1. /\ Len(addrs) \in Nat /\ DOMAIN addrs = 1..Len(addrs)
      /\ \A i \in 1..Len(addrs) : addrs[i] \in 0..(Word - 1)
  BY ElementOfSeq, LenProperties
<1>2. PICK n : n = Len(addrs)
  OBVIOUS
<1>3. PICK P : P = Pages(addrs)
  OBVIOUS
<1>4. ASSUME NEW i \in 1..n
      PROVE  addrs[i] \div PageSize \in Nat /\ addrs[i] \div PageSize < Word
  <2>1. PICK a : a = addrs[i]
    OBVIOUS
  <2>2. a \in Nat /\ a < Word
    BY <1>0, <1>1, <1>2, <2>1
  <2>3. PICK q : q = a \div PageSize
    OBVIOUS
  <2>4. q \in Nat /\ q * PageSize <= a
    BY <1>0, <2>2, <2>3, Divided
  <2>5. q <= q * PageSize /\ q * PageSize \in Nat
    BY <1>0, <2>4
  <2>6. q < Word
    BY <1>0, <2>2, <2>4, <2>5
  <2> QED
    BY <2>1, <2>3, <2>4, <2>6
<1>5. P = {addrs[i] \div PageSize : i \in 1..n}
  BY <1>1, <1>2, <1>3 DEF Pages
<1> DEFINE f == [i \in 1..n |-> addrs[i] \div PageSize]
<1>6. f \in Surjection(1..n, P)
  <2>1. f \in [1..n -> P]
    BY <1>5
  <2>2. \A p \in P : \E i \in 1..n : f[i] = p
    BY <1>5
  <2> HIDE DEF f
  <2> QED
    BY <2>1, <2>2, Zenon DEF Surjection
<1>7. IsFiniteSet(1..n) /\ Cardinality(1..n) = n
  <2>1. n \in Nat
    BY <1>1, <1>2
  <2>2. 1 \in Int /\ n \in Int /\ (IF 1 > n THEN 0 ELSE n - 1 + 1) = n
    BY <2>1
  <2> QED
    BY <2>2, FS_Interval
<1>8. IsFiniteSet(P) /\ Cardinality(P) <= n
  <2> HIDE DEF f
  <2> QED
    BY <1>6, <1>7, FS_Surjection
<1>9. PICK A : A = ActivePages(addrs, hide)
  OBVIOUS
<1>10. A \in SUBSET P
  BY <1>3, <1>9 DEF ActivePages
<1>11. IsFiniteSet(A) /\ Cardinality(A) <= Cardinality(P)
  BY <1>8, <1>10, FS_Subset
<1>12. Cardinality(A) \in Nat /\ Cardinality(P) \in Nat
  BY <1>8, <1>11, FS_CardinalityType
<1>13. Cardinality(A) \in 0..n
  BY <1>1, <1>2, <1>8, <1>11, <1>12
<1>14. \A p \in P : p \in Nat /\ p < Word
  BY <1>4, <1>5
<1> QED
  BY <1>2, <1>9, <1>10, <1>11, <1>13, <1>14

\* The place of an active page, and the inactive pages to the left of it.
IsPlace(i, page, addrs, hide) ==
  /\ Cardinality({p \in ActivePages(addrs, hide) : p < page}) = i - 1
  /\ i - 1 <= page /\ page \in Nat
  /\ InactiveToLeft(addrs, hide)[page] = IF page = i - 1 THEN Word - 1 ELSE page - i

\* Every active page has a place among them.
LEMMA PlaceOf ==
  ASSUME NEW addrs \in Seq(0..(Word - 1)), NEW hide,
         NEW page \in ActivePages(addrs, hide)
  PROVE  \E i \in 1..Cardinality(ActivePages(addrs, hide)) : IsPlace(i, page, addrs, hide)
<1>1. PICK A : A = ActivePages(addrs, hide)
  OBVIOUS
<1>2. PICK n : n = Cardinality(A)
  OBVIOUS
<1>3. PICK s : s = InOrder(A)
  OBVIOUS
<1>4. /\ A \subseteq Nat /\ IsFiniteSet(A) /\ \A p \in A : p < Word
  BY <1>1, FewPages
<1>5. /\ n \in Nat /\ s \in [1..n -> A] /\ Len(s) = n /\ DOMAIN s = 1..n /\ Range(s) = A
      /\ \A i \in 1..n : Cardinality({q \in A : q <= s[i]}) = i
      /\ \A i \in 1..n, j \in 1..n : i < j => s[i] < s[j]
  <2>1. IsOrder(s, n, A)
    BY <1>2, <1>3, <1>4, Ranked
  <2> QED
    BY <2>1 DEF IsOrder
<1>6. ASSUME NEW i \in 1..n
      PROVE  s[i] \in Nat /\ i - 1 <= s[i] /\ s[i] < Word
  <2>1. s[i] \in A
    BY <1>5
  <2>2. PICK x : x = s[i]
    OBVIOUS
  <2>3. x \in Nat /\ x < Word
    BY <1>4, <2>1, <2>2
  <2>4. PICK U : U = {q \in A : q <= x}
    OBVIOUS
  <2>5. U \in SUBSET Nat /\ \A q \in U : q <= x
    BY <1>4, <2>4
  <2>6. Cardinality(U) <= x + 1
    BY <2>3, <2>5, FS_BoundedSetOfNaturals
  <2>7. Cardinality(U) = i
    BY <1>5, <2>2, <2>4
  <2>8. i \in Nat /\ i <= x + 1
    BY <2>6, <2>7
  <2> QED
    BY <2>2, <2>3, <2>8
<1>7. PICK i \in 1..n : s[i] = page
  <2>1. page \in Range(s)
    BY <1>1, <1>5
  <2> QED
    BY <1>5, <2>1 DEF Range
<1>8. (CHOOSE j \in DOMAIN s : s[j] = page) = i
  <2>1. ASSUME NEW j \in 1..n, s[j] = page PROVE j = i
    <3>1. s[i] \in Nat /\ s[j] = s[i]
      BY <1>6, <1>7, <2>1
    <3>2. ~(i < j) /\ ~(j < i)
      BY <1>5, <3>1
    <3> QED
      BY <1>5, <3>2
  <2>2. i \in DOMAIN s /\ \A j \in DOMAIN s : s[j] = page => j = i
    BY <1>5, <2>1
  <2> QED
    BY <1>7, <2>2
<1>9. \A j \in 0..n : RunningTotal(s)[j] = Inactive(s, j)
  BY ONLY <1>5, <1>6, TotalAt
<1>10. InactiveToLeft(addrs, hide)[page] = Inactive(s, i)
  <2>1. InactiveToLeft(addrs, hide) =
          [p \in Range(s) |-> RunningTotal(s)[CHOOSE j \in DOMAIN s : s[j] = p]]
    BY <1>1, <1>3 DEF InactiveToLeft
  <2>2. InactiveToLeft(addrs, hide)[page] = RunningTotal(s)[i]
    <3>1. page \in Range(s)
      BY <1>1, <1>5
    <3> QED
      BY <1>8, <2>1, <3>1, Zenon
  <2>3. i \in 0..n
    BY <1>5
  <2> QED
    BY <1>9, <2>2, <2>3
<1>11. Inactive(s, i) = IF page = i - 1 THEN Word - 1 ELSE page - i
  BY <1>5, <1>7 DEF Inactive
<1>12. Cardinality({p \in A : p < page}) = i - 1
  <2>1. PICK U : U = {q \in A : q <= page}
    OBVIOUS
  <2>2. U \in SUBSET A /\ page \in U /\ page \in Nat
    BY <1>1, <1>4, <2>1
  <2>3. IsFiniteSet(U) /\ Cardinality(U) = i
    BY <1>4, <1>5, <1>7, <2>1, <2>2, FS_Subset
  <2>4. {p \in A : p < page} = U \ {page}
    <3>1. \A q \in A : q < page <=> (q <= page /\ q # page)
      BY <1>4, <2>2
    <3> QED
      BY <1>1, <2>1, <3>1
  <2>5. Cardinality(U \ {page}) = Cardinality(U) - 1
    BY <2>2, <2>3, FS_RemoveElement
  <2> QED
    BY <2>3, <2>4, <2>5
<1>13. i - 1 <= page /\ page \in Nat
  BY <1>6, <1>7
<1> QED
  BY <1>1, <1>2, <1>10, <1>11, <1>12, <1>13 DEF IsPlace

\* Active pages are drawn side by side after one empty page, whatever lies
\* between them, as long as that is no wider than a uint64
\* (ActiveRegionIDs, GenerateVertices).
THEOREM SideBySide ==
  ASSUME NEW addrs \in Seq(0..(Word - 1)), NEW hide,
         Width(addrs, hide) <= Word
  PROVE  DrawnDense(addrs, hide)
<1>0. PageSize \in Nat \ {0} /\ Word \in Nat \ {0}
  BY ViewAssumption
<1>1. PICK n : n = Cardinality(ActivePages(addrs, hide))
  OBVIOUS
<1>2. n \in Nat /\ (n + 1) * PageSize <= Word
  <2>1. n \in Nat
    BY <1>1, FewPages, LenProperties
  <2> QED
    BY <1>1, <2>1 DEF Width
<1>3. ASSUME NEW k \in DOMAIN addrs,
             NEW page, page = addrs[k] \div PageSize, page \in ActivePages(addrs, hide),
             NEW left, left = {p \in ActivePages(addrs, hide) : p < page},
             NEW x, x = Column(addrs, hide, addrs[k])
      PROVE  /\ x = (1 + Cardinality(left)) * PageSize + (addrs[k] % PageSize)
             /\ x < Width(addrs, hide)
  <2>1. PICK i \in 1..n :
           /\ Cardinality(left) = i - 1 /\ i - 1 <= page /\ page \in Nat
           /\ InactiveToLeft(addrs, hide)[page] = IF page = i - 1 THEN Word - 1 ELSE page - i
    <3>1. PICK i \in 1..n : IsPlace(i, page, addrs, hide)
      BY <1>1, <1>3, PlaceOf
    <3> QED
      BY <1>3, <3>1 DEF IsPlace
  <2>2. PICK a : a = addrs[k]
    OBVIOUS
  <2>3. a \in Nat /\ a < Word
    BY <1>0, <2>2, ElementOfSeq, LenProperties
  <2>4. PICK t : t = InactiveToLeft(addrs, hide)[page]
    OBVIOUS
  <2>5. PICK r : r = a % PageSize
    OBVIOUS
  <2>6. /\ r \in 0..(PageSize - 1) /\ a = page * PageSize + r
        /\ page * PageSize \in Nat /\ page \in Nat
    <3>1. page = a \div PageSize
      BY <1>3, <2>2
    <3>2. /\ a % PageSize \in 0..(PageSize - 1)
          /\ a = (a \div PageSize) * PageSize + (a % PageSize)
      BY <1>0, <2>3
    <3>3. page \in Nat /\ page * PageSize \in Nat
      BY <1>0, <2>1
    <3> QED
      BY <2>5, <3>1, <3>2, <3>3
  <2>7. x = (a + Word - ((t * PageSize) % Word)) % Word
    BY <1>3, <2>2, <2>4 DEF Column
  <2>8. i * PageSize \in Nat /\ (i + 1) * PageSize = i * PageSize + PageSize
    BY <1>0, <1>2
  <2>9. (i + 1) * PageSize <= (n + 1) * PageSize
    BY <1>0, <1>2
  <2>10. i * PageSize + r \in Nat /\ i * PageSize + r < Word
    BY <1>0, <1>2, <2>6, <2>8, <2>9
  <2>11. x = i * PageSize + r
    <3>1. CASE page = i - 1
      <4>1. t = Word - 1
        BY <2>1, <2>4, <3>1
      <4>2. PageSize <= Word
        BY <1>0, <1>2, <2>8, <2>9
      <4>3. t * PageSize = (PageSize - 1) * Word + (Word - PageSize)
        BY <1>0, <4>1
      <4>4. (t * PageSize) % Word = Word - PageSize
        <5>1. PageSize - 1 \in Nat /\ Word - PageSize \in Nat /\ Word - PageSize < Word
          BY <1>0, <4>2
        <5>2. ((PageSize - 1) * Word + (Word - PageSize)) % Word = Word - PageSize
          BY <1>0, <5>1, Multiple
        <5> QED
          BY <4>3, <5>2
      <4>5. page * PageSize = i * PageSize - PageSize
        BY <1>0, <1>2, <3>1
      <4>6. x = (a + Word - (Word - PageSize)) % Word
        BY <2>7, <4>4
      <4>7. a + Word - (Word - PageSize) = i * PageSize + r
        BY <1>0, <2>6, <2>8, <4>5
      <4> QED
        BY <1>0, <2>10, <4>6, <4>7, AroundWord
    <3>2. CASE page # i - 1
      <4>1. t = page - i /\ t \in Nat
        BY <1>2, <2>1, <2>4, <3>2
      <4>2. t * PageSize = page * PageSize - i * PageSize /\ t * PageSize \in Nat
        BY <1>0, <1>2, <2>1, <4>1
      <4>3. t * PageSize < Word
        BY <1>0, <2>3, <2>6, <2>8, <4>2
      <4>4. (t * PageSize) % Word = t * PageSize
        BY <1>0, <4>2, <4>3, AroundWord
      <4>5. x = (a + Word - t * PageSize) % Word
        BY <2>7, <4>4
      <4>6. a + Word - t * PageSize = (i * PageSize + r) + Word
        BY <1>0, <2>6, <2>8, <4>2
      <4> QED
        BY <1>0, <2>10, <4>5, <4>6, AroundWord
    <3> QED
      BY <3>1, <3>2
  <2>12. x < Width(addrs, hide)
    <3>1. x < (n + 1) * PageSize
      BY <1>0, <1>2, <2>6, <2>8, <2>9, <2>11
    <3> QED
      BY <1>1, <3>1 DEF Width
  <2>13. 1 + Cardinality(left) = i
    BY <1>2, <2>1
  <2> QED
    BY <2>2, <2>5, <2>11, <2>12, <2>13
<1> QED
  BY <1>3 DEF DrawnDense

-----------------------------------------------------------------------------
(* The view.                                                                *)

Views ==
  [i: Int, nback: Nat \ {0}, rec: Int, rec_actual: Int, row: Nat, lbutton: BOOLEAN]

\* What the program hands to the callbacks.  Turned too far, the wheel leaves no
\* record in view, and then nothing can be said.
Incoming(e) ==
  /\ e.kind \in {"move", "wheel", "button"}
  /\ e.kind = "move" => e.row \in Nat
  /\ e.kind = "wheel" => NbackAt(e.pos) \in Nat \ {0}
  /\ e.kind = "button" => e.down \in BOOLEAN

\* Go's division gives a number, whatever the sign.
LEMMA QuotientType ==
  ASSUME NEW a \in Int, NEW m \in Nat \ {0}
  PROVE  Quotient(a, m) \in Int
<1>1. CASE a >= 0
  <2>1. a \in Nat /\ a \div m \in Nat
    BY <1>1, Divided
  <2> QED
    BY <1>1, <2>1 DEF Quotient
<1>2. CASE ~(a >= 0)
  <2>1. -a \in Nat
    BY <1>2
  <2>2. (-a) \div m \in Nat
    BY <2>1, Divided
  <2> QED
    BY <1>2, <2>2 DEF Quotient
<1> QED
  BY <1>1, <1>2

\* The record under the mouse is the row's share of the view, rounded.
LEMMA UnderType ==
  ASSUME NEW row \in Nat, NEW n \in Nat
  PROVE  LET u == UnderMouse(row, n)
         IN  /\ u \in Nat /\ u * (2 * Rows) <= 2 * row * n + Rows
             /\ 2 * row * n + Rows < u * (2 * Rows) + 2 * Rows
<1>1. Rows \in Nat \ {0} /\ 2 * Rows \in Nat \ {0}
  BY ViewAssumption
<1>2. 2 * row * n + Rows \in Nat
  BY <1>1
<1> QED
  BY <1>1, <1>2, Divided DEF UnderMouse

\* A callback leaves a view.
LEMMA InputType ==
  ASSUME NEW v \in Views, NEW e, Incoming(e)
  PROVE  Input(v, e) \in Views
<1>0. Rows \in Nat \ {0}
  BY ViewAssumption
<1>1. CASE e.kind = "move"
  <2>1. Input(v, e) = MousePos(v, e.row) /\ e.row \in Nat
    BY <1>1 DEF Input, Incoming
  <2>2. PICK r : r = UnderMouse(e.row, v.nback)
    OBVIOUS
  <2>3. r \in Nat
    BY <2>1, <2>2, UnderType DEF Views
  <2>4. PICK a, d : a = (v.row - e.row) * v.nback /\ d = Quotient(a, Rows)
    OBVIOUS
  <2>5. a \in Int
    BY <2>1, <2>4 DEF Views
  <2>6. d \in Int
    BY <1>0, <2>4, <2>5, QuotientType
  <2>7. MousePos(v, e.row) =
          [v EXCEPT !.rec = r, !.rec_actual = r + v.i, !.row = e.row,
                    !.i = IF v.lbutton THEN @ + d ELSE @]
    BY <2>2, <2>4 DEF MousePos
  <2>8. PICK row, j : row = e.row /\ j = IF v.lbutton THEN v.i + d ELSE v.i
    OBVIOUS
  <2>9. row \in Nat /\ j \in Int /\ r + v.i \in Int /\ r \in Int
    BY <2>1, <2>3, <2>6, <2>8 DEF Views
  <2>10. MousePos(v, e.row) =
           [v EXCEPT !.rec = r, !.rec_actual = r + v.i, !.row = row, !.i = j]
    BY <2>7, <2>8 DEF Views
  <2>11. [v EXCEPT !.rec = r, !.rec_actual = r + v.i, !.row = row, !.i = j] \in Views
    BY <2>9 DEF Views
  <2> QED
    BY <2>1, <2>10, <2>11
<1>2. CASE e.kind = "wheel"
  <2>1. Input(v, e) = Wheel(v, e.pos) /\ NbackAt(e.pos) \in Nat \ {0}
    BY <1>2 DEF Input, Incoming
  <2>2. PICK m : m = NbackAt(e.pos)
    OBVIOUS
  <2>3. PICK a, d : a = (v.rec_actual - v.i) * m /\ d = Quotient(a, v.nback)
    OBVIOUS
  <2>4. a \in Int
    BY <2>1, <2>2, <2>3 DEF Views
  <2>5. d \in Int
    BY <2>3, <2>4, QuotientType DEF Views
  <2>6. PICK j : j = v.i - ((v.i + d) - v.rec_actual)
    OBVIOUS
  <2>7. j \in Int
    BY <2>5, <2>6 DEF Views
  <2>8. CASE v.rec = 0
    <3>1. Wheel(v, e.pos) = [v EXCEPT !.nback = m]
      BY <2>2, <2>8 DEF Wheel
    <3> QED
      BY <2>1, <2>2, <3>1 DEF Views
  <2>9. CASE v.rec # 0
    <3>1. Wheel(v, e.pos) = [v EXCEPT !.nback = m, !.i = j, !.rec = v.rec_actual - j]
      <4>1. PICK x : x = v.i - ((v.i + Quotient((v.rec_actual - v.i) * NbackAt(e.pos),
                                                v.nback)) - v.rec_actual)
        OBVIOUS
      <4>2. Wheel(v, e.pos) =
              [v EXCEPT !.nback = NbackAt(e.pos), !.i = x, !.rec = v.rec_actual - x]
        BY <2>9, <4>1, Zenon DEF Wheel
      <4>3. x = j
        BY <2>2, <2>3, <2>6, <4>1, Zenon
      <4> QED
        BY <2>2, <4>2, <4>3, Zenon
    <3>2. PICK r \in Int : r = v.rec_actual - j
      BY <2>7 DEF Views
    <3>3. [v EXCEPT !.nback = m, !.i = j, !.rec = r] \in Views
      BY <2>1, <2>2, <2>7 DEF Views
    <3>4. Wheel(v, e.pos) = [v EXCEPT !.nback = m, !.i = j, !.rec = r]
      BY <3>1, <3>2
    <3> QED
      BY <2>1, <3>3, <3>4
  <2> QED
    BY <2>8, <2>9
<1>3. CASE e.kind = "button"
  <2>1. Input(v, e) = [v EXCEPT !.lbutton = e.down] /\ e.down \in BOOLEAN
    BY <1>3 DEF Input, Incoming
  <2> QED
    BY <2>1 DEF Views
<1> QED
  BY <1>1, <1>2, <1>3 DEF Incoming

\* The view after some inputs is the last one's doing.
LEMMA ViewLast ==
  ASSUME NEW n \in Nat \ {0}, NEW inputs, Len(inputs) = n,
         \A i \in 1..n : Incoming(inputs[i])
  PROVE  \E u \in Views : ViewAfter(inputs) = Input(u, inputs[n])
<1> DEFINE Body(f) == [i \in 0..Len(inputs) |->
                         IF i = 0 THEN FirstView ELSE Input(f[i - 1], inputs[i])]
           f == CHOOSE f : f = Body(f)
           Step == [x \in Views \X (1..n) |-> Input(x[1], inputs[x[2]])]
           idx == [i \in 1..n |-> i]
<1>1. FirstView \in Views
  <2>1. /\ FirstNback \in Nat \ {0} /\ Rows \in Nat \ {0}
        /\ -FirstNback \in Int /\ Rows \div 2 \in Nat
    BY ViewAssumption
  <2> QED
    BY <2>1 DEF FirstView, Views
<1>2. Step \in [Views \X (1..n) -> Views]
  <2>1. ASSUME NEW x \in Views \X (1..n) PROVE Input(x[1], inputs[x[2]]) \in Views
    <3>1. x[1] \in Views /\ x[2] \in 1..n
      OBVIOUS
    <3> QED
      BY <3>1, InputType
  <2> QED
    BY <2>1
<1>3. idx \in Seq(1..n) /\ Len(idx) = n /\ \A i \in 1..n : idx[i] = i
  OBVIOUS
<1>4. PICK g \in [0..n -> Views] : IsAlong(g, Step, FirstView, idx, n)
  <2> HIDE DEF Step, idx
  <2>1. \E g \in [0..Len(idx) -> Views] : IsAlong(g, Step, FirstView, idx, Len(idx))
    BY <1>1, <1>2, <1>3, AlongExists
  <2> QED
    BY <1>3, <2>1
<1>5. g[0] = FirstView /\ \A i \in 1..n : i - 1 \in 0..n /\ g[i] = Input(g[i - 1], inputs[i])
  <2>1. g[0] = FirstView /\ \A i \in 1..n : g[i] = Step[<<g[i - 1], idx[i]>>]
    <3> HIDE DEF Step, idx
    <3> QED
      BY <1>4 DEF IsAlong
  <2>2. ASSUME NEW i \in 1..n PROVE i - 1 \in 0..n /\ g[i] = Input(g[i - 1], inputs[i])
    <3>1. i - 1 \in 0..n
      OBVIOUS
    <3>2. PICK x : x = <<g[i - 1], i>>
      OBVIOUS
    <3>3. x \in Views \X (1..n) /\ x[1] = g[i - 1] /\ x[2] = i
      BY <3>1, <3>2
    <3>4. Step[x] = Input(x[1], inputs[x[2]])
      BY <3>3
    <3>5. g[i] = Step[x]
      BY <1>3, <2>1, <3>2
    <3> HIDE DEF Step
    <3> QED
      BY <3>1, <3>3, <3>4, <3>5
  <2> QED
    BY <2>1, <2>2
<1>6. g = Body(g)
  <2>1. \A i \in 0..n : i # 0 => i \in 1..n
    OBVIOUS
  <2>2. \A i \in 0..n : g[i] = IF i = 0 THEN FirstView ELSE Input(g[i - 1], inputs[i])
    BY <1>5, <2>1
  <2> QED
    BY <2>2
<1>7. f = Body(f)
  <2>1. \E u : u = Body(u)
    <3> HIDE DEF Body
    <3> QED
      BY <1>6
  <2> HIDE DEF Body
  <2> QED
    BY <2>1
<1>8. ViewAfter(inputs) = f[n]
  BY DEF ViewAfter
<1> HIDE DEF f
<1>9. f[0] = FirstView /\ \A i \in 1..n : f[i] = Input(f[i - 1], inputs[i])
  <2>1. 0 \in 0..Len(inputs) /\ \A i \in 1..n : i \in 0..Len(inputs) /\ i # 0
    OBVIOUS
  <2> QED
    BY <1>7, <2>1
<1>10. \A i \in 0..n : f[i] = g[i]
  <2>1. Alike(f, g, n)
    BY <1>5, <1>9 DEF Alike
  <2> QED
    BY <2>1, SameUpTo
<1>11. n \in 0..n /\ n \in 1..n /\ n - 1 \in 0..n
  OBVIOUS
<1>12. g[n - 1] \in Views
  BY <1>4, <1>11
<1>13. ViewAfter(inputs) = Input(g[n - 1], inputs[n])
  BY <1>5, <1>8, <1>10, <1>11
<1> QED
  BY <1>12, <1>13

\* Rounding on two scales: a record number u that stands for row r of R on a
\* scale of n, converted to a scale of m, is not further from the record
\* number w that stands for it there than 1 and the ratio k of the scales.
LEMMA TwoScales ==
  ASSUME NEW R \in Nat \ {0}, NEW r \in Nat, NEW n \in Nat \ {0}, NEW m \in Nat,
         NEW u \in Nat, u * (2 * R) <= 2 * r * n + R,
                        2 * r * n + R < u * (2 * R) + 2 * R,
         NEW w \in Nat, w * (2 * R) <= 2 * r * m + R,
                        2 * r * m + R < w * (2 * R) + 2 * R,
         NEW q \in Nat, q * n <= u * m, u * m < q * n + n,
         NEW k \in Nat, m < k * n + n
  PROVE  w - q <= 1 + k /\ q - w <= 1 + k
<1>1. (w * (2 * R)) * n <= (2 * r * m + R) * n
  OBVIOUS
<1>2. (2 * r * n + R) * m <= (u * (2 * R) + 2 * R) * m
  OBVIOUS
<1>3. (u * m) * (2 * R) < (q * n + n) * (2 * R)
  OBVIOUS
<1>4. (q * n) * (2 * R) <= (u * m) * (2 * R)
  OBVIOUS
<1>5. (u * (2 * R)) * m <= (2 * r * n + R) * m
  OBVIOUS
<1>6. (2 * r * m + R) * n < (w * (2 * R) + 2 * R) * n
  OBVIOUS
<1>7. (2 * w * n) * R < (2 * q * n + 3 * n + m) * R
  BY <1>1, <1>2, <1>3
<1>8. (2 * q * n) * R < (2 * w * n + n + m) * R
  BY <1>4, <1>5, <1>6
<1>9. 2 * w * n < 2 * q * n + 3 * n + m
  BY <1>7, TimesLess
<1>10. 2 * q * n < 2 * w * n + n + m
  BY <1>8, TimesLess
<1>11. (2 * (w - q)) * n < (4 + k) * n
  BY <1>9
<1>12. (2 * (q - w)) * n < (2 + k) * n
  BY <1>10
<1>13. 2 * (w - q) < 4 + k
  BY <1>11, TimesLess
<1>14. 2 * (q - w) < 2 + k
  BY <1>12, TimesLess
<1> QED
  BY <1>13, <1>14

\* The record under the mouse stays there when the wheel is turned right after
\* the mouse was moved with the button up (main_loop).
THEOREM WheelKeeps ==
  ASSUME NEW n \in Nat, NEW inputs, Len(inputs) = n,
         n = 0 => inputs = <<>>,
         \A i \in 1..n : Incoming(inputs[i]),
         NEW pos, NbackAt(pos) \in Nat
  PROVE  WheelHolds(inputs, pos)
<1>0. Rows \in Nat \ {0}
  BY ViewAssumption
<1> DEFINE v == ViewAfter(inputs)
<1>1. SUFFICES ASSUME inputs # <<>>, Last(inputs).kind = "move", ~v.lbutton, v.rec # 0
               PROVE  LET moved == RecordUnder(Wheel(v, pos)) - RecordUnder(v)
                      IN  /\ moved <= 1 + NbackAt(pos) \div v.nback
                          /\ -moved <= 1 + NbackAt(pos) \div v.nback
  BY DEF WheelHolds
<1>2. n \in Nat \ {0} /\ n \in 1..n
  BY <1>1
<1>3. PICK row : row = inputs[n].row
  OBVIOUS
<1>4. inputs[n].kind = "move" /\ row \in Nat
  BY <1>1, <1>2, <1>3 DEF Last, Incoming
<1>5. PICK before \in Views : v = Input(before, inputs[n])
  BY <1>2, ViewLast
<1>6. v = MousePos(before, row)
  BY <1>3, <1>4, <1>5 DEF Input
<1>7. PICK b, m, u : b = before.nback /\ m = NbackAt(pos) /\ u = UnderMouse(row, b)
  OBVIOUS
<1>8. b \in Nat \ {0} /\ m \in Nat /\ before.i \in Int
  BY <1>7 DEF Views
<1> HIDE DEF v
<1>9. /\ v.rec = u /\ v.rec_actual = u + before.i /\ v.row = row /\ v.nback = b
      /\ v.lbutton = before.lbutton
      /\ v.i = IF v.lbutton THEN v.i ELSE before.i
  BY <1>6, <1>7 DEF MousePos, Views
<1>10. v.i = before.i
  BY <1>1, <1>9
<1>11. PICK w, q, k : w = UnderMouse(row, m) /\ q = (u * m) \div b /\ k = m \div b
  OBVIOUS
<1>12. /\ u \in Nat /\ u * (2 * Rows) <= 2 * row * b + Rows
       /\ 2 * row * b + Rows < u * (2 * Rows) + 2 * Rows
  BY <1>4, <1>7, <1>8, UnderType
<1>13. /\ w \in Nat /\ w * (2 * Rows) <= 2 * row * m + Rows
       /\ 2 * row * m + Rows < w * (2 * Rows) + 2 * Rows
  BY <1>4, <1>8, <1>11, UnderType
<1>14. /\ q \in Nat /\ q * b <= u * m /\ u * m < q * b + b
       /\ k \in Nat /\ m < k * b + b
  <2>1. u * m \in Nat
    BY <1>8, <1>12
  <2> QED
    BY <1>8, <1>11, <2>1, Divided
<1>15. w - q <= 1 + k /\ q - w <= 1 + k
  BY <1>0, <1>4, <1>8, <1>12, <1>13, <1>14, TwoScales
<1>16. RecordUnder(v) = before.i + u
  BY <1>7, <1>9, <1>10 DEF RecordUnder
<1>17. RecordUnder(Wheel(v, pos)) = before.i + u - q + w
  <2>1. PICK a : a = (v.rec_actual - v.i) * m
    OBVIOUS
  <2>2. a = u * m /\ a >= 0
    BY <1>8, <1>9, <1>10, <1>12, <2>1
  <2>3. Quotient(a, b) = q
    BY <1>11, <2>2 DEF Quotient
  <2>4. PICK j : j = v.i - ((v.i + q) - v.rec_actual)
    OBVIOUS
  <2>5. j = before.i - q + u
    BY <1>8, <1>9, <1>10, <1>12, <1>14, <2>4
  <2>6. Wheel(v, pos) = [v EXCEPT !.nback = m, !.i = j, !.rec = v.rec_actual - j]
    BY <1>1, <1>7, <1>9, <2>1, <2>3, <2>4 DEF Wheel
  <2>7. v \in Views
    BY <1>2, <1>4, <1>5, InputType
  <2>8. Wheel(v, pos).i = j /\ Wheel(v, pos).row = row /\ Wheel(v, pos).nback = m
    BY <1>9, <2>6, <2>7 DEF Views
  <2>9. RecordUnder(Wheel(v, pos)) = j + w
    BY <1>11, <2>8 DEF RecordUnder
  <2> QED
    BY <1>8, <1>12, <1>13, <1>14, <2>5, <2>9
<1>18. PICK moved : moved = RecordUnder(Wheel(v, pos)) - RecordUnder(v)
  OBVIOUS
<1>19. moved = w - q /\ -moved = q - w
  BY <1>8, <1>12, <1>13, <1>14, <1>16, <1>17, <1>18
<1>20. NbackAt(pos) \div v.nback = k
  BY <1>7, <1>9, <1>11
<1>21. moved <= 1 + k /\ -moved <= 1 + k
  BY <1>15, <1>19
<1> QED
  BY <1>18, <1>20, <1>21

-----------------------------------------------------------------------------
(* What the runs look at.                                                   *)

\* A run has one job and keeps it.
LEMMA JobKept == JobSpec => [](job = NoJob \/ job \in Jobs)
<1>1. JobInit => job = NoJob \/ job \in Jobs
  BY DEF JobInit
<1>2. /\ job = NoJob \/ job \in Jobs
      /\ [JobNext \/ Idle]_<<vars, job>>
      => (job = NoJob \/ job \in Jobs)'
  BY DEF JobNext, Idle
<1> QED
  BY <1>1, <1>2, PTL DEF JobSpec

\* So no block in view is left out, in any job of memaviz that the runs look
\* at.
THEOREM ViewDrawnHolds == JobSpec => []ViewDrawn
<1>1. ASSUME job = NoJob \/ job \in Jobs PROVE ViewDrawn
  <2>1. SUFFICES ASSUME job.kind = "blocks"
                 PROVE  VisibleDrawn(job.start, job.n, job.loaded)
    BY DEF ViewDrawn
  <2>2. job \in [kind: {"blocks"}, start: -7..14, n: 1..9, loaded: 0..4]
    BY <1>1, <2>1 DEF NoJob, Jobs
  <2>3. job.start \in Int /\ job.n \in Nat \ {0} /\ job.loaded \in Nat
    BY <2>2
  <2> QED
    BY <2>3, InViewDrawn
<1>2. JobSpec => [](job = NoJob \/ job \in Jobs)
  BY JobKept
<1> QED
  BY <1>1, <1>2, PTL

\* So active pages are side by side in every job that the runs look at, for
\* all sizes of a word in which four pages fit.
THEOREM PagesDenseHolds ==
  ASSUME 4 * PageSize <= Word
  PROVE  JobSpec => []PagesDense
<1>1. ASSUME job = NoJob \/ job \in Jobs PROVE PagesDense
  <2>1. SUFFICES ASSUME job.kind = "page"
                 PROVE  DrawnDense(job.addrs, job.hide)
    BY DEF PagesDense
  <2>2. job \in [kind: {"page"}, addrs: SeqUpTo(0..(Word - 1), 3), hide: {0, 1}]
    BY <1>1, <2>1 DEF NoJob, Jobs
  <2>3. PICK a, h : a = job.addrs /\ h = job.hide
    OBVIOUS
  <2>4. PICK k \in 0..3 : a \in [1..k -> 0..(Word - 1)]
    BY <2>2, <2>3 DEF SeqUpTo
  <2>5. a \in Seq(0..(Word - 1)) /\ Len(a) = k
    <3>1. PICK W : W = 0..(Word - 1)
      OBVIOUS
    <3>2. a \in Seq(W) /\ Len(a) = k
      <4>1. a \in [1..k -> W] /\ k \in Nat
        BY <2>4, <3>1
      <4> QED
        BY <4>1
    <3> QED
      BY <3>1, <3>2
  <2>6. PICK n : n = Cardinality(ActivePages(a, h))
    OBVIOUS
  <2>7. n \in 0..k
    BY <2>5, <2>6, FewPages
  <2>8. (n + 1) * PageSize <= 4 * PageSize /\ (n + 1) * PageSize \in Nat
    BY <2>7, ViewAssumption
  <2>9. Width(a, h) <= Word
    BY <2>6, <2>8, ViewAssumption DEF Width
  <2> QED
    BY <2>3, <2>5, <2>9, SideBySide
<1>2. JobSpec => [](job = NoJob \/ job \in Jobs)
  BY JobKept
<1> QED
  BY <1>1, <1>2, PTL

\* So the record under the mouse stays there in every job that the runs look at,
\* for all numbers of records at which their turns of the wheel leave some in
\* view.
THEOREM WheelHoldsRecordHolds ==
  ASSUME \A pos \in -2..2 : NbackAt(pos) \in Nat \ {0}
  PROVE  JobSpec => []WheelHoldsRecord
<1>1. ASSUME job = NoJob \/ job \in Jobs PROVE WheelHoldsRecord
  <2>1. SUFFICES ASSUME job.kind = "view"
                 PROVE  WheelHolds(job.inputs, job.pos)
    BY DEF WheelHoldsRecord
  <2>2. job \in [kind: {"view"}, inputs: SeqUpTo(Events, 3), pos: -2..2]
    BY <1>1, <2>1 DEF NoJob, Jobs
  <2>3. PICK s, pos : s = job.inputs /\ pos = job.pos
    OBVIOUS
  <2>4. PICK n \in 0..3 : s \in [1..n -> Events]
    BY <2>2, <2>3 DEF SeqUpTo
  <2>5. ASSUME NEW e \in Events PROVE Incoming(e)
    <3>1. Rows \in Nat
      BY ViewAssumption
    <3> QED
      BY <3>1 DEF Events, Incoming
  <2>6. Len(s) = n /\ \A i \in 1..n : Incoming(s[i])
    BY <2>4, <2>5
  <2>7. n = 0 => s = <<>>
    BY <2>4
  <2>8. NbackAt(pos) \in Nat
    BY <2>2, <2>3
  <2>9. n \in Nat
    BY <2>4
  <2>10. WheelHolds(s, pos)
    BY <2>6, <2>7, <2>8, <2>9, WheelKeeps
  <2> QED
    BY <2>3, <2>10
<1>2. JobSpec => [](job = NoJob \/ job \in Jobs)
  BY JobKept
<1> QED
  BY <1>1, <1>2, PTL
=============================================================================
