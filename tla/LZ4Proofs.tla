------------------------------ MODULE LZ4Proofs ------------------------------
(***************************************************************************)
(* Proofs about the compressor and the decoder, for every input, every     *)
(* hash function and every size that MatchAssumption and SizeAssumption    *)
(* allow, LZ4's own among them: what a match refers to, what a compressed  *)
(* block takes, and that the decoder gives back what was compressed.       *)
(***************************************************************************)
EXTENDS LZ4, RecursionLemmas

-----------------------------------------------------------------------------
(* Quotients.                                                               *)

LEMMA Quotient ==
  ASSUME NEW a \in Nat, NEW m \in Nat \ {0}
  PROVE  /\ a \div m \in Nat /\ (a \div m) * m <= a /\ a < (a \div m) * m + m
         /\ (a \div m) * m \in Nat
  OBVIOUS

\* The largest multiple.
LEMMA QuotientLeast ==
  ASSUME NEW a \in Nat, NEW m \in Nat \ {0}, NEW p \in Int, p * m <= a
  PROVE  p <= a \div m
<1> DEFINE q == a \div m
<1>1. q \in Nat /\ a < q * m + m /\ q * m \in Nat /\ p * m \in Int
  BY Quotient
<1> HIDE DEF q
<1>2. SUFFICES ASSUME p >= q + 1 PROVE FALSE
  BY <1>1 DEF q
<1>3. p * m >= (q + 1) * m
  BY <1>1, <1>2
<1>4. (q + 1) * m = q * m + m
  BY <1>1
<1> QED
  BY <1>1, <1>3, <1>4

LEMMA QuotientGrows ==
  ASSUME NEW a \in Nat, NEW b \in Nat, NEW m \in Nat \ {0}, a <= b
  PROVE  a \div m <= b \div m
<1> DEFINE q == a \div m
<1>1. q \in Nat /\ q * m <= a /\ q * m \in Nat
  BY Quotient
<1> HIDE DEF q
<1>2. q <= b \div m
  BY <1>1, QuotientLeast
<1> QED
  BY <1>2 DEF q

LEMMA QuotientSum ==
  ASSUME NEW a \in Nat, NEW b \in Nat, NEW m \in Nat \ {0}
  PROVE  a \div m + b \div m <= (a + b) \div m
<1> DEFINE p == a \div m
           q == b \div m
<1>1. /\ p \in Nat /\ p * m <= a /\ p * m \in Nat
      /\ q \in Nat /\ q * m <= b /\ q * m \in Nat
  BY Quotient
<1> HIDE DEF p, q
<1>2. (p + q) * m = p * m + q * m
  BY <1>1
<1>3. p + q <= (a + b) \div m
  BY <1>1, <1>2, QuotientLeast
<1> QED
  BY <1>3 DEF p, q

LEMMA QuotientCoarser ==
  ASSUME NEW a \in Nat, NEW m \in Nat \ {0}
  PROVE  a \div (m + 1) <= a \div m
<1> DEFINE q == a \div (m + 1)
<1>0. m + 1 \in Nat \ {0}
  OBVIOUS
<1>1. q \in Nat /\ q * (m + 1) <= a /\ q * (m + 1) \in Nat
  BY <1>0, Quotient
<1> HIDE DEF q
<1>2. q * (m + 1) = q * m + q /\ q * m \in Nat
  BY <1>1
<1>3. q <= a \div m
  BY <1>1, <1>2, QuotientLeast
<1> QED
  BY <1>3 DEF q

\* A multiple and what is less than one more.
LEMMA Division ==
  ASSUME NEW n \in Nat, NEW m \in Nat \ {0}
  PROVE  n = (n \div m) * m + (n % m) /\ n % m \in 0..(m - 1)
  OBVIOUS

LEMMA Divided ==
  ASSUME NEW q \in Nat, NEW m \in Nat \ {0}, NEW r \in 0..(m - 1)
  PROVE  (q * m + r) \div m = q /\ (q * m + r) % m = r
<1> DEFINE n == q * m + r
           d == n \div m
<1>1. q * m \in Nat /\ n \in Nat /\ n = q * m + r
  OBVIOUS
<1> HIDE DEF n
<1>2. d \in Nat /\ d * m <= n /\ n < d * m + m /\ d * m \in Nat
  BY <1>1, Quotient
<1>3. q <= d
  <2>1. q * m <= n
    BY <1>1
  <2> QED
    BY <1>1, <2>1, QuotientLeast
<1> HIDE DEF d
<1>4. d <= q
  <2>1. SUFFICES ASSUME d >= q + 1 PROVE FALSE
    BY <1>2
  <2>2. (q + 1) * m <= d * m
    BY <1>2, <2>1
  <2>3. (q + 1) * m = q * m + m
    OBVIOUS
  <2> QED
    BY <1>1, <1>2, <2>2, <2>3
<1>5. d = q
  BY <1>2, <1>3, <1>4
<1>6. n = (n \div m) * m + (n % m) /\ n % m \in Nat
  <2>1. n = (n \div m) * m + (n % m) /\ n % m \in 0..(m - 1)
    BY <1>1, Division, Zenon
  <2> QED
    BY <2>1
<1>7. n \div m = q
  BY <1>5 DEF d
<1> DEFINE y == n % m
           e == n \div m
<1>8. n = e * m + y /\ y \in Nat /\ e = q
  BY <1>6, <1>7
<1> HIDE DEF y, e
<1>9. n = q * m + y
  BY <1>8
<1> DEFINE x == q * m
<1>10. x \in Nat /\ n = x + r /\ n = x + y
  BY <1>1, <1>9
<1> HIDE DEF x
<1>11. y = r
  BY <1>8, <1>10
<1> QED
  BY <1>7, <1>11 DEF y, n

-----------------------------------------------------------------------------
(* The invariant.                                                           *)

Buckets == {Hash[g] : g \in DOMAIN Hash}
EncType ==
  /\ input \in Inputs /\ small \in BOOLEAN
  /\ table \in [Buckets -> Nat]
  /\ ip \in Nat /\ anchor \in Nat /\ ref \in Nat
  /\ forwardIp \in Nat /\ findMatchAttempts \in Nat
  /\ out \in Seq(Nat) /\ top \in Nat

\* The table holds no position after n; ref is before p, and near enough; the
\* first n bytes at ref and ip agree.
Known(n) == \A b \in Buckets : table[b] <= n
Near(p)  == ref < p /\ (small \/ p - ref <= MaxDistance)
Agree(n) == \A j \in 0..(n - 1) : Byte(ref + j) = Byte(ip + j)

\* Where the compressor is.  After the match was extended backwards by k, the
\* table may know k positions that ip has yet to pass.
PlaceInv ==
  /\ pc # "start" => small = Fits64K
  /\ pc \in {"find", "catchup", "next_match"} => isize >= MinLength
  /\ pc = "start" => anchor = 0 /\ Known(0)
  /\ pc = "find" =>
       /\ anchor < forwardIp /\ forwardIp <= mflimit + 1 /\ Known(forwardIp - 1)
       /\ findMatchAttempts >= SkipStrength
  /\ pc = "catchup" =>
       /\ anchor <= ip /\ ip < mflimit /\ Near(ip) /\ Agree(MinMatch) /\ Known(ip)
  /\ pc = "next_match" =>
       /\ anchor <= ip /\ Near(ip)
       /\ \E k \in Nat : ip + k <= mflimit /\ Agree(k + MinMatch) /\ Known(ip + k)
  /\ pc = "last_literals" => anchor <= isize

\* What n bytes of the input may take, and the byte by which the length of the
\* literals may exceed that until their match makes up for it.
Fill(n) == n + n \div MaxByte
Extra   == IF MaxByte <= Mask THEN 0 ELSE 1
SizeInv ==
  /\ pc = "start" => out = <<>>
  /\ pc \in {"find", "catchup", "last_literals"} => Len(out) <= Fill(anchor)
  /\ pc = "next_match" => Len(out) <= Fill(ip) + 1 + Extra

IInv == EncType /\ PlaceInv /\ SizeInv /\ BoundSuffices

-----------------------------------------------------------------------------
(* Sizes and places.                                                        *)

LEMMA Sizes ==
  /\ MinMatch \in Nat /\ MinMatch >= 3 + Extra /\ Extra \in {0, 1}
  /\ LastLiterals \in Nat \ {0} /\ CopyLength \in Nat
  /\ CopyLength <= LastLiterals + 3 /\ LastLiterals <= CopyLength
  /\ MaxByte \in Nat \ {0} /\ Mask \in Nat \ {0} /\ OffsetBase \in Nat \ {0}
  /\ SkipStrength \in Nat \ {0} /\ Slack \in Nat /\ Slack >= 2
  /\ MFLimit = CopyLength + MinMatch /\ MinLength = CopyLength + MinMatch + 1
  /\ (MaxByte <= Mask) <=> (Extra = 0)
  BY SizeAssumption, MatchAssumption DEF Extra, MFLimit, MinLength

LEMMA InputSize ==
  ASSUME EncType
  PROVE  /\ isize \in Nat /\ input \in Seq(Nat)
         /\ mflimit = isize - CopyLength - MinMatch /\ mflimit \in Int
         /\ matchlimit = isize - LastLiterals /\ matchlimit \in Int
<1>1. input \in Seq(Octets)
  BY InputAssumption DEF EncType
<1>2. Octets \subseteq Nat
  BY SizeAssumption DEF Octets
<1>3. input \in Seq(Nat)
  BY <1>1, <1>2, SeqMonotonic
<1>4. isize \in Nat
  BY <1>3 DEF isize
<1> QED
  BY <1>3, <1>4, Sizes DEF mflimit, matchlimit

LEMMA BucketThere ==
  ASSUME EncType, NEW p \in Nat, p <= mflimit
  PROVE  Bucket(p) \in Buckets
<1>1. p \in 0..(Len(input) - MinMatch)
  BY InputSize, Sizes DEF isize
<1>2. SubSeq(input, p + 1, p + MinMatch) \in DOMAIN Hash
  BY <1>1, HashAssumption DEF EncType
<1> QED
  BY <1>2 DEF Bucket, Buckets

LEMMA FillSum ==
  ASSUME NEW a \in Nat, NEW b \in Nat
  PROVE  /\ Fill(a) \in Nat /\ Fill(a) + b + b \div MaxByte <= Fill(a + b)
         /\ b \div MaxByte \in Nat /\ Fill(a) <= Fill(a + b)
<1>1. /\ a \div MaxByte \in Nat /\ b \div MaxByte \in Nat /\ (a + b) \div MaxByte \in Nat
  BY Sizes, Quotient
<1>2. a \div MaxByte + b \div MaxByte <= (a + b) \div MaxByte
  BY Sizes, QuotientSum
<1> QED
  BY <1>1, <1>2 DEF Fill

\* What a length takes beyond its nibble.
LEMMA LengthTakes ==
  ASSUME NEW n \in Nat
  PROVE  /\ LengthBytes(n) \in Seq(Nat)
         /\ Len(LengthBytes(n)) <= n \div MaxByte + Extra
         /\ n < Mask => Len(LengthBytes(n)) = 0
         /\ n \div MaxByte \in Nat
<1>0. n \div MaxByte \in Nat
  BY Sizes, Quotient
<1>1. CASE n < Mask
  <2>1. LengthBytes(n) = <<>>
    BY <1>1 DEF LengthBytes
  <2> QED
    BY <1>0, <1>1, <2>1, Sizes
<1>2. CASE ~(n < Mask)
  <2> DEFINE q == (n - Mask) \div MaxByte
             s == [i \in 1..q |-> MaxByte]
             r == (n - Mask) % MaxByte
  <2>1. n - Mask \in Nat /\ q \in Nat /\ r \in Nat
    BY <1>2, Sizes, Quotient
  <2>2. LengthBytes(n) = s \o <<r>>
    BY <1>2 DEF LengthBytes
  <2>3. q + 1 <= n \div MaxByte + Extra
    <3>1. CASE MaxByte <= Mask
      <4>1. n - MaxByte \in Nat /\ n - Mask <= n - MaxByte
        BY <1>2, <3>1, Sizes
      <4>2. q <= (n - MaxByte) \div MaxByte
        BY <2>1, <4>1, Sizes, QuotientGrows
      <4>3. (n - MaxByte) \div MaxByte + MaxByte \div MaxByte <= n \div MaxByte
        <5>1. (n - MaxByte) + MaxByte = n
          BY <4>1, Sizes
        <5> QED
          BY <4>1, <5>1, Sizes, QuotientSum
      <4>4. MaxByte \div MaxByte >= 1
        BY Sizes, QuotientLeast
      <4>5. (n - MaxByte) \div MaxByte \in Nat /\ MaxByte \div MaxByte \in Nat
        BY <4>1, Sizes, Quotient
      <4> HIDE DEF q
      <4> QED
        BY <1>0, <2>1, <4>2, <4>3, <4>4, <4>5, Sizes
    <3>2. CASE ~(MaxByte <= Mask)
      <4>1. q <= n \div MaxByte
        BY <2>1, Sizes, QuotientGrows
      <4> HIDE DEF q
      <4> QED
        BY <1>0, <2>1, <3>2, <4>1, Sizes
    <3> QED
      BY <3>1, <3>2
  <2> HIDE DEF q, r
  <2>4. s \in Seq(Nat) /\ Len(s) = q
    BY <2>1, Sizes
  <2> HIDE DEF s
  <2>5. LengthBytes(n) \in Seq(Nat) /\ Len(LengthBytes(n)) = q + 1
    BY <2>1, <2>2, <2>4
  <2> QED
    BY <1>0, <1>2, <2>3, <2>5, Sizes
<1> QED
  BY <1>1, <1>2

LEMMA TokenType ==
  ASSUME NEW a \in Nat, NEW b \in Nat
  PROVE  Token(a, b) \in Nat /\ Nibble(a) \in Nat
  BY Sizes DEF Token, Nibble

LEMMA Copied ==
  ASSUME NEW pos \in Nat, NEW len \in Nat
  PROVE  CopiedUpTo(pos, len) \in Nat /\ CopiedUpTo(pos, len) <= pos + len + CopyLength
<1>1. CopyLength \in Nat \ {0}
  BY Sizes
<1>2. CASE len = 0
  BY <1>1, <1>2 DEF CopiedUpTo
<1>3. CASE len # 0
  <2> DEFINE q == (len + CopyLength - 1) \div CopyLength
  <2>1. len + CopyLength - 1 \in Nat
    BY <1>1
  <2>2. q * CopyLength <= len + CopyLength - 1 /\ q * CopyLength \in Nat
    BY <1>1, <2>1, Quotient
  <2>3. CopiedUpTo(pos, len) = pos + q * CopyLength
    BY <1>3 DEF CopiedUpTo
  <2> HIDE DEF q
  <2> QED
    BY <1>1, <2>2, <2>3
<1> QED
  BY <1>2, <1>3

\* How far a match can be extended, backwards and forwards.
LEMMA CatchUpFacts ==
  ASSUME EncType, anchor <= ip
  PROVE  /\ CatchUp \in Nat /\ CatchUp <= ip - anchor /\ CatchUp <= ref
         /\ \A j \in 1..CatchUp : Byte(ip - j) = Byte(ref - j)
<1> DEFINE most == IF ip - anchor < ref THEN ip - anchor ELSE ref
           Good(k) == /\ \A j \in 1..k : Byte(ip - j) = Byte(ref - j)
                      /\ k = most \/ Byte(ip - k - 1) # Byte(ref - k - 1)
           T == {k \in 0..most : k = most \/ Byte(ip - k - 1) # Byte(ref - k - 1)}
<1>1. most \in Nat /\ most <= ip - anchor /\ most <= ref
  BY DEF EncType
<1>2. CatchUp = CHOOSE k \in 0..most : Good(k)
  BY DEF CatchUp
<1> HIDE DEF most
<1>3. T \subseteq Nat /\ most \in T
  BY <1>1
<1>4. PICK k \in T : \A j \in T : k <= j
  BY <1>3, Least
<1>5. ASSUME NEW j \in 1..k PROVE Byte(ip - j) = Byte(ref - j)
  <2>1. k \in 0..most /\ j - 1 \in 0..most /\ ~(k <= j - 1)
    BY <1>1, <1>4
  <2>2. j - 1 \notin T
    BY <1>4, <2>1
  <2>3. Byte(ip - (j - 1) - 1) = Byte(ref - (j - 1) - 1)
    BY <2>1, <2>2
  <2>4. ip - (j - 1) - 1 = ip - j /\ ref - (j - 1) - 1 = ref - j
    BY <2>1 DEF EncType
  <2> QED
    BY <2>3, <2>4
<1>6. k \in 0..most /\ Good(k)
  BY <1>4, <1>5
<1>7. \E x \in 0..most : Good(x)
  BY <1>6
<1>8. (CHOOSE x \in 0..most : Good(x)) \in 0..most /\ Good(CHOOSE x \in 0..most : Good(x))
  <2> HIDE DEF Good
  <2> QED
    BY <1>7
<1> DEFINE c == CHOOSE x \in 0..most : Good(x)
<1>9. c \in 0..most /\ \A j \in 1..c : Byte(ip - j) = Byte(ref - j)
  BY <1>8
<1>10. CatchUp = c
  BY <1>2
<1> HIDE DEF c
<1>11. c \in Nat /\ c <= ip - anchor /\ c <= ref
  BY <1>1, <1>9 DEF EncType
<1> QED
  BY <1>9, <1>10, <1>11

LEMMA ExtensionFacts ==
  ASSUME EncType, NEW r \in Nat, NEW p \in Nat, p <= matchlimit
  PROVE  /\ Extension(r, p) \in Nat /\ p + Extension(r, p) <= matchlimit
         /\ \A j \in 0..(Extension(r, p) - 1) : Byte(p + j) = Byte(r + j)
         /\ \/ p + Extension(r, p) = matchlimit
            \/ Byte(p + Extension(r, p)) # Byte(r + Extension(r, p))
<1> DEFINE most == matchlimit - p
           Good(k) == /\ \A j \in 0..(k - 1) : Byte(p + j) = Byte(r + j)
                      /\ k = most \/ Byte(p + k) # Byte(r + k)
           T == {k \in 0..most : k = most \/ Byte(p + k) # Byte(r + k)}
<1>1. most \in Nat /\ p + most = matchlimit
  BY InputSize
<1>2. Extension(r, p) = CHOOSE k \in 0..most : Good(k)
  BY DEF Extension
<1> HIDE DEF most
<1>3. T \subseteq Nat /\ most \in T
  BY <1>1
<1>4. PICK k \in T : \A j \in T : k <= j
  BY <1>3, Least
<1>5. ASSUME NEW j \in 0..(k - 1) PROVE Byte(p + j) = Byte(r + j)
  <2>1. k \in 0..most /\ j \in 0..most /\ ~(k <= j)
    BY <1>1, <1>4
  <2> QED
    BY <1>4, <2>1
<1>6. k \in 0..most /\ Good(k)
  BY <1>4, <1>5
<1>7. \E x \in 0..most : Good(x)
  BY <1>6
<1>8. (CHOOSE x \in 0..most : Good(x)) \in 0..most /\ Good(CHOOSE x \in 0..most : Good(x))
  <2> HIDE DEF Good
  <2> QED
    BY <1>7
<1> DEFINE e == CHOOSE x \in 0..most : Good(x)
<1>9. /\ e \in 0..most /\ (e = most \/ Byte(p + e) # Byte(r + e))
      /\ \A j \in 0..(e - 1) : Byte(p + j) = Byte(r + j)
  BY <1>8
<1>10. Extension(r, p) = e
  BY <1>2
<1> HIDE DEF e, Good
<1>11. e \in Nat /\ p + e <= matchlimit /\ (e = most => p + e = matchlimit)
  <2>1. e \in 0..most
    BY <1>9
  <2> DEFINE l == matchlimit
  <2>2. l \in Int /\ most \in Nat /\ p + most = l
    BY <1>1, InputSize
  <2> HIDE DEF most, l
  <2>3. e \in Nat /\ p + e <= l /\ (e = most => p + e = l)
    BY <2>1, <2>2
  <2> QED
    BY <2>3 DEF l
<1>12. p + e = matchlimit \/ Byte(p + e) # Byte(r + e)
  BY <1>9, <1>11
<1> QED
  <2> HIDE DEF most
  <2> QED
    BY <1>9, <1>10, <1>11, <1>12, Zenon

-----------------------------------------------------------------------------
(* The steps of the compressor.                                             *)

LEMMA InitIInv == Init => IInv
<1> SUFFICES ASSUME Init PROVE IInv
  OBVIOUS
<1> USE DEF Init
<1>1. table = [b \in Buckets |-> 0]
  BY DEF Buckets
<1>2. EncType
  <2>1. input \in Inputs /\ small \in BOOLEAN
    OBVIOUS
  <2>2. table \in [Buckets -> Nat]
    BY <1>1
  <2>3. /\ ip \in Nat /\ anchor \in Nat /\ ref \in Nat /\ forwardIp \in Nat
        /\ findMatchAttempts \in Nat /\ out \in Seq(Nat) /\ top \in Nat
    OBVIOUS
  <2> QED
    BY <2>1, <2>2, <2>3 DEF EncType
<1>3. PlaceInv
  BY <1>1 DEF PlaceInv, Known
<1>4. SizeInv
  BY DEF SizeInv
<1>5. BoundSuffices
  <2>1. Fill(isize) \in Nat /\ Bound = Fill(isize) + Slack
    BY <1>2, InputSize, FillSum, Sizes, Quotient DEF Bound, Fill
  <2> QED
    BY <2>1, Sizes DEF BoundSuffices
<1> QED
  BY <1>2, <1>3, <1>4, <1>5 DEF IInv

\* What stays with the input.
LEMMA InputKept ==
  ASSUME input' = input
  PROVE  /\ isize' = isize /\ mflimit' = mflimit /\ matchlimit' = matchlimit
         /\ Bound' = Bound /\ Fits64K' = Fits64K
         /\ \A p : Byte(p)' = Byte(p) 
  BY DEF isize, mflimit, matchlimit, Bound, Fits64K, Byte

LEMMA BoundFill ==
  ASSUME EncType
  PROVE  Bound = Fill(isize) + Slack /\ Bound \in Nat
<1>1. isize \in Nat /\ isize \div MaxByte \in Nat
  BY InputSize, Sizes, Quotient
<1>2. Bound = Fill(isize) + Slack
  BY DEF Bound, Fill
<1>3. Fill(isize) \in Nat
  BY <1>1 DEF Fill
<1> QED
  BY <1>2, <1>3, Sizes

\* The two bytes of an entry of the small compressor hold every position that
\* is stored: none lies behind mflimit.
LEMMA EntryWhole ==
  ASSUME EncType, small = Fits64K, NEW p \in Nat, p <= mflimit
  PROVE  Entry(p) = p
<1>1. CASE ~small
  BY <1>1 DEF Entry
<1>2. CASE small
  <2>1. MaxDistance \in Nat /\ MaxDistance + 1 \in Nat \ {0}
    <3>1. OffsetBase * OffsetBase \in Nat \ {0}
      BY Sizes
    <3> QED
      BY <3>1 DEF MaxDistance
  <2>2. isize < Limit64K
    BY <1>2 DEF Fits64K
  <2>3. p < MaxDistance + 1
    BY <2>1, <2>2, InputSize, Sizes DEF Limit64K
  <2>4. p \in 0..((MaxDistance + 1) - 1) /\ 0 * (MaxDistance + 1) + p = p
    BY <2>1, <2>3
  <2>5. (0 * (MaxDistance + 1) + p) % (MaxDistance + 1) = p
    BY <2>1, <2>4, Divided
  <2> QED
    BY <1>2, <2>4, <2>5 DEF Entry
<1> QED
  BY <1>1, <1>2

LEMMA StartKeeps == IInv /\ Start => IInv'
<1> SUFFICES ASSUME IInv, Start PROVE IInv'
  OBVIOUS
<1>1. /\ EncType /\ pc = "start" /\ anchor = 0 /\ Known(0) /\ out = <<>> /\ top <= Bound
      /\ UNCHANGED <<input, table, anchor, ref, token, out, top>>
      /\ small' = Fits64K
  BY DEF IInv, PlaceInv, SizeInv, BoundSuffices, Start
<1>2. /\ isize' = isize /\ mflimit' = mflimit /\ Bound' = Bound /\ Fits64K' = Fits64K
      /\ isize \in Nat /\ mflimit = isize - CopyLength - MinMatch
  BY <1>1, InputKept, InputSize
<1>3. Len(out) <= Fill(0) /\ Fill(0) \in Nat
  BY <1>1, FillSum
<1>4. CASE isize < MinLength
  <2>1. pc' = "last_literals" /\ UNCHANGED <<forwardIp, findMatchAttempts, ip>>
    BY <1>4 DEF Start
  <2>2. EncType'
    BY <1>1, <2>1 DEF EncType, Fits64K
  <2>3. PlaceInv'
    BY <1>1, <1>2, <2>1 DEF PlaceInv
  <2>4. SizeInv'
    BY <1>1, <1>3, <2>1 DEF SizeInv
  <2>5. BoundSuffices'
    BY <1>1, <1>2, <2>1 DEF BoundSuffices
  <2> QED
    BY <2>2, <2>3, <2>4, <2>5 DEF IInv
<1>5. CASE ~(isize < MinLength)
  <2>1. /\ pc' = "find" /\ forwardIp' = 1 /\ findMatchAttempts' = SkipStrength + 3 /\ ip' = 1
    BY <1>5 DEF Start, Search
  <2>2. EncType'
    BY <1>1, <2>1, Sizes DEF EncType, Fits64K
  <2>3. PlaceInv'
    BY <1>1, <1>2, <1>5, <2>1, Sizes DEF PlaceInv, Known
  <2>4. SizeInv'
    BY <1>1, <1>3, <2>1 DEF SizeInv
  <2>5. BoundSuffices'
    BY <1>1, <1>2, <2>1 DEF BoundSuffices
  <2> QED
    BY <2>2, <2>3, <2>4, <2>5 DEF IInv
<1> QED
  BY <1>4, <1>5

LEMMA FindMatchKeeps == IInv /\ FindMatch => IInv'
<1> SUFFICES ASSUME IInv, FindMatch PROVE IInv'
  OBVIOUS
<1> DEFINE step == findMatchAttempts \div SkipStrength
           next == forwardIp + step
           found == table[Bucket(forwardIp)]
<1>1. /\ EncType /\ pc = "find" /\ top <= Bound /\ small = Fits64K /\ isize >= MinLength
      /\ anchor < forwardIp /\ forwardIp <= mflimit + 1 /\ Known(forwardIp - 1)
      /\ findMatchAttempts >= SkipStrength /\ Len(out) <= Fill(anchor)
      /\ UNCHANGED <<input, small, anchor, token, out, top>>
      /\ ip' = forwardIp /\ forwardIp' = next
      /\ findMatchAttempts' = findMatchAttempts + 1
  BY DEF IInv, PlaceInv, SizeInv, BoundSuffices, FindMatch
<1>2. /\ isize' = isize /\ mflimit' = mflimit /\ Bound' = Bound /\ Fits64K' = Fits64K
      /\ isize \in Nat /\ mflimit = isize - CopyLength - MinMatch
      /\ \A p : Byte(p)' = Byte(p)
  BY <1>1, InputKept, InputSize
<1>3. step \in Nat /\ step >= 1 /\ next \in Nat /\ forwardIp \in Nat
  <2>1. findMatchAttempts \in Nat /\ forwardIp \in Nat
    BY <1>1 DEF EncType
  <2>2. step \in Nat
    BY <2>1, Sizes, Quotient
  <2>3. 1 * SkipStrength <= findMatchAttempts
    BY <1>1, <2>1, Sizes
  <2>4. step >= 1
    BY <2>1, <2>3, Sizes, QuotientLeast
  <2> HIDE DEF step
  <2> QED
    BY <2>1, <2>2, <2>4
<1>4. SizeInv'
  <2>1. pc' \in {"last_literals", "catchup", "find"}
    BY DEF FindMatch
  <2> QED
    BY <1>1, <2>1 DEF SizeInv
<1>5. BoundSuffices'
  <2>1. pc' # "zero"
    BY DEF FindMatch
  <2> QED
    BY <1>1, <1>2, <2>1 DEF BoundSuffices
<1>6. CASE next > mflimit
  <2>1. pc' = "last_literals" /\ UNCHANGED <<ref, table>>
    BY <1>6 DEF FindMatch
  <2>2. EncType'
    BY <1>1, <1>3, <2>1 DEF EncType
  <2>3. PlaceInv'
    BY <1>1, <1>2, <1>3, <2>1, Sizes DEF PlaceInv, EncType
  <2> QED
    BY <1>4, <1>5, <2>2, <2>3 DEF IInv
<1>7. CASE ~(next > mflimit)
  <2> HIDE DEF step
  <2>0. forwardIp < mflimit
    BY <1>2, <1>3, <1>7, Sizes
  <2>1. /\ ref' = found
        /\ table' = [table EXCEPT ![Bucket(forwardIp)] = forwardIp]
        /\ pc' = IF Matches(found, forwardIp) THEN "catchup" ELSE "find"
    <3>1. Entry(forwardIp) = forwardIp
      BY <1>1, <1>2, <1>3, <2>0, EntryWhole
    <3>2. /\ ref' = found
          /\ table' = [table EXCEPT ![Bucket(forwardIp)] = Entry(forwardIp)]
          /\ pc' = IF Matches(found, forwardIp) THEN "catchup" ELSE "find"
      BY <1>7 DEF FindMatch, step
    <3> QED
      BY <3>1, <3>2
  <2>2. Bucket(forwardIp) \in Buckets
    BY <1>1, <1>2, <1>3, <2>0, Sizes, BucketThere
  <2>3. found \in Nat /\ found <= forwardIp - 1
    BY <1>1, <2>2 DEF EncType, Known
  <2> HIDE DEF found
  <2>4. EncType'
    <3>1. table' \in [Buckets -> Nat]
      BY <1>1, <1>3, <2>1 DEF EncType
    <3>2. input' \in Inputs /\ small' \in BOOLEAN
      BY <1>1 DEF EncType
    <3>3. /\ ip' \in Nat /\ anchor' \in Nat /\ ref' \in Nat /\ forwardIp' \in Nat
          /\ findMatchAttempts' \in Nat /\ out' \in Seq(Nat) /\ top' \in Nat
      BY <1>1, <1>3, <2>1, <2>3 DEF EncType
    <3> QED
      BY <3>1, <3>2, <3>3 DEF EncType
  <2>5. \A b \in Buckets : table'[b] \in Nat /\ table'[b] <= forwardIp
    BY <1>1, <1>3, <2>1 DEF EncType, Known
  <2>6. PlaceInv'
    <3>1. CASE Matches(found, forwardIp)
      <4>1. pc' = "catchup"
        BY <2>1, <3>1
      <4>2. small \/ found + MaxDistance >= forwardIp
        BY <3>1 DEF Matches
      <4>3. Near(ip)'
        <5>1. MaxDistance \in Int
          BY Sizes DEF MaxDistance
        <5> QED
          BY <1>1, <1>3, <2>1, <2>3, <4>2, <5>1 DEF Near
      <4>4. Agree(MinMatch)'
        <5>1. \A j \in 0..(MinMatch - 1) : Byte(found + j) = Byte(forwardIp + j)
          BY <3>1 DEF Matches, Same
        <5>2. ref' = found /\ ip' = forwardIp /\ input' = input
          BY <1>1, <2>1
        <5> QED
          BY <5>1, <5>2 DEF Agree, Byte
      <4>5. /\ small' = Fits64K' /\ isize' >= MinLength /\ anchor' <= ip' /\ ip' < mflimit'
            /\ Known(ip)'
        BY <1>1, <1>2, <1>3, <2>0, <2>5 DEF EncType, Known
      <4> QED
        BY <4>1, <4>3, <4>4, <4>5 DEF PlaceInv
    <3>2. CASE ~Matches(found, forwardIp)
      <4>1. pc' = "find"
        BY <2>1, <3>2
      <4>2. Known(forwardIp - 1)'
        <5>1. forwardIp' - 1 >= forwardIp /\ forwardIp' \in Nat
          BY <1>1, <1>3
        <5>2. ASSUME NEW b \in Buckets PROVE table'[b] <= forwardIp' - 1
          <6>1. table'[b] \in Nat /\ table'[b] <= forwardIp /\ forwardIp \in Nat
            BY <1>3, <2>5
          <6> DEFINE v == table'[b]
                     f == forwardIp'
          <6>2. v \in Nat /\ v <= forwardIp /\ f - 1 >= forwardIp /\ f \in Nat
            BY <5>1, <6>1
          <6> HIDE DEF v, f
          <6>3. v <= f - 1
            BY <6>1, <6>2
          <6> QED
            BY <6>3 DEF v, f
        <5> QED
          BY <5>2 DEF Known
      <4>3. /\ anchor' < forwardIp' /\ forwardIp' <= mflimit' + 1
            /\ findMatchAttempts' >= SkipStrength
        BY <1>1, <1>2, <1>3, <1>7, Sizes DEF EncType
      <4> QED
        BY <1>1, <1>2, <4>1, <4>2, <4>3 DEF PlaceInv
    <3> QED
      BY <3>1, <3>2
  <2> QED
    BY <1>4, <1>5, <2>4, <2>6 DEF IInv
<1> QED
  BY <1>6, <1>7

\* Writing literals: the sizes.  From the catch-up on, length literals end at
\* p, where the match is.
LEMMA LiteralSizes ==
  ASSUME EncType, Len(out) <= Fill(anchor), NEW length \in Nat,
         anchor + length < mflimit
  PROVE  /\ Len(out) + 1 + length + (2 + 1 + LastLiterals) + length \div (MaxByte + 1) < Bound
         /\ Len(out) + 1 + Len(LengthBytes(length)) + length
              <= Fill(anchor + length) + 1 + Extra
         /\ Fill(anchor + length) + 1 + Extra + CopyLength <= Bound
<1>1. /\ anchor \in Nat /\ Len(out) \in Nat /\ anchor + length \in Nat /\ isize \in Nat
      /\ mflimit = isize - CopyLength - MinMatch
  BY InputSize DEF EncType
<1>2. /\ Fill(anchor) \in Nat /\ length \div MaxByte \in Nat
      /\ Fill(anchor) + length + length \div MaxByte <= Fill(anchor + length)
      /\ Fill(anchor + length) \in Nat
  BY <1>1, FillSum
<1>3. /\ length \div (MaxByte + 1) \in Nat
      /\ length \div (MaxByte + 1) <= length \div MaxByte
  <2>1. MaxByte + 1 \in Nat \ {0} /\ MaxByte \in Nat \ {0}
    BY Sizes
  <2> QED
    BY <2>1, Quotient, QuotientCoarser
<1>4. /\ Len(LengthBytes(length)) \in Nat
      /\ Len(LengthBytes(length)) <= length \div MaxByte + Extra
  BY LengthTakes
<1> DEFINE f == Fill(anchor + length)
<1>5. f + CopyLength + MinMatch + 1 < Bound
  <2> DEFINE rest == isize - (anchor + length)
             d == rest \div MaxByte
  <2>1. rest \in Nat /\ rest > CopyLength + MinMatch /\ (anchor + length) + rest = isize
    BY <1>1, Sizes
  <2> HIDE DEF rest
  <2>2. f + rest + d <= Fill((anchor + length) + rest) /\ d \in Nat
    BY <1>1, <2>1, FillSum
  <2>3. Fill((anchor + length) + rest) = Fill(isize) /\ Fill(isize) \in Nat
    BY <1>1, <2>1, FillSum
  <2>4. Bound = Fill(isize) + Slack
    BY BoundFill
  <2>5. f \in Nat
    BY <1>2
  <2> HIDE DEF f, d
  <2>6. f + rest + d <= Fill(isize)
    BY <2>2, <2>3
  <2> QED
    BY <2>1, <2>2, <2>3, <2>4, <2>5, <2>6, Sizes
<1>6. f \in Nat /\ Fill(anchor) + length + length \div MaxByte <= f
  BY <1>2
<1> DEFINE q == length \div MaxByte
           r == length \div (MaxByte + 1)
           a == Fill(anchor)
           b == Len(LengthBytes(length))
<1>7. /\ a \in Nat /\ q \in Nat /\ r \in Nat /\ b \in Nat /\ r <= q /\ b <= q + Extra
      /\ a + length + q <= f /\ Len(out) <= a
  BY <1>2, <1>3, <1>4, <1>6
<1>8. Bound \in Nat
  BY BoundFill
<1> DEFINE x == Len(out)
           e == Extra
<1>9. x \in Nat /\ x <= a /\ f \in Nat /\ f + CopyLength + MinMatch + 1 < Bound
  BY <1>1, <1>5, <1>6, <1>7
<1>10. /\ e \in Nat /\ MinMatch \in Nat /\ CopyLength \in Nat /\ LastLiterals \in Nat
       /\ MinMatch >= 3 + e /\ LastLiterals <= CopyLength /\ b <= q + e
  BY <1>7, Sizes
<1> HIDE DEF a, q, r, b, f, x, e
<1>11. x + 1 + length + (2 + 1 + LastLiterals) + r <= f + 4 + LastLiterals
  BY <1>7, <1>9, <1>10
<1>12. f + 4 + LastLiterals <= f + CopyLength + MinMatch + 1
  BY <1>9, <1>10
<1>13. x + 1 + length + (2 + 1 + LastLiterals) + r < Bound
  BY <1>7, <1>8, <1>9, <1>10, <1>11, <1>12
<1>14. x + 1 + b + length <= f + 1 + e
  BY <1>7, <1>9, <1>10
<1>15. f + 1 + e + CopyLength <= Bound
  BY <1>8, <1>9, <1>10
<1> QED
  BY <1>13, <1>14, <1>15 DEF a, q, r, b, f, x, e

LEMMA EncodeLiteralsKeeps == IInv /\ EncodeLiterals => IInv'
<1> SUFFICES ASSUME IInv, EncodeLiterals PROVE IInv'
  OBVIOUS
<1> DEFINE k == CatchUp
           length == ip - k - anchor
           head == Append(out, Token(length, 0)) \o LengthBytes(length)
<1>1. /\ EncType /\ pc = "catchup" /\ top <= Bound /\ small = Fits64K /\ isize >= MinLength
      /\ anchor <= ip /\ ip < mflimit /\ Near(ip) /\ Agree(MinMatch) /\ Known(ip)
      /\ Len(out) <= Fill(anchor)
      /\ UNCHANGED <<input, small, table, anchor, forwardIp, findMatchAttempts>>
      /\ ip' = ip - k /\ ref' = ref - k
  BY DEF IInv, PlaceInv, SizeInv, BoundSuffices, EncodeLiterals
<1>2. /\ isize' = isize /\ mflimit' = mflimit /\ Bound' = Bound /\ Fits64K' = Fits64K
      /\ isize \in Nat /\ mflimit = isize - CopyLength - MinMatch /\ input \in Seq(Nat)
  BY <1>1, InputKept, InputSize
<1>3. /\ k \in Nat /\ k <= ip - anchor /\ k <= ref
      /\ \A j \in 1..k : Byte(ip - j) = Byte(ref - j)
      /\ ip \in Nat /\ anchor \in Nat /\ ref \in Nat /\ out \in Seq(Nat) /\ top \in Nat
  BY <1>1, CatchUpFacts DEF EncType
<1> DEFINE full == Len(out) + 1 + length + (2 + 1 + LastLiterals)
                     + length \div (MaxByte + 1) >= Bound
           more == LengthBytes(length)
           copied == CopiedUpTo(Len(head), length)
<1>4. /\ IF full THEN pc' = "zero" /\ UNCHANGED <<out, top>>
         ELSE /\ pc' = "next_match"
              /\ out' = head \o Literals(anchor, ip - k)
              /\ top' = Higher(top, copied)
  BY DEF EncodeLiterals
<1> HIDE DEF k
<1>5. length \in Nat /\ anchor + length = ip - k /\ anchor + length < mflimit
  BY <1>1, <1>2, <1>3, Sizes
<1>6. /\ Len(out) + 1 + length + (2 + 1 + LastLiterals) + length \div (MaxByte + 1) < Bound
      /\ Len(out) + 1 + Len(more) + length <= Fill(ip - k) + 1 + Extra
      /\ Fill(ip - k) + 1 + Extra + CopyLength <= Bound
  <2> HIDE DEF length
  <2> QED
    BY <1>1, <1>5, LiteralSizes
<1>7. ~full
  <2>1. length \div (MaxByte + 1) \in Nat
    BY <1>5, Sizes, Quotient
  <2>2. Bound \in Nat /\ Len(out) \in Nat
    BY <1>1, <1>3, BoundFill
  <2> HIDE DEF length
  <2> QED
    BY <1>5, <1>6, <2>1, <2>2, Sizes
<1>8. head \in Seq(Nat) /\ Len(head) = Len(out) + 1 + Len(more) /\ Len(more) \in Nat
  <2>1. Token(length, 0) \in Nat /\ more \in Seq(Nat)
    <3> HIDE DEF length
    <3> QED
      BY <1>5, TokenType, LengthTakes
  <2> HIDE DEF more, length
  <2> QED
    BY <1>3, <2>1 DEF more
<1>9. /\ Literals(anchor, ip - k) \in Seq(Nat)
      /\ Len(Literals(anchor, ip - k)) = length
  <2>1. \A i \in (anchor + 1)..(ip - k) : input[i] \in Nat
    <3>1. \A i \in (anchor + 1)..(ip - k) : i \in 1..Len(input)
      BY <1>1, <1>2, <1>3, <1>5, Sizes DEF isize
    <3> QED
      BY <1>2, <3>1
  <2>2. anchor + 1 \in Int /\ ip - k \in Int
    BY <1>3
  <2>3. /\ SubSeq(input, anchor + 1, ip - k) \in Seq(Nat)
        /\ Len(SubSeq(input, anchor + 1, ip - k)) =
             IF anchor + 1 <= ip - k THEN ip - k - (anchor + 1) + 1 ELSE 0
    BY <2>1, <2>2, SubSeqProperties
  <2> QED
    BY <1>3, <1>5, <2>3 DEF Literals
<1>10. /\ pc' = "next_match"
       /\ out' = head \o Literals(anchor, ip - k)
       /\ top' = Higher(top, copied)
  BY <1>4, <1>7
<1>11. out' \in Seq(Nat) /\ Len(out') = Len(out) + 1 + Len(more) + length
  <2> DEFINE l == Literals(anchor, ip - k)
  <2>1. l \in Seq(Nat) /\ Len(l) = length /\ out' = head \o l
    BY <1>9, <1>10
  <2> HIDE DEF head, length, more, l
  <2>2. out' \in Seq(Nat) /\ Len(out') = Len(head) + Len(l)
    BY <1>8, <2>1, ConcatProperties
  <2> QED
    BY <1>8, <2>1, <2>2
<1>12. copied \in Nat /\ copied <= Len(head) + length + CopyLength
  <2> HIDE DEF head, length
  <2> QED
    BY <1>5, <1>8, Copied
<1> HIDE DEF full, head, length, more, copied
<1>13. EncType'
  <2>1. ip' \in Nat /\ ref' \in Nat /\ top' \in Nat
    BY <1>1, <1>3, <1>10, <1>12 DEF Higher
  <2>2. input' \in Inputs /\ small' \in BOOLEAN
    BY <1>1 DEF EncType
  <2>3. /\ table' \in [Buckets -> Nat] /\ anchor' \in Nat /\ forwardIp' \in Nat
        /\ findMatchAttempts' \in Nat
    BY <1>1 DEF EncType
  <2> QED
    BY <1>11, <2>1, <2>2, <2>3 DEF EncType
<1>14. PlaceInv'
  <2>1. Near(ip)'
    BY <1>1, <1>3, Sizes DEF Near, MaxDistance
  <2>2. PICK x \in Nat : x = k
    BY <1>3
  <2>3. ip' + x <= mflimit' /\ ip' + x = ip
    BY <1>1, <1>2, <1>3, <2>2, Sizes
  <2>4. Known(ip + x)'
    BY <1>1, <2>3 DEF Known
  <2> DEFINE n == x + MinMatch
  <2>5. n = x + MinMatch /\ n \in Nat
    BY Sizes
  <2> HIDE DEF n
  <2>6. Agree(n)'
    <3>1. ASSUME NEW j \in 0..(n - 1)
          PROVE  input'[ref' + j + 1] = input'[ip' + j + 1]
      <4>0. j \in Nat /\ j < n
        BY <2>5
      <4>1. ref' + j = ref - x + j /\ ip' + j = ip - x + j
        BY <1>1, <1>3, <2>2
      <4>2. Byte((ref - x) + j) = Byte((ip - x) + j)
        <5>1. CASE j < x
          <6>1. x - j \in 1..k /\ (ref - x) + j = ref - (x - j) /\ (ip - x) + j = ip - (x - j)
            BY <1>3, <2>2, <4>0, <5>1
          <6> QED
            BY <1>3, <6>1
        <5>2. CASE ~(j < x)
          <6>1. j - x \in 0..(MinMatch - 1) /\ (ref - x) + j = ref + (j - x) /\ (ip - x) + j = ip + (j - x)
            BY <1>3, <2>2, <2>5, <4>0, <5>2, Sizes
          <6> QED
            BY <1>1, <6>1 DEF Agree
        <5> QED
          BY <5>1, <5>2
      <4>3. Byte(ref' + j) = Byte(ip' + j)
        BY <1>3, <4>0, <4>1, <4>2
      <4> QED
        BY <1>1, <4>3 DEF Byte
    <3> QED
      BY <3>1 DEF Agree, Byte
  <2>7. \E y \in Nat : ip' + y <= mflimit' /\ Agree(y + MinMatch)' /\ Known(ip + y)'
    BY <2>3, <2>4, <2>6 DEF n
  <2>8. anchor' <= ip' /\ isize' >= MinLength /\ small' = Fits64K'
    BY <1>1, <1>2, <1>3
  <2> QED
    BY <1>10, <2>1, <2>7, <2>8 DEF PlaceInv
<1>15. SizeInv'
  BY <1>1, <1>6, <1>10, <1>11 DEF SizeInv
<1>16. BoundSuffices'
  <2>1. copied <= Bound
    <3>1. ip - k \in Nat /\ Len(out) \in Nat
      BY <1>3
    <3>2. Fill(ip - k) \in Nat /\ Bound \in Nat
      BY <1>1, <3>1, FillSum, BoundFill
    <3>3. copied <= Len(out) + 1 + Len(more) + length + CopyLength
      BY <1>8, <1>12
    <3> DEFINE x == Len(out)
               b == Len(more)
               f == Fill(ip - k)
    <3>4. /\ x \in Nat /\ b \in Nat /\ f \in Nat /\ Extra \in Nat /\ CopyLength \in Nat
          /\ x + 1 + b + length <= f + 1 + Extra /\ f + 1 + Extra + CopyLength <= Bound
          /\ copied <= x + 1 + b + length + CopyLength
      BY <1>6, <1>8, <3>1, <3>2, <3>3, Sizes
    <3> HIDE DEF x, b, f
    <3> QED
      BY <1>5, <1>12, <3>2, <3>4
  <2> QED
    BY <1>1, <1>2, <1>10, <2>1 DEF BoundSuffices, Higher
<1> QED
  BY <1>13, <1>14, <1>15, <1>16 DEF IInv

\* Adding to a token.
LEMMA TokenAdded ==
  ASSUME NEW s \in Seq(Nat), NEW t, NEW n \in Nat
  PROVE  /\ [s EXCEPT ![t] = @ + n] \in Seq(Nat)
         /\ Len([s EXCEPT ![t] = @ + n]) = Len(s)
<1>1. CASE t \in 1..Len(s)
  <2>1. s[t] \in Nat /\ s[t] + n \in Nat
    BY <1>1
  <2> QED
    BY <1>1, <2>1, ExceptSeq
<1>2. CASE t \notin 1..Len(s)
  <2>1. s = [i \in 1..Len(s) |-> s[i]]
    OBVIOUS
  <2>2. [s EXCEPT ![t] = @ + n] = s
    BY <1>2, <2>1
  <2> QED
    BY <2>2
<1> QED
  BY <1>1, <1>2

\* Writing a match: with its offset it takes no more than the bytes it is for.
LEMMA MatchSizes ==
  ASSUME NEW x \in Nat, NEW p \in Nat, NEW more \in Nat, x <= Fill(p) + 1 + Extra
  PROVE  /\ Fill(p + MinMatch + more) \in Nat
         /\ x + 2 + Len(LengthBytes(more)) <= Fill(p + MinMatch + more)
<1> DEFINE n == MinMatch + more
           a == Fill(p)
           q == more \div MaxByte
           r == n \div MaxByte
           b == Len(LengthBytes(more))
           f == Fill(p + MinMatch + more)
<1>1. n \in Nat /\ more <= n /\ p + n = p + MinMatch + more
  BY Sizes
<1>2. a \in Nat /\ a + n + r <= f /\ r \in Nat
  <2> HIDE DEF n
  <2>1. Fill(p) + n + n \div MaxByte <= Fill(p + n) /\ n \div MaxByte \in Nat /\ Fill(p) \in Nat
    BY <1>1, FillSum
  <2> QED
    BY <1>1, <2>1
<1>3. f \in Nat
  <2>1. p + MinMatch + more \in Nat
    BY Sizes
  <2> QED
    BY <2>1, FillSum
<1>4. q <= r
  <2> HIDE DEF n
  <2> QED
    BY <1>1, Sizes, QuotientGrows
<1>5. /\ q \in Nat /\ b \in Nat /\ b <= q + Extra /\ (more < Mask => b = 0)
  <2>1. LengthBytes(more) \in Seq(Nat) /\ more \div MaxByte \in Nat
    BY LengthTakes
  <2> QED
    BY <2>1, LengthTakes
<1>6. MinMatch \in Nat /\ MinMatch >= 3 + Extra /\ Extra \in {0, 1} /\ Mask \in Nat \ {0}
  BY Sizes
<1>7. x <= a + 1 + Extra /\ n = MinMatch + more
  OBVIOUS
<1> HIDE DEF n, a, q, r, b, f
<1>8. CASE more < Mask
  BY <1>2, <1>3, <1>5, <1>6, <1>7, <1>8 DEF b, f
<1>9. CASE ~(more < Mask)
  <2>1. more >= Extra
    BY <1>6, <1>9
  <2>2. x + 2 + b <= a + n + r
    BY <1>2, <1>4, <1>5, <1>6, <1>7, <2>1
  <2> QED
    BY <1>2, <1>3, <1>5, <1>7, <2>2 DEF b, f
<1> QED
  BY <1>8, <1>9

\* Where a match ends: past all the table knows, and before the last literals.
LEMMA MatchEnd ==
  ASSUME EncType, NEW k \in Nat, ip + k <= mflimit, Agree(k + MinMatch), Known(ip + k)
  PROVE  LET more == Extension(ref + MinMatch, ip + MinMatch) IN
         /\ more \in Nat /\ ip + MinMatch + more <= matchlimit
         /\ ip + k + MinMatch <= ip + MinMatch + more
<1> DEFINE more == Extension(ref + MinMatch, ip + MinMatch)
           p == ip + MinMatch
           r == ref + MinMatch
<1>1. /\ ip \in Nat /\ ref \in Nat /\ p \in Nat /\ r \in Nat /\ isize \in Nat
      /\ mflimit = isize - CopyLength - MinMatch /\ matchlimit = isize - LastLiterals
  BY InputSize, Sizes DEF EncType
<1>2. p <= matchlimit /\ p + k <= matchlimit
  BY <1>1, Sizes
<1>3. /\ Extension(r, p) \in Nat /\ p + Extension(r, p) <= matchlimit
      /\ \/ p + Extension(r, p) = matchlimit
         \/ Byte(p + Extension(r, p)) # Byte(r + Extension(r, p))
  <2> HIDE DEF p, r
  <2> QED
    BY <1>1, <1>2, ExtensionFacts
<1>4. /\ more \in Nat /\ p + more <= matchlimit
      /\ p + more = matchlimit \/ Byte(p + more) # Byte(r + more)
  BY <1>3
<1> HIDE DEF more
<1>5. k <= more
  <2>1. SUFFICES ASSUME more < k PROVE FALSE
    BY <1>4
  <2>2. p + more # matchlimit
    BY <1>1, <1>2, <1>4, <2>1
  <2>3. MinMatch + more \in 0..((k + MinMatch) - 1)
    BY <1>4, <2>1, Sizes
  <2>4. Byte(ref + (MinMatch + more)) = Byte(ip + (MinMatch + more))
    BY <2>3 DEF Agree
  <2>5. ref + (MinMatch + more) = r + more /\ ip + (MinMatch + more) = p + more
    BY <1>1, <1>4, Sizes
  <2> QED
    BY <1>4, <2>2, <2>4, <2>5
<1> QED
  BY <1>1, <1>4, <1>5, Sizes DEF more

LEMMA EncodeMatchKeeps == IInv /\ EncodeMatch => IInv'
<1> SUFFICES ASSUME IInv, EncodeMatch PROVE IInv'
  OBVIOUS
<1> DEFINE more == Extension(ref + MinMatch, ip + MinMatch)
           end == ip + MinMatch + more
           tokened == [out EXCEPT ![token] = @ + Nibble(more)]
           coded == tokened \o OffsetBytes(ip - ref) \o LengthBytes(more)
           stored == [table EXCEPT ![Bucket(end - 2)] = Entry(end - 2)]
           filled == [table EXCEPT ![Bucket(end - 2)] = end - 2]
           found == filled[Bucket(end)]
<1>1. /\ EncType /\ pc = "next_match" /\ top <= Bound /\ small = Fits64K /\ isize >= MinLength
      /\ anchor <= ip /\ Near(ip) /\ Len(out) <= Fill(ip) + 1 + Extra
      /\ UNCHANGED <<input, small>>
  BY DEF IInv, PlaceInv, SizeInv, BoundSuffices, EncodeMatch
<1>2. PICK k \in Nat : ip + k <= mflimit /\ Agree(k + MinMatch) /\ Known(ip + k)
  BY <1>1 DEF IInv, PlaceInv
<1>3. /\ isize' = isize /\ mflimit' = mflimit /\ Bound' = Bound /\ Fits64K' = Fits64K
      /\ isize \in Nat /\ mflimit = isize - CopyLength - MinMatch
      /\ matchlimit = isize - LastLiterals
      /\ ip \in Nat /\ ref \in Nat /\ out \in Seq(Nat) /\ top \in Nat
      /\ Bound = Fill(isize) + Slack /\ Bound \in Nat
  BY <1>1, InputKept, InputSize, BoundFill DEF EncType
<1>4. more \in Nat /\ end <= matchlimit /\ ip + k + MinMatch <= end
  BY <1>1, <1>2, MatchEnd
<1>5. /\ IF end > mflimit
           THEN /\ pc' = "last_literals" /\ anchor' = end /\ ip' = end
                /\ out' = coded /\ top' = Higher(top, Len(coded))
                /\ UNCHANGED <<table, ref, token, forwardIp, findMatchAttempts>>
           ELSE /\ table' = [stored EXCEPT ![Bucket(end)] = Entry(end)]
                /\ anchor' = end
                /\ ref' = stored[Bucket(end)]
                /\ IF Matches(stored[Bucket(end)], end)
                     THEN /\ pc' = "next_match" /\ ip' = end
                          /\ out' = Append(coded, 0) /\ token' = Len(coded) + 1
                          /\ UNCHANGED <<forwardIp, findMatchAttempts>>
                     ELSE /\ Search(end + 1) /\ ip' = end + 1
                          /\ out' = coded /\ UNCHANGED token
                /\ top' = Higher(top, Len(out'))
  BY DEF EncodeMatch
<1>6. end \in Nat /\ end >= 3 /\ end <= isize
  BY <1>3, <1>4, Sizes
<1>7. coded \in Seq(Nat) /\ Len(coded) = Len(out) + 2 + Len(LengthBytes(more))
  <2> HIDE DEF more
  <2>1. tokened \in Seq(Nat) /\ Len(tokened) = Len(out)
    BY <1>3, <1>4, TokenType, TokenAdded
  <2>2. OffsetBytes(ip - ref) \in Seq(Nat) /\ Len(OffsetBytes(ip - ref)) = 2
    <3>1. ip - ref \in Nat /\ OffsetBase \in Nat \ {0}
      BY <1>1, <1>3, Sizes DEF Near
    <3> DEFINE d == ip - ref
               q == d \div OffsetBase
    <3>2. d \in Nat /\ q \in Nat /\ OffsetBytes(d) = <<d % OffsetBase, q % OffsetBase>>
      BY <3>1, Quotient DEF OffsetBytes
    <3> HIDE DEF d, q
    <3>3. d % OffsetBase \in Nat /\ q % OffsetBase \in Nat
      BY <3>1, <3>2
    <3>4. OffsetBytes(d) \in Seq(Nat) /\ Len(OffsetBytes(d)) = 2
      BY <3>2, <3>3
    <3> QED
      BY <3>4 DEF d
  <2>3. LengthBytes(more) \in Seq(Nat)
    BY <1>4, LengthTakes
  <2> DEFINE o == OffsetBytes(ip - ref)
             l == LengthBytes(more)
  <2>4. coded = (tokened \o o) \o l
    OBVIOUS
  <2> HIDE DEF tokened, o, l, coded
  <2>5. tokened \o o \in Seq(Nat) /\ Len(tokened \o o) = Len(tokened) + Len(o)
    BY <2>1, <2>2, ConcatProperties DEF o
  <2>6. coded \in Seq(Nat) /\ Len(coded) = Len(tokened \o o) + Len(l)
    BY <2>3, <2>4, <2>5, ConcatProperties DEF l
  <2>7. Len(out) \in Nat /\ Len(l) \in Nat
    BY <1>3, <2>3 DEF l
  <2> QED
    BY <2>1, <2>2, <2>5, <2>6, <2>7 DEF o, l
<1> HIDE DEF more
<1>8. Fill(end) \in Nat /\ Len(coded) <= Fill(end)
  <2>1. Len(out) \in Nat
    BY <1>3
  <2>2. Fill(end) \in Nat /\ Len(out) + 2 + Len(LengthBytes(more)) <= Fill(end)
    BY <1>1, <1>3, <1>4, <2>1, MatchSizes
  <2> HIDE DEF end, coded
  <2> QED
    BY <1>7, <2>2
<1>9. Fill(end) + 2 <= Bound
  <2> HIDE DEF end
  <2>1. isize - end \in Nat /\ end + (isize - end) = isize
    BY <1>3, <1>6
  <2>2. Fill(end) <= Fill(end + (isize - end)) /\ Fill(isize) \in Nat
    BY <1>3, <1>6, <2>1, FillSum
  <2> QED
    BY <1>3, <1>8, <2>1, <2>2, Sizes
<1>10. out' \in Seq(Nat) /\ top' \in Nat /\ top' <= Bound /\ pc' # "zero"
  <2>0. coded \in Seq(Nat) /\ Len(coded) \in Nat /\ Len(coded) + 2 <= Bound
    <3> HIDE DEF end, coded
    <3> QED
      BY <1>3, <1>7, <1>8, <1>9
  <2> DEFINE c == coded
  <2>1. c \in Seq(Nat) /\ Len(c) \in Nat /\ Len(c) + 2 <= Bound
    BY <2>0
  <2>2. (out' = c \/ out' = Append(c, 0)) /\ top' = Higher(top, Len(out')) /\ pc' # "zero"
    BY <1>5 DEF Search
  <2> HIDE DEF c, end, coded
  <2>3. out' \in Seq(Nat) /\ Len(out') \in Nat /\ Len(out') <= Bound
    <3>1. CASE out' = c
      BY <1>3, <2>1, <3>1
    <3>2. CASE out' = Append(c, 0)
      <4>1. Append(c, 0) \in Seq(Nat) /\ Len(Append(c, 0)) = Len(c) + 1
        BY <2>1
      <4> QED
        BY <1>3, <2>1, <3>2, <4>1
    <3> QED
      BY <2>2, <3>1, <3>2
  <2> QED
    BY <1>1, <1>3, <2>2, <2>3 DEF Higher
<1>11. BoundSuffices'
  BY <1>3, <1>10 DEF BoundSuffices
<1>12. CASE end > mflimit
  <2>1. /\ pc' = "last_literals" /\ anchor' = end /\ ip' = end /\ out' = coded
        /\ UNCHANGED <<table, ref, forwardIp, findMatchAttempts>>
    BY <1>5, <1>12
  <2> HIDE DEF end, coded
  <2>2. EncType'
    <3>1. input' \in Inputs /\ small' \in BOOLEAN
      BY <1>1 DEF EncType
    <3>2. /\ table' \in [Buckets -> Nat] /\ ip' \in Nat /\ anchor' \in Nat /\ ref' \in Nat
          /\ forwardIp' \in Nat /\ findMatchAttempts' \in Nat
      BY <1>1, <1>6, <2>1 DEF EncType
    <3> QED
      BY <1>10, <3>1, <3>2 DEF EncType
  <2>3. PlaceInv'
    BY <1>1, <1>3, <1>6, <2>1 DEF PlaceInv
  <2>4. SizeInv'
    BY <1>8, <2>1 DEF SizeInv
  <2> QED
    BY <1>11, <2>2, <2>3, <2>4 DEF IInv
<1>13. CASE ~(end > mflimit)
  <2>2. end - 2 \in Nat /\ end - 2 <= mflimit /\ end <= mflimit
    <3> HIDE DEF end
    <3> QED
      BY <1>3, <1>6, <1>13, Sizes
  <2>1. /\ table' = [filled EXCEPT ![Bucket(end)] = end]
        /\ anchor' = end /\ ref' = found
        /\ IF Matches(found, end)
             THEN /\ pc' = "next_match" /\ ip' = end /\ out' = Append(coded, 0)
                  /\ UNCHANGED <<forwardIp, findMatchAttempts>>
             ELSE /\ pc' = "find" /\ forwardIp' = end + 1 /\ ip' = end + 1
                  /\ findMatchAttempts' = SkipStrength + 3 /\ out' = coded
    <3>1. Entry(end - 2) = end - 2 /\ Entry(end) = end
      <4> HIDE DEF end
      <4> QED
        BY <1>1, <1>6, <2>2, EntryWhole
    <3>2. stored = filled
      BY <3>1
    <3> HIDE DEF end, stored, filled, found, coded
    <3>3. found = filled[Bucket(end)]
      BY DEF found
    <3> QED
      BY <1>5, <1>13, <3>1, <3>2, <3>3 DEF Search
  <2>3. Bucket(end) \in Buckets /\ Bucket(end - 2) \in Buckets
    <3> HIDE DEF end
    <3> QED
      BY <1>1, <1>6, <2>2, BucketThere
  <2>4. filled \in [Buckets -> Nat] /\ \A b \in Buckets : filled[b] < end
    <3>1. /\ table \in [Buckets -> Nat] /\ \A b \in Buckets : table[b] <= ip + k
          /\ ip + k < end /\ ip + k \in Nat
      BY <1>1, <1>2, <1>3, <1>4, <1>6, Sizes DEF EncType, Known
    <3> DEFINE e == end - 2
    <3>2. e \in Nat /\ e < end /\ filled = [table EXCEPT ![Bucket(e)] = e]
      BY <1>6, <2>2
    <3> HIDE DEF end, e, filled
    <3>3. filled \in [Buckets -> Nat]
      BY <3>1, <3>2
    <3>4. ASSUME NEW b \in Buckets PROVE filled[b] < end
      <4>1. table[b] \in Nat /\ table[b] < end
        BY <1>6, <3>1
      <4>2. filled[b] = IF b = Bucket(e) THEN e ELSE table[b]
        BY <3>1, <3>2
      <4> QED
        BY <3>2, <4>1, <4>2
    <3> QED
      BY <3>3, <3>4
  <2>5. found \in Nat /\ found < end
    BY <2>3, <2>4
  <2>6. /\ table' \in [Buckets -> Nat] /\ \A b \in Buckets : table'[b] <= end
    <3> HIDE DEF end, filled
    <3> QED
      BY <1>6, <2>1, <2>3, <2>4
  <2> HIDE DEF end, filled, found, coded
  <2>7. EncType'
    <3>1. input' \in Inputs /\ small' \in BOOLEAN
      BY <1>1 DEF EncType
    <3>2. /\ ip' \in Nat /\ anchor' \in Nat /\ ref' \in Nat
          /\ forwardIp' \in Nat /\ findMatchAttempts' \in Nat
      BY <1>1, <1>6, <2>1, <2>5, Sizes DEF EncType
    <3> QED
      BY <1>10, <2>6, <3>1, <3>2 DEF EncType
  <2>8. CASE Matches(found, end)
    <3>1. /\ pc' = "next_match" /\ ip' = end /\ ref' = found /\ anchor' = end
          /\ out' = Append(coded, 0) /\ input' = input
      BY <1>1, <2>1, <2>8
    <3>2. Near(ip)'
      <4>1. small \/ found + MaxDistance >= end
        BY <2>8 DEF Matches
      <4>2. MaxDistance \in Int
        BY Sizes DEF MaxDistance
      <4> QED
        BY <1>1, <1>6, <2>5, <3>1, <4>1, <4>2 DEF Near
    <3>3. \E x \in Nat : ip' + x <= mflimit' /\ Agree(x + MinMatch)' /\ Known(ip + x)'
      <4>1. \A j \in 0..(MinMatch - 1) : Byte(found + j) = Byte(end + j)
        BY <2>8 DEF Matches, Same
      <4> DEFINE n == 0 + MinMatch
      <4>2. n = MinMatch
        BY Sizes
      <4> HIDE DEF n
      <4>3. Agree(n)'
        BY <3>1, <4>1, <4>2 DEF Agree, Byte
      <4>4. ip' + 0 <= mflimit' /\ Known(ip + 0)'
        BY <1>3, <1>6, <2>2, <2>6, <3>1 DEF Known
      <4> QED
        BY <4>3, <4>4 DEF n
    <3>4. PlaceInv'
      BY <1>1, <1>3, <1>6, <3>1, <3>2, <3>3 DEF PlaceInv
    <3>5. SizeInv'
      <4>1. Len(out') = Len(coded) + 1
        BY <1>7, <3>1
      <4>2. Len(out') <= Fill(end) + 1 + Extra
        BY <1>7, <1>8, <4>1, Sizes
      <4> QED
        BY <3>1, <4>2 DEF SizeInv
    <3> QED
      BY <1>11, <2>7, <3>4, <3>5 DEF IInv
  <2>9. CASE ~Matches(found, end)
    <3>1. /\ pc' = "find" /\ forwardIp' = end + 1 /\ findMatchAttempts' = SkipStrength + 3
          /\ out' = coded /\ anchor' = end
      BY <2>1, <2>9
    <3>2. Known(forwardIp - 1)'
      <4>1. forwardIp' - 1 = end
        BY <1>6, <3>1
      <4> QED
        BY <2>6, <4>1 DEF Known
    <3>3. /\ anchor' < forwardIp' /\ forwardIp' <= mflimit' + 1
          /\ findMatchAttempts' >= SkipStrength
      BY <1>3, <1>6, <2>2, <3>1, Sizes
    <3>4. PlaceInv'
      BY <1>1, <1>3, <3>1, <3>2, <3>3 DEF PlaceInv
    <3>5. SizeInv'
      BY <1>8, <3>1 DEF SizeInv
    <3> QED
      BY <1>11, <2>7, <3>4, <3>5 DEF IInv
  <2> QED
    BY <2>8, <2>9
<1> QED
  BY <1>12, <1>13

LEMMA EncodeLastLiteralsKeeps == IInv /\ EncodeLastLiterals => IInv'
<1> SUFFICES ASSUME IInv, EncodeLastLiterals PROVE IInv'
  OBVIOUS
<1> DEFINE lastRun == isize - anchor
           more == IF small THEN lastRun \div (MaxByte + 1)
                   ELSE IF lastRun < Mask THEN 0 ELSE (lastRun - Mask) \div MaxByte
           head == Append(out, Token(lastRun, 0)) \o LengthBytes(lastRun)
           all == head \o Literals(anchor, isize)
           l == LengthBytes(lastRun)
           q == lastRun \div MaxByte
<1>1. /\ EncType /\ pc = "last_literals" /\ top <= Bound /\ small = Fits64K
      /\ anchor <= isize /\ Len(out) <= Fill(anchor)
      /\ UNCHANGED <<input, small, table, ip, anchor, ref, forwardIp, findMatchAttempts>>
  BY DEF IInv, PlaceInv, SizeInv, BoundSuffices, EncodeLastLiterals
<1>2. /\ isize' = isize /\ Bound' = Bound /\ Fits64K' = Fits64K /\ isize \in Nat
      /\ input \in Seq(Nat) /\ anchor \in Nat /\ out \in Seq(Nat) /\ top \in Nat
      /\ Bound = Fill(isize) + Slack /\ Bound \in Nat
  BY <1>1, InputKept, InputSize, BoundFill DEF EncType
<1>3. lastRun \in Nat /\ anchor + lastRun = isize
  BY <1>1, <1>2
<1>4. IF Len(out) + lastRun + 1 + more >= Bound
        THEN pc' = "zero" /\ UNCHANGED <<out, top>>
        ELSE pc' = "compressed" /\ out' = all /\ top' = Higher(top, Len(all))
  BY DEF EncodeLastLiterals
<1>5. /\ l \in Seq(Nat) /\ Len(l) \in Nat /\ Len(l) <= q + Extra /\ q \in Nat
      /\ Token(lastRun, 0) \in Nat
  <2> HIDE DEF lastRun
  <2>1. l \in Seq(Nat)
    BY <1>3, LengthTakes
  <2>2. Len(l) <= q + Extra /\ q \in Nat
    BY <1>3, LengthTakes
  <2> QED
    BY <1>3, <2>1, <2>2, TokenType
<1>6. more \in Nat /\ more <= q
  <2>1. MaxByte \in Nat \ {0} /\ MaxByte + 1 \in Nat \ {0} /\ Mask \in Nat
    BY Sizes
  <2> HIDE DEF lastRun
  <2>2. CASE small
    BY <1>3, <2>1, <2>2, Quotient, QuotientCoarser
  <2>3. CASE ~small /\ lastRun < Mask
    BY <1>5, <2>3
  <2>4. CASE ~small /\ ~(lastRun < Mask)
    <3>1. lastRun - Mask \in Nat /\ lastRun - Mask <= lastRun
      BY <1>3, <2>1, <2>4
    <3>2. (lastRun - Mask) \div MaxByte \in Nat
      BY <2>1, <3>1, Quotient
    <3>3. (lastRun - Mask) \div MaxByte <= q
      BY <1>3, <2>1, <3>1, QuotientGrows
    <3> QED
      BY <2>4, <3>2, <3>3
  <2> QED
    BY <2>2, <2>3, <2>4
<1>7. Len(out) \in Nat /\ Len(out) + lastRun + q + Slack <= Bound
  <2>1. Fill(anchor) + lastRun + lastRun \div MaxByte <= Fill(anchor + lastRun)
    <3> HIDE DEF lastRun
    <3> QED
      BY <1>2, <1>3, FillSum
  <2>2. Fill(anchor) \in Nat /\ Fill(isize) \in Nat
    BY <1>2, FillSum
  <2>3. Fill(anchor) + lastRun + q <= Fill(isize)
    BY <1>3, <2>1
  <2> HIDE DEF lastRun, q
  <2>4. lastRun \in Nat /\ q \in Nat /\ Len(out) \in Nat
    BY <1>1, <1>3, <1>5
  <2>5. Len(out) <= Fill(anchor) /\ Bound = Fill(isize) + Slack /\ Slack \in Int
    BY <1>1, <1>2, Sizes
  <2> HIDE DEF isize, Bound, Fill
  <2> QED
    BY <2>2, <2>3, <2>4, <2>5
<1>8. ~(Len(out) + lastRun + 1 + more >= Bound)
  <2> HIDE DEF lastRun, q, more
  <2> QED
    BY <1>2, <1>3, <1>5, <1>6, <1>7, Sizes
<1>9. pc' = "compressed" /\ out' = all /\ top' = Higher(top, Len(all))
  BY <1>4, <1>8
<1>10. all \in Seq(Nat) /\ Len(all) = Len(out) + 1 + Len(l) + lastRun
  <2>1. /\ SubSeq(input, anchor + 1, isize) \in Seq(Nat)
        /\ Len(SubSeq(input, anchor + 1, isize)) =
             IF anchor + 1 <= isize THEN isize - (anchor + 1) + 1 ELSE 0
    <3>1. \A i \in (anchor + 1)..isize : input[i] \in Nat
      <4>1. \A i \in (anchor + 1)..isize : i \in 1..Len(input)
        BY <1>2 DEF isize
      <4> QED
        BY <1>2, <4>1
    <3>2. anchor + 1 \in Int /\ isize \in Int
      BY <1>2
    <3> QED
      BY <3>1, <3>2, SubSeqProperties
  <2> DEFINE b == Literals(anchor, isize)
             h == Append(out, Token(lastRun, 0))
  <2>2. b \in Seq(Nat) /\ Len(b) = lastRun
    BY <1>1, <1>2, <2>1 DEF Literals
  <2>3. h \in Seq(Nat) /\ Len(h) = Len(out) + 1
    <3> HIDE DEF lastRun
    <3> QED
      BY <1>2, <1>5
  <2>4. all = (h \o l) \o b
    OBVIOUS
  <2> HIDE DEF lastRun, h, l, b, all
  <2>5. h \o l \in Seq(Nat) /\ Len(h \o l) = Len(h) + Len(l)
    BY <1>5, <2>3, ConcatProperties
  <2>6. all \in Seq(Nat) /\ Len(all) = Len(h \o l) + Len(b)
    BY <2>2, <2>4, <2>5, ConcatProperties
  <2> QED
    BY <1>7, <1>5, <2>2, <2>3, <2>5, <2>6
<1> HIDE DEF lastRun, more, head, all, l, q
<1>11. Len(all) \in Nat /\ Len(all) <= Bound
  BY <1>2, <1>3, <1>5, <1>7, <1>10, Sizes
<1>12. EncType'
  <2>1. input' \in Inputs /\ small' \in BOOLEAN
    BY <1>1 DEF EncType
  <2>2. /\ table' \in [Buckets -> Nat] /\ ip' \in Nat /\ anchor' \in Nat /\ ref' \in Nat
        /\ forwardIp' \in Nat /\ findMatchAttempts' \in Nat
    BY <1>1 DEF EncType
  <2>3. out' \in Seq(Nat) /\ top' \in Nat
    BY <1>2, <1>9, <1>10, <1>11 DEF Higher
  <2> QED
    BY <2>1, <2>2, <2>3 DEF EncType
<1>13. PlaceInv'
  BY <1>1, <1>2, <1>9 DEF PlaceInv
<1>14. SizeInv'
  BY <1>9 DEF SizeInv
<1>15. BoundSuffices'
  BY <1>1, <1>2, <1>9, <1>11 DEF BoundSuffices, Higher
<1> QED
  BY <1>12, <1>13, <1>14, <1>15 DEF IInv

\* The decoder leaves all of that alone.
LEMMA UncompressKeeps ==
  IInv /\ (Uncompress \/ UNCHANGED vars) => IInv'
<1> SUFFICES ASSUME IInv, Uncompress \/ UNCHANGED vars PROVE IInv'
  OBVIOUS
<1>1. CASE Uncompress
  <2>1. /\ UNCHANGED <<input, small, table, ip, anchor, ref, forwardIp, findMatchAttempts,
                       out, top>>
        /\ pc' \in {"token", "copy", "decoded", "error"} /\ pc # "start"
    BY <1>1 DEF Uncompress, BeginDecode, DecodeEnds, DecodeLiterals, DecodeMatch, encVars, decVars
  <2>2. EncType'
    <3>1. input' \in Inputs /\ small' \in BOOLEAN
      BY <2>1 DEF IInv, EncType
    <3> QED
      BY <2>1, <3>1 DEF IInv, EncType
  <2>3. PlaceInv' /\ SizeInv' /\ BoundSuffices'
    BY <2>1 DEF IInv, PlaceInv, SizeInv, BoundSuffices, Bound, isize, Fits64K
  <2> QED
    BY <2>2, <2>3 DEF IInv
<1>2. CASE UNCHANGED vars
  <2>1. EncType'
    <3>1. input' \in Inputs /\ small' \in BOOLEAN
      BY <1>2 DEF IInv, EncType, vars
    <3> QED
      BY <1>2, <3>1 DEF IInv, EncType, vars
  <2>2. /\ isize' = isize /\ mflimit' = mflimit /\ Bound' = Bound /\ Fits64K' = Fits64K
    BY <1>2, InputKept DEF vars
  <2>3. PlaceInv'
    BY <1>2 DEF IInv, PlaceInv, vars, Known, Near, Agree, Byte, isize, mflimit, Fits64K
  <2>4. SizeInv' /\ BoundSuffices'
    BY <1>2, <2>2 DEF IInv, SizeInv, BoundSuffices, vars
  <2> QED
    BY <2>1, <2>3, <2>4 DEF IInv
<1> QED
  BY <1>1, <1>2

\* The small compressor's inputs are too short for a longer distance.
LEMMA RangeOfInv == IInv => OffsetInRange
<1> SUFFICES ASSUME IInv, pc = "next_match"
             PROVE  ref < ip /\ ip - ref <= MaxDistance
  BY DEF OffsetInRange
<1>1. /\ EncType /\ small = Fits64K /\ Near(ip)
      /\ \E k \in Nat : ip + k <= mflimit
  BY DEF IInv, PlaceInv
<1>2. /\ ip \in Nat /\ ref \in Nat /\ isize \in Nat /\ MaxDistance \in Int
      /\ mflimit = isize - CopyLength - MinMatch
  BY <1>1, InputSize, Sizes DEF EncType, MaxDistance
<1>3. CASE small
  <2>1. isize < MaxDistance + 1 + (CopyLength + MinMatch - 1)
    <3>1. Fits64K
      BY <1>1, <1>3
    <3> QED
      BY <1>2, <3>1, Sizes DEF Fits64K, Limit64K
  <2>2. ip <= MaxDistance
    BY <1>1, <1>2, <2>1, Sizes
  <2> QED
    BY <1>1, <1>2, <2>2 DEF Near
<1>4. CASE ~small
  BY <1>1, <1>2, <1>4 DEF Near
<1> QED
  BY <1>3, <1>4

-----------------------------------------------------------------------------
\* IInv is an inductive invariant of LZ4_compress and the decoder after it.
THEOREM Invariance == Spec => []IInv
<1>1. IInv /\ [Next]_vars => IInv'
  BY StartKeeps, FindMatchKeeps, EncodeLiteralsKeeps, EncodeMatchKeeps,
     EncodeLastLiteralsKeeps, UncompressKeeps DEF Next, Compress, Stopped
<1> QED
  BY InitIInv, <1>1, PTL DEF Spec

\* Every match refers back, by a distance that two bytes hold, although the
\* compressor for small inputs (LZ4_compress64kCtx) does not look: its inputs
\* are too short for a longer one.
THEOREM OffsetInRangeHolds == Spec => []OffsetInRange
  BY Invariance, RangeOfInv, PTL

\* LZ4_compressBound is enough for any input: the compressor never returns 0
\* and never writes past its buffer, not even with the last step of a copy.
THEOREM BoundSufficesHolds == Spec => []BoundSuffices
<1>1. IInv => BoundSuffices
  BY DEF IInv
<1> QED
  BY Invariance, <1>1, PTL

-----------------------------------------------------------------------------
(***************************************************************************)
(* The round trip: what the compressor writes is a chain of sequences,     *)
(* each of which leads from a place in the output and in the input to the  *)
(* next, and the decoder walks along that chain and never mistakes one of  *)
(* its sequences for the last.                                             *)
(*                                                                         *)
(* What the output says.                                                   *)
(***************************************************************************)

\* The bytes x stand in o after the first a.
Placed(o, a, x) == a + Len(x) <= Len(o) /\ \A i \in 1..Len(x) : o[a + i] = x[i]

\* The first half of a sequence, at a in the output: its token and lit
\* literals, which are the input x from s on; they end at LiteralsEnd.
LiteralsAt(a, lit)  == a + 1 + Len(LengthBytes(lit))
LiteralsEnd(a, lit) == LiteralsAt(a, lit) + lit
Opening(x, o, a, s, lit, m) ==
  /\ Placed(o, a, <<Token(lit, m)>>)
  /\ Placed(o, a + 1, LengthBytes(lit))
  /\ Placed(o, LiteralsAt(a, lit), SubSeq(x, s + 1, s + lit))

\* The second half, from p to b: the offset and the length of the match.
Closing(o, p, d, m, b) ==
  /\ Placed(o, p, OffsetBytes(d))
  /\ Placed(o, p + 2, LengthBytes(m))
  /\ b = p + 2 + Len(LengthBytes(m))

\* The input from s to t is what came d bytes before, and the end of the
\* input is far enough.
Repeats(x, s, d, m, t) ==
  /\ t = s + MinMatch + m
  /\ s + MFLimit <= Len(x) /\ t + LastLiterals <= Len(x)
  /\ d \in 1..MaxDistance /\ d <= s
  /\ \A j \in 0..(MinMatch + m - 1) : x[(s + j) + 1] = x[((s - d) + j) + 1]

\* A sequence of the output leads from one pair of places in output and input
\* to another.
Leads(x, o, c, e) ==
  \E lit, m, d \in Nat :
    /\ Opening(x, o, c[1], c[2], lit, m)
    /\ Closing(o, LiteralsEnd(c[1], lit), d, m, e[1])
    /\ Repeats(x, c[2] + lit, d, m, e[2])

\* C holds the places where a sequence of the first E bytes begins or ends;
\* they stand for the first S bytes of the input.
Chain(x, C, o, E, S) ==
  /\ C \subseteq Nat \X Nat /\ <<0, 0>> \in C /\ <<E, S>> \in C
  /\ E = 0 \/ S + LastLiterals <= Len(x)
  /\ \A c \in C : c[1] <= E /\ (c = <<E, S>> \/ \E e \in C : Leads(x, o, c, e))

\* The last literals follow the chain.
Whole(x, C, o, E, S) ==
  /\ Chain(x, C, o, E, S)
  /\ S <= Len(x) /\ Opening(x, o, E, S, Len(x) - S, 0)
  /\ Len(o) = LiteralsEnd(E, Len(x) - S)

Cuts == SUBSET (Nat \X Nat)
DecType ==
  /\ pc \in {"start", "find", "catchup", "next_match", "last_literals", "zero",
             "compressed", "token", "copy", "decoded", "error"}
  /\ out \in Seq(Octets) /\ token \in Nat /\ dip \in Nat /\ room \in Nat
  /\ dest \in Seq(Octets)
  /\ pc \notin {"token", "copy", "decoded", "error"} => dip = 0 /\ dest = <<>>
EncodedInv ==
  /\ pc \in {"start", "find", "catchup", "last_literals"} =>
       \E C \in Cuts : Chain(input, C, out, Len(out), anchor)
  /\ pc = "next_match" =>
       /\ token # 0 /\ Opening(input, out, token - 1, anchor, ip - anchor, 0)
       /\ Len(out) = LiteralsEnd(token - 1, ip - anchor)
       /\ \E C \in Cuts : Chain(input, C, out, token - 1, anchor)
AtToken(C) == <<dip, Len(dest)>> \in C
AtCopy(C) ==
  \E e \in C, lit, m, d \in Nat :
    /\ token \in 1..Len(out) /\ out[token] = Token(lit, m)
    /\ Closing(out, dip, d, m, e[1])
    /\ Repeats(input, Len(dest), d, m, e[2])
DecodedInv ==
  /\ pc \in {"compressed", "token", "copy"} =>
       \E C \in Cuts, E, S \in Nat :
         /\ Whole(input, C, out, E, S)
         /\ pc = "token" => AtToken(C)
         /\ pc = "copy" => AtCopy(C)
  /\ pc \in {"token", "copy"} =>
       room >= Len(input) /\ Len(dest) <= Len(input) /\ dest = SubSeq(input, 1, Len(dest))
RInv == DecType /\ EncodedInv /\ DecodedInv /\ RoundTrip

-----------------------------------------------------------------------------
(* Bytes that stay where they are.                                          *)

\* o and o2 agree on their first n bytes.
Kept(o, o2, n) == n <= Len(o) /\ n <= Len(o2) /\ \A i \in 1..n : o2[i] = o[i]

LEMMA PlacedKept ==
  ASSUME NEW o \in Seq(Nat), NEW o2 \in Seq(Nat), NEW n \in Nat, Kept(o, o2, n),
         NEW a \in Nat, NEW x \in Seq(Nat), Placed(o, a, x), a + Len(x) <= n
  PROVE  Placed(o2, a, x)
<1>1. Len(x) \in Nat /\ Len(o2) \in Nat /\ n <= Len(o2)
  BY DEF Kept
<1>2. ASSUME NEW i \in 1..Len(x) PROVE o2[a + i] = x[i]
  <2>1. a + i \in 1..n
    BY <1>1
  <2> QED
    BY <2>1 DEF Kept, Placed
<1> QED
  BY <1>1, <1>2 DEF Placed

LEMMA PlacedLast ==
  ASSUME NEW o \in Seq(Nat), NEW x \in Seq(Nat)
  PROVE  Placed(o \o x, Len(o), x) /\ Kept(o, o \o x, Len(o))
<1>1. /\ o \o x \in Seq(Nat) /\ Len(o \o x) = Len(o) + Len(x)
      /\ \A i \in 1..(Len(o) + Len(x)) :
           (o \o x)[i] = IF i <= Len(o) THEN o[i] ELSE x[i - Len(o)]
  BY ConcatProperties
<1>2. Len(o) \in Nat /\ Len(x) \in Nat
  OBVIOUS
<1> DEFINE y == o \o x
           n == Len(o)
           k == Len(x)
<1>3. /\ n \in Nat /\ k \in Nat /\ Len(y) = n + k
      /\ \A i \in 1..(n + k) : y[i] = IF i <= n THEN o[i] ELSE x[i - n]
  BY <1>1, <1>2
<1> HIDE DEF y, n, k
<1>4. \A i \in 1..k : y[n + i] = x[i]
  <2> TAKE i \in 1..k
  <2>1. n + i \in 1..(n + k) /\ ~(n + i <= n) /\ (n + i) - n = i
    BY <1>3
  <2> QED
    BY <1>3, <2>1
<1>5. \A i \in 1..n : y[i] = o[i]
  BY <1>3
<1>6. n + k <= Len(y) /\ n <= Len(y)
  BY <1>3
<1> QED
  BY <1>2, <1>4, <1>5, <1>6 DEF Placed, Kept, y, n, k

LEMMA KeptTwice ==
  ASSUME NEW o, NEW o2, NEW o3, NEW n \in Nat, NEW k \in Nat, n <= k,
         Kept(o, o2, n), Kept(o2, o3, k)
  PROVE  Kept(o, o3, n)
<1>1. \A i \in 1..n : i \in 1..k
  OBVIOUS
<1>2. n <= Len(o3)
  BY DEF Kept
<1> QED
  BY <1>1, <1>2 DEF Kept

-----------------------------------------------------------------------------
(* Numbers there and back.                                                  *)

LEMMA TokenParts ==
  ASSUME NEW a \in Nat, NEW b \in Nat
  PROVE  /\ Token(a, b) \div (Mask + 1) = Nibble(a) /\ Token(a, b) % (Mask + 1) = Nibble(b)
         /\ Token(a, 0) + Nibble(b) = Token(a, b)
         /\ Token(a, b) \in Octets
<1>1. /\ Mask \in Nat \ {0} /\ Nibble(a) \in 0..Mask /\ Nibble(b) \in 0..Mask
      /\ Nibble(0) = 0
  BY Sizes DEF Nibble
<1> DEFINE x == Nibble(a)
           y == Nibble(b)
           m == Mask + 1
<1>2. m \in Nat \ {0} /\ x \in 0..(m - 1) /\ y \in 0..(m - 1)
  BY <1>1
<1>3. /\ Token(a, b) = x * m + y /\ Token(a, 0) = x * m + 0
      /\ Octets = 0..(m * m - 1)
  BY <1>1 DEF Token, Octets
<1> HIDE DEF x, y, m
<1>4. x * m + y \in 0..(m * m - 1)
  <2>1. x * m <= (m - 1) * m /\ x * m \in Nat
    BY <1>2
  <2>2. (m - 1) * m = m * m - m /\ m * m \in Nat
    BY <1>2
  <2> QED
    BY <1>2, <2>1, <2>2
<1>5. (x * m + y) \div m = x /\ (x * m + y) % m = y
  BY <1>2, Divided
<1>6. x * m + 0 + y = x * m + y
  BY <1>2
<1> QED
  BY <1>3, <1>4, <1>5, <1>6 DEF x, y, m

LEMMA OffsetParts ==
  ASSUME NEW d \in Nat, d <= MaxDistance
  PROVE  /\ OffsetBytes(d) \in Seq(Octets) /\ Len(OffsetBytes(d)) = 2
         /\ OffsetBytes(d)[1] + OffsetBase * OffsetBytes(d)[2] = d
         /\ Octets \subseteq Nat
<1> DEFINE m == OffsetBase
           q == d \div m
           r == d % m
<1>1. m \in Nat \ {0} /\ d < m * m
  <2>1. OffsetBase * OffsetBase \in Nat
    BY Sizes
  <2> QED
    BY <2>1, Sizes DEF MaxDistance
<1>2. q \in Nat /\ r \in 0..(m - 1) /\ d = q * m + r
  BY <1>1
<1>3. q < m
  <2>1. SUFFICES ASSUME q >= m PROVE FALSE
    BY <1>1, <1>2
  <2> HIDE DEF m, q, r
  <2>2. q * m >= m * m /\ q * m \in Nat
    BY <1>1, <1>2, <2>1
  <2> QED
    BY <1>1, <1>2, <2>2
<1>4. q % m = q
  <2>1. q = 0 * m + q /\ q \in 0..(m - 1)
    BY <1>1, <1>2, <1>3
  <2> HIDE DEF m, q
  <2> QED
    BY <1>1, <2>1, Divided
<1>5. OffsetBytes(d) = <<r, q>>
  BY <1>4 DEF OffsetBytes
<1>6. 0..(m - 1) \subseteq Octets
  BY <1>1, SizeAssumption DEF Octets
<1> HIDE DEF m, q, r
<1>7. r \in Octets /\ q \in Octets
  BY <1>1, <1>2, <1>3, <1>6
<1>8. r + m * q = d
  BY <1>1, <1>2
<1>9. Octets \subseteq Nat
  BY SizeAssumption DEF Octets
<1> QED
  BY <1>5, <1>7, <1>8, <1>9 DEF m

\* What a length looks like.
LEMMA LengthLooks ==
  ASSUME NEW n \in Nat
  PROVE  /\ LengthBytes(n) \in Seq(Octets) /\ LengthBytes(n) \in Seq(Nat)
         /\ n < Mask => LengthBytes(n) = <<>> /\ Nibble(n) = n
         /\ n >= Mask =>
              LET q == (n - Mask) \div MaxByte
                  r == (n - Mask) % MaxByte IN
              /\ q \in Nat /\ r \in 0..(MaxByte - 1) /\ n = Mask + q * MaxByte + r
              /\ Nibble(n) = Mask /\ Len(LengthBytes(n)) = q + 1
              /\ \A i \in 1..q : LengthBytes(n)[i] = MaxByte
              /\ LengthBytes(n)[q + 1] = r
<1>1. Mask \in Nat \ {0} /\ MaxByte \in Nat \ {0}
  BY Sizes
<1>2. CASE n < Mask
  <2>1. LengthBytes(n) = <<>> /\ Nibble(n) = n
    BY <1>2 DEF LengthBytes, Nibble
  <2> QED
    BY <1>1, <1>2, <2>1
<1>3. CASE n >= Mask
  <2> DEFINE k == n - Mask
             q == k \div MaxByte
             r == k % MaxByte
             s == [i \in 1..q |-> MaxByte]
  <2>1. k \in Nat /\ q \in Nat /\ r \in 0..(MaxByte - 1) /\ k = q * MaxByte + r
    BY <1>1, <1>3
  <2>2. LengthBytes(n) = s \o <<r>> /\ Nibble(n) = Mask
    BY <1>1, <1>3 DEF LengthBytes, Nibble
  <2>3. 0..MaxByte \subseteq Octets /\ Octets \subseteq Nat
    BY <1>1, SizeAssumption DEF Octets
  <2>4. n = Mask + q * MaxByte + r
    <3>1. n = Mask + k /\ q * MaxByte \in Nat
      BY <1>1, <1>3, <2>1
    <3> HIDE DEF k, q, r
    <3> QED
      BY <1>1, <2>1, <3>1
  <2> HIDE DEF k, q, r
  <2>5. s \in Seq(Octets) /\ <<r>> \in Seq(Octets) /\ Len(s) = q
    BY <1>1, <2>1, <2>3
  <2> DEFINE l == LengthBytes(n)
  <2>6. /\ l \in Seq(Octets) /\ Len(l) = q + 1
        /\ \A i \in 1..q : l[i] = MaxByte
        /\ l[q + 1] = r
    <3>1. l \in Seq(Octets)
      BY <2>2, <2>5
    <3>2. Len(l) = q + 1 /\ \A i \in 1..(q + 1) : l[i] = IF i <= q THEN s[i] ELSE <<r>>[i - q]
      BY <2>1, <2>2, <2>5
    <3> HIDE DEF l
    <3>3. l[q + 1] = <<r>>[1]
      BY <2>1, <3>2
    <3> QED
      BY <2>1, <3>1, <3>2, <3>3
  <2>7. l \in Seq(Nat)
    BY <2>3, <2>6, SeqMonotonic
  <2> HIDE DEF l
  <2>8. ~(n < Mask)
    BY <1>1, <1>3
  <2> QED
    BY <2>1, <2>2, <2>4, <2>6, <2>7, <2>8 DEF k, q, r, l
<1> QED
  BY <1>1, <1>2, <1>3
-----------------------------------------------------------------------------
(* What the decoder reads.                                                  *)

\* The bytes that say that a length goes on, up to the one that does not.
LEMMA GoesOnTo ==
  ASSUME out \in Seq(Nat), NEW p \in Nat, NEW q \in Nat, p + q < iend,
         \A j \in 0..(q - 1) : Next1(p + j) = MaxByte, Next1(p + q) # MaxByte
  PROVE  GoesOn(p) = q
<1> DEFINE Good(k) == /\ \A j \in 0..(k - 1) : Next1(p + j) = MaxByte
                      /\ k = iend - p \/ Next1(p + k) # MaxByte
<1>1. iend \in Nat
  BY DEF iend
<1>2. q \in 0..(iend - p) /\ Good(q)
  BY <1>1
<1>3. ASSUME NEW k \in 0..(iend - p), Good(k) PROVE k = q
  <2>1. ~(k < q)
    <3>1. SUFFICES ASSUME k < q PROVE FALSE
      OBVIOUS
    <3>2. k \in 0..(q - 1) /\ k # iend - p
      BY <1>1, <3>1
    <3> QED
      BY <1>3, <3>2
  <2>2. ~(k > q)
    <3>1. SUFFICES ASSUME k > q PROVE FALSE
      OBVIOUS
    <3>2. q \in 0..(k - 1)
      BY <1>1, <3>1
    <3> QED
      BY <1>3, <3>2
  <2> QED
    BY <1>1, <2>1, <2>2
<1>4. GoesOn(p) = CHOOSE k \in 0..(iend - p) : Good(k)
  BY DEF GoesOn
<1> HIDE DEF Good
<1> QED
  BY <1>2, <1>3, <1>4

LEMMA LengthRead ==
  ASSUME out \in Seq(Nat), NEW p \in Nat, NEW n \in Nat, Placed(out, p, LengthBytes(n))
  PROVE  /\ ReadLength(Nibble(n), p).len = n
         /\ ReadLength(Nibble(n), p).ip = p + Len(LengthBytes(n))
<1>1. Mask \in Nat \ {0} /\ MaxByte \in Nat \ {0}
  BY Sizes
<1>2. CASE n < Mask
  <2>1. LengthBytes(n) = <<>> /\ Nibble(n) = n
    BY <1>2, LengthLooks
  <2>2. ReadLength(Nibble(n), p) = [len |-> n, ip |-> p]
    BY <1>2, <2>1 DEF ReadLength
  <2>3. Len(LengthBytes(n)) = 0
    BY <2>1
  <2> QED
    BY <2>2, <2>3
<1>3. CASE n >= Mask
  <2> DEFINE q == (n - Mask) \div MaxByte
             r == (n - Mask) % MaxByte
             l == LengthBytes(n)
  <2>1. /\ q \in Nat /\ r \in 0..(MaxByte - 1) /\ n = Mask + q * MaxByte + r
        /\ Nibble(n) = Mask /\ Len(l) = q + 1
        /\ \A i \in 1..q : l[i] = MaxByte
        /\ l[q + 1] = r
    BY <1>3, LengthLooks
  <2> HIDE DEF q, r, l
  <2>2. p + q + 1 <= Len(out) /\ \A i \in 1..(q + 1) : out[p + i] = l[i]
    <3>1. p + Len(l) <= Len(out) /\ \A i \in 1..Len(l) : out[p + i] = l[i]
      BY DEF Placed, l
    <3> QED
      BY <2>1, <3>1
  <2>3. ASSUME NEW j \in 0..(q - 1) PROVE Next1(p + j) = MaxByte
    <3>1. j + 1 \in 1..q /\ j + 1 \in 1..(q + 1) /\ p + (j + 1) = (p + j) + 1
      BY <2>1
    <3> QED
      BY <2>1, <2>2, <3>1 DEF Next1
  <2>4. Next1(p + q) = r
    <3>1. q + 1 \in 1..(q + 1) /\ p + (q + 1) = (p + q) + 1
      BY <2>1
    <3> QED
      BY <2>1, <2>2, <3>1 DEF Next1
  <2>5. iend \in Nat /\ p + q < iend /\ r # MaxByte
    BY <1>1, <2>1, <2>2 DEF iend
  <2>6. GoesOn(p) = q
    BY <2>1, <2>3, <2>4, <2>5, GoesOnTo
  <2>7. ReadLength(Mask, p) = [len |-> Mask + q * MaxByte + r, ip |-> p + q + 1]
    <3>1. ~(Mask < Mask) /\ p + q # iend
      BY <1>1, <2>1, <2>5
    <3> QED
      BY <2>4, <2>6, <3>1 DEF ReadLength
  <2>8. p + q + 1 = p + (q + 1)
    BY <2>1
  <2> QED
    BY <2>1, <2>7, <2>8 DEF l
<1> QED
  BY <1>1, <1>2, <1>3

LEMMA OneLess ==
  ASSUME NEW j \in Nat, NEW d \in Nat \ {0}
  PROVE  /\ j % d \in 0..(d - 1)
         /\ j < d => j % d = j
         /\ j >= d => (j - d) % d = j % d
<1>1. j % d \in 0..(d - 1)
  BY Division
<1>2. ASSUME j < d PROVE j % d = j
  <2>1. j \in 0..(d - 1) /\ 0 * d + j = j
    BY <1>2
  <2>2. (0 * d + j) % d = j
    BY <2>1, Divided
  <2> QED
    BY <2>1, <2>2
<1>3. ASSUME j >= d PROVE (j - d) % d = j % d
  <2> DEFINE k == j - d
             q == k \div d
             r == k % d
  <2>1. k \in Nat /\ j = k + d
    BY <1>3
  <2> HIDE DEF k
  <2>2. k = q * d + r /\ r \in 0..(d - 1) /\ q \in Nat
    BY <2>1, Division, Quotient
  <2> HIDE DEF q, r
  <2>3. q + 1 \in Nat /\ (q + 1) * d = q * d + d /\ q * d \in Nat
    BY <2>2
  <2>4. j = (q + 1) * d + r
    <3> DEFINE a == q * d
               b == (q + 1) * d
    <3>1. k = a + r /\ b = a + d /\ a \in Nat
      BY <2>2, <2>3
    <3> HIDE DEF a, b
    <3>2. j = b + r
      BY <2>1, <2>2, <3>1
    <3> QED
      BY <3>2 DEF b
  <2>5. ((q + 1) * d + r) % d = r
    BY <2>2, <2>3, Divided
  <2> QED
    BY <2>4, <2>5 DEF r, k
<1> QED
  BY <1>1, <1>2, <1>3

\* A part of a sequence.
LEMMA Part ==
  ASSUME NEW x \in Seq(Octets), NEW s \in Nat, NEW t \in Nat, s <= t, t <= Len(x)
  PROVE  /\ SubSeq(x, s + 1, t) \in Seq(Octets) /\ Len(SubSeq(x, s + 1, t)) = t - s
         /\ \A i \in 1..(t - s) : SubSeq(x, s + 1, t)[i] = x[s + i]
<1>1. \A i \in (s + 1)..t : x[i] \in Octets
  <2>1. \A i \in (s + 1)..t : i \in 1..Len(x)
    OBVIOUS
  <2> QED
    BY <2>1, ElementOfSeq
<1>2. /\ SubSeq(x, s + 1, t) \in Seq(Octets)
      /\ Len(SubSeq(x, s + 1, t)) = IF s + 1 <= t THEN t - (s + 1) + 1 ELSE 0
      /\ \A i \in 1..(t - (s + 1) + 1) : SubSeq(x, s + 1, t)[i] = x[(s + 1) + i - 1]
  BY <1>1, SubSeqProperties
<1>3. t - (s + 1) + 1 = t - s
  OBVIOUS
<1>4. ASSUME NEW i \in 1..(t - s) PROVE (s + 1) + i - 1 = s + i
  OBVIOUS
<1> QED
  BY <1>2, <1>3, <1>4

\* What the concatenation of two sequences of bytes holds.
LEMMA JoinedElements ==
  ASSUME NEW a \in Seq(Octets), NEW y \in Seq(Octets)
  PROVE  /\ a \o y \in Seq(Octets) /\ Len(a \o y) = Len(a) + Len(y)
         /\ \A i \in 1..(Len(a) + Len(y)) :
              (a \o y)[i] = IF i <= Len(a) THEN a[i] ELSE y[i - Len(a)]
  BY ConcatProperties

\* Putting the next part after what is there already.
Prefix(x, n) == SubSeq(x, 1, n)
Continues(x, s, t, y) == Len(y) = t - s /\ \A i \in 1..(t - s) : y[i] = x[s + i]
LEMMA PartGrows ==
  ASSUME NEW x \in Seq(Octets), NEW s \in Nat, NEW t \in Nat, s <= t, t <= Len(x),
         NEW y \in Seq(Octets), Continues(x, s, t, y)
  PROVE  Prefix(x, s) \o y = Prefix(x, t)
<1> DEFINE a == SubSeq(x, 1, s)
           b == SubSeq(x, 1, t)
           c == a \o y
<1>0. s <= Len(x) /\ 0 <= s /\ 0 <= t /\ 0 + 1 = 1 /\ s - 0 = s /\ t - 0 = t
  OBVIOUS
<1>1. a \in Seq(Octets) /\ Len(a) = s /\ \A i \in 1..s : a[i] = x[0 + i]
  <2>1. /\ SubSeq(x, 0 + 1, s) \in Seq(Octets) /\ Len(SubSeq(x, 0 + 1, s)) = s - 0
        /\ \A i \in 1..(s - 0) : SubSeq(x, 0 + 1, s)[i] = x[0 + i]
    BY <1>0, Part
  <2> QED
    BY <1>0, <2>1
<1>2. b \in Seq(Octets) /\ Len(b) = t /\ \A i \in 1..t : b[i] = x[0 + i]
  <2>1. /\ SubSeq(x, 0 + 1, t) \in Seq(Octets) /\ Len(SubSeq(x, 0 + 1, t)) = t - 0
        /\ \A i \in 1..(t - 0) : SubSeq(x, 0 + 1, t)[i] = x[0 + i]
    BY <1>0, Part
  <2> QED
    BY <1>0, <2>1
<1> HIDE DEF a, b
<1>3. Len(y) = t - s /\ \A i \in 1..(t - s) : y[i] = x[s + i]
  BY DEF Continues
<1>4. /\ c \in Seq(Octets) /\ Len(c) = Len(a) + Len(y)
      /\ \A i \in 1..(Len(a) + Len(y)) :
           c[i] = IF i <= Len(a) THEN a[i] ELSE y[i - Len(a)]
  <2>1. a \in Seq(Octets) /\ y \in Seq(Octets)
    BY <1>1
  <2> QED
    BY ONLY <2>1, JoinedElements DEF c
<1>5. Len(c) = t
  BY <1>1, <1>4, <1>3
<1> HIDE DEF c
<1>6. ASSUME NEW i \in 1..t PROVE c[i] = b[i]
  <2>1. c[i] = IF i <= s THEN a[i] ELSE y[i - s]
    BY <1>1, <1>4, <1>3
  <2>2. CASE i <= s
    <3>1. i \in 1..s
      BY <2>2
    <3> QED
      BY <1>1, <1>2, <2>1, <3>1
  <2>3. CASE ~(i <= s)
    <3>1. i - s \in 1..(t - s) /\ s + (i - s) = 0 + i
      BY <2>3
    <3>2. y[i - s] = x[0 + i]
      BY <1>3, <3>1
    <3> QED
      BY <1>2, <2>1, <2>3, <3>2
  <2> QED
    BY <2>2, <2>3
<1>7. c = b
  BY <1>2, <1>4, <1>5, <1>6, SeqEqual
<1> QED
  BY <1>7 DEF a, b, c, Prefix

\* Copying a match byte by byte gives what the input has there.
Grown(s, d, n) == dest \o Repeated(s - d, n)
Echoes(x, s, d, n) == \A j \in 0..(n - 1) : x[(s + j) + 1] = x[((s - d) + j) + 1]
LEMMA Repetition ==
  ASSUME NEW x \in Seq(Octets), NEW s \in Nat, NEW d \in Nat \ {0}, d <= s,
         NEW n \in Nat, s + n <= Len(x), Len(dest) = s, dest = Prefix(x, s),
         Echoes(x, s, d, n)
  PROVE  Grown(s, d, n) = Prefix(x, s + n)
<1>0. dest = SubSeq(x, 1, s)
  BY DEF Prefix
<1>1. ASSUME NEW j \in 0..(n - 1)
      PROVE  x[(s + j) + 1] = x[((s - d) + (j % d)) + 1]
  <2> DEFINE Fits(i) == x[(s + i) + 1] = x[((s - d) + (i % d)) + 1]
             T == {i \in 0..(n - 1) : ~Fits(i)}
  <2>1. SUFFICES ASSUME T # {} PROVE FALSE
    OBVIOUS
  <2>2. PICK i \in T : \A k \in T : i <= k
    <3>1. T \subseteq Nat
      OBVIOUS
    <3> HIDE DEF T
    <3> QED
      BY <2>1, <3>1, Least
  <2>3. i \in 0..(n - 1) /\ ~Fits(i) /\ i \in Nat
    BY <2>2
  <2>4. x[(s + i) + 1] = x[((s - d) + i) + 1]
    BY <2>3 DEF Echoes
  <2>5. CASE i < d
    <3>1. i % d = i
      BY <2>3, <2>5, OneLess
    <3> QED
      BY <2>3, <2>4, <3>1
  <2>6. CASE i >= d
    <3>1. (i - d) % d = i % d
      BY <2>3, <2>6, OneLess
    <3>2. i - d \in 0..(n - 1) /\ ~(i <= i - d)
      BY <2>3, <2>6
    <3>3. Fits(i - d)
      BY <2>2, <3>2
    <3>4. s + (i - d) = (s - d) + i
      BY <2>3
    <3> QED
      BY <2>3, <2>4, <3>1, <3>3, <3>4
  <2> QED
    BY <2>3, <2>5, <2>6
<1> DEFINE y == Repeated(s - d, n)
<1>2. ASSUME NEW i \in 1..n
      PROVE  y[i] = x[s + i] /\ x[s + i] \in Octets
  <2>1. i - 1 \in 0..(n - 1) /\ i - 1 \in Nat /\ (s + (i - 1)) + 1 = s + i
    OBVIOUS
  <2>2. (i - 1) % d \in 0..(d - 1)
    BY <2>1, OneLess
  <2> DEFINE r == (i - 1) % d
  <2>3. y[i] = dest[(s - d) + 1 + r]
    <3>1. Len(dest) - (s - d) = d
      OBVIOUS
    <3> QED
      BY <3>1 DEF Repeated
  <2>4. x[s + i] = x[((s - d) + r) + 1]
    BY <1>1, <2>1
  <2> HIDE DEF r, y
  <2>5. (s - d) + 1 + r \in 1..s /\ ((s - d) + r) + 1 = (s - d) + 1 + r
    BY <2>2 DEF r
  <2>6. \A k \in 1..s : dest[k] = x[k]
    <3>1. s <= Len(x) /\ 0 <= s /\ 0 + 1 = 1 /\ s - 0 = s
      OBVIOUS
    <3>2. \A k \in 1..(s - 0) : SubSeq(x, 0 + 1, s)[k] = x[0 + k]
      BY <3>1, Part
    <3>3. ASSUME NEW k \in 1..s PROVE 0 + k = k
      OBVIOUS
    <3> QED
      BY <1>0, <3>1, <3>2, <3>3
  <2>7. s + i \in 1..Len(x)
    OBVIOUS
  <2> QED
    BY <2>3, <2>4, <2>5, <2>6, <2>7, ElementOfSeq
<1>3. y \in Seq(Octets) /\ Len(y) = n
  <2>1. y = [i \in 1..n |-> y[i]]
    BY DEF Repeated
  <2> HIDE DEF y
  <2>2. \A i \in 1..n : y[i] \in Octets
    BY <1>2
  <2>3. y \in [1..n -> Octets]
    BY <2>1, <2>2
  <2> QED
    BY <2>3
<1> HIDE DEF y
<1>4. PICK t \in Nat : t = s + n
  OBVIOUS
<1>5. s <= t /\ t <= Len(x) /\ t - s = n
  BY <1>4
<1>6. \A i \in 1..(t - s) : y[i] = x[s + i]
  BY <1>2, <1>5
<1>7. Prefix(x, s) \o y = Prefix(x, t)
  <2>1. Continues(x, s, t, y)
    BY <1>3, <1>5, <1>6 DEF Continues
  <2>2. y \in Seq(Octets) /\ s <= t /\ t <= Len(x) /\ x \in Seq(Octets) /\ s \in Nat /\ t \in Nat
    BY <1>3, <1>5
  <2> QED
    BY ONLY <2>1, <2>2, PartGrows
<1>8. Grown(s, d, n) = dest \o y
  BY DEF Grown, y
<1> QED
  BY <1>4, <1>7, <1>8

-----------------------------------------------------------------------------
(* What the encoder writes.                                                 *)

LEMMA OctetsAreNumbers == Octets \subseteq Nat /\ Seq(Octets) \subseteq Seq(Nat)
<1>1. Octets \subseteq Nat
  BY SizeAssumption DEF Octets
<1> QED
  BY <1>1, SeqMonotonic

LEMMA Joined ==
  ASSUME NEW a \in Seq(Octets), NEW b \in Seq(Octets)
  PROVE  a \o b \in Seq(Octets) /\ Len(a \o b) = Len(a) + Len(b) /\ Len(a) \in Nat /\ Len(b) \in Nat
<1>1. a \o b \in Seq(Octets)
  OBVIOUS
<1>2. Len(a \o b) = Len(a) + Len(b)
  OBVIOUS
<1>3. Len(a) \in Nat /\ Len(b) \in Nat
  OBVIOUS
<1> QED
  BY <1>1, <1>2, <1>3

\* Where a sequence's parts are.
LEMMA Parts ==
  ASSUME NEW a \in Nat, NEW lit \in Nat
  PROVE  /\ LengthBytes(lit) \in Seq(Octets) /\ Len(LengthBytes(lit)) \in Nat
         /\ LiteralsAt(a, lit) = a + 1 + Len(LengthBytes(lit)) /\ LiteralsAt(a, lit) \in Nat
         /\ LiteralsEnd(a, lit) = LiteralsAt(a, lit) + lit /\ LiteralsEnd(a, lit) \in Nat
<1>1. LengthBytes(lit) \in Seq(Octets)
  BY LengthLooks
<1>2. Len(LengthBytes(lit)) \in Nat
  BY <1>1
<1> QED
  BY <1>1, <1>2 DEF LiteralsAt, LiteralsEnd

\* A token, a length and literals, written after o.
Opened(x, o, s, lit) ==
  (Append(o, Token(lit, 0)) \o LengthBytes(lit)) \o SubSeq(x, s + 1, s + lit)
LEMMA OpeningWritten ==
  ASSUME NEW x \in Seq(Octets), NEW o \in Seq(Octets), NEW s \in Nat, NEW lit \in Nat,
         s + lit <= Len(x)
  PROVE  /\ Opened(x, o, s, lit) \in Seq(Octets)
         /\ Len(Opened(x, o, s, lit)) = LiteralsEnd(Len(o), lit)
         /\ Kept(o, Opened(x, o, s, lit), Len(o))
         /\ Opening(x, Opened(x, o, s, lit), Len(o), s, lit, 0)
<1> DEFINE o2 == Opened(x, o, s, lit)
           t == <<Token(lit, 0)>>
           l == LengthBytes(lit)
           y == SubSeq(x, s + 1, s + lit)
           o0 == o \o t
           o1 == o0 \o l
<1>1. t \in Seq(Octets) /\ Len(t) = 1
  BY TokenParts
<1>2. l \in Seq(Octets) /\ Len(l) \in Nat
  BY LengthLooks
<1>3. y \in Seq(Octets) /\ Len(y) = lit
  <2>1. PICK e \in Nat : e = s + lit
    OBVIOUS
  <2>2. s <= e /\ e <= Len(x) /\ e - s = lit
    BY <2>1
  <2>3. SubSeq(x, s + 1, e) \in Seq(Octets) /\ Len(SubSeq(x, s + 1, e)) = e - s
    BY <2>2, Part
  <2> QED
    BY <2>1, <2>2, <2>3
<1>4. o2 = o1 \o y
  <2>1. Append(o, Token(lit, 0)) = o \o t
    <3>1. Token(lit, 0) \in Octets
      BY TokenParts
    <3> QED
      BY <3>1, AppendIsConcat
  <2> QED
    BY <2>1 DEF Opened
<1> HIDE DEF t, l, y, o2
<1>5. o0 \in Seq(Octets) /\ Len(o0) = Len(o) + 1
  BY <1>1, Joined
<1> HIDE DEF o0
<1>6. o1 \in Seq(Octets) /\ Len(o1) = Len(o) + 1 + Len(l)
  BY <1>2, <1>5, Joined
<1> HIDE DEF o1
<1>7. o2 \in Seq(Octets) /\ Len(o2) = Len(o) + 1 + Len(l) + lit
  BY <1>3, <1>4, <1>6, Joined
<1>8. /\ o \in Seq(Nat) /\ o0 \in Seq(Nat) /\ o1 \in Seq(Nat) /\ o2 \in Seq(Nat)
      /\ t \in Seq(Nat) /\ l \in Seq(Nat) /\ y \in Seq(Nat)
  BY <1>1, <1>2, <1>3, <1>5, <1>6, <1>7, OctetsAreNumbers
<1>9. Placed(o0, Len(o), t) /\ Kept(o, o0, Len(o))
  BY <1>8, PlacedLast DEF o0
<1>10. Placed(o1, Len(o0), l) /\ Kept(o0, o1, Len(o0))
  BY <1>8, PlacedLast DEF o1
<1>11. Placed(o2, Len(o1), y) /\ Kept(o1, o2, Len(o1))
  BY <1>4, <1>8, PlacedLast
<1>12. /\ Len(o) \in Nat /\ Len(o0) \in Nat /\ Len(o1) \in Nat /\ Len(l) \in Nat
       /\ Len(o) <= Len(o0) /\ Len(o0) <= Len(o1)
  BY <1>2, <1>5, <1>6
<1>13. Kept(o0, o2, Len(o0))
  BY <1>10, <1>11, <1>12, KeptTwice
<1>14. Kept(o, o2, Len(o))
  BY <1>9, <1>12, <1>13, KeptTwice
<1>15. Placed(o2, Len(o), t)
  <2>1. Len(o) + Len(t) <= Len(o0)
    BY <1>1, <1>5, <1>12
  <2> QED
    BY <1>8, <1>9, <1>12, <1>13, <2>1, PlacedKept
<1>16. Placed(o2, Len(o) + 1, l)
  <2>1. Len(o0) = Len(o) + 1 /\ Len(o0) + Len(l) <= Len(o1)
    BY <1>5, <1>6, <1>12
  <2>2. Placed(o2, Len(o0), l)
    BY <1>8, <1>10, <1>11, <1>12, <2>1, PlacedKept
  <2> QED
    BY <2>1, <2>2
<1>17. /\ LiteralsAt(Len(o), lit) = Len(o1) 
       /\ LiteralsEnd(Len(o), lit) = Len(o2)
  BY <1>6, <1>7 DEF LiteralsAt, LiteralsEnd, l
<1>18. Opening(x, o2, Len(o), s, lit, 0)
  BY <1>11, <1>15, <1>16, <1>17 DEF Opening, t, l, y
<1> QED
  BY <1>7, <1>14, <1>17, <1>18 DEF o2

\* An offset and a length, written after o.
Closed(o, d, m) == (o \o OffsetBytes(d)) \o LengthBytes(m)
LEMMA ClosingWritten ==
  ASSUME NEW o \in Seq(Octets), NEW d \in Nat, d <= MaxDistance, NEW m \in Nat
  PROVE  /\ Closed(o, d, m) \in Seq(Octets)
         /\ Len(Closed(o, d, m)) = Len(o) + 2 + Len(LengthBytes(m))
         /\ Kept(o, Closed(o, d, m), Len(o))
         /\ Closing(Closed(o, d, m), Len(o), d, m, Len(Closed(o, d, m)))
<1> DEFINE o2 == Closed(o, d, m)
           t == OffsetBytes(d)
           l == LengthBytes(m)
           o1 == o \o t
<1>1. t \in Seq(Octets) /\ Len(t) = 2
  BY OffsetParts
<1>2. l \in Seq(Octets) /\ Len(l) \in Nat
  BY LengthLooks
<1>4. o2 = o1 \o l
  BY DEF Closed
<1> HIDE DEF t, l, o2
<1>5. o1 \in Seq(Octets) /\ Len(o1) = Len(o) + 2
  BY <1>1, Joined
<1> HIDE DEF o1
<1>6. o2 \in Seq(Octets) /\ Len(o2) = Len(o) + 2 + Len(l)
  BY <1>2, <1>4, <1>5, Joined
<1>8. /\ o \in Seq(Nat) /\ o1 \in Seq(Nat) /\ o2 \in Seq(Nat)
      /\ t \in Seq(Nat) /\ l \in Seq(Nat)
  BY <1>1, <1>2, <1>5, <1>6, OctetsAreNumbers
<1>9. Placed(o1, Len(o), t) /\ Kept(o, o1, Len(o))
  BY <1>8, PlacedLast DEF o1
<1>10. Placed(o2, Len(o1), l) /\ Kept(o1, o2, Len(o1))
  BY <1>4, <1>8, PlacedLast
<1>12. /\ Len(o) \in Nat /\ Len(o1) \in Nat /\ Len(o) <= Len(o1)
       /\ Len(o) + Len(t) <= Len(o1)
  BY <1>1, <1>5
<1>13. Kept(o, o2, Len(o))
  BY <1>9, <1>10, <1>12, KeptTwice
<1>14. Placed(o2, Len(o), t)
  BY <1>8, <1>9, <1>10, <1>12, PlacedKept
<1>15. Closing(o2, Len(o), d, m, Len(o2))
  BY <1>5, <1>6, <1>10, <1>14 DEF Closing, t, l
<1> QED
  BY <1>6, <1>13, <1>15 DEF l, o2

-----------------------------------------------------------------------------
(* What goes on being said when more is written.                            *)

LEMMA OpeningKept ==
  ASSUME NEW x \in Seq(Octets), NEW o \in Seq(Octets), NEW o2 \in Seq(Octets),
         NEW a \in Nat, NEW s \in Nat, NEW lit \in Nat, NEW m \in Nat, s + lit <= Len(x),
         Opening(x, o, a, s, lit, m),
         NEW n \in Nat, LiteralsEnd(a, lit) <= n, Kept(o, o2, n)
  PROVE  Opening(x, o2, a, s, lit, m)
<1> DEFINE t == <<Token(lit, m)>>
           l == LengthBytes(lit)
           y == SubSeq(x, s + 1, s + lit)
           p == LiteralsAt(a, lit)
<1>1. t \in Seq(Octets) /\ Len(t) = 1
  BY TokenParts
<1>2. y \in Seq(Octets) /\ Len(y) = lit
  <2>1. PICK e \in Nat : e = s + lit
    OBVIOUS
  <2>2. s <= e /\ e <= Len(x) /\ e - s = lit
    BY <2>1
  <2>3. SubSeq(x, s + 1, e) \in Seq(Octets) /\ Len(SubSeq(x, s + 1, e)) = e - s
    BY <2>2, Part
  <2> QED
    BY <2>1, <2>2, <2>3
<1>3. Placed(o, a, t) /\ Placed(o, a + 1, l) /\ Placed(o, p, y)
  BY DEF Opening
<1>4. /\ l \in Seq(Octets) /\ Len(l) \in Nat /\ p \in Nat
      /\ p = a + 1 + Len(l) /\ p + lit <= n
  BY Parts
<1> HIDE DEF t, l, y, p
<1>5. /\ o \in Seq(Nat) /\ o2 \in Seq(Nat) /\ t \in Seq(Nat) /\ l \in Seq(Nat)
      /\ y \in Seq(Nat)
  BY <1>1, <1>2, <1>4, OctetsAreNumbers
<1>6. a + Len(t) <= n /\ (a + 1) + Len(l) <= n /\ p + Len(y) <= n /\ a + 1 \in Nat
  BY <1>1, <1>2, <1>4
<1>7. Placed(o2, a, t)
  <2>1. o \in Seq(Nat) /\ o2 \in Seq(Nat) /\ t \in Seq(Nat)
    BY <1>5
  <2>2. Placed(o, a, t) /\ a + Len(t) <= n
    BY <1>3, <1>6
  <2> QED
    BY <2>1, <2>2, PlacedKept
<1>8. Placed(o2, a + 1, l)
  <2>1. o \in Seq(Nat) /\ o2 \in Seq(Nat) /\ l \in Seq(Nat)
    BY <1>5
  <2>2. Placed(o, a + 1, l) /\ (a + 1) + Len(l) <= n /\ a + 1 \in Nat
    BY <1>3, <1>6
  <2> QED
    BY <2>1, <2>2, PlacedKept
<1>9. Placed(o2, p, y)
  <2>1. o \in Seq(Nat) /\ o2 \in Seq(Nat) /\ y \in Seq(Nat)
    BY <1>5
  <2>2. Placed(o, p, y) /\ p + Len(y) <= n /\ p \in Nat
    BY <1>3, <1>4, <1>6
  <2> QED
    BY <2>1, <2>2, PlacedKept
<1> QED
  BY <1>7, <1>8, <1>9 DEF Opening, t, l, y, p

LEMMA ClosingKept ==
  ASSUME NEW o \in Seq(Octets), NEW o2 \in Seq(Octets),
         NEW p \in Nat, NEW d \in Nat, d <= MaxDistance, NEW m \in Nat, NEW b \in Nat,
         Closing(o, p, d, m, b), NEW n \in Nat, b <= n, Kept(o, o2, n)
  PROVE  Closing(o2, p, d, m, b)
<1> DEFINE t == OffsetBytes(d)
           l == LengthBytes(m)
<1>1. t \in Seq(Octets) /\ Len(t) = 2
  BY OffsetParts
<1>2. l \in Seq(Octets) /\ Len(l) \in Nat
  BY Parts
<1>3. Placed(o, p, t) /\ Placed(o, p + 2, l) /\ b = p + 2 + Len(l)
  BY DEF Closing
<1> HIDE DEF t, l
<1>4. o \in Seq(Nat) /\ o2 \in Seq(Nat) /\ t \in Seq(Nat) /\ l \in Seq(Nat)
  BY <1>1, <1>2, OctetsAreNumbers
<1>5. p + Len(t) <= n /\ (p + 2) + Len(l) <= n /\ p + 2 \in Nat
  BY <1>1, <1>2, <1>3
<1>6. Placed(o2, p, t)
  BY <1>3, <1>4, <1>5, PlacedKept
<1>7. Placed(o2, p + 2, l)
  BY <1>3, <1>4, <1>5, PlacedKept
<1> QED
  BY <1>3, <1>6, <1>7 DEF Closing, t, l

LEMMA LeadsKept ==
  ASSUME NEW x \in Seq(Octets), NEW o \in Seq(Octets), NEW o2 \in Seq(Octets),
         NEW c \in Nat \X Nat, NEW e \in Nat \X Nat, Leads(x, o, c, e),
         NEW n \in Nat, e[1] <= n, Kept(o, o2, n)
  PROVE  Leads(x, o2, c, e)
<1> DEFINE Seq3(v, lit, m, d) ==
             /\ Opening(x, v, c[1], c[2], lit, m)
             /\ Closing(v, LiteralsEnd(c[1], lit), d, m, e[1])
             /\ Repeats(x, c[2] + lit, d, m, e[2])
<1>1. PICK lit \in Nat, m \in Nat, d \in Nat : Seq3(o, lit, m, d)
  BY DEF Leads
<1>2. PICK a \in Nat, s \in Nat, b \in Nat, t \in Nat :
        c[1] = a /\ c[2] = s /\ e[1] = b /\ e[2] = t
  OBVIOUS
<1>3. /\ Opening(x, o, a, s, lit, m)
      /\ Closing(o, LiteralsEnd(a, lit), d, m, b)
      /\ Repeats(x, s + lit, d, m, t)
  BY <1>1, <1>2
<1>4. s + lit <= Len(x) /\ d <= MaxDistance
  <2>1. s + lit + MFLimit <= Len(x) /\ d \in 1..MaxDistance
    BY <1>3 DEF Repeats
  <2> QED
    BY <2>1, Sizes
<1>5. LiteralsEnd(a, lit) \in Nat /\ Len(LengthBytes(m)) \in Nat
  BY Parts
<1>6. LiteralsEnd(a, lit) <= b
  <2> DEFINE f == LiteralsEnd(a, lit)
             l == Len(LengthBytes(m))
  <2>1. b = f + 2 + l
    BY <1>3 DEF Closing
  <2>2. f \in Nat /\ l \in Nat
    BY <1>5
  <2> HIDE DEF f, l
  <2>3. f <= b
    BY <2>1, <2>2
  <2> QED
    BY <2>3 DEF f
<1>7. LiteralsEnd(a, lit) <= n /\ b <= n
  <2>1. b <= n /\ b \in Nat /\ LiteralsEnd(a, lit) \in Nat
    BY <1>2, <1>5
  <2> QED
    BY <1>6, <2>1
<1>8. Opening(x, o2, a, s, lit, m)
  BY <1>3, <1>4, <1>7, OpeningKept
<1>9. Closing(o2, LiteralsEnd(a, lit), d, m, b)
  BY <1>3, <1>4, <1>5, <1>7, ClosingKept
<1>10. Seq3(o2, lit, m, d)
  BY <1>2, <1>3, <1>8, <1>9
<1> QED
  BY <1>10 DEF Leads

LEMMA ChainKept ==
  ASSUME NEW x \in Seq(Octets), NEW o \in Seq(Octets), NEW o2 \in Seq(Octets),
         NEW C, NEW E \in Nat, NEW S \in Nat, Chain(x, C, o, E, S), Kept(o, o2, E)
  PROVE  Chain(x, C, o2, E, S)
<1>1. ASSUME NEW c \in C, NEW e \in C, Leads(x, o, c, e) PROVE Leads(x, o2, c, e)
  <2>1. c \in Nat \X Nat /\ e \in Nat \X Nat /\ e[1] <= E
    BY DEF Chain
  <2> QED
    BY <1>1, <2>1, LeadsKept
<1> QED
  BY <1>1 DEF Chain

LEMMA ChainGrows ==
  ASSUME NEW x, NEW o, NEW C \in Cuts, NEW E \in Nat, NEW S \in Nat, Chain(x, C, o, E, S),
         NEW E2 \in Nat, NEW S2 \in Nat, E <= E2, S2 + LastLiterals <= Len(x),
         Leads(x, o, <<E, S>>, <<E2, S2>>)
  PROVE  \E D \in Cuts : Chain(x, D, o, E2, S2)
<1> DEFINE D == C \union {<<E2, S2>>}
<1>1. D \in Cuts /\ D \subseteq Nat \X Nat /\ <<0, 0>> \in D /\ <<E2, S2>> \in D
  BY DEF Chain, Cuts
<1>2. ASSUME NEW c \in D
      PROVE  c[1] <= E2 /\ (c = <<E2, S2>> \/ \E e \in D : Leads(x, o, c, e))
  <2>1. CASE c = <<E2, S2>>
    BY <2>1
  <2>2. CASE c \in C
    <3>1. c \in Nat \X Nat /\ c[1] <= E /\ (c = <<E, S>> \/ \E e \in C : Leads(x, o, c, e))
      BY <2>2 DEF Chain
    <3>2. c[1] <= E2
      BY <3>1
    <3>3. \E e \in D : Leads(x, o, c, e)
      BY <3>1
    <3> QED
      BY <3>2, <3>3
  <2> QED
    BY <2>1, <2>2
<1>3. Chain(x, D, o, E2, S2)
  BY <1>1, <1>2 DEF Chain
<1> QED
  BY <1>1, <1>3

-----------------------------------------------------------------------------
(* The steps.                                                               *)

LEMMA InputOctets ==
  ASSUME EncType
  PROVE  input \in Seq(Octets) /\ isize = Len(input) /\ isize \in Nat
  BY InputAssumption, InputSize DEF EncType, isize

LEMMA InitRInv == Init => RInv
<1> SUFFICES ASSUME Init PROVE RInv
  OBVIOUS
<1> USE DEF Init
<1>1. DecType
  BY DEF DecType
<1>2. Chain(input, {<<0, 0>>}, out, Len(out), anchor)
  BY DEF Chain
<1>3. EncodedInv
  <2>1. {<<0, 0>>} \in Cuts
    BY DEF Cuts
  <2> QED
    BY <1>2, <2>1 DEF EncodedInv
<1>4. DecodedInv /\ RoundTrip
  BY DEF DecodedInv, RoundTrip
<1> QED
  BY <1>1, <1>3, <1>4 DEF RInv

\* The steps that write nothing.
LEMMA SearchKeepsTrip == IInv /\ RInv /\ (Start \/ FindMatch) => RInv'
<1> SUFFICES ASSUME IInv, RInv, Start \/ FindMatch PROVE RInv'
  OBVIOUS
<1>1. /\ pc \in {"start", "find"} /\ pc' \in {"find", "catchup", "last_literals"}
      /\ UNCHANGED <<input, anchor, token, out>> /\ UNCHANGED decVars
  BY DEF Start, FindMatch, Search
<1>2. DecType'
  BY <1>1 DEF RInv, DecType, decVars
<1>3. PICK C \in Cuts : Chain(input, C, out, Len(out), anchor)
  BY <1>1 DEF RInv, EncodedInv
<1>4. Chain(input', C, out', Len(out'), anchor')
  BY <1>1, <1>3
<1>5. EncodedInv'
  BY <1>1, <1>4 DEF EncodedInv
<1>6. DecodedInv' /\ RoundTrip'
  BY <1>1 DEF DecodedInv, RoundTrip
<1> QED
  BY <1>2, <1>5, <1>6 DEF RInv

LEMMA EncodeLiteralsKeepsTrip == IInv /\ RInv /\ EncodeLiterals => RInv'
<1> SUFFICES ASSUME IInv, RInv, EncodeLiterals PROVE RInv'
  OBVIOUS
<1>1. /\ EncType /\ IInv' /\ pc = "catchup" /\ anchor <= ip /\ ip < mflimit
      /\ UNCHANGED <<input, anchor>> /\ UNCHANGED decVars
      /\ input \in Seq(Octets) /\ isize = Len(input) /\ isize \in Nat
      /\ out \in Seq(Octets) /\ anchor \in Nat /\ ip \in Nat
      /\ mflimit = isize - CopyLength - MinMatch
  BY EncodeLiteralsKeeps, InputOctets, InputSize
     DEF IInv, PlaceInv, EncodeLiterals, RInv, DecType, EncType
<1>2. PICK k \in Nat : k = CatchUp /\ k <= ip - anchor
  BY <1>1, CatchUpFacts
<1> DEFINE lit == ip - k - anchor
<1>3. pc' = "next_match" /\ ip' = ip - k /\ token' = Len(out) + 1
  <2>1. pc' # "zero"
    BY <1>1 DEF IInv, BoundSuffices
  <2> QED
    BY <1>2, <2>1 DEF EncodeLiterals
<1>4. out' = (Append(out, Token(lit, 0)) \o LengthBytes(lit)) \o SubSeq(input, anchor + 1, ip - k)
  BY <1>2, <1>3 DEF EncodeLiterals, Literals
<1>5. lit \in Nat /\ anchor + lit = ip - k /\ anchor + lit <= Len(input)
  BY <1>1, <1>2, Sizes
<1> HIDE DEF lit
<1>6. out' = Opened(input, out, anchor, lit)
  BY <1>4, <1>5 DEF Opened
<1>7. /\ out' \in Seq(Octets) /\ Len(out') = LiteralsEnd(Len(out), lit)
      /\ Kept(out, out', Len(out)) /\ Opening(input, out', Len(out), anchor, lit, 0)
  <2>1. /\ input \in Seq(Octets) /\ out \in Seq(Octets) /\ anchor \in Nat /\ lit \in Nat
        /\ anchor + lit <= Len(input)
    BY <1>1, <1>5
  <2> QED
    BY <1>6, <2>1, OpeningWritten
<1>8. token' \in Nat /\ token' # 0 /\ token' - 1 = Len(out) /\ ip' - anchor' = lit
  BY <1>1, <1>2, <1>3, <1>5 DEF lit
<1>9. PICK C \in Cuts : Chain(input, C, out, Len(out), anchor)
  BY <1>1 DEF RInv, EncodedInv
<1>10. Len(out) \in Nat
  BY <1>1
<1>11. Chain(input, C, out', Len(out), anchor)
  BY <1>1, <1>7, <1>9, <1>10, ChainKept
<1>12. DecType'
  BY <1>1, <1>3, <1>7, <1>8 DEF RInv, DecType, decVars
<1>13. EncodedInv'
  <2>1. /\ Opening(input', out', token' - 1, anchor', ip' - anchor', 0)
        /\ Len(out') = LiteralsEnd(token' - 1, ip' - anchor')
        /\ Chain(input', C, out', token' - 1, anchor')
    BY <1>1, <1>7, <1>8, <1>11
  <2> QED
    BY <1>3, <1>8, <2>1 DEF EncodedInv
<1>14. DecodedInv' /\ RoundTrip'
  BY <1>3 DEF DecodedInv, RoundTrip
<1> QED
  BY <1>12, <1>13, <1>14 DEF RInv

\* The length of the match goes into the token of its sequence.
Filled(o, t, m) == [o EXCEPT ![t] = @ + Nibble(m)]
LEMMA TokenFilled ==
  ASSUME NEW x \in Seq(Octets), NEW o \in Seq(Octets), NEW a \in Nat, NEW s \in Nat,
         NEW lit \in Nat, NEW m \in Nat, s + lit <= Len(x), Opening(x, o, a, s, lit, 0)
  PROVE  /\ Filled(o, a + 1, m) \in Seq(Octets) /\ Len(Filled(o, a + 1, m)) = Len(o)
         /\ Kept(o, Filled(o, a + 1, m), a) /\ Opening(x, Filled(o, a + 1, m), a, s, lit, m)
<1> DEFINE o2 == Filled(o, a + 1, m)
           l == LengthBytes(lit)
           y == SubSeq(x, s + 1, s + lit)
           p == LiteralsAt(a, lit)
<1>1. a + 1 <= Len(o) /\ o[a + 1] = Token(lit, 0) /\ a + 1 \in 1..Len(o)
  <2>1. a + Len(<<Token(lit, 0)>>) <= Len(o)
        /\ \A i \in 1..Len(<<Token(lit, 0)>>) : o[a + i] = <<Token(lit, 0)>>[i]
    BY DEF Opening, Placed
  <2>2. Len(<<Token(lit, 0)>>) = 1 /\ <<Token(lit, 0)>>[1] = Token(lit, 0) /\ 1 \in 1..1
    OBVIOUS
  <2>3. o[a + 1] = Token(lit, 0)
    BY <2>1, <2>2
  <2> QED
    BY <2>1, <2>2, <2>3
<1>2. o2 = [o EXCEPT ![a + 1] = Token(lit, m)] /\ Token(lit, m) \in Octets
  BY <1>1, TokenParts DEF Filled
<1> HIDE DEF o2
<1>3. /\ o2 \in Seq(Octets) /\ Len(o2) = Len(o)
      /\ \A i \in 1..Len(o) : o2[i] = IF i = a + 1 THEN Token(lit, m) ELSE o[i]
  BY <1>1, <1>2, ExceptSeq
<1>4. Kept(o, o2, a)
  <2>1. \A i \in 1..a : i \in 1..Len(o) /\ i # a + 1
    BY <1>1
  <2> QED
    BY <1>1, <1>3, <2>1 DEF Kept
<1>5. /\ l \in Seq(Octets) /\ Len(l) \in Nat /\ p \in Nat
      /\ p = a + 1 + Len(l)
  BY Parts
<1>6. Placed(o, a + 1, l) /\ Placed(o, p, y)
  BY DEF Opening
<1>7. y \in Seq(Octets) /\ Len(y) = lit
  <2>1. PICK e \in Nat : e = s + lit
    OBVIOUS
  <2>2. s <= e /\ e <= Len(x) /\ e - s = lit
    BY <2>1
  <2>3. SubSeq(x, s + 1, e) \in Seq(Octets) /\ Len(SubSeq(x, s + 1, e)) = e - s
    BY <2>2, Part
  <2> QED
    BY <2>1, <2>2, <2>3
<1> HIDE DEF l, y, p
<1>8. Placed(o2, a + 1, l)
  <2>1. a + 1 + Len(l) <= Len(o) /\ \A i \in 1..Len(l) : o[a + 1 + i] = l[i]
    BY <1>6 DEF Placed
  <2>2. ASSUME NEW i \in 1..Len(l) PROVE o2[a + 1 + i] = l[i]
    <3>1. a + 1 + i \in 1..Len(o) /\ a + 1 + i # a + 1
      BY <1>5, <2>1
    <3> QED
      BY <1>3, <2>1, <3>1
  <2> QED
    BY <1>3, <2>1, <2>2 DEF Placed
<1>9. Placed(o2, p, y)
  <2>1. p + Len(y) <= Len(o) /\ \A i \in 1..Len(y) : o[p + i] = y[i]
    BY <1>6 DEF Placed
  <2>2. ASSUME NEW i \in 1..Len(y) PROVE o2[p + i] = y[i]
    <3>1. p + i \in 1..Len(o) /\ p + i # a + 1
      BY <1>5, <1>7, <2>1
    <3> QED
      BY <1>3, <2>1, <3>1
  <2> QED
    BY <1>3, <2>1, <2>2 DEF Placed
<1>10. Placed(o2, a, <<Token(lit, m)>>)
  <2>1. a + 1 <= Len(o2) /\ o2[a + 1] = Token(lit, m)
    BY <1>1, <1>3
  <2>2. Len(<<Token(lit, m)>>) = 1 /\ <<Token(lit, m)>>[1] = Token(lit, m)
    OBVIOUS
  <2>3. \A i \in 1..1 : i = 1
    OBVIOUS
  <2> QED
    BY <2>1, <2>2, <2>3 DEF Placed
<1>11. Opening(x, o2, a, s, lit, m)
  BY <1>8, <1>9, <1>10 DEF Opening, l, y, p
<1> QED
  BY <1>3, <1>4, <1>11 DEF o2

\* The match that is written repeats what came before.
LEMMA MatchRepeats ==
  ASSUME IInv, pc = "next_match", NEW more \in Nat, NEW end \in Nat,
         more = Extension(ref + MinMatch, ip + MinMatch), end = ip + MinMatch + more
  PROVE  Repeats(input, ip, ip - ref, more, end) /\ end <= matchlimit /\ ip + 3 <= end
<1>1. /\ EncType /\ ref < ip /\ ip - ref <= MaxDistance /\ ip \in Nat /\ ref \in Nat
      /\ isize = Len(input) /\ isize \in Nat
      /\ mflimit = isize - CopyLength - MinMatch /\ matchlimit = isize - LastLiterals
  BY RangeOfInv, InputOctets, InputSize DEF IInv, EncType, OffsetInRange
<1>2. PICK k \in Nat : ip + k <= mflimit /\ Agree(k + MinMatch) /\ Known(ip + k)
  BY DEF IInv, PlaceInv
<1>3. end <= matchlimit
  BY <1>1, <1>2, MatchEnd
<1>4. ip + MFLimit <= Len(input) /\ end + LastLiterals <= Len(input)
  BY <1>1, <1>2, <1>3, Sizes
<1>5. ASSUME NEW j \in 0..(MinMatch + more - 1)
      PROVE  Byte(ip + j) = Byte((ip - (ip - ref)) + j)
  <2>1. (ip - (ip - ref)) + j = ref + j /\ MinMatch \in Nat /\ j \in Nat
    BY <1>1, Sizes
  <2>2. CASE j < MinMatch
    <3>1. j \in 0..((k + MinMatch) - 1)
      BY <2>1, <2>2
    <3> QED
      BY <1>2, <2>1, <3>1 DEF Agree
  <2>3. CASE ~(j < MinMatch)
    <3> DEFINE i == j - MinMatch
               p == ip + MinMatch
               r == ref + MinMatch
    <3>1. i \in 0..(more - 1) /\ ip + j = p + i /\ ref + j = r + i /\ p \in Nat /\ r \in Nat
      BY <1>1, <2>1, <2>3
    <3>2. p <= matchlimit
      BY <1>1, <1>3, <2>1
    <3>3. more = Extension(r, p)
      OBVIOUS
    <3> HIDE DEF i, p, r
    <3>4. \A n \in 0..(more - 1) : Byte(p + n) = Byte(r + n)
      <4>1. EncType /\ p \in Nat /\ r \in Nat
        BY <1>1, <3>1
      <4>2. \A n \in 0..(Extension(r, p) - 1) : Byte(p + n) = Byte(r + n)
        BY <3>2, <4>1, ExtensionFacts
      <4> QED
        BY ONLY <3>3, <4>2
    <3> QED
      BY <2>1, <3>1, <3>4
  <2> QED
    BY <2>2, <2>3
<1>6. /\ ip - ref \in 1..MaxDistance /\ ip - ref <= ip
  <2>1. MaxDistance \in Int
    BY Sizes DEF MaxDistance
  <2> QED
    BY <1>1, <2>1
<1>7. ip + 3 <= end
  BY <1>1, Sizes
<1> QED
  BY <1>3, <1>4, <1>5, <1>6, <1>7 DEF Repeats, Byte

\* No literals: only a token, of which both halves are zero.
LEMMA NoLiterals ==
  ASSUME NEW x \in Seq(Octets), NEW o \in Seq(Octets), NEW s \in Nat, s <= Len(x)
  PROVE  Append(o, 0) = Opened(x, o, s, 0)
<1>1. Nibble(0) = 0 /\ Mask + 1 \in Nat
  BY Sizes DEF Nibble
<1>2. Token(0, 0) = 0
  BY <1>1 DEF Token
<1>3. LengthBytes(0) = <<>>
  BY Sizes DEF LengthBytes
<1>4. SubSeq(x, s + 1, s + 0) = <<>>
  <2>1. s + 0 = s /\ s <= s /\ s - s = 0
    OBVIOUS
  <2>2. SubSeq(x, s + 1, s) \in Seq(Octets) /\ Len(SubSeq(x, s + 1, s)) = 0
    BY <2>1, Part
  <2> QED
    BY <2>1, <2>2, EmptySeq
<1>5. Append(o, 0) \in Seq(Octets)
  BY <1>2, TokenParts
<1>6. (Append(o, 0) \o <<>>) \o <<>> = Append(o, 0)
  BY <1>5, ConcatEmptySeq
<1> QED
  BY <1>2, <1>3, <1>4, <1>6 DEF Opened

LEMMA EncodeMatchKeepsTrip == IInv /\ RInv /\ EncodeMatch => RInv'
<1> SUFFICES ASSUME IInv, RInv, EncodeMatch PROVE RInv'
  OBVIOUS
<1>1. /\ EncType /\ pc = "next_match" /\ anchor <= ip
      /\ UNCHANGED input /\ UNCHANGED decVars
      /\ input \in Seq(Octets) /\ isize = Len(input) /\ isize \in Nat
      /\ out \in Seq(Octets) /\ anchor \in Nat /\ ip \in Nat /\ ref \in Nat
      /\ mflimit = isize - CopyLength - MinMatch /\ matchlimit = isize - LastLiterals
  BY InputOctets, InputSize
     DEF IInv, PlaceInv, EncodeMatch, RInv, DecType, EncType
<1>2. PICK more \in Nat : more = Extension(ref + MinMatch, ip + MinMatch)
  BY <1>1, MatchEnd DEF IInv, PlaceInv
<1>3. PICK end \in Nat : end = ip + MinMatch + more
  BY <1>1, Sizes
<1>4. /\ Repeats(input, ip, ip - ref, more, end) /\ ip + 3 <= end
      /\ end + LastLiterals <= Len(input) /\ end <= Len(input) /\ ip <= Len(input)
  BY <1>1, <1>2, <1>3, MatchRepeats, Sizes
<1>5. /\ token \in Nat \ {0} /\ Opening(input, out, token - 1, anchor, ip - anchor, 0)
      /\ Len(out) = LiteralsEnd(token - 1, ip - anchor)
  BY <1>1 DEF RInv, DecType, EncodedInv
<1>6. PICK C \in Cuts : Chain(input, C, out, token - 1, anchor)
  BY <1>1 DEF RInv, EncodedInv
<1>7. PICK a \in Nat, lit \in Nat, d \in Nat :
        a = token - 1 /\ lit = ip - anchor /\ d = ip - ref
  <2>1. ip - ref \in Nat
    BY <1>1, <1>4 DEF Repeats
  <2> QED
    BY <1>1, <1>5, <2>1
<1>8. a + 1 = token /\ anchor + lit = ip /\ anchor + lit <= Len(input) /\ d <= MaxDistance
  <2>1. d \in 1..MaxDistance /\ MaxDistance \in Int
    BY <1>4, <1>7, Sizes DEF Repeats, MaxDistance
  <2> QED
    BY <1>1, <1>4, <1>5, <1>7, <2>1
<1> DEFINE tokened == Filled(out, token, more)
           coded == Closed(tokened, d, more)
<1>9. /\ \/ pc' \in {"find", "last_literals"} /\ out' = coded /\ token' = token
         \/ pc' = "next_match" /\ out' = Append(coded, 0) /\ token' = Len(coded) + 1 /\ ip' = end
      /\ anchor' = end
  BY <1>2, <1>3, <1>7 DEF EncodeMatch, Search, Filled, Closed
<1>10. /\ tokened \in Seq(Octets) /\ Len(tokened) = Len(out)
       /\ Kept(out, tokened, a) /\ Opening(input, tokened, a, anchor, lit, more)
  <2>1. Opening(input, out, a, anchor, lit, 0)
    BY <1>5, <1>7
  <2>2. /\ input \in Seq(Octets) /\ out \in Seq(Octets) /\ anchor \in Nat
        /\ anchor + lit <= Len(input)
    BY <1>1, <1>8
  <2>3. /\ Filled(out, a + 1, more) \in Seq(Octets) /\ Len(Filled(out, a + 1, more)) = Len(out)
        /\ Kept(out, Filled(out, a + 1, more), a)
        /\ Opening(input, Filled(out, a + 1, more), a, anchor, lit, more)
    BY <2>1, <2>2, TokenFilled
  <2> QED
    BY <1>8, <2>3
<1> HIDE DEF tokened
<1>11. /\ coded \in Seq(Octets) /\ Len(coded) = Len(tokened) + 2 + Len(LengthBytes(more))
       /\ Kept(tokened, coded, Len(tokened)) /\ Closing(coded, Len(tokened), d, more, Len(coded))
  BY <1>8, <1>10, ClosingWritten
<1> HIDE DEF coded
<1>12. /\ Len(out) \in Nat /\ Len(coded) \in Nat /\ a <= Len(out) /\ Len(out) <= Len(coded)
       /\ Len(out) = LiteralsEnd(a, lit)
  <2>1. Len(LengthBytes(more)) \in Nat /\ Len(out) = LiteralsEnd(a, lit)
    BY <1>5, <1>7, Parts
  <2>2. a <= Len(out)
    <3>1. /\ Len(LengthBytes(lit)) \in Nat
          /\ LiteralsEnd(a, lit) = a + 1 + Len(LengthBytes(lit)) + lit
      BY Parts
    <3> QED
      BY <2>1, <3>1
  <2> QED
    BY <1>1, <1>10, <1>11, <2>1, <2>2
<1>13. Opening(input, coded, a, anchor, lit, more)
  <2>1. LiteralsEnd(a, lit) <= Len(tokened) /\ Len(tokened) \in Nat
    BY <1>10, <1>12
  <2> QED
    BY <1>1, <1>8, <1>10, <1>11, <2>1, OpeningKept
<1>14. Leads(input, coded, <<a, anchor>>, <<Len(coded), end>>)
  <2>1. /\ Closing(coded, LiteralsEnd(a, lit), d, more, Len(coded))
        /\ Repeats(input, anchor + lit, d, more, end)
    BY <1>4, <1>7, <1>8, <1>10, <1>11, <1>12
  <2> QED
    BY <1>13, <2>1 DEF Leads
<1>15. Chain(input, C, coded, a, anchor)
  <2>1. Chain(input, C, out, a, anchor)
    BY <1>6, <1>7
  <2>2. Kept(out, coded, a)
    <3>1. a <= Len(tokened) /\ Len(tokened) \in Nat
      BY <1>10, <1>12
    <3> QED
      BY <1>10, <1>11, <3>1, KeptTwice
  <2> QED
    BY <1>1, <1>11, <2>1, <2>2, ChainKept
<1>16. \E D \in Cuts : Chain(input, D, coded, Len(coded), end)
  <2>1. a <= Len(coded)
    BY <1>12
  <2> QED
    BY <1>1, <1>4, <1>12, <1>14, <1>15, <2>1, ChainGrows
<1>17. CASE pc' \in {"find", "last_literals"} /\ out' = coded /\ token' = token
  <2>1. DecType'
    BY <1>1, <1>11, <1>17 DEF RInv, DecType, decVars
  <2>2. EncodedInv'
    BY <1>1, <1>9, <1>16, <1>17 DEF EncodedInv
  <2>3. DecodedInv' /\ RoundTrip'
    BY <1>17 DEF DecodedInv, RoundTrip
  <2> QED
    BY <2>1, <2>2, <2>3 DEF RInv
<1>18. CASE pc' = "next_match" /\ out' = Append(coded, 0) /\ token' = Len(coded) + 1 /\ ip' = end
  <2>1. out' = Opened(input, coded, end, 0) /\ end + 0 <= Len(input) /\ 0 \in Nat
    <3>1. input \in Seq(Octets) /\ coded \in Seq(Octets) /\ end <= Len(input)
      BY <1>1, <1>4, <1>11
    <3>2. Append(coded, 0) = Opened(input, coded, end, 0)
      BY <3>1, NoLiterals
    <3> QED
      BY <1>4, <1>18, <3>2
  <2>2. /\ out' \in Seq(Octets) /\ Len(out') = LiteralsEnd(Len(coded), 0)
        /\ Kept(coded, out', Len(coded)) /\ Opening(input, out', Len(coded), end, 0, 0)
    <3>1. input \in Seq(Octets) /\ coded \in Seq(Octets)
      BY <1>1, <1>11
    <3> QED
      BY <2>1, <3>1, OpeningWritten
  <2>3. token' \in Nat /\ token' # 0 /\ token' - 1 = Len(coded) /\ ip' - anchor' = 0
    BY <1>9, <1>12, <1>18
  <2>4. PICK D \in Cuts : Chain(input, D, coded, Len(coded), end)
    BY <1>16
  <2>5. Chain(input, D, out', Len(coded), end)
    BY <1>1, <1>11, <1>12, <2>2, <2>4, ChainKept
  <2>6. DecType'
    BY <1>1, <1>18, <2>2, <2>3 DEF RInv, DecType, decVars
  <2>7. EncodedInv'
    <3>1. /\ Opening(input', out', token' - 1, anchor', ip' - anchor', 0)
          /\ Len(out') = LiteralsEnd(token' - 1, ip' - anchor')
          /\ Chain(input', D, out', token' - 1, anchor')
      BY <1>1, <1>9, <2>2, <2>3, <2>5
    <3> QED
      BY <1>18, <2>3, <3>1 DEF EncodedInv
  <2>8. DecodedInv' /\ RoundTrip'
    BY <1>18 DEF DecodedInv, RoundTrip
  <2> QED
    BY <2>6, <2>7, <2>8 DEF RInv
<1> QED
  BY <1>9, <1>17, <1>18

LEMMA EncodeLastLiteralsKeepsTrip == IInv /\ RInv /\ EncodeLastLiterals => RInv'
<1> SUFFICES ASSUME IInv, RInv, EncodeLastLiterals PROVE RInv'
  OBVIOUS
<1>1. /\ EncType /\ IInv' /\ pc = "last_literals" /\ anchor <= isize
      /\ UNCHANGED <<input, anchor, token>> /\ UNCHANGED decVars
      /\ input \in Seq(Octets) /\ isize = Len(input) /\ isize \in Nat
      /\ out \in Seq(Octets) /\ anchor \in Nat
  BY EncodeLastLiteralsKeeps, InputOctets
     DEF IInv, PlaceInv, EncodeLastLiterals, RInv, DecType, EncType
<1> DEFINE lit == isize - anchor
<1>2. pc' = "compressed"
  <2>1. pc' # "zero"
    BY <1>1 DEF IInv, BoundSuffices
  <2> QED
    BY <2>1 DEF EncodeLastLiterals
<1>3. out' = (Append(out, Token(lit, 0)) \o LengthBytes(lit)) \o SubSeq(input, anchor + 1, isize)
  BY <1>2 DEF EncodeLastLiterals, Literals
<1>4. lit \in Nat /\ anchor + lit = isize /\ anchor + lit <= Len(input)
  BY <1>1
<1>5. lit = Len(input) - anchor
  BY <1>1
<1> HIDE DEF lit
<1>6. out' = Opened(input, out, anchor, lit)
  BY <1>3, <1>4 DEF Opened
<1>7. /\ out' \in Seq(Octets) /\ Len(out') = LiteralsEnd(Len(out), lit)
      /\ Kept(out, out', Len(out)) /\ Opening(input, out', Len(out), anchor, lit, 0)
  <2>1. /\ input \in Seq(Octets) /\ out \in Seq(Octets) /\ anchor \in Nat /\ lit \in Nat
        /\ anchor + lit <= Len(input)
    BY <1>1, <1>5
  <2> QED
    BY <1>6, <2>1, OpeningWritten
<1>8. PICK C \in Cuts : Chain(input, C, out, Len(out), anchor)
  BY <1>1 DEF RInv, EncodedInv
<1>9. Len(out) \in Nat
  BY <1>1
<1>10. Chain(input, C, out', Len(out), anchor)
  BY <1>1, <1>7, <1>8, <1>9, ChainKept
<1>11. Whole(input, C, out', Len(out), anchor)
  BY <1>1, <1>5, <1>7, <1>10 DEF Whole
<1>12. DecType'
  BY <1>1, <1>2, <1>7 DEF RInv, DecType, decVars
<1>13. EncodedInv' /\ RoundTrip'
  BY <1>2 DEF EncodedInv, RoundTrip
<1>14. DecodedInv'
  <2>1. \E D \in Cuts, E, S \in Nat : Whole(input', D, out', E, S)
    BY <1>1, <1>9, <1>11
  <2> QED
    BY <1>2, <2>1 DEF DecodedInv
<1> QED
  BY <1>12, <1>13, <1>14 DEF RInv

-----------------------------------------------------------------------------
(* The steps of the decoder.                                                *)

\* A sequence whose first half is in the output is read as it was written.
ReadsOpening(x, a, s, lit, m) ==
  /\ a < iend /\ out[a + 1] = Token(lit, m) /\ iend \in Nat
  /\ ReadLength(Next1(a) \div (Mask + 1), a + 1).len = lit
  /\ ReadLength(Next1(a) \div (Mask + 1), a + 1).ip = LiteralsAt(a, lit)
  /\ SubSeq(out, LiteralsAt(a, lit) + 1, LiteralsAt(a, lit) + lit)
       = SubSeq(x, s + 1, s + lit)
LEMMA OpeningRead ==
  ASSUME NEW x \in Seq(Octets), out \in Seq(Octets), NEW a \in Nat, NEW s \in Nat,
         NEW lit \in Nat, NEW m \in Nat, s + lit <= Len(x), Opening(x, out, a, s, lit, m)
  PROVE  ReadsOpening(x, a, s, lit, m)
<1>1. a < iend /\ out[a + 1] = Token(lit, m) /\ iend \in Nat
  <2>1. a + Len(<<Token(lit, m)>>) <= Len(out)
        /\ \A i \in 1..Len(<<Token(lit, m)>>) : out[a + i] = <<Token(lit, m)>>[i]
    BY DEF Opening, Placed
  <2>2. Len(<<Token(lit, m)>>) = 1 /\ <<Token(lit, m)>>[1] = Token(lit, m) /\ 1 \in 1..1
    OBVIOUS
  <2>3. out[a + 1] = Token(lit, m)
    BY <2>1, <2>2
  <2>4. a + 1 <= Len(out) /\ Len(out) \in Nat
    BY <2>1, <2>2
  <2> QED
    BY <2>3, <2>4 DEF iend
<1>2. Next1(a) \div (Mask + 1) = Nibble(lit)
  <2>1. Next1(a) = Token(lit, m)
    BY <1>1 DEF Next1
  <2> QED
    BY <2>1, TokenParts
<1>3. /\ ReadLength(Nibble(lit), a + 1).len = lit
      /\ ReadLength(Nibble(lit), a + 1).ip = a + 1 + Len(LengthBytes(lit))
  <2>1. Placed(out, a + 1, LengthBytes(lit)) /\ a + 1 \in Nat
    BY DEF Opening
  <2>2. out \in Seq(Nat)
    BY OctetsAreNumbers
  <2> QED
    BY <2>1, <2>2, LengthRead
<1>4. SubSeq(out, LiteralsAt(a, lit) + 1, LiteralsAt(a, lit) + lit) = SubSeq(x, s + 1, s + lit)
  <2>1. PICK p \in Nat, q \in Nat, e \in Nat :
          p = LiteralsAt(a, lit) /\ q = p + lit /\ e = s + lit
    <3>1. LiteralsAt(a, lit) \in Nat
      BY Parts
    <3> QED
      BY <3>1
  <2> DEFINE y == SubSeq(x, s + 1, e)
             z == SubSeq(out, p + 1, q)
  <2>2. s <= e /\ e <= Len(x) /\ e - s = lit
    BY <2>1
  <2>3. y \in Seq(Octets) /\ Len(y) = lit
    BY <2>2, Part
  <2>4. Placed(out, p, y)
    BY <2>1 DEF Opening
  <2> HIDE DEF y
  <2>5. p + lit <= Len(out) /\ \A i \in 1..lit : out[p + i] = y[i]
    BY <2>3, <2>4 DEF Placed
  <2>6. p <= q /\ q <= Len(out) /\ q - p = lit
    BY <2>1, <2>5
  <2>7. z \in Seq(Octets) /\ Len(z) = q - p /\ \A i \in 1..(q - p) : z[i] = out[p + i]
    BY <2>6, Part
  <2> HIDE DEF z
  <2>8. Len(z) = Len(y) /\ \A i \in 1..Len(z) : z[i] = y[i]
    BY <2>3, <2>5, <2>6, <2>7
  <2>9. z = y
    BY <2>3, <2>7, <2>8, SeqEqual
  <2> QED
    BY <2>1, <2>9 DEF z, y
<1> QED
  BY <1>1, <1>2, <1>3, <1>4 DEF LiteralsAt, ReadsOpening

\* The next part, appended.
LEMMA PartAppended ==
  ASSUME NEW x \in Seq(Octets), NEW s \in Nat, NEW n \in Nat, s + n <= Len(x)
  PROVE  /\ SubSeq(x, 1, s) \o SubSeq(x, s + 1, s + n) = SubSeq(x, 1, s + n)
         /\ SubSeq(x, 1, s + n) \in Seq(Octets) /\ Len(SubSeq(x, 1, s + n)) = s + n
<1>1. PICK t \in Nat : t = s + n
  OBVIOUS
<1>2. s <= t /\ t <= Len(x) /\ 0 <= t /\ 0 + 1 = 1 /\ t - 0 = t
  BY <1>1
<1>3. /\ SubSeq(x, s + 1, t) \in Seq(Octets) /\ Len(SubSeq(x, s + 1, t)) = t - s
      /\ \A i \in 1..(t - s) : SubSeq(x, s + 1, t)[i] = x[s + i]
  BY <1>2, Part
<1>4. SubSeq(x, 1, s) \o SubSeq(x, s + 1, t) = SubSeq(x, 1, t)
  <2>1. Continues(x, s, t, SubSeq(x, s + 1, t))
    BY <1>3 DEF Continues
  <2>2. Prefix(x, s) \o SubSeq(x, s + 1, t) = Prefix(x, t)
    BY <1>2, <1>3, <2>1, PartGrows
  <2> QED
    BY <2>2 DEF Prefix
<1>5. SubSeq(x, 0 + 1, t) \in Seq(Octets) /\ Len(SubSeq(x, 0 + 1, t)) = t - 0
  BY <1>2, Part
<1> QED
  BY <1>1, <1>2, <1>4, <1>5

LEMMA AllOfIt ==
  ASSUME NEW x \in Seq(Octets)
  PROVE  SubSeq(x, 1, Len(x)) = x
<1>1. Len(x) \in Nat /\ 0 <= Len(x) /\ 0 + 1 = 1 /\ Len(x) - 0 = Len(x)
  OBVIOUS
<1>2. /\ SubSeq(x, 0 + 1, Len(x)) \in Seq(Octets)
      /\ Len(SubSeq(x, 0 + 1, Len(x))) = Len(x) - 0
      /\ \A i \in 1..(Len(x) - 0) : SubSeq(x, 0 + 1, Len(x))[i] = x[0 + i]
  BY <1>1, Part
<1> DEFINE y == SubSeq(x, 1, Len(x))
<1>3. y \in Seq(Octets) /\ Len(y) = Len(x)
  BY <1>1, <1>2
<1>4. ASSUME NEW i \in 1..Len(y) PROVE y[i] = x[i]
  <2>1. i \in 1..(Len(x) - 0) /\ 0 + i = i
    BY <1>1, <1>3
  <2> QED
    BY <1>1, <1>2, <2>1
<1> HIDE DEF y
<1>5. y = x
  BY <1>3, <1>4, SeqEqual
<1> QED
  BY <1>5 DEF y

LEMMA BeginDecodeKeepsTrip == IInv /\ RInv /\ BeginDecode => RInv'
<1> SUFFICES ASSUME IInv, RInv, BeginDecode PROVE RInv'
  OBVIOUS
<1>1. /\ EncType /\ pc = "compressed" /\ pc' = "token" /\ UNCHANGED <<input, dip, dest, out, token>>
      /\ input \in Seq(Octets) /\ isize = Len(input) /\ isize \in Nat
  BY InputOctets DEF IInv, BeginDecode, encVars
<1>2. room' \in Nat /\ room' >= isize
  <2>1. PICK more \in Spare : room' = isize + more
    BY DEF BeginDecode
  <2>2. more \in Nat
    BY SizeAssumption
  <2> QED
    BY <1>1, <2>1, <2>2
<1>3. dip = 0 /\ dest = <<>> /\ Len(dest) = 0
  BY <1>1 DEF RInv, DecType
<1>4. PICK C \in Cuts, E \in Nat, S \in Nat : Whole(input, C, out, E, S)
  BY <1>1 DEF RInv, DecodedInv
<1>5. AtToken(C)'
  <2>1. <<0, 0>> \in C
    BY <1>4 DEF Whole, Chain
  <2> QED
    BY <1>1, <1>3, <2>1 DEF AtToken
<1>6. DecType'
  BY <1>1, <1>2 DEF RInv, DecType
<1>7. EncodedInv' /\ RoundTrip'
  BY <1>1 DEF EncodedInv, RoundTrip
<1>8. DecodedInv'
  <2>1. Whole(input', C, out', E, S)
    BY <1>1, <1>4
  <2>2. dest' = SubSeq(input', 1, Len(dest'))
    <3>1. SubSeq(input, 1, 0) = <<>>
      BY <1>1, SubSeqEmpty
    <3> QED
      BY <1>1, <1>3, <3>1
  <2>3. room' >= Len(input') /\ Len(dest') <= Len(input')
    BY <1>1, <1>2, <1>3
  <2> QED
    BY <1>1, <1>5, <2>1, <2>2, <2>3 DEF DecodedInv
<1> QED
  BY <1>6, <1>7, <1>8 DEF RInv

\* The decoder never finds the end of its input where a token should be.
LEMMA NotAtEnd == IInv /\ RInv /\ pc = "token" => dip < iend
<1> SUFFICES ASSUME IInv, RInv, pc = "token" PROVE dip < iend
  OBVIOUS
<1>1. /\ input \in Seq(Octets) /\ out \in Seq(Octets) /\ Len(input) \in Nat
      /\ dip \in Nat
  BY InputOctets DEF IInv, RInv, DecType
<1>2. PICK C \in Cuts, E \in Nat, S \in Nat : Whole(input, C, out, E, S) /\ AtToken(C)
  BY DEF RInv, DecodedInv
<1>3. /\ S <= Len(input) /\ Len(out) = LiteralsEnd(E, Len(input) - S)
  BY <1>2 DEF Whole
<1>4. dip <= E
  <2>1. <<dip, Len(dest)>>[1] <= E
    BY <1>2 DEF Whole, Chain, AtToken
  <2> QED
    BY <2>1
<1>5. PICK lit \in Nat : lit = Len(input) - S
  BY <1>1, <1>3
<1>6. Len(LengthBytes(lit)) \in Nat /\ LiteralsEnd(E, lit) = E + 1 + Len(LengthBytes(lit)) + lit
  BY Parts
<1>7. Len(out) > E
  BY <1>3, <1>5, <1>6
<1> QED
  BY <1>1, <1>4, <1>7 DEF iend

LEMMA DecodeLiteralsKeepsTrip == IInv /\ RInv /\ DecodeLiterals => RInv'
<1> SUFFICES ASSUME IInv, RInv, DecodeLiterals PROVE RInv'
  OBVIOUS
<1> DEFINE run == ReadLength(Next1(dip) \div (Mask + 1), dip + 1)
           copied == SubSeq(out, run.ip + 1, run.ip + run.len)
           bad == Len(dest) + run.len > room \/ run.ip + run.len # iend
           last == LastRun(Len(dest) + run.len, run.ip, run.len)
<1>1. /\ pc = "token" /\ dip < iend
      /\ pc' = IF ~last THEN "copy" ELSE IF bad THEN "error" ELSE "decoded"
      /\ ~(last /\ bad) => /\ dest' = dest \o copied /\ token' = dip + 1
                           /\ dip' = run.ip + run.len
      /\ UNCHANGED <<input, out, room>>
  BY DEF DecodeLiterals
<1>2. /\ input \in Seq(Octets) /\ out \in Seq(Octets) /\ Len(input) \in Nat
      /\ dip \in Nat /\ room \in Nat /\ dest \in Seq(Octets) /\ Len(dest) \in Nat
      /\ room >= Len(input) /\ Len(dest) <= Len(input) /\ dest = SubSeq(input, 1, Len(dest))
      /\ iend = Len(out) /\ iend \in Nat
  <2>1. input \in Seq(Octets)
    BY InputOctets DEF IInv
  <2>2. out \in Seq(Octets) /\ dip \in Nat /\ room \in Nat /\ dest \in Seq(Octets)
    BY DEF RInv, DecType
  <2>3. room >= Len(input) /\ Len(dest) <= Len(input) /\ dest = SubSeq(input, 1, Len(dest))
    BY <1>1 DEF RInv, DecodedInv
  <2> QED
    BY <2>1, <2>2, <2>3 DEF iend
<1>3. PICK C \in Cuts, E \in Nat, S \in Nat : Whole(input, C, out, E, S) /\ AtToken(C)
  BY <1>1 DEF RInv, DecodedInv
<1>4. PICK s \in Nat : s = Len(dest)
  BY <1>2
<1>5. /\ <<dip, s>> \in C /\ C \subseteq Nat \X Nat /\ S <= Len(input)
      /\ Opening(input, out, E, S, Len(input) - S, 0)
      /\ iend = LiteralsEnd(E, Len(input) - S)
      /\ E = 0 \/ S + LastLiterals <= Len(input)
  BY <1>3, <1>4 DEF Whole, Chain, AtToken, iend
<1>6. \/ dip = E /\ s = S
      \/ \E e \in C : Leads(input, out, <<dip, s>>, e) /\ e[1] <= E
  <2>1. <<dip, s>> = <<E, S>> \/ \E e \in C : Leads(input, out, <<dip, s>>, e)
    BY <1>3, <1>5 DEF Whole, Chain
  <2>2. \A e \in C : e[1] <= E
    BY <1>3 DEF Whole, Chain
  <2> QED
    BY <2>1, <2>2
<1>7. /\ CopyLength \in Nat \ {0} /\ LastLiterals \in Nat \ {0} /\ MinMatch \in Nat
      /\ CopyLength <= LastLiterals + 3 /\ MFLimit = CopyLength + MinMatch
  BY Sizes
<1> HIDE DEF run, copied, bad, last
\* What one run of literals does.
<1>8. ASSUME NEW lit \in Nat, NEW m \in Nat, s + lit <= Len(input),
             Opening(input, out, dip, s, lit, m)
      PROVE  /\ run.len = lit /\ run.ip = LiteralsAt(dip, lit)
             /\ run.ip + run.len = LiteralsEnd(dip, lit) /\ LiteralsEnd(dip, lit) \in Nat
             /\ dest \o copied = SubSeq(input, 1, s + lit)
             /\ SubSeq(input, 1, s + lit) \in Seq(Octets)
             /\ Len(SubSeq(input, 1, s + lit)) = s + lit
             /\ out[dip + 1] = Token(lit, m)
  <2>1. /\ run.len = lit /\ run.ip = LiteralsAt(dip, lit)
        /\ SubSeq(out, LiteralsAt(dip, lit) + 1, LiteralsAt(dip, lit) + lit)
             = SubSeq(input, s + 1, s + lit)
        /\ out[dip + 1] = Token(lit, m)
    <3>1. /\ input \in Seq(Octets) /\ out \in Seq(Octets) /\ dip \in Nat
      BY <1>2
    <3>2. ReadsOpening(input, dip, s, lit, m)
      <4>1. /\ s + lit <= Len(input) /\ Opening(input, out, dip, s, lit, m)
        BY <1>8
      <4> QED
        BY <3>1, <4>1, OpeningRead
    <3> QED
      BY <3>2 DEF run, ReadsOpening
  <2>2. copied = SubSeq(input, s + 1, s + lit)
    BY <2>1 DEF copied
  <2>3. /\ SubSeq(input, 1, s) \o SubSeq(input, s + 1, s + lit) = SubSeq(input, 1, s + lit)
        /\ SubSeq(input, 1, s + lit) \in Seq(Octets) /\ Len(SubSeq(input, 1, s + lit)) = s + lit
    BY <1>2, <1>8, PartAppended
  <2>4. run.ip + run.len = LiteralsEnd(dip, lit) /\ LiteralsEnd(dip, lit) \in Nat
    <3>1. LiteralsEnd(dip, lit) \in Nat
      BY <1>2, Parts
    <3> QED
      BY <2>1, <3>1 DEF LiteralsEnd
  <2>5. dest = SubSeq(input, 1, s)
    BY <1>2, <1>4
  <2> QED
    BY <2>1, <2>2, <2>3, <2>4, <2>5
<1>9. CASE dip = E /\ s = S
  <2>1. PICK lit \in Nat : lit = Len(input) - S /\ s + lit = Len(input)
    <3>1. S <= Len(input) /\ Len(input) \in Nat /\ s = S
      BY <1>2, <1>5, <1>9
    <3>2. Len(input) - S \in Nat /\ s + (Len(input) - S) = Len(input)
      BY <3>1
    <3> QED
      BY <3>2
  <2>2. Opening(input, out, dip, s, lit, 0) /\ s + lit <= Len(input)
    BY <1>2, <1>5, <1>9, <2>1
  <2>3. /\ run.len = lit /\ run.ip = LiteralsAt(dip, lit)
        /\ run.ip + run.len = LiteralsEnd(dip, lit) /\ LiteralsEnd(dip, lit) \in Nat
        /\ dest \o copied = SubSeq(input, 1, s + lit)
    BY <1>8, <2>2
  <2>4. run.ip + run.len = iend
    BY <1>5, <1>9, <2>1, <2>3
  <2>5. last
    BY <1>2, <1>7, <2>4 DEF last, LastRun
  <2>6. ~bad
    BY <1>2, <1>4, <2>1, <2>3, <2>4 DEF bad
  <2>7. pc' = "decoded" /\ dest' = input /\ token' = dip + 1 /\ dip' = iend
    BY <1>1, <1>2, <2>1, <2>3, <2>4, <2>5, <2>6, AllOfIt
  <2>8. DecType'
    BY <1>1, <1>2, <2>7 DEF DecType
  <2>9. EncodedInv' /\ DecodedInv' /\ RoundTrip'
    BY <1>1, <2>7 DEF EncodedInv, DecodedInv, RoundTrip
  <2> QED
    BY <2>8, <2>9 DEF RInv
<1>10. CASE \E e \in C : Leads(input, out, <<dip, s>>, e) /\ e[1] <= E
  <2>1. PICK e \in C : Leads(input, out, <<dip, s>>, e) /\ e[1] <= E
    BY <1>10
  <2>2. PICK lit \in Nat, m \in Nat, d \in Nat :
          /\ Opening(input, out, <<dip, s>>[1], <<dip, s>>[2], lit, m)
          /\ Closing(out, LiteralsEnd(<<dip, s>>[1], lit), d, m, e[1])
          /\ Repeats(input, <<dip, s>>[2] + lit, d, m, e[2])
    BY <2>1 DEF Leads
  <2>3. /\ Opening(input, out, dip, s, lit, m)
        /\ Closing(out, LiteralsEnd(dip, lit), d, m, e[1])
        /\ Repeats(input, s + lit, d, m, e[2])
    BY <2>2
  <2>4. s + lit + MFLimit <= Len(input) /\ s + lit <= Len(input)
    <3>1. s + lit + MFLimit <= Len(input)
      BY <2>3 DEF Repeats
    <3> QED
      BY <1>2, <1>7, <3>1
  <2>5. /\ run.len = lit /\ run.ip = LiteralsAt(dip, lit)
        /\ run.ip + run.len = LiteralsEnd(dip, lit) /\ LiteralsEnd(dip, lit) \in Nat
        /\ dest \o copied = SubSeq(input, 1, s + lit)
        /\ SubSeq(input, 1, s + lit) \in Seq(Octets)
        /\ Len(SubSeq(input, 1, s + lit)) = s + lit
        /\ out[dip + 1] = Token(lit, m)
    BY <1>8, <2>3, <2>4
  <2>6. LiteralsEnd(dip, lit) + 2 <= E /\ E # 0
    <3>1. e[1] = LiteralsEnd(dip, lit) + 2 + Len(LengthBytes(m)) /\ Len(LengthBytes(m)) \in Nat
      BY <2>3, Parts DEF Closing
    <3> QED
      BY <2>1, <2>5, <3>1
  <2>7. LiteralsEnd(dip, lit) + CopyLength <= iend
    <3>1. PICK rest \in Nat : rest = Len(input) - S /\ LastLiterals <= rest
      <4>1. S + LastLiterals <= Len(input) /\ Len(input) \in Nat /\ LastLiterals \in Nat
        BY <1>2, <1>5, <1>7, <2>6
      <4>2. Len(input) - S \in Nat /\ LastLiterals <= Len(input) - S
        BY <4>1
      <4> QED
        BY <4>2
    <3>2. /\ Len(LengthBytes(rest)) \in Nat
          /\ LiteralsEnd(E, rest) = E + 1 + Len(LengthBytes(rest)) + rest
      BY Parts
    <3>3. iend = LiteralsEnd(E, rest)
      BY <1>5, <3>1
    <3> DEFINE a == LiteralsEnd(dip, lit)
               l == Len(LengthBytes(rest))
    <3>4. iend = E + 1 + l + rest /\ l \in Nat /\ a \in Nat /\ a + 2 <= E
      BY <2>5, <2>6, <3>2, <3>3
    <3> HIDE DEF a, l
    <3>5. a + CopyLength <= iend
      BY <1>7, <3>1, <3>4
    <3> QED
      BY <3>5 DEF a
  <2>8. ~last
    <3>1. ~(Len(dest) + run.len + CopyLength > room)
      BY <1>2, <1>4, <1>7, <2>4, <2>5
    <3>2. ~(run.ip + run.len + CopyLength > iend)
      BY <1>2, <1>7, <2>5, <2>7
    <3> QED
      BY <3>1, <3>2 DEF last, LastRun
  <2>9. /\ pc' = "copy" /\ dest' = SubSeq(input, 1, s + lit) /\ token' = dip + 1
        /\ dip' = LiteralsEnd(dip, lit) /\ Len(dest') = s + lit /\ dest' \in Seq(Octets)
    BY <1>1, <2>5, <2>8
  <2>10. DecType'
    BY <1>1, <1>2, <2>5, <2>9 DEF DecType
  <2>11. EncodedInv' /\ RoundTrip'
    BY <2>9 DEF EncodedInv, RoundTrip
  <2>12. AtCopy(C)'
    <3>1. token' \in 1..Len(out') /\ out'[token'] = Token(lit, m)
      BY <1>1, <1>2, <2>5, <2>9
    <3>2. Closing(out', dip', d, m, e[1]) /\ Repeats(input', Len(dest'), d, m, e[2])
      BY <1>1, <2>3, <2>9
    <3> QED
      BY <3>1, <3>2 DEF AtCopy
  <2>13. DecodedInv'
    <3>1. Whole(input', C, out', E, S)
      BY <1>1, <1>3
    <3>2. room' >= Len(input') /\ Len(dest') <= Len(input')
          /\ dest' = SubSeq(input', 1, Len(dest'))
      BY <1>1, <1>2, <2>4, <2>9
    <3> QED
      BY <2>9, <2>12, <3>1, <3>2 DEF DecodedInv
  <2> QED
    BY <2>10, <2>11, <2>13 DEF RInv
<1> QED
  BY <1>6, <1>9, <1>10

LEMMA DecodeMatchKeepsTrip == IInv /\ RInv /\ DecodeMatch => RInv'
<1> SUFFICES ASSUME IInv, RInv, DecodeMatch PROVE RInv'
  OBVIOUS
<1> DEFINE offset == Next1(dip) + OffsetBase * Next1(dip + 1)
           read == ReadLength(out[token] % (Mask + 1), dip + 2)
           length == read.len + MinMatch
<1>1. /\ pc = "copy" /\ dip' = read.ip
      /\ IF offset > Len(dest) \/ Len(dest) + length > room
           THEN pc' = "error" /\ UNCHANGED dest
           ELSE /\ dest' = dest \o Repeated(Len(dest) - offset, length)
                /\ pc' = IF Len(dest') = room THEN "decoded" ELSE "token"
      /\ UNCHANGED <<input, out, room, token>>
  BY DEF DecodeMatch, encVars
<1>2. /\ input \in Seq(Octets) /\ out \in Seq(Octets) /\ Len(input) \in Nat
      /\ dip \in Nat /\ room \in Nat /\ dest \in Seq(Octets) /\ Len(dest) \in Nat
      /\ room >= Len(input) /\ Len(dest) <= Len(input) /\ dest = SubSeq(input, 1, Len(dest))
      /\ token \in Nat
  <2>1. input \in Seq(Octets)
    BY InputOctets DEF IInv
  <2>2. /\ out \in Seq(Octets) /\ dip \in Nat /\ room \in Nat /\ dest \in Seq(Octets)
        /\ token \in Nat
    BY DEF RInv, DecType
  <2>3. room >= Len(input) /\ Len(dest) <= Len(input) /\ dest = SubSeq(input, 1, Len(dest))
    BY <1>1 DEF RInv, DecodedInv
  <2> QED
    BY <2>1, <2>2, <2>3
<1>3. PICK C \in Cuts, E \in Nat, S \in Nat : Whole(input, C, out, E, S) /\ AtCopy(C)
  BY <1>1 DEF RInv, DecodedInv
<1>4. PICK e \in C, lit \in Nat, m \in Nat, d \in Nat :
        /\ token \in 1..Len(out) /\ out[token] = Token(lit, m)
        /\ Closing(out, dip, d, m, e[1])
        /\ Repeats(input, Len(dest), d, m, e[2])
  BY <1>3 DEF AtCopy
<1>5. PICK b \in Nat, t \in Nat : e = <<b, t>>
  BY <1>3 DEF Whole, Chain
<1>6. PICK s \in Nat : s = Len(dest)
  BY <1>2
<1>7. /\ Placed(out, dip, OffsetBytes(d)) /\ Placed(out, dip + 2, LengthBytes(m))
      /\ b = dip + 2 + Len(LengthBytes(m))
  BY <1>4, <1>5 DEF Closing
<1>8. /\ t = s + MinMatch + m /\ t + LastLiterals <= Len(input)
      /\ d \in 1..MaxDistance /\ d <= s
      /\ \A j \in 0..(MinMatch + m - 1) : input[(s + j) + 1] = input[((s - d) + j) + 1]
  BY <1>4, <1>5, <1>6 DEF Repeats
<1>9. /\ LastLiterals \in Nat \ {0} /\ MinMatch \in Nat /\ d \in Nat \ {0} /\ d <= MaxDistance
  BY <1>8, Sizes DEF MaxDistance
<1>10. offset = d
  <2>1. /\ Len(OffsetBytes(d)) = 2
        /\ OffsetBytes(d)[1] + OffsetBase * OffsetBytes(d)[2] = d
    BY <1>9, OffsetParts
  <2>2. out[dip + 1] = OffsetBytes(d)[1] /\ out[dip + 2] = OffsetBytes(d)[2]
    BY <1>7, <2>1 DEF Placed
  <2>3. (dip + 1) + 1 = dip + 2
    BY <1>2
  <2> QED
    BY <2>1, <2>2, <2>3 DEF Next1
<1>11. read.len = m /\ read.ip = b
  <2>1. out[token] % (Mask + 1) = Nibble(m)
    BY <1>4, TokenParts
  <2>2. out \in Seq(Nat) /\ dip + 2 \in Nat
    BY <1>2, OctetsAreNumbers
  <2>3. ReadLength(Nibble(m), dip + 2).len = m
        /\ ReadLength(Nibble(m), dip + 2).ip = dip + 2 + Len(LengthBytes(m))
    BY <1>7, <2>2, LengthRead
  <2> QED
    BY <1>7, <2>1, <2>3
<1> HIDE DEF offset, read
<1>12. PICK n \in Nat : n = length /\ n = MinMatch + m /\ s + n = t
  BY <1>8, <1>9, <1>11
<1> HIDE DEF length
<1>13. ~(offset > Len(dest) \/ Len(dest) + length > room) /\ t < room /\ s + n <= Len(input)
  <2>1. /\ t + LastLiterals <= Len(input) /\ d <= s
        /\ Len(dest) = s /\ room \in Nat /\ Len(input) \in Nat /\ room >= Len(input)
        /\ offset = d /\ length = n /\ s + n = t /\ LastLiterals \in Nat \ {0}
    BY <1>2, <1>6, <1>8, <1>9, <1>10, <1>12
  <2>2. t < room /\ s + n <= Len(input) /\ ~(s + n > room) /\ ~(d > s)
    BY <2>1
  <2> QED
    BY <2>1, <2>2
<1>14. dest \o Repeated(s - d, n) = SubSeq(input, 1, t)
  <2>1. Echoes(input, s, d, n)
    <3>1. MinMatch + m - 1 = n - 1
      BY <1>9, <1>12
    <3> QED
      BY <1>8, <3>1 DEF Echoes
  <2>2. Len(dest) = s /\ dest = Prefix(input, s)
    BY <1>2, <1>6 DEF Prefix
  <2>3. Grown(s, d, n) = Prefix(input, s + n)
    <3>1. /\ input \in Seq(Octets) /\ d \in Nat \ {0} /\ d <= s /\ s + n <= Len(input)
          /\ s \in Nat /\ n \in Nat
      BY <1>2, <1>8, <1>9, <1>13
    <3> QED
      BY <2>1, <2>2, <3>1, Repetition
  <2>4. t = s + n
    BY <1>12
  <2> QED
    BY <2>3, <2>4 DEF Grown, Prefix
<1>15. SubSeq(input, 1, t) \in Seq(Octets) /\ Len(SubSeq(input, 1, t)) = t
  <2>1. /\ SubSeq(input, 1, s + n) \in Seq(Octets)
        /\ Len(SubSeq(input, 1, s + n)) = s + n
    BY <1>2, <1>13, PartAppended
  <2> QED
    BY <1>12, <2>1
<1>16. dest' = SubSeq(input, 1, t) /\ Len(dest') = t /\ dest' \in Seq(Octets)
       /\ pc' = "token" /\ dip' = b
  <2>1. dest' = SubSeq(input, 1, t)
    BY <1>1, <1>6, <1>10, <1>12, <1>13, <1>14
  <2>2. Len(dest') # room
    BY <1>2, <1>13, <1>15, <2>1
  <2> QED
    BY <1>1, <1>11, <1>13, <1>15, <2>1, <2>2
<1>17. DecType'
  BY <1>1, <1>2, <1>16 DEF DecType
<1>18. EncodedInv' /\ RoundTrip'
  BY <1>16 DEF EncodedInv, RoundTrip
<1>19. AtToken(C)'
  BY <1>4, <1>5, <1>16 DEF AtToken
<1>20. DecodedInv'
  <2>1. Whole(input', C, out', E, S)
    BY <1>1, <1>3
  <2>2. room' >= Len(input') /\ Len(dest') <= Len(input')
        /\ dest' = SubSeq(input', 1, Len(dest'))
    BY <1>1, <1>2, <1>12, <1>13, <1>16
  <2> QED
    BY <1>16, <1>19, <2>1, <2>2 DEF DecodedInv
<1> QED
  BY <1>17, <1>18, <1>20 DEF RInv

-----------------------------------------------------------------------------
LEMMA StutterKeepsTrip == RInv /\ UNCHANGED vars => RInv'
<1> SUFFICES ASSUME RInv, UNCHANGED vars PROVE RInv'
  OBVIOUS
<1>1. /\ pc' = pc /\ UNCHANGED <<input, anchor, ip, token, out, dip, room, dest>>
  BY DEF vars
<1>2. DecType'
  BY <1>1 DEF RInv, DecType
<1>3. EncodedInv'
  BY <1>1 DEF RInv, EncodedInv
<1>4. DecodedInv'
  BY <1>1 DEF RInv, DecodedInv, AtToken, AtCopy
<1>5. RoundTrip'
  BY <1>1 DEF RInv, RoundTrip
<1> QED
  BY <1>2, <1>3, <1>4, <1>5 DEF RInv

\* RInv is an invariant: what is in dest up to op is a chain of sequences that
\* stand for the input up to anchor, and the decoder walks along that chain.
THEOREM TripInvariance == Spec => []RInv
<1>1. IInv /\ RInv /\ [Next]_vars => RInv'
  <2> SUFFICES ASSUME IInv, RInv, [Next]_vars PROVE RInv'
    OBVIOUS
  <2>1. CASE Start \/ FindMatch
    BY <2>1, SearchKeepsTrip
  <2>2. CASE EncodeLiterals
    BY <2>2, EncodeLiteralsKeepsTrip
  <2>3. CASE EncodeMatch
    BY <2>3, EncodeMatchKeepsTrip
  <2>4. CASE EncodeLastLiterals
    BY <2>4, EncodeLastLiteralsKeepsTrip
  <2>5. CASE BeginDecode
    BY <2>5, BeginDecodeKeepsTrip
  <2>6. CASE DecodeEnds
    <3>1. pc = "token" /\ dip = iend
      BY <2>6 DEF DecodeEnds
    <3>2. dip < iend /\ dip \in Nat
      BY <3>1, NotAtEnd DEF RInv, DecType
    <3> QED
      BY <3>1, <3>2
  <2>7. CASE DecodeLiterals
    BY <2>7, DecodeLiteralsKeepsTrip
  <2>8. CASE DecodeMatch
    BY <2>8, DecodeMatchKeepsTrip
  <2>9. CASE UNCHANGED vars
    BY <2>9, StutterKeepsTrip
  <2> QED
    BY <2>1, <2>2, <2>3, <2>4, <2>5, <2>6, <2>7, <2>8, <2>9
       DEF Next, Compress, Uncompress, Stopped
<1> QED
  BY InitRInv, Invariance, <1>1, PTL DEF Spec

\* What LZ4_compress writes, LZ4_uncompress_unknownOutputSize turns back into
\* the input, whatever the input and however much room is left over.
THEOREM RoundTripHolds == Spec => []RoundTrip
<1>1. RInv => RoundTrip
  BY DEF RInv
<1> QED
  BY TripInvariance, <1>1, PTL

\* Everything has its type: what is written are bytes, the two lengths of a
\* token never run into each other.
THEOREM TypeCorrect == Spec => []TypeOK
<1>1. IInv /\ RInv => TypeOK
  BY InputOctets DEF IInv, EncType, Buckets, RInv, DecType, TypeOK
<1> QED
  BY Invariance, TripInvariance, <1>1, PTL
=============================================================================
