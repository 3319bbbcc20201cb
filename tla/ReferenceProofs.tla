---------------------------- MODULE ReferenceProofs ----------------------------
(***************************************************************************)
(* What the operators return that have no state: those of the references   *)
(* and those the code computes its answers with, for every input.  The     *)
(* proofs about the codec and the converters rest on them.                 *)
(*                                                                         *)
(* Of Base64: the scans, the promise, and at last ShownDecodes, that a     *)
(* text that shows the values of some bytes, spaces between them and       *)
(* fitting padding behind, is decoded to these bytes.                      *)
(*                                                                         *)
(* Of text: Reading is a recursive function, defined as the one that       *)
(* satisfies an equation.  ReadingExists shows that there is one, so that  *)
(* the equation may be used (ReadingIsAfter); Backward is the induction    *)
(* over positions.  Then the widths and code points of the characters of   *)
(* each encoding and that they are spelled in one way, how surrogates pair,*)
(* what a repair puts where, what a trim cuts off, and at last Detected    *)
(* and Autodetected, that the validators and marks DetectEncodings asks    *)
(* answer what the bytes can be read as.                                   *)
(***************************************************************************)
EXTENDS Base64Promise, Detection, UnicodeReference, TLAPS, SequenceTheorems, FiniteSetTheorems,
        WellFoundedInduction

-----------------------------------------------------------------------------
(* Base64 *)

CharTexts == Seq(Char)

(* A nonempty set of naturals has a least element.                         *)
LEMMA LeastOf ==
  ASSUME NEW T \in SUBSET Nat, T # {}
  PROVE  \E m \in T : \A k \in T : m <= k
<1> DEFINE Less == OpToRel(<, Nat)
<1>1. IsWellFoundedOn(Less, Nat)
  BY NatLessThanWellFounded
<1>2. PICK m \in T : \A k \in T : ~ (<<k, m>> \in Less)
  <2> HIDE DEF Less
  <2> QED BY <1>1, WFMin
<1>3. \A k \in T : <<k, m>> \in Less <=> k < m
  BY DEF OpToRel
<1>4. \A k \in T : ~ (k < m)
  <2> HIDE DEF Less
  <2> QED BY <1>2, <1>3
<1> QED
  BY <1>4

(* Stripping trailing members of S from the first n characters stops at 0  *)
(* or after a character outside S, and strips members of S only.           *)
LEMMA LastNotInProperties ==
  ASSUME NEW input \in CharTexts, NEW n \in 0..Len(input), NEW S
  PROVE  LET k == LastNotIn(input, n, S)
         IN  /\ k \in 0..n
             /\ k = 0 \/ input[k] \notin S
             /\ \A j \in (k + 1)..n : input[j] \in S
<1>0. n \in Nat
  BY LenProperties DEF CharTexts
<1> DEFINE P(k) == /\ k = 0 \/ input[k] \notin S
                   /\ \A j \in (k + 1)..n : input[j] \in S
           T    == {k \in 0..n : \A j \in (k + 1)..n : input[j] \in S}
<1>1. T \in SUBSET Nat /\ n \in T
  BY <1>0
<1>2. PICK m \in T : \A k \in T : m <= k
  <2> HIDE DEF T
  <2> QED BY <1>1, LeastOf
<1>3. P(m)
  <2>1. m \in 0..n /\ \A j \in (m + 1)..n : input[j] \in S
    BY <1>0, <1>2
  <2>2. ASSUME m # 0, input[m] \in S PROVE FALSE
    <3>1. m - 1 \in T
      BY <1>0, <2>1, <2>2
    <3> QED
      BY <1>0, <1>2, <2>1, <3>1
  <2> QED
    BY <2>1, <2>2
<1>4. \E k \in 0..n : P(k)
  BY <1>0, <1>2, <1>3
<1>5. LastNotIn(input, n, S) = CHOOSE k \in 0..n : P(k)
  BY DEF LastNotIn
<1> HIDE DEF P
<1>6. LastNotIn(input, n, S) \in 0..n /\ P(LastNotIn(input, n, S))
  BY <1>4, <1>5
<1> QED
  BY <1>6 DEF P

(* Skipping members of S forward stops at n or before a character outside. *)
LEMMA FirstNotInProperties ==
  ASSUME NEW input \in CharTexts, NEW n \in 0..Len(input), NEW k \in 0..n, NEW S
  PROVE  LET i == FirstNotIn(input, k, n, S)
         IN  /\ i \in k..n
             /\ i = n \/ input[i + 1] \notin S
             /\ \A j \in (k + 1)..i : input[j] \in S
<1>0. n \in Nat /\ k \in Nat
  BY LenProperties DEF CharTexts
<1> DEFINE P(i) == /\ i = n \/ input[i + 1] \notin S
                   /\ \A j \in (k + 1)..i : input[j] \in S
           T    == {i \in k..n : i = n \/ input[i + 1] \notin S}
<1>1. T \in SUBSET Nat /\ n \in T
  BY <1>0
<1>2. PICK m \in T : \A i \in T : m <= i
  <2> HIDE DEF T
  <2> QED BY <1>1, LeastOf
<1>3. P(m)
  <2>1. m \in k..n /\ (m = n \/ input[m + 1] \notin S)
    BY <1>0, <1>2
  <2>2. ASSUME NEW j \in (k + 1)..m, input[j] \notin S PROVE FALSE
    <3>1. j - 1 \in k..n /\ (j - 1) + 1 = j /\ j - 1 < m
      BY <1>0, <2>1
    <3>2. j - 1 \in T
      BY <2>2, <3>1
    <3>3. m <= j - 1
      BY <1>2, <3>2
    <3> QED
      BY <1>0, <2>1, <3>1, <3>3
  <2> QED
    BY <2>1, <2>2
<1>4. \E i \in k..n : P(i)
  BY <1>0, <1>2, <1>3
<1>5. FirstNotIn(input, k, n, S) = CHOOSE i \in k..n : P(i)
  BY DEF FirstNotIn
<1> HIDE DEF P
<1>6. FirstNotIn(input, k, n, S) \in k..n /\ P(FirstNotIn(input, k, n, S))
  BY <1>4, <1>5
<1> QED
  BY <1>6 DEF P

-----------------------------------------------------------------------------
(* How many members of a set of positions are at or before m.              *)
Rank(P, m) == Cardinality({j \in P : j <= m})

LEMMA RankType ==
  ASSUME NEW P \in SUBSET Nat, IsFiniteSet(P), NEW m \in Int
  PROVE  Rank(P, m) \in 0..Cardinality(P)
<1>1. {j \in P : j <= m} \in SUBSET P
  OBVIOUS
<1>2. Rank(P, m) <= Cardinality(P) /\ Rank(P, m) \in Nat
  BY <1>1, FS_Subset, FS_CardinalityType DEF Rank
<1> QED
  BY <1>2, FS_CardinalityType

(* A scan of one more position counts it when it is in the set.            *)
LEMMA RankStep ==
  ASSUME NEW P \in SUBSET Nat, IsFiniteSet(P), NEW m \in Int
  PROVE  Rank(P, m + 1) = IF m + 1 \in P THEN Rank(P, m) + 1 ELSE Rank(P, m)
<1> DEFINE A == {j \in P : j <= m}
           B == {j \in P : j <= m + 1}
<1>1. A \in SUBSET P /\ IsFiniteSet(A)
  <2>1. A \in SUBSET P
    OBVIOUS
  <2> QED
    BY <2>1, FS_Subset
<1>2. CASE m + 1 \in P
  <2>1. B = A \cup {m + 1} /\ m + 1 \notin A
    <3>1. \A j \in P : j <= m + 1 <=> j <= m \/ j = m + 1
      OBVIOUS
    <3>2. ~ (m + 1 <= m)
      OBVIOUS
    <3> QED
      BY <1>2, <3>1, <3>2, Zenon
  <2> HIDE DEF A, B
  <2>2. Cardinality(A \cup {m + 1}) = Cardinality(A) + 1
    BY <1>1, <2>1, FS_AddElement
  <2> QED
    BY <1>2, <2>1, <2>2 DEF Rank, A, B
<1>3. CASE m + 1 \notin P
  <2>1. B = A
    <3>1. \A j \in P : j <= m + 1 <=> j <= m \/ j = m + 1
      OBVIOUS
    <3> QED
      BY <1>3, <3>1, Zenon
  <2> QED
    BY <1>3, <2>1 DEF Rank
<1> QED
  BY <1>2, <1>3

LEMMA RankMonotone ==
  ASSUME NEW P \in SUBSET Nat, IsFiniteSet(P), NEW m \in Int, NEW n \in Int, m <= n
  PROVE  /\ Rank(P, m) <= Rank(P, n)
         /\ n \in P /\ m < n => Rank(P, m) < Rank(P, n)
<1> DEFINE A == {j \in P : j <= m}
           B == {j \in P : j <= n}
<1>1. A \in SUBSET B /\ B \in SUBSET P
  <2>1. \A j \in P : j <= m => j <= n
    OBVIOUS
  <2> QED
    BY <2>1, Zenon
<1>2. IsFiniteSet(B) /\ IsFiniteSet(A)
  BY <1>1, FS_Subset
<1>3. n \in P /\ m < n => n \in B /\ n \notin A
  OBVIOUS
<1> HIDE DEF A, B
<1>4. Cardinality(A) <= Cardinality(B) /\ (Cardinality(B) = Cardinality(A) => B = A)
  BY <1>1, <1>2, FS_Subset
<1>5. Cardinality(A) \in Nat /\ Cardinality(B) \in Nat
  BY <1>2, FS_CardinalityType
<1> QED
  BY <1>3, <1>4, <1>5 DEF Rank, A, B

(* Every rank up to the size of the set is the rank of one member.         *)
LEMMA RankOnto ==
  ASSUME NEW P \in SUBSET Nat, IsFiniteSet(P), NEW k \in 1..Cardinality(P)
  PROVE  \E i \in P : Rank(P, i) = k
<1> DEFINE n == Cardinality(P)
           f == [i \in P |-> Rank(P, i)]
<1>1. n \in Nat
  BY FS_CardinalityType
<1>2. \A i \in P : Rank(P, i) \in 1..n
  <2> SUFFICES ASSUME NEW i \in P PROVE Rank(P, i) \in 1..n
    OBVIOUS
  <2>1. Rank(P, i) \in 0..n /\ Rank(P, i - 1) \in 0..n
    BY RankType
  <2>2. Rank(P, i - 1) < Rank(P, i)
    BY RankMonotone
  <2> QED
    BY <1>1, <2>1, <2>2
<1>3. \A i, j \in P : Rank(P, i) = Rank(P, j) => i = j
  <2> SUFFICES ASSUME NEW i \in P, NEW j \in P, i < j PROVE Rank(P, i) # Rank(P, j)
    OBVIOUS
  <2>1. Rank(P, i) < Rank(P, j)
    BY RankMonotone
  <2>2. Rank(P, i) \in Nat /\ Rank(P, j) \in Nat
    BY <1>1, <1>2
  <2> QED
    BY <2>1, <2>2
<1>4. f \in Injection(P, 1..n)
  BY <1>2, <1>3 DEF Injection, IsInjective
<1>5. IsFiniteSet(1..n) /\ Cardinality(1..n) = n
  BY <1>1, FS_Interval
<1> HIDE DEF f, n
<1>6. f \in Surjection(P, 1..n)
  BY <1>4, <1>5, FS_Injection DEF n
<1>7. k \in 1..n
  BY DEF n
<1>8. \E i \in P : f[i] = k
  BY <1>6, <1>7 DEF Surjection
<1> QED
  BY <1>8 DEF f

(* Ascending lists each member once, in order, at its rank.                *)
LEMMA AscendingProperties ==
  ASSUME NEW P \in SUBSET Nat, IsFiniteSet(P)
  PROVE  LET w == Ascending(P)
             n == Cardinality(P)
         IN  /\ n \in Nat
             /\ w \in Seq(P) /\ Len(w) = n
             /\ \A k \in 1..n : w[k] \in P /\ Rank(P, w[k]) = k
             /\ \A i \in P : Rank(P, i) \in 1..n /\ w[Rank(P, i)] = i
             /\ \A k, l \in 1..n : k < l => w[k] < w[l]
<1> DEFINE n == Cardinality(P)
           w == Ascending(P)
<1>1. n \in Nat
  BY FS_CardinalityType
<1>2. \A k \in 1..n : w[k] = CHOOSE i \in P : Rank(P, i) = k
  BY DEF Ascending, Rank
<1>3. \A k \in 1..n : w[k] \in P /\ Rank(P, w[k]) = k
  <2> SUFFICES ASSUME NEW k \in 1..n PROVE w[k] \in P /\ Rank(P, w[k]) = k
    OBVIOUS
  <2>1. \E i \in P : Rank(P, i) = k
    BY RankOnto
  <2> HIDE DEF w
  <2> QED
    BY <1>2, <2>1
<1>4. w \in Seq(P) /\ Len(w) = n
  <2>1. w = [k \in 1..n |-> w[k]]
    BY DEF Ascending
  <2> HIDE DEF w, n
  <2>2. w \in [1..n -> P]
    BY <1>3, <2>1
  <2> QED
    BY <1>1, <2>2, SeqDef, LenProperties
<1>5. \A i, j \in P : i < j => Rank(P, i) < Rank(P, j)
  BY RankMonotone
<1>6. \A i \in P : Rank(P, i) \in 1..n /\ w[Rank(P, i)] = i
  <2> SUFFICES ASSUME NEW i \in P PROVE Rank(P, i) \in 1..n /\ w[Rank(P, i)] = i
    OBVIOUS
  <2>1. Rank(P, i) \in 0..n /\ Rank(P, i - 1) \in 0..n /\ Rank(P, i - 1) < Rank(P, i)
    BY RankType, RankMonotone
  <2>2. Rank(P, i) \in 1..n
    BY <1>1, <2>1
  <2>3. w[Rank(P, i)] \in P /\ Rank(P, w[Rank(P, i)]) = Rank(P, i)
    BY <1>3, <2>2
  <2> HIDE DEF w
  <2>4. w[Rank(P, i)] = i
    <3> DEFINE j == w[Rank(P, i)]
    <3>1. j \in P /\ Rank(P, j) = Rank(P, i)
      BY <2>3
    <3> HIDE DEF j
    <3>2. ~ (i < j) /\ ~ (j < i)
      BY <1>1, <1>5, <2>2, <3>1
    <3>3. i = j
      BY <3>1, <3>2
    <3> QED
      BY <3>3 DEF j
  <2> QED
    BY <2>2, <2>4
<1>7. \A k, l \in 1..n : k < l => w[k] < w[l]
  <2> SUFFICES ASSUME NEW k \in 1..n, NEW l \in 1..n, k < l PROVE w[k] < w[l]
    OBVIOUS
  <2>1. w[k] \in P /\ w[l] \in P /\ Rank(P, w[k]) = k /\ Rank(P, w[l]) = l
    BY <1>3
  <2>2. l \in Nat /\ k \in Nat
    BY <1>1
  <2> DEFINE a == w[k]
             b == w[l]
  <2>3. a \in P /\ b \in P /\ Rank(P, a) = k /\ Rank(P, b) = l
    BY <2>1
  <2> HIDE DEF a, b, w, n
  <2>4. ~ (b < a)
    <3>1. b < a => Rank(P, b) < Rank(P, a)
      BY <1>5, <2>3
    <3> QED
      BY <2>2, <2>3, <3>1
  <2>5. b # a
    BY <2>2, <2>3
  <2>6. a \in Nat /\ b \in Nat
    BY <2>3
  <2>7. a < b
    BY <2>4, <2>5, <2>6
  <2> QED
    BY <2>7 DEF a, b
<1> QED
  BY <1>1, <1>3, <1>4, <1>6, <1>7

-----------------------------------------------------------------------------
(* A table entry is a 6-bit value, 64 or 255.                              *)
LEMMA ToValueType ==
  ASSUME NEW c \in Char, NEW options
  PROVE  /\ ToValue(options, c) \in 0..255
         /\ ToValue(options, c) \in Nat
         /\ ToValue(options, c) <= 63 => ToValue(options, c) \in 0..63
<1>1. CASE c \in 0..61
  <2>1. ToValue(options, c) = c
    BY <1>1 DEF ToValue, Dash, Underscore, Space
  <2> QED
    BY <1>1, <2>1
<1>2. CASE c \in {62, 63}
  <2>1. ToValue(options, c) \in {c, 255}
    BY <1>2 DEF ToValue, Dash, Underscore, Space
  <2> QED
    BY <1>2, <2>1
<1>3. CASE c \in {Dash, Underscore}
  <2>1. ToValue(options, c) \in {c - 5, 255}
    BY <1>3 DEF ToValue, Dash, Underscore, Space
  <2> QED
    BY <1>3, <2>1 DEF Dash, Underscore
<1>4. CASE c = Space
  <2>1. ToValue(options, c) = 64
    BY <1>4 DEF ToValue, Dash, Underscore, Space
  <2> QED
    BY <2>1
<1>5. CASE c \notin (0..63) \cup {Dash, Underscore, Space}
  <2>1. ToValue(options, c) = 255
    BY <1>5 DEF ToValue, Dash, Underscore, Space
  <2> QED
    BY <2>1
<1> QED
  BY <1>1, <1>2, <1>3, <1>4, <1>5 DEF Char

LEMMA OnlySpaceIsSpace ==
  ASSUME NEW c \in Char, NEW options
  PROVE  ToValue(options, c) = 64 <=> c = Space
<1>1. CASE c = Space
  BY <1>1 DEF ToValue, Dash, Underscore, Space
<1>2. CASE c \in 0..61
  <2>1. ToValue(options, c) = c
    BY <1>2 DEF ToValue, Dash, Underscore, Space
  <2> QED
    BY <1>2, <2>1 DEF Space
<1>3. CASE c \in {62, 63}
  <2>1. ToValue(options, c) \in {c, 255}
    BY <1>3 DEF ToValue, Dash, Underscore, Space
  <2> QED
    BY <1>3, <2>1 DEF Space
<1>4. CASE c \in {Dash, Underscore}
  <2>1. ToValue(options, c) \in {c - 5, 255}
    BY <1>4 DEF ToValue, Dash, Underscore, Space
  <2> QED
    BY <1>4, <2>1 DEF Space, Dash, Underscore
<1>5. CASE c \notin (0..63) \cup {Dash, Underscore, Space}
  <2>1. ToValue(options, c) = 255
    BY <1>5 DEF ToValue, Dash, Underscore, Space
  <2> QED
    BY <1>5, <2>1
<1> QED
  BY <1>1, <1>2, <1>3, <1>4, <1>5 DEF Char

(* Shifting and masking 6-bit values into a byte.                          *)
LEMMA ByteArithmetic ==
  ASSUME NEW p \in 0..63, NEW q \in 0..63
  PROVE  /\ p * 4 + q \div 16 \in 0..255
         /\ (p % 16) * 16 + q \div 4 \in 0..255
         /\ (p % 4) * 64 + q \in 0..255
<1>1. q \div 16 \in 0..3 /\ q \div 4 \in 0..15 /\ p % 16 \in 0..15 /\ p % 4 \in 0..3
  OBVIOUS
<1> QED
  BY <1>1

(* A chunk of n values makes n - 1 bytes.                                  *)
LEMMA ChunkBytesType ==
  ASSUME NEW s \in Seq(0..63), Len(s) \in 2..4
  PROVE  ChunkBytes(s) \in Seq(0..255) /\ Len(ChunkBytes(s)) = Len(s) - 1
<1> DEFINE x == s[1] * 4 + s[2] \div 16
           y == IF Len(s) > 2 THEN (s[2] % 16) * 16 + s[3] \div 4 ELSE 0
           z == IF Len(s) > 3 THEN (s[3] % 4) * 64 + s[4] ELSE 0
           b == <<x, y, z>>
           n == Len(s)
<1> HIDE DEF x, y, z, b, n
<1>0. n \in 2..4 /\ n \in Nat /\ n - 1 \in 1..3
  BY DEF n
<1>1. \A i \in 1..n : s[i] \in 0..63
  BY ElementOfSeq DEF n
<1>10. 1 \in 1..n /\ 2 \in 1..n
  BY <1>0
<1>2. x \in 0..255
  <2>1. s[1] \in 0..63 /\ s[2] \in 0..63
    BY <1>10, <1>1
  <2> QED
    BY <2>1, ByteArithmetic DEF x
<1>3. y \in 0..255
  <2>1. CASE n > 2
    <3>1. s[2] \in 0..63 /\ s[3] \in 0..63
      BY <1>0, <1>1, <2>1
    <3> QED
      BY <2>1, <3>1, ByteArithmetic DEF y, n
  <2>2. CASE ~(n > 2)
    BY <2>2 DEF y, n
  <2> QED
    BY <2>1, <2>2
<1>4. z \in 0..255
  <2>1. CASE n > 3
    <3>1. s[3] \in 0..63 /\ s[4] \in 0..63
      BY <1>0, <1>1, <2>1
    <3> QED
      BY <2>1, <3>1, ByteArithmetic DEF z, n
  <2>2. CASE ~(n > 3)
    BY <2>2 DEF z, n
  <2> QED
    BY <2>1, <2>2
<1>5. ChunkBytes(s) = SubSeq(b, 1, n - 1)
  BY DEF ChunkBytes, b, x, y, z, n
<1>6. b[1] \in 0..255 /\ b[2] \in 0..255 /\ b[3] \in 0..255
  BY <1>2, <1>3, <1>4 DEF b
<1>7. \A i \in 1..(n - 1) : b[i] \in 0..255
  <2>1. \A i \in 1..(n - 1) : i = 1 \/ i = 2 \/ i = 3
    BY <1>0
  <2> QED
    BY <1>6, <2>1
<1>8. /\ SubSeq(b, 1, n - 1) \in Seq(0..255)
      /\ Len(SubSeq(b, 1, n - 1)) = IF 1 <= n - 1 THEN (n - 1) - 1 + 1 ELSE 0
  BY <1>0, <1>7, SubSeqProperties
<1>9. Len(SubSeq(b, 1, n - 1)) = n - 1
  BY <1>0, <1>8
<1> QED
  BY <1>5, <1>8, <1>9 DEF n

(* A capacity of MaximalBinaryLengthFromBase64 holds the bytes of every    *)
(* group of characters that is not padding: w bytes from at most that many *)
(* characters, at four characters to three bytes.                          *)
LEMMA MaximalIsEnough ==
  ASSUME NEW input \in CharTexts, NEW w \in Nat,
         4 * w <= 3 * (Len(input) - TrailingPads(input))
  PROVE  w <= MaximalBinaryLength(input)
<1> DEFINE a == Len(input) - TrailingPads(input)
<1>1. a \in Nat
  BY LenProperties DEF TrailingPads, CharTexts
<1>2. 4 * w <= 3 * a
  OBVIOUS
<1>3. MaximalBinaryLength(input) = 3 * (a \div 4) + (IF a % 4 <= 1 THEN 0 ELSE (a % 4) - 1)
  BY DEF MaximalBinaryLength
<1> HIDE DEF a
<1>4. a = 4 * (a \div 4) + (a % 4) /\ a % 4 \in 0..3 /\ a \div 4 \in Nat
  BY <1>1
<1> QED
  BY <1>1, <1>2, <1>3, <1>4

(* The payload FindEnd delimits excludes the padding that the preflight of *)
(* MaximalBinaryLengthFromBase64 discounts, and its offsets are offsets of *)
(* the input.                                                              *)
LEMMA FindEndProperties ==
  ASSUME NEW input \in CharTexts, NEW options
  PROVE  /\ FindEnd(input, options) \in EndType
         /\ FindEnd(input, options).srcLen <= Len(input) - TrailingPads(input)
         /\ FindEnd(input, options).fullInputLength <= Len(input)
<1> DEFINE n     == Len(input)
           n0    == LastNotIn(input, n, {Space})
           n1    == LastNotIn(input, n0 - 1, {Space})
           first == FirstNotIn(input, 0, n, Char \ {Pad})
           E     == FindEnd(input, options)
           end(signs, loc, len, full) ==
             [equalSigns |-> signs, equalLocation |-> loc,
              srcLen |-> len, fullInputLength |-> full]
<1> HIDE DEF n, n0, n1, first, E
<1>1. n \in Nat /\ (\A i \in 1..n : input[i] \in Char)
  BY LenProperties, ElementOfSeq DEF CharTexts, n
<1>2. /\ n0 \in 0..n
      /\ n0 = 0 \/ input[n0] # Space
      /\ \A j \in (n0 + 1)..n : input[j] = Space
  <2>1. n \in 0..Len(input)
    BY <1>1 DEF n
  <2> QED
    BY <2>1, LastNotInProperties DEF n0
<1>3. ASSUME n0 # 0
      PROVE  /\ n1 \in 0..(n0 - 1)
             /\ \A j \in (n1 + 1)..(n0 - 1) : input[j] = Space
  <2>1. n0 - 1 \in 0..Len(input)
    BY <1>1, <1>2, <1>3 DEF n
  <2> QED
    BY <2>1, LastNotInProperties DEF n1
<1>4. /\ first \in 0..n
      /\ \A j \in 1..first : input[j] # Pad
  <2>1. n \in 0..Len(input) /\ 0 \in 0..n
    BY <1>1 DEF n
  <2> QED
    BY <2>1, FirstNotInProperties DEF first
<1>5. TrailingPads(input) = IF n = 0 \/ input[n] # Pad THEN 0
                            ELSE IF n > 1 /\ input[n - 1] = Pad THEN 2 ELSE 1
  BY DEF TrailingPads, n
<1>6. E = IF IgnoreGarbage(options)
          THEN IF first < n THEN end(1, first, first, first + 1) ELSE end(0, n, n, n)
          ELSE IF n0 = 0 \/ input[n0] # Pad THEN end(0, n0, n0, n)
          ELSE IF n1 = 0 \/ input[n1] # Pad THEN end(1, n0 - 1, n1, n)
          ELSE end(2, n1 - 1, n1 - 1, n)
  BY DEF FindEnd, E, n, n0, n1, first
<1>7. Space # Pad
  BY DEF Space, Pad
<1>8. SUFFICES /\ E \in EndType
               /\ E.srcLen <= n - TrailingPads(input)
               /\ E.fullInputLength <= n
  BY DEF E, n
<1>9. CASE IgnoreGarbage(options) /\ first < n
  <2>1. E = end(1, first, first, first + 1)
    BY <1>6, <1>9
  <2>2. E \in EndType
    BY <1>4, <2>1 DEF EndType
  <2>3. first <= n - TrailingPads(input)
    <3>1. CASE TrailingPads(input) = 2
      <4>1. n > 1 /\ input[n - 1] = Pad
        BY <1>1, <1>5, <3>1
      <4>2. ~(n - 1 \in 1..first)
        BY <1>4, <4>1
      <4> QED
        BY <1>1, <1>4, <1>9, <3>1, <4>1, <4>2
    <3>2. CASE TrailingPads(input) \in {0, 1}
      BY <1>1, <1>4, <1>9, <3>2
    <3> QED
      BY <1>5, <3>1, <3>2
  <2> QED
    BY <1>1, <1>4, <1>9, <2>1, <2>2, <2>3
<1>10. CASE IgnoreGarbage(options) /\ ~(first < n)
  <2>1. E = end(0, n, n, n)
    BY <1>6, <1>10
  <2>2. E \in EndType
    BY <1>1, <2>1 DEF EndType
  <2>3. n = 0 \/ input[n] # Pad
    <3>1. first = n
      BY <1>1, <1>4, <1>10
    <3>2. n # 0 => n \in 1..first
      BY <1>1, <3>1
    <3> QED
      BY <1>4, <3>2
  <2>4. TrailingPads(input) = 0
    BY <1>5, <2>3
  <2> QED
    BY <1>1, <2>1, <2>2, <2>4
<1>11. CASE ~IgnoreGarbage(options) /\ (n0 = 0 \/ input[n0] # Pad)
  <2>1. E = end(0, n0, n0, n)
    BY <1>6, <1>11
  <2>2. E \in EndType
    BY <1>1, <1>2, <2>1 DEF EndType
  <2>3. n = 0 \/ input[n] # Pad
    <3>1. CASE n0 = n
      BY <1>11, <3>1
    <3>2. CASE n0 < n
      <4>1. n \in (n0 + 1)..n
        BY <1>1, <1>2, <3>2
      <4> QED
        BY <1>2, <1>7, <4>1
    <3> QED
      BY <1>1, <1>2, <3>1, <3>2
  <2>4. TrailingPads(input) = 0
    BY <1>5, <2>3
  <2> QED
    BY <1>1, <1>2, <2>1, <2>2, <2>4
<1>12. CASE ~IgnoreGarbage(options) /\ ~(n0 = 0 \/ input[n0] # Pad)
  <2>1. n1 \in 0..(n0 - 1) /\ \A j \in (n1 + 1)..(n0 - 1) : input[j] = Space
    BY <1>3, <1>12
  <2>2. TrailingPads(input) # 0 => n0 = n
    <3>1. ASSUME n0 < n PROVE TrailingPads(input) = 0
      <4>1. n \in (n0 + 1)..n
        BY <1>1, <1>2, <3>1
      <4> QED
        BY <1>2, <1>5, <1>7, <4>1
    <3> QED
      BY <1>1, <1>2, <3>1
  <2>3. TrailingPads(input) = 2 => n1 = n0 - 1 /\ input[n1] = Pad /\ n1 # 0
    <3>1. SUFFICES ASSUME TrailingPads(input) = 2
                   PROVE  n1 = n0 - 1 /\ input[n1] = Pad /\ n1 # 0
      OBVIOUS
    <3>2. n0 = n /\ n > 1 /\ input[n - 1] = Pad
      BY <1>5, <2>2, <3>1
    <3>3. ~(n0 - 1 \in (n1 + 1)..(n0 - 1))
      BY <1>7, <2>1, <3>2
    <3> QED
      BY <1>1, <2>1, <3>2, <3>3
  <2>4. TrailingPads(input) \in 0..2
    BY <1>5
  <2>5. CASE n1 = 0 \/ input[n1] # Pad
    <3>1. E = end(1, n0 - 1, n1, n)
      BY <1>6, <1>12, <2>5
    <3>2. n0 - 1 \in Nat /\ n1 \in Nat
      BY <1>1, <1>2, <1>12, <2>1
    <3>3. E \in EndType
      BY <1>1, <3>1, <3>2 DEF EndType
    <3>4. TrailingPads(input) \in {0, 1}
      BY <2>3, <2>4, <2>5
    <3>5. n1 <= n - TrailingPads(input)
      BY <1>1, <1>2, <2>1, <3>2, <3>4
    <3> QED
      BY <1>1, <3>1, <3>3, <3>5
  <2>6. CASE ~(n1 = 0 \/ input[n1] # Pad)
    <3>1. E = end(2, n1 - 1, n1 - 1, n)
      BY <1>6, <1>12, <2>6
    <3>2. n1 - 1 \in Nat
      BY <1>1, <1>2, <1>12, <2>1, <2>6
    <3>3. E \in EndType
      BY <1>1, <3>1, <3>2 DEF EndType
    <3>4. n1 - 1 <= n - TrailingPads(input)
      BY <1>1, <1>2, <2>1, <2>4, <3>2
    <3> QED
      BY <1>1, <3>1, <3>3, <3>4
  <2> QED
    BY <2>5, <2>6
<1> QED
  BY <1>9, <1>10, <1>11, <1>12

(* When garbage is accepted the payload ends at the first '='.             *)
LEMMA GarbageEndsAtPad ==
  ASSUME NEW input \in CharTexts, NEW options, IgnoreGarbage(options)
  PROVE  \A j \in 1..FindEnd(input, options).srcLen : input[j] # Pad
<1> DEFINE n     == Len(input)
           first == FirstNotIn(input, 0, n, Char \ {Pad})
<1>1. n \in Nat
  BY LenProperties DEF CharTexts
<1>2. first \in 0..n /\ \A j \in 1..first : input[j] # Pad
  <2>1. n \in 0..Len(input) /\ 0 \in 0..n
    BY <1>1
  <2> HIDE DEF n
  <2> QED
    BY <2>1, FirstNotInProperties
<1>3. FindEnd(input, options).srcLen = IF first < n THEN first ELSE n
  BY DEF FindEnd
<1> HIDE DEF first, n
<1>4. FindEnd(input, options).srcLen = first
  BY <1>1, <1>2, <1>3
<1> QED
  BY <1>2, <1>4

(* What the callers of the tail decoder make of its verdict is a result.   *)
LEMMA FinishType ==
  ASSUME NEW call, call.input \in CharTexts,
         NEW end \in EndType, end.fullInputLength <= Len(call.input),
         NEW raw \in FullResult
  PROVE  Finish(call, end, raw) \in FullResult
<1> DEFINE r == PatchTailResult(raw, end, call.lastChunk)
<1>1. r \in FullResult
  BY DEF PatchTailResult, FullResult, EndType
<1> HIDE DEF r
<1>2. FinishUpToBadChar(call, end, raw) \in FullResult
  BY <1>1 DEF FinishUpToBadChar, FullResult, Errors, r
<1>3. FinishDetails(call, end, raw) \in FullResult
  <2>1. ASSUME r.inputCount < end.fullInputLength
        PROVE  TrimIgnorable(call.input, call.options, r.inputCount, end.fullInputLength)
                 \in Nat
    <3> DEFINE full    == end.fullInputLength
               skip    == {c \in Char : IsIgnorable(call.options, c)}
               forward == FirstNotIn(call.input, r.inputCount, full, skip)
    <3> HIDE DEF full, skip, forward
    <3>1. full \in 0..Len(call.input) /\ r.inputCount \in 0..full
      BY <1>1, <2>1, LenProperties DEF full, EndType, FullResult, CharTexts
    <3>2. forward \in r.inputCount..full
      BY <3>1, FirstNotInProperties DEF forward
    <3>3. forward \in 0..Len(call.input) /\ forward \in Nat
      BY <1>1, <3>1, <3>2, LenProperties DEF FullResult, CharTexts
    <3>4. LastNotIn(call.input, forward, skip) \in 0..forward
      BY <3>3, LastNotInProperties
    <3>5. TrimIgnorable(call.input, call.options, r.inputCount, full)
            = IF forward < full THEN LastNotIn(call.input, forward, skip) ELSE full
      BY DEF TrimIgnorable, forward, skip
    <3>6. LastNotIn(call.input, forward, skip) \in Nat /\ full \in Nat
      BY <3>3, <3>4 DEF full, EndType
    <3> QED
      BY <3>5, <3>6 DEF full
  <2>2. FinishDetails(call, end, raw)
          \in {r, [r EXCEPT !.error = "InvalidBase64Character",
                            !.inputCount = end.equalLocation, !.paddingError = TRUE]}
        \/ /\ r.inputCount < end.fullInputLength
           /\ FinishDetails(call, end, raw) =
                [r EXCEPT !.inputCount = TrimIgnorable(call.input, call.options,
                                           r.inputCount, end.fullInputLength)]
    BY DEF FinishDetails, r
  <2>3. [r EXCEPT !.error = "InvalidBase64Character",
                  !.inputCount = end.equalLocation, !.paddingError = TRUE] \in FullResult
    BY <1>1 DEF FullResult, Errors, EndType
  <2>4. ASSUME NEW k \in Nat PROVE [r EXCEPT !.inputCount = k] \in FullResult
    BY <1>1 DEF FullResult
  <2> QED
    BY <1>1, <2>1, <2>2, <2>3, <2>4
<1> QED
  BY <1>2, <1>3 DEF Finish

LEMMA EmptyPayloadType ==
  ASSUME NEW call, NEW end \in EndType
  PROVE  EmptyPayload(call, end) \in FullResult
<1>1. end.equalLocation \in Nat /\ end.fullInputLength \in Nat
  BY DEF EndType
<1> QED
  BY <1>1 DEF EmptyPayload, FullResult, Errors

-----------------------------------------------------------------------------
(* Base64Promise *)

(* The stop position is the first character that may not be there, or the  *)
(* one after the payload.                                                  *)
LEMMA StopProperties ==
  ASSUME NEW call, NEW end, end.srcLen \in Nat
  PROVE  LET s == StopPosition(call, end)
         IN  /\ s \in 1..(end.srcLen + 1)
             /\ s <= end.srcLen => /\ ~IsAlphabet(call.options, call.input[s])
                                  /\ ~IsIgnorable(call.options, call.input[s])
             /\ \A i \in 1..(s - 1) : \/ IsAlphabet(call.options, call.input[i])
                                     \/ IsIgnorable(call.options, call.input[i])
<1> DEFINE n     == end.srcLen
           Bar(i) == /\ ~IsAlphabet(call.options, call.input[i])
                     /\ ~IsIgnorable(call.options, call.input[i])
           stops == {i \in 1..n : Bar(i)}
           s     == StopPosition(call, end)
<1>0. n \in Nat
  OBVIOUS
<1>1. s = IF stops = {} THEN n + 1 ELSE CHOOSE i \in stops : \A j \in stops : i <= j
  BY DEF StopPosition
<1> SUFFICES /\ s \in 1..(n + 1)
             /\ s <= n => Bar(s)
             /\ \A i \in 1..(s - 1) : ~ Bar(i)
  OBVIOUS
<1> HIDE DEF s, Bar, n
<1>2. CASE stops = {}
  <2>1. s = n + 1
    BY <1>1, <1>2
  <2> QED
    BY <1>0, <1>2, <2>1
<1>3. CASE stops # {}
  <2>1. stops \in SUBSET Nat
    BY <1>0
  <2>2. \E i \in stops : \A j \in stops : i <= j
    <3> HIDE DEF stops
    <3> QED BY <1>3, <2>1, LeastOf
  <2>3. s \in stops /\ \A j \in stops : s <= j
    <3> HIDE DEF stops
    <3> QED BY <1>1, <1>3, <2>2
  <2>4. s \in 1..n /\ Bar(s)
    BY <2>3
  <2>5. ASSUME NEW i \in 1..(s - 1), Bar(i) PROVE FALSE
    <3>1. i \in stops
      BY <1>0, <2>4, <2>5
    <3> QED
      BY <1>0, <2>3, <2>4, <3>1
  <2> QED
    BY <1>0, <2>4, <2>5
<1> QED
  BY <1>2, <1>3

(* The positions before stop that SignificantBefore lists.                 *)
AlphabetBefore(call, stop) == {i \in 1..(stop - 1) : IsAlphabet(call.options, call.input[i])}

LEMMA AlphabetBeforeType ==
  ASSUME NEW call, NEW stop \in Nat
  PROVE  /\ AlphabetBefore(call, stop) \in SUBSET Nat
         /\ IsFiniteSet(AlphabetBefore(call, stop))
         /\ SignificantBefore(call, stop) = Ascending(AlphabetBefore(call, stop))
         /\ Rank(AlphabetBefore(call, stop), 0) = 0
<1> DEFINE P == AlphabetBefore(call, stop)
<1>1. P \in SUBSET (1..(stop - 1)) /\ P \in SUBSET Nat
  BY DEF AlphabetBefore
<1>2. IsFiniteSet(1..(stop - 1))
  BY FS_Interval
<1>3. IsFiniteSet(P)
  <2> HIDE DEF P
  <2> QED BY <1>1, <1>2, FS_Subset
<1>4. {j \in P : j <= 0} = {}
  BY <1>1
<1>5. Rank(P, 0) = 0
  BY <1>4, FS_EmptySet DEF Rank
<1> QED
  BY <1>1, <1>3, <1>5 DEF SignificantBefore, AlphabetBefore

(* The 6-bit values of the alphabet characters before stop.                *)
LEMMA SextetsProperties ==
  ASSUME NEW call, call.input \in CharTexts, NEW stop \in 1..(Len(call.input) + 1)
  PROVE  LET P == AlphabetBefore(call, stop)
             w == SignificantBefore(call, stop)
             v == Sextets(call, w)
         IN  /\ Len(w) = Cardinality(P) /\ Len(v) = Cardinality(P) /\ Len(v) \in Nat
             /\ v \in Seq(0..63)
             /\ \A k \in 1..Len(v) : /\ w[k] \in P /\ Rank(P, w[k]) = k
                                     /\ v[k] = ToValue(call.options, call.input[w[k]])
             /\ \A i \in P : Rank(P, i) \in 1..Len(v) /\ w[Rank(P, i)] = i
<1> DEFINE P == AlphabetBefore(call, stop)
           w == SignificantBefore(call, stop)
           v == Sextets(call, w)
           n == Cardinality(P)
<1>0. Len(call.input) \in Nat /\ stop \in Nat
  BY LenProperties DEF CharTexts
<1>1. P \in SUBSET Nat /\ IsFiniteSet(P) /\ w = Ascending(P)
  BY <1>0, AlphabetBeforeType
<1> HIDE DEF w
<1>2. /\ n \in Nat /\ w \in Seq(P) /\ Len(w) = n
      /\ \A k \in 1..n : w[k] \in P /\ Rank(P, w[k]) = k
      /\ \A i \in P : Rank(P, i) \in 1..n /\ w[Rank(P, i)] = i
  <2> HIDE DEF P
  <2> QED BY <1>1, AscendingProperties
<1>3. DOMAIN w = 1..n
  BY <1>2, LenProperties
<1>4. v = [k \in 1..n |-> ToValue(call.options, call.input[w[k]])]
  BY <1>3 DEF Sextets
<1>5. \A k \in 1..n : ToValue(call.options, call.input[w[k]]) \in 0..63
  <2> SUFFICES ASSUME NEW k \in 1..n
               PROVE  ToValue(call.options, call.input[w[k]]) \in 0..63
    OBVIOUS
  <2>1. w[k] \in 1..(stop - 1) /\ IsAlphabet(call.options, call.input[w[k]])
    BY <1>2 DEF AlphabetBefore
  <2>2. w[k] \in 1..Len(call.input)
    BY <1>0, <2>1
  <2>3. call.input[w[k]] \in Char
    BY <2>2, ElementOfSeq DEF CharTexts
  <2> QED
    BY <2>1, <2>3, ToValueType DEF IsAlphabet
<1> HIDE DEF v, P, n
<1>6. v \in [1..n -> 0..63]
  BY <1>4, <1>5
<1>7. v \in Seq(0..63) /\ Len(v) = n
  <2>1. n \in Nat
    BY <1>2
  <2> QED
    BY <1>6, <2>1, SeqDef, LenProperties
<1>8. \A k \in 1..n : v[k] = ToValue(call.options, call.input[w[k]])
  BY <1>4
<1>9. Len(w) = n /\ Len(v) \in Nat
  BY <1>2, <1>7
<1> QED
  BY <1>2, <1>7, <1>8, <1>9 DEF v, P, n, w

(* A window of a sequence that grows by one value.                         *)
LEMMA SubSeqGrows ==
  ASSUME NEW S, NEW v \in Seq(S), NEW m \in Nat, NEW n \in Nat,
         1 <= m, m <= n + 1, n + 1 <= Len(v)
  PROVE  SubSeq(v, m, n + 1) = Append(SubSeq(v, m, n), v[n + 1])
<1>1. Len(v) \in Nat
  BY LenProperties
<1>2. m \in 1..Len(v) /\ n + 1 \in m..Len(v) /\ (n + 1) - 1 = n
  BY <1>1
<1>3. SubSeq(v, m, n + 1) = SubSeq(v, m, n) \o <<v[n + 1]>>
  BY <1>2, SubSeqRecursiveSecond
<1>4. v[n + 1] \in S /\ \A i \in m..n : v[i] \in S
  <2>1. n + 1 \in 1..Len(v) /\ \A i \in m..n : i \in 1..Len(v)
    BY <1>1
  <2> QED
    BY <2>1, ElementOfSeq
<1>5. SubSeq(v, m, n) \in Seq(S)
  BY <1>4, SubSeqProperties
<1> QED
  BY <1>3, <1>4, <1>5, AppendIsConcat

(* The q-th group of four, from 0.                                         *)
Quartet(v, q) == SubSeq(v, 4 * q + 1, 4 * q + 4)

LEMMA GroupProperties ==
  ASSUME NEW v \in Seq(0..63), NEW q \in Nat, 4 * q + 4 <= Len(v)
  PROVE  /\ Quartet(v, q) \in Seq(0..63) /\ Len(Quartet(v, q)) = 4
         /\ \A i \in 1..4 : Quartet(v, q)[i] = v[4 * q + i]
         /\ Quartet(v, q) = <<v[4 * q + 1], v[4 * q + 2], v[4 * q + 3], v[4 * q + 4]>>
         /\ ChunkBytes(Quartet(v, q)) \in Seq(0..255) /\ Len(ChunkBytes(Quartet(v, q))) = 3
<1> DEFINE m == 4 * q + 1
           n == 4 * q + 4
<1>1. Len(v) \in Nat
  BY LenProperties
<1>2. m \in Int /\ n \in Int /\ n - m + 1 = 4 /\ m <= n
  OBVIOUS
<1>3. \A i \in m..n : v[i] \in 0..63
  <2>1. \A i \in m..n : i \in 1..Len(v)
    BY <1>1
  <2> QED
    BY <2>1, ElementOfSeq
<1>4. /\ SubSeq(v, m, n) \in Seq(0..63)
      /\ Len(SubSeq(v, m, n)) = 4
      /\ \A i \in 1..4 : SubSeq(v, m, n)[i] = v[m + i - 1]
  <2> HIDE DEF m, n
  <2> QED BY <1>2, <1>3, SubSeqProperties
<1>5. \A i \in 1..4 : Quartet(v, q)[i] = v[4 * q + i]
  <2>1. \A i \in 1..4 : m + i - 1 = 4 * q + i
    OBVIOUS
  <2> QED
    BY <1>4, <2>1 DEF Quartet
<1> DEFINE g == Quartet(v, q)
           t == <<v[4 * q + 1], v[4 * q + 2], v[4 * q + 3], v[4 * q + 4]>>
<1>6. g \in Seq(0..63) /\ Len(g) = 4
  BY <1>4 DEF Quartet
<1>7. g = t
  <2>1. \A i \in 1..4 : v[4 * q + i] \in 0..63
    BY <1>3
  <2>2. v[4 * q + 1] \in 0..63 /\ v[4 * q + 2] \in 0..63 /\ v[4 * q + 3] \in 0..63
        /\ v[4 * q + 4] \in 0..63
    BY <2>1
  <2>3. /\ t \in Seq(0..63) /\ Len(t) = 4 /\ t[1] = v[4 * q + 1] /\ t[2] = v[4 * q + 2]
        /\ t[3] = v[4 * q + 3] /\ t[4] = v[4 * q + 4]
    BY <2>2
  <2>4. g[1] = t[1] /\ g[2] = t[2] /\ g[3] = t[3] /\ g[4] = t[4]
    BY <1>5, <2>3
  <2> HIDE DEF g, t
  <2>5. \A i \in 1..Len(g) : g[i] = t[i]
    <3>1. \A i \in 1..4 : i = 1 \/ i = 2 \/ i = 3 \/ i = 4
      OBVIOUS
    <3> QED
      BY <1>6, <2>4, <3>1
  <2>6. g \in Seq(0..63) /\ t \in Seq(0..63) /\ Len(g) = Len(t)
    BY ONLY <1>6, <2>3
  <2> QED
    BY ONLY <2>5, <2>6, SeqEqual
<1>8. ChunkBytes(g) \in Seq(0..255) /\ Len(ChunkBytes(g)) = 3
  <2> HIDE DEF g
  <2>1. Len(g) \in 2..4
    BY <1>6
  <2>2. ChunkBytes(g) \in Seq(0..255) /\ Len(ChunkBytes(g)) = Len(g) - 1
    BY ONLY <1>6, <2>1, ChunkBytesType
  <2> QED
    BY <1>6, <2>2
<1> QED
  BY <1>5, <1>6, <1>7, <1>8

(* The bytes of the first n groups, one by one.                            *)
LEMMA BytesOfChunksProperties ==
  ASSUME NEW v \in Seq(0..63), NEW n \in Nat, 4 * n <= Len(v)
  PROVE  LET b == BytesOfChunks(SubSeq(v, 1, 4 * n))
         IN  /\ b \in Seq(0..255) /\ Len(b) = 3 * n
             /\ \A i \in 1..(3 * n) :
                  b[i] = ChunkBytes(Quartet(v, (i - 1) \div 3))[((i - 1) % 3) + 1]
<1> DEFINE s    == SubSeq(v, 1, 4 * n)
           b    == BytesOfChunks(s)
           e(i) == ChunkBytes(Quartet(v, (i - 1) \div 3))[((i - 1) % 3) + 1]
<1>0. Len(v) \in Nat
  BY LenProperties
<1>1. s \in Seq(0..63) /\ Len(s) = 4 * n /\ \A i \in 1..(4 * n) : s[i] = v[i]
  <2>1. \A i \in 1..(4 * n) : v[i] \in 0..63
    <3>1. \A i \in 1..(4 * n) : i \in 1..Len(v)
      BY <1>0
    <3> QED
      BY <3>1, ElementOfSeq
  <2>2. /\ s \in Seq(0..63)
        /\ Len(s) = IF 1 <= 4 * n THEN 4 * n - 1 + 1 ELSE 0
        /\ \A i \in 1..(4 * n - 1 + 1) : s[i] = v[1 + i - 1]
    <3> DEFINE m == 4 * n
    <3>1. m \in Int
      OBVIOUS
    <3> HIDE DEF m
    <3>2. /\ SubSeq(v, 1, m) \in Seq(0..63)
          /\ Len(SubSeq(v, 1, m)) = IF 1 <= m THEN m - 1 + 1 ELSE 0
          /\ \A i \in 1..(m - 1 + 1) : SubSeq(v, 1, m)[i] = v[1 + i - 1]
      BY <2>1, <3>1, SubSeqProperties DEF m
    <3> QED
      BY <3>2 DEF m
  <2>3. \A i \in 1..(4 * n) : 1 + i - 1 = i /\ i \in 1..(4 * n - 1 + 1)
    OBVIOUS
  <2>4. Len(s) = 4 * n
    BY <2>2
  <2> QED
    BY <2>2, <2>3, <2>4
<1> HIDE DEF s
<1>2. ASSUME NEW q \in Nat, 4 * q + 4 <= 4 * n
      PROVE  Quartet(s, q) = Quartet(v, q)
  <2>1. 4 * q + 4 <= Len(v) /\ 4 * q + 4 <= Len(s)
    BY <1>0, <1>1, <1>2
  <2>2. /\ 4 * q + 1 \in 1..(4 * n) /\ 4 * q + 2 \in 1..(4 * n)
        /\ 4 * q + 3 \in 1..(4 * n) /\ 4 * q + 4 \in 1..(4 * n)
    BY <1>2
  <2>3. Quartet(s, q) = <<s[4 * q + 1], s[4 * q + 2], s[4 * q + 3], s[4 * q + 4]>>
    BY <1>1, <2>1, GroupProperties
  <2>4. Quartet(v, q) = <<v[4 * q + 1], v[4 * q + 2], v[4 * q + 3], v[4 * q + 4]>>
    BY <2>1, GroupProperties
  <2> QED
    BY <1>1, <2>2, <2>3, <2>4
<1>3. Len(s) \div 4 = n
  <2>1. Len(s) = 4 * n
    BY <1>1
  <2> QED
    BY <2>1
<1>4. ASSUME NEW i \in 1..(3 * n)
      PROVE  /\ (i - 1) \div 3 \in Nat /\ 4 * ((i - 1) \div 3) + 4 <= 4 * n
             /\ ((i - 1) % 3) + 1 \in 1..3
  OBVIOUS
<1>5. b = [i \in 1..(3 * n) |-> e(i)]
  <2>1. b = [i \in 1..(3 * n) |->
               ChunkBytes(Quartet(s, (i - 1) \div 3))[((i - 1) % 3) + 1]]
    BY <1>3 DEF BytesOfChunks, Quartet
  <2>2. \A i \in 1..(3 * n) : Quartet(s, (i - 1) \div 3) = Quartet(v, (i - 1) \div 3)
    BY <1>2, <1>4
  <2> QED
    BY <2>1, <2>2
<1>6. ASSUME NEW i \in 1..(3 * n) PROVE e(i) \in 0..255
  <2> DEFINE q == (i - 1) \div 3
             r == ((i - 1) % 3) + 1
  <2>1. q \in Nat /\ 4 * q + 4 <= Len(v) /\ r \in 1..3
    BY <1>0, <1>4
  <2> HIDE DEF q, r
  <2>2. ChunkBytes(Quartet(v, q)) \in Seq(0..255) /\ Len(ChunkBytes(Quartet(v, q))) = 3
    BY <2>1, GroupProperties
  <2>3. ChunkBytes(Quartet(v, q))[r] \in 0..255
    BY <2>1, <2>2, ElementOfSeq
  <2> QED
    BY <2>3 DEF q, r
<1> HIDE DEF b, e
<1> DEFINE m == 3 * n
<1>7. m \in Nat /\ b = [i \in 1..m |-> e(i)] /\ \A i \in 1..m : e(i) \in 0..255
  BY <1>5, <1>6
<1> HIDE DEF m
<1>8. b \in Seq(0..255) /\ Len(b) = m
  <2>1. b \in [1..m -> 0..255]
    BY <1>7
  <2> QED
    BY <1>7, <2>1, SeqDef, LenProperties
<1>9. \A i \in 1..m : b[i] = e(i)
  BY <1>7
<1> QED
  BY <1>8, <1>9 DEF b, s, e, m

(* One group more is three bytes more.                                     *)
LEMMA BytesOfOneMore ==
  ASSUME NEW v \in Seq(0..63), NEW n \in Nat, 4 * n + 4 <= Len(v)
  PROVE  BytesOfChunks(SubSeq(v, 1, 4 * (n + 1)))
           = BytesOfChunks(SubSeq(v, 1, 4 * n)) \o ChunkBytes(Quartet(v, n))
<1> DEFINE a == BytesOfChunks(SubSeq(v, 1, 4 * n))
           b == BytesOfChunks(SubSeq(v, 1, 4 * (n + 1)))
           c == ChunkBytes(Quartet(v, n))
           e(i) == ChunkBytes(Quartet(v, (i - 1) \div 3))[((i - 1) % 3) + 1]
<1>0. Len(v) \in Nat
  BY LenProperties
<1>1. 4 * n <= Len(v) /\ 4 * (n + 1) <= Len(v)
  BY <1>0
<1>2. a \in Seq(0..255) /\ Len(a) = 3 * n /\ \A i \in 1..(3 * n) : a[i] = e(i)
  BY <1>1, BytesOfChunksProperties
<1>3. /\ b \in Seq(0..255) /\ Len(b) = 3 * (n + 1)
      /\ \A i \in 1..(3 * (n + 1)) : b[i] = e(i)
  <2>1. n + 1 \in Nat
    OBVIOUS
  <2> QED
    BY <1>1, <2>1, BytesOfChunksProperties
<1>4. c \in Seq(0..255) /\ Len(c) = 3
  BY GroupProperties
<1>6. \A i \in 1..(3 * (n + 1)) : ~(i <= 3 * n) =>
        (i - 1) \div 3 = n /\ ((i - 1) % 3) + 1 = i - 3 * n
  OBVIOUS
<1>7. \A i \in 1..(3 * (n + 1)) : ~(i <= 3 * n) => e(i) = c[i - 3 * n]
  BY <1>6
<1> DEFINE m == 3 * n
<1>10. m \in Nat /\ 3 * (n + 1) = m + 3
  OBVIOUS
<1>11. /\ a \in Seq(0..255) /\ Len(a) = m /\ \A i \in 1..m : a[i] = e(i)
       /\ b \in Seq(0..255) /\ Len(b) = m + 3 /\ \A i \in 1..(m + 3) : b[i] = e(i)
       /\ \A i \in 1..(m + 3) : ~(i <= m) => e(i) = c[i - m]
  BY <1>2, <1>3, <1>7, <1>10
<1> HIDE DEF a, b, c, e, m
<1>5. a \in Seq(0..255) /\ c \in Seq(0..255) /\ Len(a) = m /\ Len(c) = 3
  BY <1>4, <1>11
<1>8. /\ a \o c \in Seq(0..255)
      /\ Len(a \o c) = Len(a) + Len(c)
      /\ \A i \in 1..(Len(a) + Len(c)) :
           (a \o c)[i] = IF i <= Len(a) THEN a[i] ELSE c[i - Len(a)]
  BY ONLY <1>5, ConcatProperties
<1>12. a \o c \in Seq(0..255) /\ Len(a \o c) = m + 3
  BY <1>5, <1>8
<1>13. ASSUME NEW i \in 1..(m + 3) PROVE b[i] = (a \o c)[i]
  <2>1. (a \o c)[i] = IF i <= m THEN a[i] ELSE c[i - m]
    BY <1>5, <1>8
  <2>2. i <= m => i \in 1..m
    BY <1>10
  <2> QED
    BY <1>11, <2>1, <2>2
<1>14. b = a \o c
  BY <1>11, <1>12, <1>13, SeqEqual
<1> QED
  BY <1>14 DEF a, b, c

(* What a call reads: the alphabet characters before the stop position, in *)
(* order, each counted by its rank.                                        *)
LEMMA PayloadFacts ==
  ASSUME NEW call, call.input \in CharTexts,
         NEW end, end.srcLen \in Nat, end.srcLen <= Len(call.input)
  PROVE  LET s == StopPosition(call, end)
             P == AlphabetBefore(call, s)
             w == SignificantBefore(call, s)
             v == Sextets(call, w)
         IN  /\ s \in Nat /\ s > 0 /\ s <= end.srcLen + 1
             /\ P \in SUBSET Nat /\ IsFiniteSet(P)
             /\ \A i \in Nat : i \in P <=> /\ 1 <= i /\ i < s
                                          /\ IsAlphabet(call.options, call.input[i])
             /\ v \in Seq(0..63) /\ Len(v) \in Nat /\ Len(w) = Len(v)
             /\ Rank(P, 0) = 0 /\ Rank(P, s - 1) = Len(v)
             /\ \A m \in Nat : Rank(P, m) \in Nat /\ Rank(P, m) <= Len(v)
             /\ \A i \in P : /\ Rank(P, i) \in 1..Len(v)
                            /\ w[Rank(P, i)] = i
                            /\ v[Rank(P, i)] = ToValue(call.options, call.input[i])
             /\ \A k \in 1..Len(v) : w[k] \in P /\ Rank(P, w[k]) = k
<1> DEFINE s == StopPosition(call, end)
           P == AlphabetBefore(call, s)
           w == SignificantBefore(call, s)
           v == Sextets(call, w)
<1>1. s \in 1..(end.srcLen + 1)
  BY StopProperties
<1> HIDE DEF s
<1>2. Len(call.input) \in Nat
  BY LenProperties DEF CharTexts
<1>3. s \in Nat /\ s > 0 /\ s <= end.srcLen + 1 /\ s \in 1..(Len(call.input) + 1)
  BY <1>1, <1>2
<1>4. P \in SUBSET Nat /\ IsFiniteSet(P) /\ Rank(P, 0) = 0
  BY <1>3, AlphabetBeforeType
<1>5. \A i \in Nat : i \in P <=> /\ 1 <= i /\ i < s
                               /\ IsAlphabet(call.options, call.input[i])
  BY <1>3 DEF AlphabetBefore
<1>6. /\ Len(w) = Cardinality(P) /\ Len(v) = Cardinality(P) /\ Len(v) \in Nat
      /\ v \in Seq(0..63)
      /\ \A k \in 1..Len(v) : /\ w[k] \in P /\ Rank(P, w[k]) = k
                              /\ v[k] = ToValue(call.options, call.input[w[k]])
      /\ \A i \in P : Rank(P, i) \in 1..Len(v) /\ w[Rank(P, i)] = i
  BY <1>3, SextetsProperties
<1>7. Rank(P, s - 1) = Len(v)
  <2>1. {j \in P : j <= s - 1} = P
    <3>1. \A j \in P : j <= s - 1
      BY <1>3, <1>4, <1>5
    <3> QED
      BY <3>1
  <2> QED
    BY <1>6, <2>1 DEF Rank
<1>8. \A m \in Nat : Rank(P, m) \in Nat /\ Rank(P, m) <= Len(v)
  <2> SUFFICES ASSUME NEW m \in Nat PROVE Rank(P, m) \in Nat /\ Rank(P, m) <= Len(v)
    OBVIOUS
  <2>1. Len(v) = Cardinality(P) /\ Len(v) \in Nat
    BY <1>6
  <2> HIDE DEF P, v
  <2>2. Rank(P, m) \in 0..Cardinality(P)
    BY <1>4, RankType
  <2> QED
    BY <2>1, <2>2
<1> HIDE DEF P, v, w
<1>9. \A i \in P : v[Rank(P, i)] = ToValue(call.options, call.input[i])
  BY <1>6
<1> QED
  BY <1>3, <1>4, <1>5, <1>6, <1>7, <1>8, <1>9 DEF P, v, w, s

-----------------------------------------------------------------------------
(* What an answer says                                                     *)

(* What a caller makes of the tail decoder's verdict: the bytes written    *)
(* stay, an error stays, and a success becomes a padding error, or is      *)
(* reported at the end of the input or where a partial call stopped.       *)
LEMMA FinishProperties ==
  ASSUME NEW call, NEW end \in EndType, NEW raw \in FullResult,
         raw.error = "Success" => ~ raw.paddingError,
         NEW r, r = Finish(call, end, raw), NEW full, full = end.fullInputLength
  PROVE  /\ r.outputCount = raw.outputCount
         /\ raw.error # "Success" =>
              r.error = raw.error /\ r.paddingError = raw.paddingError
         /\ raw.error # "Success" /\ ~ raw.paddingError => r.inputCount = raw.inputCount
         /\ raw.error = "Success" =>
              \/ r.error = "Success"
              \/ /\ r.error = "InvalidBase64Character"
                 /\ call.entry # "upToBadChar" => r.paddingError
         /\ r.error = "Success" /\ ~ IsPartial(call.lastChunk) => r.inputCount = full
         /\ r.error = "Success" /\ IsPartial(call.lastChunk) =>
              \/ r.inputCount = full
              \/ /\ raw.outputCount % 3 = 0
                 /\ \/ r.inputCount = raw.inputCount
                    \/ /\ raw.inputCount < full
                       /\ r.inputCount = TrimIgnorable(call.input, call.options,
                                                       raw.inputCount, full)
<1> DEFINE count == IF raw.error = "Success"
                       /\ (~ IsPartial(call.lastChunk) \/ raw.outputCount % 3 # 0)
                    THEN full
                    ELSE IF raw.paddingError THEN end.equalLocation ELSE raw.inputCount
           p     == PatchTailResult(raw, end, call.lastChunk)
           trim(c) == TrimIgnorable(call.input, call.options, c, full)
<1>1. /\ p.error = raw.error /\ p.outputCount = raw.outputCount
      /\ p.paddingError = raw.paddingError /\ p.inputCount = count
      /\ DOMAIN p = {"error", "inputCount", "outputCount", "paddingError"}
      /\ full \in Nat /\ raw.inputCount \in Nat
  BY DEF PatchTailResult, FullResult, EndType
<1>2. PaddingMismatch(p, end, call.lastChunk)
        => ~ IsPartial(call.lastChunk) /\ raw.error = "Success"
  BY <1>1 DEF PaddingMismatch
<1>3. CASE call.entry = "upToBadChar"
  <2>1. r = IF PaddingMismatch(p, end, call.lastChunk)
            THEN [p EXCEPT !.error = "InvalidBase64Character"] ELSE p
    BY <1>3 DEF Finish, FinishUpToBadChar
  <2>2. /\ r.outputCount = p.outputCount /\ r.inputCount = p.inputCount
        /\ r.paddingError = p.paddingError
        /\ r.error = IF PaddingMismatch(p, end, call.lastChunk)
                     THEN "InvalidBase64Character" ELSE p.error
    <3> HIDE DEF p
    <3> QED
      BY <1>1, <2>1
  <2> HIDE DEF p
  <2> QED
    BY <1>1, <1>2, <1>3, <2>2
<1>4. CASE call.entry # "upToBadChar"
  <2>1. r = FinishDetails(call, end, raw)
    BY <1>4 DEF Finish
  <2>2. CASE PaddingMismatch(p, end, call.lastChunk) /\ ~ IgnoreGarbage(call.options)
    <3>1. r = [p EXCEPT !.error = "InvalidBase64Character",
                        !.inputCount = end.equalLocation, !.paddingError = TRUE]
      BY <2>1, <2>2 DEF FinishDetails
    <3>2. /\ r.error = "InvalidBase64Character" /\ r.paddingError = TRUE
          /\ r.outputCount = p.outputCount
      <4> HIDE DEF p
      <4> QED
        BY <1>1, <3>1
    <3> HIDE DEF p
    <3> QED
      BY <1>1, <1>2, <2>2, <3>2
  <2>3. CASE /\ ~ (PaddingMismatch(p, end, call.lastChunk) /\ ~ IgnoreGarbage(call.options))
             /\ IsPartial(call.lastChunk) /\ p.error = "Success" /\ p.inputCount < full
    <3>1. r = [p EXCEPT !.inputCount = trim(p.inputCount)]
      BY <2>1, <2>3 DEF FinishDetails
    <3> HIDE DEF p, trim
    <3>2. /\ r.error = p.error /\ r.paddingError = p.paddingError
          /\ r.outputCount = p.outputCount /\ r.inputCount = trim(p.inputCount)
      BY <1>1, <3>1
    <3>3. count # full
      BY <1>1, <2>3
    <3> QED
      BY <1>1, <2>3, <3>2, <3>3 DEF trim
  <2>4. CASE /\ ~ (PaddingMismatch(p, end, call.lastChunk) /\ ~ IgnoreGarbage(call.options))
             /\ ~ (IsPartial(call.lastChunk) /\ p.error = "Success" /\ p.inputCount < full)
    <3>1. r = p
      BY <2>1, <2>4 DEF FinishDetails
    <3> HIDE DEF p
    <3> QED
      BY <1>1, <3>1
  <2> QED
    BY <2>2, <2>3, <2>4
<1> QED
  BY <1>3, <1>4

(* A verdict, and what it supposes of the last chunk.                      *)
LEMMA VerdictProperties ==
  ASSUME NEW last, Len(last) \in 0..3, NEW pads \in 0..2, NEW options, NEW lastChunk,
         NEW room \in Int,
         NEW verdict, verdict = TailVerdict(last, pads, options, lastChunk, room)
  PROVE  LET n == Len(last)
         IN  /\ verdict \in DOMAIN TailErrors
             /\ verdict = "Held" => IsPartial(lastChunk)
             /\ verdict = "NoRoom" => n >= 2 /\ room < n - 1
             /\ verdict = "Decoded" => n >= 2
             /\ verdict = "Decoded" /\ lastChunk = "Strict" /\ ~ IgnoreGarbage(options)
                  => (n + pads) % 4 = 0 /\ ~ HasExtraBits(last)
             /\ verdict = "Nothing" =>
                  /\ n < 2
                  /\ n = 1 => IgnoreGarbage(options) /\ (IsPartial(lastChunk) => pads # 0)
                  /\ n = 0 /\ ~ IgnoreGarbage(options) => pads = 0
<1> DEFINE n       == Len(last)
           garbage == IgnoreGarbage(options)
           partial == IsPartial(lastChunk)
           misfit  == (n + pads) % 4 # 0
           loose   == n >= 2 /\ ~ garbage /\ misfit /\ lastChunk = "Loose" /\ pads > 0
           strict  == n >= 2 /\ ~ garbage /\ misfit /\ lastChunk = "Strict"
           held    == \/ /\ lastChunk = "StopBeforePartial"
                         /\ (n \in {2, 3} /\ n + pads < 4) \/ (n = 1 /\ pads = 0)
                      \/ lastChunk = "OnlyFullChunks" /\ (n >= 2 \/ pads = 0)
           extra   == n >= 2 /\ ~ garbage /\ lastChunk = "Strict" /\ HasExtraBits(last)
           noRoom  == room < n - 1
           lone    == n = 1 /\ ~ garbage /\ (~ partial \/ pads > 0)
           padding == n = 0 /\ ~ garbage /\ pads > 0
<1>1. verdict = IF loose THEN "Misfit"
                ELSE IF strict THEN "StrictMisfit"
                ELSE IF held THEN "Held"
                ELSE IF extra THEN "ExtraBits"
                ELSE IF n >= 2 THEN IF noRoom THEN "NoRoom" ELSE "Decoded"
                ELSE IF lone THEN "Remainder"
                ELSE IF padding THEN "LonePadding"
                ELSE "Nothing"
  BY Zenon DEF TailVerdict
<1>2. held => partial
  BY DEF IsPartial
<1>3. ~ loose /\ ~ strict /\ lastChunk = "Strict" /\ ~ garbage /\ n >= 2 => ~ misfit
  OBVIOUS
<1>4. partial /\ pads = 0 /\ n = 1 => held
  BY DEF IsPartial
<1>5. n = 1 /\ ~ lone => garbage \/ (partial /\ pads = 0)
  OBVIOUS
<1>6. n = 0 /\ ~ padding /\ ~ garbage => pads = 0
  OBVIOUS
<1>7. n \in Nat
  OBVIOUS
<1>8. verdict \in DOMAIN TailErrors
  <2>1. DOMAIN TailErrors = {"Misfit", "StrictMisfit", "Held", "ExtraBits", "NoRoom",
                             "Decoded", "Remainder", "LonePadding", "Nothing"}
    BY DEF TailErrors
  <2> HIDE DEF loose, strict, held, extra, noRoom, lone, padding, n
  <2> QED
    BY <1>1, <2>1
<1>9. verdict = "Held" => held
  <2> HIDE DEF loose, strict, held, extra, noRoom, lone, padding, n
  <2> QED
    BY <1>1
<1>10. verdict = "NoRoom" => n >= 2 /\ noRoom
  <2> HIDE DEF loose, strict, held, extra, noRoom, lone, padding, n
  <2> QED
    BY <1>1
<1>11. verdict = "Decoded" => n >= 2 /\ ~ loose /\ ~ strict /\ ~ extra
  <2> HIDE DEF loose, strict, held, extra, noRoom, lone, padding, n
  <2> QED
    BY <1>1
<1>12. verdict = "Nothing" => ~ (n >= 2) /\ ~ held /\ ~ lone /\ ~ padding
  <2> HIDE DEF loose, strict, held, extra, noRoom, lone, padding, n
  <2> QED
    BY <1>1
<1>13. verdict = "Decoded" /\ lastChunk = "Strict" /\ ~ garbage => ~ misfit /\ ~ HasExtraBits(last)
  BY <1>11
<1>14. ~ (n >= 2) => n < 2
  BY <1>7
<1>15. ~ misfit => (n + pads) % 4 = 0
  OBVIOUS
<1> HIDE DEF loose, strict, held, extra, lone, padding, misfit
<1> QED
  BY <1>2, <1>4, <1>5, <1>6, <1>8, <1>9, <1>10, <1>11, <1>12, <1>13, <1>14, <1>15

Raw(error, count, n, padding) ==
  [error |-> error, inputCount |-> count, outputCount |-> n, paddingError |-> padding]

DecodeAnswers(call, end, raw, bytes) ==
  Decode(call) = [result |-> Finish(call, end, raw), bytes |-> bytes]

(* Where the q-th chunk ends, the bytes of the first q chunks, and whether *)
(* the stop position holds a character that may not be there.              *)
ChunkStart(where, q)     == IF q = 0 THEN 0 ELSE where[4 * q]
WholeChunks(values, q)   == BytesOfChunks(SubSeq(values, 1, 4 * q))
Offender(call, end, stop) == stop <= end.srcLen /\ call.input[stop] # Pad

(* What the tail decoder concludes of a payload, one error path after the   *)
(* other: v are the values up to the stop position s, c the complete       *)
(* chunks among them, raw the verdict and bytes what was written.          *)
Outcome(call, end, s, w, v, c, last, verdict, raw, bytes) ==
  \/ \E q \in Nat :
       /\ q < c /\ call.cap < 3 * q + 3
       /\ raw = Raw("OutputBufferTooSmall", ChunkStart(w, q), 3 * q, FALSE)
       /\ bytes = WholeChunks(v, q)
  \/ /\ Offender(call, end, s)
     /\ raw = Raw("InvalidBase64Character", s - 1, 3 * c, FALSE)
     /\ bytes = WholeChunks(v, c)
  \/ /\ ~ Offender(call, end, s) /\ verdict = "Decoded"
     /\ raw = Raw("Success", s - 1, 3 * c + Len(last) - 1, FALSE)
     /\ bytes = WholeChunks(v, c) \o ChunkBytes(last)
  \/ /\ ~ Offender(call, end, s) /\ verdict # "Decoded"
     /\ raw = Raw(TailErrors[verdict],
                  IF verdict \in {"Held", "NoRoom"} THEN ChunkStart(w, c) ELSE s - 1,
                  3 * c, verdict \in {"Misfit", "StrictMisfit", "LonePadding"})
     /\ bytes = WholeChunks(v, c)

HasOutcome(call, end, s, w, v, c, last, verdict) ==
  \E raw, bytes : /\ DecodeAnswers(call, end, raw, bytes)
                  /\ Outcome(call, end, s, w, v, c, last, verdict, raw, bytes)

LEMMA DecodeCases ==
  ASSUME NEW call, call.cap \in Nat,
         NEW end, end = FindEnd(call.input, call.options), end.srcLen # 0,
         NEW s, s = StopPosition(call, end),
         NEW w, w = SignificantBefore(call, s),
         NEW v, v = Sextets(call, w), Len(v) \in Nat,
         NEW c, c = Len(v) \div 4,
         NEW last, last = SubSeq(v, 4 * c + 1, Len(v)),
         NEW verdict, verdict = TailVerdict(last, end.equalSigns, call.options,
                                            call.lastChunk, call.cap - 3 * c)
  PROVE  HasOutcome(call, end, s, w, v, c, last, verdict)
<1> SUFFICES \E raw, bytes : /\ DecodeAnswers(call, end, raw, bytes)
                             /\ Outcome(call, end, s, w, v, c, last, verdict, raw, bytes)
  BY DEF HasOutcome
<1> DEFINE chunkAt(q) == IF q = 0 THEN 0 ELSE w[4 * q]
           bytes(q)   == BytesOfChunks(SubSeq(v, 1, 4 * q))
           offender   == s <= end.srcLen /\ call.input[s] # Pad
           fit        == IF call.entry # "details" /\ call.cap \div 3 < c
                         THEN call.cap \div 3 ELSE c
           result(r, written) == [result |-> Finish(call, end, r), bytes |-> written]
           S0 == StopPosition(call, end)
           W0 == SignificantBefore(call, S0)
           V0 == Sextets(call, W0)
           C0 == Len(V0) \div 4
           L0 == SubSeq(V0, 4 * C0 + 1, Len(V0))
           D0 == TailVerdict(L0, end.equalSigns, call.options, call.lastChunk, call.cap - 3 * C0)
           F0 == IF call.entry # "details" /\ call.cap \div 3 < C0 THEN call.cap \div 3 ELSE C0
           shape(st, wh, va, ch, la, ve, fi) ==
             IF fi < ch
             THEN result(Raw("OutputBufferTooSmall", IF fi = 0 THEN 0 ELSE wh[4 * fi], 3 * fi,
                             FALSE),
                         BytesOfChunks(SubSeq(va, 1, 4 * fi)))
             ELSE IF st <= end.srcLen /\ call.input[st] # Pad
             THEN result(Raw("InvalidBase64Character", st - 1, 3 * fi, FALSE),
                         BytesOfChunks(SubSeq(va, 1, 4 * fi)))
             ELSE IF ve = "Decoded"
             THEN result(Raw("Success", st - 1, 3 * fi + Len(la) - 1, FALSE),
                         BytesOfChunks(SubSeq(va, 1, 4 * fi)) \o ChunkBytes(la))
             ELSE result(Raw(TailErrors[ve],
                             IF ve \in {"Held", "NoRoom"}
                             THEN (IF fi = 0 THEN 0 ELSE wh[4 * fi]) ELSE st - 1,
                             3 * fi, ve \in {"Misfit", "StrictMisfit", "LonePadding"}),
                         BytesOfChunks(SubSeq(va, 1, 4 * fi)))
<1>1. Decode(call) = DecodePayload(call, end)
  BY DEF Decode
<1>2. Decode(call) = shape(s, w, v, c, last, verdict, fit)
  <2>1. DecodePayload(call, end) = shape(S0, W0, V0, C0, L0, D0, F0)
    BY ONLY Zenon DEF DecodePayload, Raw
  <2>2. S0 = s
    OBVIOUS
  <2> HIDE DEF S0
  <2>3. W0 = w
    BY <2>2
  <2> HIDE DEF W0
  <2>4. V0 = v
    BY <2>3
  <2> HIDE DEF V0
  <2>5. C0 = c
    BY <2>4
  <2> HIDE DEF C0
  <2>6. L0 = last /\ F0 = fit
    BY <2>4, <2>5
  <2> HIDE DEF L0, F0
  <2>7. D0 = verdict
    BY <2>5, <2>6
  <2> HIDE DEF D0, shape, fit
  <2> QED
    BY ONLY <1>1, <2>1, <2>2, <2>3, <2>4, <2>5, <2>6, <2>7, Zenon
<1>3. c \in Nat
  OBVIOUS
<1>4. fit \in Nat /\ (fit < c => call.cap < 3 * fit + 3) /\ (~ (fit < c) => fit = c)
  <2>1. call.cap \div 3 \in Nat /\ call.cap < 3 * (call.cap \div 3) + 3
    OBVIOUS
  <2> QED
    BY <1>3, <2>1
<1>5. \A r, b : Decode(call) = result(r, b) => DecodeAnswers(call, end, r, b)
  BY DEF DecodeAnswers
<1>6. shape(s, w, v, c, last, verdict, fit)
        = IF fit < c
          THEN result(Raw("OutputBufferTooSmall", chunkAt(fit), 3 * fit, FALSE), bytes(fit))
          ELSE IF offender
          THEN result(Raw("InvalidBase64Character", s - 1, 3 * fit, FALSE), bytes(fit))
          ELSE IF verdict = "Decoded"
          THEN result(Raw("Success", s - 1, 3 * fit + Len(last) - 1, FALSE),
                      bytes(fit) \o ChunkBytes(last))
          ELSE result(Raw(TailErrors[verdict],
                          IF verdict \in {"Held", "NoRoom"} THEN chunkAt(fit) ELSE s - 1,
                          3 * fit, verdict \in {"Misfit", "StrictMisfit", "LonePadding"}),
                      bytes(fit))
  BY ONLY Zenon
<1> HIDE DEF bytes, offender, fit, result, shape
<1>7. CASE fit < c
  <2>1. DecodeAnswers(call, end, Raw("OutputBufferTooSmall", chunkAt(fit), 3 * fit, FALSE),
                bytes(fit))
    BY ONLY <1>2, <1>5, <1>6, <1>7
  <2>2. Outcome(call, end, s, w, v, c, last, verdict,
                Raw("OutputBufferTooSmall", chunkAt(fit), 3 * fit, FALSE), bytes(fit))
    BY ONLY <1>4, <1>7, Zenon DEF Outcome, bytes, WholeChunks, ChunkStart
  <2> QED
    BY ONLY <2>1, <2>2, Zenon
<1>8. CASE ~ (fit < c)
  <2>1. fit = c
    BY <1>4, <1>8
  <2>2. offender =>
          DecodeAnswers(call, end, Raw("InvalidBase64Character", s - 1, 3 * c, FALSE), bytes(c))
    BY ONLY <1>2, <1>5, <1>6, <1>8, <2>1
  <2>3. ~ offender /\ verdict = "Decoded" =>
          DecodeAnswers(call, end, Raw("Success", s - 1, 3 * c + Len(last) - 1, FALSE),
                  bytes(c) \o ChunkBytes(last))
    BY ONLY <1>2, <1>5, <1>6, <1>8, <2>1
  <2>4. ~ offender /\ verdict # "Decoded" =>
          DecodeAnswers(call, end,
                  Raw(TailErrors[verdict],
                      IF verdict \in {"Held", "NoRoom"} THEN chunkAt(c) ELSE s - 1,
                      3 * c, verdict \in {"Misfit", "StrictMisfit", "LonePadding"}),
                  bytes(c))
    BY ONLY <1>2, <1>5, <1>6, <1>8, <2>1
  <2>5. /\ chunkAt(c) = ChunkStart(w, c) /\ bytes(c) = WholeChunks(v, c)
        /\ offender <=> Offender(call, end, s)
    BY ONLY Zenon DEF bytes, offender, Offender, WholeChunks, ChunkStart
  <2> HIDE DEF chunkAt
  <2>6. CASE offender
    BY ONLY <2>2, <2>5, <2>6, Zenon DEF Outcome
  <2>7. CASE ~ offender /\ verdict = "Decoded"
    BY ONLY <2>3, <2>5, <2>7, Zenon DEF Outcome
  <2>8. CASE ~ offender /\ verdict # "Decoded"
    BY ONLY <2>4, <2>5, <2>8, Zenon DEF Outcome
  <2> QED
    BY ONLY <2>6, <2>7, <2>8, Zenon
<1> QED
  BY ONLY <1>7, <1>8, Zenon

(* The characters a call that stops early reports consumed hold as many    *)
(* values whether or not the ignorable ones after them are counted.        *)
LEMMA TrimKeepsValues ==
  ASSUME NEW call, call.input \in CharTexts, NEW full \in 0..Len(call.input), NEW count \in Nat,
         count < full,
         NEW k, k = TrimIgnorable(call.input, call.options, count, full), k # full
  PROVE  SignificantBefore(call, k + 1) = SignificantBefore(call, count + 1)
<1> DEFINE skip    == {c \in Char : IsIgnorable(call.options, c)}
           forward == FirstNotIn(call.input, count, full, skip)
<1>1. \A c \in skip : ~ IsAlphabet(call.options, c)
  BY DEF IsIgnorable
<1>2. k = IF forward < full THEN LastNotIn(call.input, forward, skip) ELSE full
  BY DEF TrimIgnorable
<1> HIDE DEF skip, forward
<1>3. full \in Nat /\ Len(call.input) \in Nat /\ count \in 0..full
  BY LenProperties DEF CharTexts
<1>4. forward \in count..full /\ \A j \in (count + 1)..forward : call.input[j] \in skip
  BY <1>3, FirstNotInProperties DEF forward
<1>5. forward \in Nat /\ forward \in 0..Len(call.input) /\ k = LastNotIn(call.input, forward, skip)
  BY <1>2, <1>3, <1>4
<1>6. k \in 0..forward /\ \A j \in (k + 1)..forward : call.input[j] \in skip
  BY <1>5, LastNotInProperties
<1>7. ASSUME NEW a \in Nat, a <= forward, \A j \in (a + 1)..forward : call.input[j] \in skip
      PROVE  {i \in 1..((a + 1) - 1) : IsAlphabet(call.options, call.input[i])}
               = {i \in 1..((forward + 1) - 1) : IsAlphabet(call.options, call.input[i])}
  <2>1. \A i \in 1..forward : i \in 1..a \/ i \in (a + 1)..forward
    BY <1>5, <1>7
  <2>2. \A i \in 1..forward : IsAlphabet(call.options, call.input[i]) => i \in 1..a
    BY <1>1, <1>7, <2>1
  <2>3. \A i \in 1..a : i \in 1..forward
    BY <1>5, <1>7
  <2>4. (a + 1) - 1 = a /\ (forward + 1) - 1 = forward
    BY <1>5
  <2> QED
    BY <2>2, <2>3, <2>4
<1>8. k \in Nat /\ k <= forward /\ count <= forward
  BY <1>3, <1>4, <1>5, <1>6
<1> QED
  BY <1>4, <1>6, <1>7, <1>8 DEF SignificantBefore

-----------------------------------------------------------------------------
(* BinaryLengthFromBase64                                                  *)

(* Positions outside a set do not count.                                   *)
LEMMA RankSkips ==
  ASSUME NEW P \in SUBSET Nat, NEW m \in Nat, NEW n \in Nat, m <= n,
         \A j \in (m + 1)..n : j \notin P
  PROVE  Rank(P, n) = Rank(P, m)
<1>1. \A j \in P : j <= n <=> j <= m
  <2>1. \A j \in Nat : j <= n <=> j <= m \/ j \in (m + 1)..n
    OBVIOUS
  <2>2. P \in SUBSET Nat /\ \A j \in (m + 1)..n : j \notin P
    OBVIOUS
  <2> QED
    BY ONLY <2>1, <2>2
<1>2. {j \in P : j <= n} = {j \in P : j <= m}
  BY ONLY <1>1, Zenon
<1> QED
  BY <1>2 DEF Rank

(* When garbage is refused, the padding BinaryLengthFromBase64 discounts   *)
(* is the padding FindEnd strips: the length announced is that of the      *)
(* visible characters of the payload.                                      *)
LEMMA BinaryLengthOfPayload ==
  ASSUME NEW input \in CharTexts, NEW options, ~ IgnoreGarbage(options),
         NEW P, P = {i \in 1..Len(input) : input[i] # Space},
         NEW e, e = FindEnd(input, options)
  PROVE  BinaryLength(input) = (3 * Rank(P, e.srcLen)) \div 4
<1> DEFINE n     == Len(input)
           n0    == LastNotIn(input, n, {Space})
           n1    == LastNotIn(input, n0 - 1, {Space})
           where == Ascending(P)
           L     == Cardinality(P)
           vis   == [k \in DOMAIN where |-> input[where[k]]]
           pads  == TrailingPads(vis)
           mark(signs, loc, len, full) ==
             [equalSigns |-> signs, equalLocation |-> loc,
              srcLen |-> len, fullInputLength |-> full]
<1>1. n \in Nat /\ \A i \in 1..n : input[i] \in Char
  BY LenProperties, ElementOfSeq DEF CharTexts
<1>2. P \in SUBSET Nat /\ P \in SUBSET (1..n) /\ \A i \in 1..n : i \in P <=> input[i] # Space
  BY <1>1
<1>3. IsFiniteSet(P)
  <2>1. IsFiniteSet(1..n)
    BY FS_Interval
  <2> HIDE DEF n
  <2> QED
    BY ONLY <1>2, <2>1, FS_Subset
<1>4. BinaryLength(input) = (3 * (Len(vis) - pads)) \div 4
  BY DEF BinaryLength
<1>5. e = IF n0 = 0 \/ input[n0] # Pad THEN mark(0, n0, n0, n)
          ELSE IF n1 = 0 \/ input[n1] # Pad THEN mark(1, n0 - 1, n1, n)
          ELSE mark(2, n1 - 1, n1 - 1, n)
  BY DEF FindEnd
<1>6. n0 \in 0..n /\ (n0 = 0 \/ input[n0] # Space) /\ \A j \in (n0 + 1)..n : input[j] = Space
  <2>1. n \in 0..Len(input)
    BY <1>1
  <2> QED
    BY <2>1, LastNotInProperties
<1>7. n0 # 0 => /\ n1 \in 0..(n0 - 1) /\ (n1 = 0 \/ input[n1] # Space)
                /\ \A j \in (n1 + 1)..(n0 - 1) : input[j] = Space
  <2>1. n0 # 0 => n0 - 1 \in 0..Len(input)
    BY <1>1, <1>6
  <2> HIDE DEF n0
  <2> QED
    BY <2>1, LastNotInProperties
<1>8. /\ L \in Nat /\ where \in Seq(P) /\ Len(where) = L
      /\ \A i \in P : Rank(P, i) \in 1..L /\ where[Rank(P, i)] = i
      /\ \A k \in 1..L : where[k] \in P
  BY <1>2, <1>3, AscendingProperties
<1>9. DOMAIN where = 1..L
  BY <1>8, LenProperties
<1>10. Len(vis) = L /\ \A k \in 1..L : vis[k] = input[where[k]]
  <2> HIDE DEF where, L
  <2>1. vis = [k \in 1..L |-> input[where[k]]]
    BY <1>9
  <2>2. \A k \in 1..L : input[where[k]] \in Char
    BY <1>1, <1>2, <1>8
  <2> HIDE DEF vis
  <2>3. vis \in [1..L -> Char]
    BY <2>1, <2>2
  <2>4. Len(vis) = L
    BY <1>8, <2>3, SeqDef, LenProperties
  <2> QED
    BY <2>1, <2>4
<1>11. pads = IF L = 0 \/ vis[L] # Pad THEN 0
              ELSE IF L > 1 /\ vis[L - 1] = Pad THEN 2 ELSE 1
  <2> HIDE DEF vis, L
  <2> QED
    BY <1>10 DEF TrailingPads
<1>12. \A i \in P : vis[Rank(P, i)] = input[i]
  BY <1>8, <1>10
<1> HIDE DEF n, n0, n1, where, L, vis, pads
<1>13. Rank(P, 0) = 0
  <2>1. {j \in P : j <= 0} = {}
    BY <1>2
  <2> QED
    BY <2>1, FS_EmptySet DEF Rank
<1>14. Rank(P, n) = L
  <2>1. {j \in P : j <= n} = P
    BY <1>1, <1>2
  <2> QED
    BY <2>1 DEF Rank, L
<1>15. Rank(P, n0) = L
  <2>1. \A j \in (n0 + 1)..n : j \notin P
    <3>1. \A j \in (n0 + 1)..n : j \in 1..n
      BY <1>1, <1>6
    <3> QED
      BY <1>2, <1>6, <3>1
  <2>2. n0 \in Nat /\ n0 <= n
    BY <1>1, <1>6
  <2> QED
    BY <1>1, <1>2, <1>14, <2>1, <2>2, RankSkips
<1>16. n0 = 0 => L = 0
  BY <1>13, <1>15
<1>17. n0 # 0 => n0 \in P /\ L \in 1..L /\ vis[L] = input[n0] /\ Rank(P, n0 - 1) = L - 1
  <2> SUFFICES ASSUME n0 # 0
               PROVE  n0 \in P /\ L \in 1..L /\ vis[L] = input[n0] /\ Rank(P, n0 - 1) = L - 1
    OBVIOUS
  <2>1. n0 \in P
    BY <1>1, <1>2, <1>6
  <2>2. n0 - 1 \in Int /\ (n0 - 1) + 1 = n0
    BY <1>1, <1>6
  <2>3. Rank(P, n0) = Rank(P, n0 - 1) + 1
    BY <1>2, <1>3, <2>1, <2>2, RankStep
  <2>4. Rank(P, n0 - 1) \in Int
    BY <1>2, <1>3, <2>2, RankType, FS_CardinalityType
  <2>5. L \in 1..L /\ vis[L] = input[n0]
    BY <1>8, <1>12, <1>15, <2>1
  <2> QED
    BY <1>8, <1>15, <2>1, <2>3, <2>4, <2>5
<1>18. n0 # 0 => Rank(P, n1) = L - 1
  <2> SUFFICES ASSUME n0 # 0 PROVE Rank(P, n1) = L - 1
    OBVIOUS
  <2>1. n1 \in Nat /\ n0 - 1 \in Nat /\ n1 <= n0 - 1 /\ n0 - 1 <= n
    BY <1>1, <1>6, <1>7
  <2>2. \A j \in (n1 + 1)..(n0 - 1) : j \notin P
    <3>1. \A j \in (n1 + 1)..(n0 - 1) : j \in 1..n
      BY <1>1, <2>1
    <3> QED
      BY <1>2, <1>7, <3>1
  <2>3. Rank(P, n0 - 1) = Rank(P, n1)
    BY <1>2, <2>1, <2>2, RankSkips
  <2> QED
    BY <1>17, <2>3
<1>19. n0 # 0 /\ n1 = 0 => L = 1
  BY <1>8, <1>13, <1>18
<1>20. n0 # 0 /\ n1 # 0 => /\ L > 1 /\ vis[L - 1] = input[n1]
                           /\ Rank(P, n1 - 1) = L - 2
  <2> SUFFICES ASSUME n0 # 0, n1 # 0
               PROVE  L > 1 /\ vis[L - 1] = input[n1] /\ Rank(P, n1 - 1) = L - 2
    OBVIOUS
  <2>0. n1 \in 1..n
    BY <1>1, <1>6, <1>7
  <2>1. n1 \in P
    BY <1>2, <1>7, <2>0
  <2>2. n1 - 1 \in Int /\ (n1 - 1) + 1 = n1
    BY <1>1, <2>0
  <2>3. Rank(P, n1) = Rank(P, n1 - 1) + 1
    BY <1>2, <1>3, <2>1, <2>2, RankStep
  <2>4. Rank(P, n1 - 1) \in Int
    BY <1>2, <1>3, <2>2, RankType, FS_CardinalityType
  <2>5. L - 1 \in 1..L /\ vis[L - 1] = input[n1]
    BY <1>8, <1>12, <1>18, <2>1
  <2>6. \A l, r \in Int : l - 1 \in 1..l /\ l - 1 = r + 1 => l > 1 /\ r = l - 2
    OBVIOUS
  <2>7. L \in Int
    BY <1>8
  <2> QED
    BY ONLY <1>18, n0 # 0, <2>3, <2>4, <2>5, <2>6, <2>7
<1>21. L - pads = Rank(P, e.srcLen)
  <2>1. CASE n0 = 0 \/ input[n0] # Pad
    <3>1. e.srcLen = n0
      BY <1>5, <2>1
    <3>2. pads = 0
      BY <1>11, <1>16, <1>17, <2>1
    <3> QED
      BY <1>8, <1>15, <3>1, <3>2
  <2>2. CASE ~ (n0 = 0 \/ input[n0] # Pad) /\ (n1 = 0 \/ input[n1] # Pad)
    <3>1. e.srcLen = n1
      BY <1>5, <2>2
    <3>2. pads = 1
      BY <1>8, <1>11, <1>17, <1>19, <1>20, <2>2
    <3> QED
      BY <1>8, <1>18, <2>2, <3>1, <3>2
  <2>3. CASE ~ (n0 = 0 \/ input[n0] # Pad) /\ ~ (n1 = 0 \/ input[n1] # Pad)
    <3>1. e.srcLen = n1 - 1
      BY <1>5, <2>3
    <3>2. pads = 2
      BY <1>8, <1>11, <1>17, <1>20, <2>3
    <3> QED
      BY <1>8, <1>20, <2>3, <3>1, <3>2
  <2> QED
    BY <2>1, <2>2, <2>3
<1> QED
  BY <1>4, <1>10, <1>21

-----------------------------------------------------------------------------
(* What the bytes of a chunk say of its values                             *)

(* The bytes of a chunk, one by one.                                       *)
LEMMA ChunkByteByByte ==
  ASSUME NEW s \in Seq(0..63), Len(s) \in 2..4
  PROVE  /\ ChunkBytes(s)[1] = s[1] * 4 + s[2] \div 16
         /\ Len(s) > 2 => ChunkBytes(s)[2] = (s[2] % 16) * 16 + s[3] \div 4
         /\ Len(s) > 3 => ChunkBytes(s)[3] = (s[3] % 4) * 64 + s[4]
<1> DEFINE x == s[1] * 4 + s[2] \div 16
           y == IF Len(s) > 2 THEN (s[2] % 16) * 16 + s[3] \div 4 ELSE 0
           z == IF Len(s) > 3 THEN (s[3] % 4) * 64 + s[4] ELSE 0
           t == <<x, y, z>>
           n == Len(s)
<1>1. ChunkBytes(s) = SubSeq(t, 1, n - 1)
  BY DEF ChunkBytes
<1>2. t[1] = x /\ t[2] = y /\ t[3] = z
  OBVIOUS
<1>3. \A i \in 1..n : s[i] \in 0..63
  BY ElementOfSeq
<1>4. n \in 2..4 /\ n \in Nat
  OBVIOUS
<1>5. s[1] \in 0..63 /\ s[2] \in 0..63 /\ (n > 2 => s[3] \in 0..63) /\ (n > 3 => s[4] \in 0..63)
  <2>1. 1 \in 1..n /\ 2 \in 1..n /\ (n > 2 => 3 \in 1..n) /\ (n > 3 => 4 \in 1..n)
    <3> HIDE DEF n
    <3> QED
      BY ONLY <1>4
  <2> HIDE DEF n
  <2> QED
    BY <1>3, <2>1
<1>6. x \in 0..255 /\ y \in 0..255 /\ z \in 0..255
  <2>1. x \in 0..255
    BY ONLY <1>5, ByteArithmetic
  <2>2. y \in 0..255
    <3>1. CASE n > 2
      BY ONLY <1>5, <3>1, ByteArithmetic
    <3>2. CASE ~ (n > 2)
      BY ONLY <3>2
    <3> QED
      BY <3>1, <3>2
  <2>3. z \in 0..255
    <3>1. CASE n > 3
      <4>1. s[3] \in 0..63 /\ s[4] \in 0..63
        BY <1>4, <1>5, <3>1
      <4>2. z = (s[3] % 4) * 64 + s[4]
        BY <3>1
      <4>3. (s[3] % 4) * 64 + s[4] \in 0..255
        <5>1. \A p, q \in 0..63 : (p % 4) * 64 + q \in 0..255
          BY ByteArithmetic
        <5> QED
          BY ONLY <4>1, <5>1
      <4> HIDE DEF z
      <4> QED
        BY ONLY <4>2, <4>3
    <3>2. CASE ~ (n > 3)
      BY ONLY <3>2
    <3> QED
      BY <3>1, <3>2
  <2> QED
    BY ONLY <2>1, <2>2, <2>3
<1> HIDE DEF x, y, z, t, n
<1>7. \A i \in 1..(n - 1) : t[i] \in 0..255
  <2>1. \A i \in 1..(n - 1) : i = 1 \/ i = 2 \/ i = 3
    BY <1>4
  <2> QED
    BY <1>2, <1>6, <2>1
<1>8. Len(SubSeq(t, 1, n - 1)) = n - 1 /\ \A i \in 1..(n - 1) : SubSeq(t, 1, n - 1)[i] = t[1 + i - 1]
  <2>1. 1 \in Int /\ n - 1 \in Int /\ 1 <= n - 1
    BY <1>4
  <2>2. (n - 1) - 1 + 1 = n - 1
    BY <1>4
  <2> QED
    BY <1>7, <2>1, <2>2, SubSeqProperties
<1>9. \A i \in 1..(n - 1) : SubSeq(t, 1, n - 1)[i] = t[i]
  <2>1. \A i \in 1..(n - 1) : 1 + i - 1 = i
    BY <1>4
  <2> QED
    BY <1>8, <2>1
<1>10. 1 \in 1..(n - 1) /\ (n > 2 => 2 \in 1..(n - 1)) /\ (n > 3 => 3 \in 1..(n - 1))
  BY <1>4
<1>11. /\ ChunkBytes(s)[1] = x /\ (n > 2 => ChunkBytes(s)[2] = y)
       /\ n > 3 => ChunkBytes(s)[3] = z
  <2> DEFINE u == ChunkBytes(s)
  <2>1. \A i \in 1..(n - 1) : u[i] = t[i]
    BY ONLY <1>1, <1>9
  <2> HIDE DEF u
  <2>2. u[1] = x /\ (n > 2 => u[2] = y) /\ (n > 3 => u[3] = z)
    BY ONLY <1>2, <1>10, <2>1
  <2> QED
    BY <2>2 DEF u
<1> QED
  BY <1>11 DEF x, y, z, n

(* The values a, b, c and d are what the bytes x, y and z split into.      *)
Splits(a, b, c, d, x, y, z) ==
  /\ a = x \div 4
  /\ b = (x % 4) * 16 + y \div 16
  /\ c = (y % 16) * 4 + z \div 64
  /\ d = z % 64

LEMMA BytesSplit ==
  ASSUME NEW a \in 0..63, NEW b \in 0..63, NEW c \in 0..63, NEW d \in 0..63,
         NEW x, x = a * 4 + b \div 16,
         NEW y, y = (b % 16) * 16 + c \div 4,
         NEW z, z = (c % 4) * 64 + d
  PROVE  Splits(a, b, c, d, x, y, z)
<1>1. /\ b \div 16 \in 0..3 /\ b % 16 \in 0..15 /\ b = 16 * (b \div 16) + (b % 16)
      /\ c \div 4 \in 0..15 /\ c % 4 \in 0..3 /\ c = 4 * (c \div 4) + (c % 4)
  OBVIOUS
<1>2. \A h \in 0..3 : (a * 4 + h) \div 4 = a /\ (a * 4 + h) % 4 = h
  OBVIOUS
<1>3. \A l, h \in 0..15 : (l * 16 + h) \div 16 = l /\ (l * 16 + h) % 16 = h
  OBVIOUS
<1>4. \A l \in 0..3 : (l * 64 + d) \div 64 = l /\ (l * 64 + d) % 64 = d
  OBVIOUS
<1>5. x \div 4 = a /\ x % 4 = b \div 16
  BY <1>1, <1>2
<1>6. y \div 16 = b % 16 /\ y % 16 = c \div 4
  BY <1>1, <1>3
<1>7. z \div 64 = c % 4 /\ z % 64 = d
  BY <1>1, <1>4
<1>8. a = x \div 4
  BY <1>5
<1>9. b = (x % 4) * 16 + y \div 16
  BY ONLY <1>1, <1>5, <1>6
<1>10. c = (y % 16) * 4 + z \div 64
  BY ONLY <1>1, <1>6, <1>7
<1>11. d = z % 64
  BY <1>7
<1> QED
  BY ONLY <1>8, <1>9, <1>10, <1>11 DEF Splits

-----------------------------------------------------------------------------
(* Texts that show values *)

(* d shows the values v, then p '=', the k-th at at[k]: the rest of it is  *)
(* whitespace, and none ends it.                                           *)
Shows(d, options, v, p, at) ==
  /\ at \in [1..(Len(v) + p) -> 1..Len(d)]
  /\ \A j, k \in 1..(Len(v) + p) : j < k => at[j] < at[k]
  /\ \A j \in 1..Len(v) : ToValue(options, d[at[j]]) = v[j]
  /\ \A j \in (Len(v) + 1)..(Len(v) + p) : d[at[j]] = Pad
  /\ \A k \in 1..Len(d) : d[k] = Space \/ \E j \in 1..(Len(v) + p) : at[j] = k
  /\ at[Len(v) + p] = Len(d)

LEMMA ShownFacts ==
  ASSUME NEW d \in CharTexts, NEW options, NEW v \in Seq(0..63), Len(v) >= 1,
         NEW p \in 0..2, NEW at, Shows(d, options, v, p, at)
  PROVE  /\ Len(d) \in Nat /\ Len(v) \in Nat
         /\ \A j \in 1..(Len(v) + p) : at[j] \in 1..Len(d) /\ d[at[j]] # Space
         /\ \A j \in 1..Len(v) : d[at[j]] # Pad /\ IsAlphabet(options, d[at[j]])
         /\ \A j \in 1..(Len(v) + p - 1), k \in 1..Len(d) :
              at[j] < k /\ k < at[j + 1] => d[k] = Space
         /\ \A k \in 1..Len(d) : k < at[1] => d[k] = Space
<1>1. Len(d) \in Nat /\ Len(v) \in Nat
  BY LenProperties DEF CharTexts
<1>2. /\ \A j \in 1..(Len(v) + p) : at[j] \in 1..Len(d)
      /\ \A j, k \in 1..(Len(v) + p) : j < k => at[j] < at[k]
      /\ \A k \in 1..Len(d) : d[k] = Space \/ \E j \in 1..(Len(v) + p) : at[j] = k
  BY DEF Shows
<1>3. \A j \in 1..Len(v) : ToValue(options, d[at[j]]) \in 0..63
  <2>1. \A j \in 1..Len(v) : v[j] \in 0..63
    BY ElementOfSeq
  <2>2. \A j \in 1..Len(v) : ToValue(options, d[at[j]]) = v[j]
    BY DEF Shows
  <2> QED
    BY ONLY <2>1, <2>2
<1>4. ~ (ToValue(options, Space) \in 0..63) /\ ~ (ToValue(options, Pad) \in 0..63)
  BY DEF ToValue, Space, Pad, Dash, Underscore
<1>5. \A j \in 1..Len(v) : d[at[j]] # Pad /\ d[at[j]] # Space
                           /\ IsAlphabet(options, d[at[j]])
  <2>1. \A x \in 0..63 : x <= 63
    OBVIOUS
  <2> QED
    BY ONLY <1>3, <1>4, <2>1 DEF IsAlphabet
<1>6. \A j \in 1..(Len(v) + p) : d[at[j]] # Space
  <2>1. Pad # Space
    BY DEF Pad, Space
  <2>2. \A j \in 1..(Len(v) + p) : j \in 1..Len(v) \/ j \in (Len(v) + 1)..(Len(v) + p)
    BY <1>1
  <2>3. \A j \in (Len(v) + 1)..(Len(v) + p) : d[at[j]] = Pad
    BY DEF Shows
  <2> QED
    BY ONLY <1>5, <2>1, <2>2, <2>3
<1>7. ASSUME NEW j \in 1..(Len(v) + p - 1), NEW k \in 1..Len(d), at[j] < k, k < at[j + 1]
      PROVE  d[k] = Space
  <2> SUFFICES ASSUME NEW h \in 1..(Len(v) + p), at[h] = k PROVE FALSE
    BY <1>2
  <2>1. j \in 1..(Len(v) + p) /\ j + 1 \in 1..(Len(v) + p)
    BY <1>1
  <2>2. h <= j \/ j + 1 <= h
    BY <1>1
  <2>3. at[h] \in Int /\ at[j] \in Int /\ at[j + 1] \in Int
    BY <1>2, <2>1
  <2>4. (h < j => at[h] < at[j]) /\ (j + 1 < h => at[j + 1] < at[h])
    BY <1>2, <2>1
  <2>5. (h <= j => at[h] <= at[j]) /\ (j + 1 <= h => at[j + 1] <= at[h])
    BY <1>1, <2>1, <2>3, <2>4
  <2> QED
    BY <1>7, <2>2, <2>3, <2>5
<1>8. ASSUME NEW k \in 1..Len(d), k < at[1] PROVE d[k] = Space
  <2> SUFFICES ASSUME NEW h \in 1..(Len(v) + p), at[h] = k PROVE FALSE
    BY <1>2
  <2>1. 1 \in 1..(Len(v) + p)
    BY <1>1
  <2>2. h = 1 \/ 1 < h
    BY <1>1
  <2>3. at[h] \in Int /\ at[1] \in Int
    BY <1>2, <2>1
  <2>4. 1 < h => at[1] < at[h]
    BY <1>2, <2>1
  <2> QED
    BY <1>8, <2>2, <2>3, <2>4
<1> QED
  BY <1>1, <1>2, <1>5, <1>6, <1>7, <1>8

(* Its payload ends after its last value, and what follows is no value.    *)
EndShown(d, options, v, p, at, e) ==
  /\ e.srcLen \in at[Len(v)]..Len(d)
  /\ \A k \in (at[Len(v)] + 1)..e.srcLen : d[k] = Space
  /\ ~ IgnoreGarbage(options) => e.equalSigns = p /\ e.fullInputLength = Len(d)
  /\ IgnoreGarbage(options) =>
       /\ e.equalSigns = IF p = 0 THEN 0 ELSE 1
       /\ \A k \in (e.fullInputLength + 1)..Len(d) : d[k] \in {Pad, Space}

(* Delimiting such a text strips its padding and nothing of its values.    *)
LEMMA ShownEnd ==
  ASSUME NEW d \in CharTexts, NEW options, NEW v \in Seq(0..63), Len(v) >= 1,
         NEW p \in 0..2, NEW at, Shows(d, options, v, p, at),
         NEW e, e = FindEnd(d, options)
  PROVE  EndShown(d, options, v, p, at, e)
<1> DEFINE n     == Len(d)
           L     == Len(v)
           n0    == LastNotIn(d, n, {Space})
           n1    == LastNotIn(d, n0 - 1, {Space})
           first == FirstNotIn(d, 0, n, Char \ {Pad})
           mark(signs, loc, len, full) ==
             [equalSigns |-> signs, equalLocation |-> loc,
              srcLen |-> len, fullInputLength |-> full]
<1>1. /\ n \in Nat /\ L \in Nat /\ L >= 1
      /\ \A j \in 1..(L + p) : at[j] \in 1..n /\ d[at[j]] # Space
      /\ \A j \in 1..L : d[at[j]] # Pad
      /\ \A j \in 1..(L + p - 1), k \in 1..n : at[j] < k /\ k < at[j + 1] => d[k] = Space
  <2> HIDE DEF n, L, n0, n1, first, mark
  <2>1. /\ Len(d) \in Nat /\ Len(v) \in Nat
        /\ \A j \in 1..(Len(v) + p) : at[j] \in 1..Len(d) /\ d[at[j]] # Space
        /\ \A j \in 1..Len(v) : d[at[j]] # Pad /\ IsAlphabet(options, d[at[j]])
        /\ \A j \in 1..(Len(v) + p - 1), k \in 1..Len(d) :
             at[j] < k /\ k < at[j + 1] => d[k] = Space
        /\ \A k \in 1..Len(d) : k < at[1] => d[k] = Space
    BY ONLY d \in CharTexts, v \in Seq(0..63), Len(v) >= 1, p \in 0..2,
            Shows(d, options, v, p, at), ShownFacts
  <2> QED
    BY ONLY <2>1, Len(v) >= 1 DEF n, L
<1>2. /\ \A j \in (L + 1)..(L + p) : d[at[j]] = Pad
      /\ \A k \in 1..n : d[k] = Space \/ \E j \in 1..(L + p) : at[j] = k
      /\ \A j, k \in 1..(L + p) : j < k => at[j] < at[k]
      /\ at[L + p] = n
  BY DEF Shows
<1>3. \A k \in 1..n : d[k] \in Char
  BY ElementOfSeq DEF CharTexts
<1>4. e = IF IgnoreGarbage(options)
          THEN IF first < n THEN mark(1, first, first, first + 1) ELSE mark(0, n, n, n)
          ELSE IF n0 = 0 \/ d[n0] # Pad THEN mark(0, n0, n0, n)
          ELSE IF n1 = 0 \/ d[n1] # Pad THEN mark(1, n0 - 1, n1, n)
          ELSE mark(2, n1 - 1, n1 - 1, n)
  BY DEF FindEnd
<1>5. n0 \in 0..n /\ (n0 = 0 \/ d[n0] # Space) /\ \A j \in (n0 + 1)..n : d[j] = Space
  <2>1. n \in 0..Len(d)
    BY <1>1
  <2> QED
    BY <2>1, LastNotInProperties
<1>6. n0 # 0 => /\ n1 \in 0..(n0 - 1) /\ (n1 = 0 \/ d[n1] # Space)
                /\ \A j \in (n1 + 1)..(n0 - 1) : d[j] = Space
  <2>1. n0 # 0 => n0 - 1 \in 0..Len(d)
    BY <1>1, <1>5
  <2> HIDE DEF n0
  <2> QED
    BY <2>1, LastNotInProperties
<1>7. /\ first \in 0..n /\ (first = n \/ d[first + 1] \notin Char \ {Pad})
      /\ \A j \in 1..first : d[j] # Pad
  <2>1. n \in 0..Len(d) /\ 0 \in 0..n /\ 0 + 1 = 1
    BY <1>1
  <2>2. /\ first \in 0..n /\ (first = n \/ d[first + 1] \notin Char \ {Pad})
        /\ \A j \in (0 + 1)..first : d[j] \in Char \ {Pad}
    BY ONLY <2>1, d \in CharTexts, FirstNotInProperties
  <2> QED
    BY ONLY <2>1, <2>2
<1> HIDE DEF n, L, n0, n1, first
<1>8. L \in 1..(L + p) /\ L + p \in 1..(L + p) /\ n \in 1..n /\ n # 0 /\ L + 0 = L
  <2>1. L \in 1..(L + p) /\ L + p \in 1..(L + p) /\ L + 0 = L
    BY <1>1
  <2>2. at[L + p] \in 1..n
    BY <1>1, <2>1
  <2> QED
    BY <1>1, <1>2, <2>1, <2>2
<1>9. n0 = n /\ n0 # 0
  <2>1. d[n] # Space
    BY <1>1, <1>2, <1>8
  <2>2. ~ (n \in (n0 + 1)..n)
    BY <1>5, <2>1
  <2> QED
    BY <1>1, <1>5, <1>8, <2>2
<1>10. ASSUME NEW m \in Nat, 0 < m, m < n, d[m] # Space, \A k \in 1..n : m < k /\ k < n => d[k] = Space
       PROVE  n1 = m
  <2>1. n1 \in 0..(n - 1) /\ (n1 = 0 \/ d[n1] # Space) /\ \A j \in (n1 + 1)..(n - 1) : d[j] = Space
    BY <1>6, <1>9
  <2>2. ~ (m \in (n1 + 1)..(n - 1))
    BY <1>10, <2>1
  <2>3. ~ (m < n1)
    <3>1. SUFFICES ASSUME m < n1 PROVE FALSE
      OBVIOUS
    <3>2. n1 \in 1..n /\ n1 < n /\ n1 # 0
      BY <1>1, <2>1, <3>1
    <3> QED
      BY <1>10, <2>1, <3>1, <3>2
  <2> QED
    BY <1>1, <1>10, <2>1, <2>2, <2>3
<1>11. CASE p = 0
  <2>1. at[L] = n /\ d[n] # Pad
    BY <1>1, <1>2, <1>8, <1>11
  <2>2. first = n
    <3> SUFFICES ASSUME first # n PROVE FALSE
      OBVIOUS
    <3>1. first + 1 \in 1..n
      BY <1>1, <1>7
    <3>2. d[first + 1] = Pad
      BY <1>3, <1>7, <3>1
    <3>3. PICK j \in 1..(L + p) : at[j] = first + 1
      BY <1>2, <3>1, <3>2 DEF Pad, Space
    <3>4. j \in 1..L
      BY <1>1, <1>11, <3>3
    <3> QED
      BY <1>1, <3>2, <3>3, <3>4
  <2>3. ~ (first < n)
    BY <1>1, <2>2
  <2>4. e = mark(0, n, n, n)
    BY <1>4, <1>9, <2>1, <2>3
  <2>5. e.srcLen = n /\ e.equalSigns = 0 /\ e.fullInputLength = n
    BY ONLY <2>4
  <2>6. n \in n..n /\ ~ (\E k \in (n + 1)..n : TRUE)
    BY <1>1
  <2> QED
    BY ONLY <1>11, <2>1, <2>5, <2>6 DEF EndShown, n, L
<1>12. CASE p # 0
  <2>1. /\ L + 1 \in (L + 1)..(L + p) /\ L + 1 \in 1..(L + p) /\ L \in 1..(L + p - 1)
        /\ L + p \in (L + 1)..(L + p) /\ L < L + 1
    BY <1>1, <1>12
  <2>2. /\ d[at[L + 1]] = Pad /\ d[n] = Pad /\ at[L] < at[L + 1]
        /\ at[L] \in 1..n /\ at[L + 1] \in 1..n
        /\ \A k \in 1..n : at[L] < k /\ k < at[L + 1] => d[k] = Space
    BY <1>1, <1>2, <1>8, <2>1
  <2>3. CASE IgnoreGarbage(options)
    <3>1. first + 1 = at[L + 1]
      <4>1. ~ (at[L + 1] \in 1..first)
        BY <1>7, <2>2
      <4>2. first < at[L + 1]
        BY <1>1, <1>7, <2>2, <4>1
      <4>3. first < n /\ first # n /\ first + 1 \in 1..n
        BY <1>1, <1>7, <2>2, <4>2
      <4>4. d[first + 1] = Pad
        BY <1>3, <1>7, <4>3
      <4>5. PICK j \in 1..(L + p) : at[j] = first + 1
        BY <1>2, <4>3, <4>4 DEF Pad, Space
      <4>6. j \notin 1..L
        BY <1>1, <4>4, <4>5
      <4>7. j = L + 1 \/ L + 1 < j
        BY <1>1, <4>6
      <4>8. L + 1 < j => at[L + 1] < at[j]
        BY <1>2, <2>1
      <4> QED
        BY <1>7, <2>2, <4>2, <4>5, <4>7, <4>8
    <3>2. first < n
      BY <1>1, <1>7, <2>2, <3>1
    <3>3. e.srcLen = first /\ e.equalSigns = 1 /\ e.fullInputLength = at[L + 1]
      <4>1. e = mark(1, first, first, first + 1)
        BY <1>4, <2>3, <3>2
      <4> QED
        BY ONLY <3>1, <4>1
    <3>4. first \in at[L]..n /\ \A k \in (at[L] + 1)..first : k \in 1..n /\ at[L] < k /\ k < at[L + 1]
      BY <1>1, <1>7, <2>2, <3>1, <3>2
    <3>5. ASSUME NEW k \in (at[L + 1] + 1)..n PROVE d[k] \in {Pad, Space}
      <4>1. k \in 1..n /\ at[L + 1] < k
        BY <1>1, <2>2
      <4>2. ASSUME NEW j \in 1..(L + p), at[j] = k PROVE d[k] = Pad
        <5>1. ~ (j <= L + 1)
          <6>1. j < L + 1 => at[j] < at[L + 1]
            BY <1>2, <2>1
          <6>2. at[j] \in Int /\ at[L + 1] \in Int
            BY <1>1, <2>2
          <6> QED
            BY <1>1, <2>2, <4>1, <4>2, <6>1, <6>2
        <5>2. j \in (L + 1)..(L + p)
          BY <1>1, <5>1
        <5> QED
          BY <1>2, <4>2, <5>2
      <4> QED
        BY <1>2, <4>1, <4>2
    <3> QED
      BY ONLY <1>12, <2>2, <2>3, <3>3, <3>4, <3>5 DEF EndShown, n, L
  <2>4. CASE ~ IgnoreGarbage(options) /\ p = 1
    <3>1. at[L + 1] = n
      BY <1>2, <2>4
    <3>2. n1 = at[L]
      BY <1>1, <1>8, <1>10, <2>2, <3>1
    <3>3. d[n1] # Pad
      BY <1>1, <1>8, <3>2
    <3>4. e = mark(1, n0 - 1, n1, n)
      BY <1>4, <1>9, <2>2, <2>4, <3>3
    <3>5. e.srcLen = at[L] /\ e.equalSigns = 1 /\ e.fullInputLength = n
      BY ONLY <3>2, <3>4
    <3>6. at[L] \in at[L]..n /\ ~ (\E k \in (at[L] + 1)..at[L] : TRUE)
      BY <1>1, <2>2
    <3> QED
      BY ONLY <2>4, <3>5, <3>6 DEF EndShown, n, L
  <2>5. CASE ~ IgnoreGarbage(options) /\ p = 2
    <3>1. /\ at[L + 2] = n /\ L + 2 \in 1..(L + p) /\ L + 1 \in 1..(L + p - 1)
          /\ L + 1 < L + 2 /\ (L + 1) + 1 = L + 2
      BY <1>1, <1>2, <2>5
    <3>2. /\ at[L + 1] < n
          /\ \A k \in 1..n : at[L + 1] < k /\ k < n => d[k] = Space
      BY <1>1, <1>2, <2>1, <3>1
    <3>3. n1 = at[L + 1]
      BY <1>1, <1>10, <2>1, <2>2, <3>2
    <3>4. n1 # 0 /\ d[n1] = Pad
      BY <2>2, <3>3
    <3>5. e = mark(2, n1 - 1, n1 - 1, n)
      BY <1>4, <1>9, <2>2, <2>5, <3>4
    <3>6. e.srcLen = at[L + 1] - 1 /\ e.equalSigns = 2 /\ e.fullInputLength = n
      BY ONLY <3>3, <3>5
    <3>7. /\ at[L + 1] - 1 \in at[L]..n
          /\ \A k \in (at[L] + 1)..(at[L + 1] - 1) : k \in 1..n /\ at[L] < k /\ k < at[L + 1]
      BY <1>1, <2>2
    <3> QED
      BY ONLY <2>2, <2>5, <3>6, <3>7 DEF EndShown, n, L
  <2> QED
    BY <1>12, <2>3, <2>4, <2>5
<1> QED
  BY <1>11, <1>12

(* What it is read as are the values it shows.                             *)
LEMMA ShownValues ==
  ASSUME NEW call, call.input \in CharTexts, NEW v \in Seq(0..63), Len(v) >= 1,
         NEW p \in 0..2, NEW at, Shows(call.input, call.options, v, p, at),
         NEW end, end.srcLen \in at[Len(v)]..Len(call.input),
         \A k \in (at[Len(v)] + 1)..end.srcLen : call.input[k] = Space
  PROVE  /\ StopPosition(call, end) = end.srcLen + 1
         /\ Sextets(call, SignificantBefore(call, StopPosition(call, end))) = v
<1> DEFINE d == call.input
           options == call.options
           n == Len(d)
           L == Len(v)
           s == StopPosition(call, end)
           P == AlphabetBefore(call, s)
           w == SignificantBefore(call, s)
           u == Sextets(call, w)
           m == end.srcLen
<1>1. /\ n \in Nat /\ L \in Nat /\ L >= 1
      /\ \A j \in 1..(L + p) : at[j] \in 1..n /\ d[at[j]] # Space
      /\ \A j \in 1..L : d[at[j]] # Pad /\ IsAlphabet(options, d[at[j]])
      /\ \A j \in 1..(L + p - 1), k \in 1..n : at[j] < k /\ k < at[j + 1] => d[k] = Space
      /\ \A k \in 1..n : k < at[1] => d[k] = Space
  <2>1. d \in CharTexts /\ Shows(d, options, v, p, at)
    OBVIOUS
  <2> HIDE DEF d, options, s, P, w, u
  <2>2. /\ Len(d) \in Nat /\ Len(v) \in Nat
        /\ \A j \in 1..(Len(v) + p) : at[j] \in 1..Len(d) /\ d[at[j]] # Space
        /\ \A j \in 1..Len(v) : d[at[j]] # Pad /\ IsAlphabet(options, d[at[j]])
        /\ \A j \in 1..(Len(v) + p - 1), k \in 1..Len(d) :
             at[j] < k /\ k < at[j + 1] => d[k] = Space
        /\ \A k \in 1..Len(d) : k < at[1] => d[k] = Space
    BY ONLY <2>1, v \in Seq(0..63), Len(v) >= 1, p \in 0..2, ShownFacts
  <2> QED
    BY ONLY <2>2, Len(v) >= 1
<1>2. /\ \A k \in 1..n : d[k] = Space \/ \E j \in 1..(L + p) : at[j] = k
      /\ \A j, k \in 1..(L + p) : j < k => at[j] < at[k]
      /\ \A j \in 1..L : ToValue(options, d[at[j]]) = v[j]
  BY DEF Shows
<1>3. m \in at[L]..n /\ at[L] \in 1..n /\ m \in Nat /\ m <= n
      /\ \A k \in (at[L] + 1)..m : d[k] = Space
  <2>1. L \in 1..(L + p)
    BY <1>1
  <2>2. at[L] \in 1..n
    BY <1>1, <2>1
  <2> QED
    BY <1>1, <2>2
<1>4. /\ s \in 1..(m + 1)
      /\ s <= m => ~ IsAlphabet(options, d[s]) /\ ~ IsIgnorable(options, d[s])
  BY <1>3, StopProperties
<1>5. /\ P \in SUBSET Nat
      /\ \A i \in Nat : i \in P <=> 1 <= i /\ i < s /\ IsAlphabet(options, d[i])
      /\ u \in Seq(0..63) /\ Len(u) \in Nat
      /\ Rank(P, 0) = 0 /\ Rank(P, s - 1) = Len(u)
      /\ IsFiniteSet(P)
      /\ \A i \in P : u[Rank(P, i)] = ToValue(options, d[i])
  <2>1. call.input \in CharTexts /\ end.srcLen \in Nat /\ end.srcLen <= Len(call.input)
    BY <1>3
  <2>2. /\ P \in SUBSET Nat /\ IsFiniteSet(P)
        /\ \A i \in Nat : i \in P <=> /\ 1 <= i /\ i < s
                                     /\ IsAlphabet(call.options, call.input[i])
        /\ u \in Seq(0..63) /\ Len(u) \in Nat
        /\ Rank(P, 0) = 0 /\ Rank(P, s - 1) = Len(u)
        /\ \A i \in P : u[Rank(P, i)] = ToValue(call.options, call.input[i])
    BY ONLY <2>1, PayloadFacts
  <2> HIDE DEF s, P, w, u
  <2> QED
    BY ONLY <2>2 DEF d, options
<1> HIDE DEF d, options, n, L, s, P, w, u, m
<1>6. ~ IsAlphabet(options, Space) /\ IsIgnorable(options, Space)
  BY DEF IsAlphabet, IsIgnorable, IsSpace, ToValue, Space, Dash, Underscore
<1>7. ASSUME NEW k \in 1..m
      PROVE  d[k] = Space \/ \E j \in 1..L : at[j] = k
  <2>1. k \in 1..n
    BY <1>1, <1>3
  <2> SUFFICES ASSUME d[k] # Space PROVE \E j \in 1..L : at[j] = k
    OBVIOUS
  <2>2. PICK j \in 1..(L + p) : at[j] = k
    BY <1>2, <2>1
  <2>3. ~ (L < j)
    <3> SUFFICES ASSUME L < j PROVE FALSE
      OBVIOUS
    <3>1. L \in 1..(L + p)
      BY <1>1
    <3>2. at[L] < k
      BY <1>2, <2>2, <3>1
    <3>3. k \in (at[L] + 1)..m
      BY <1>3, <3>2
    <3> QED
      BY <1>3, <3>3
  <2> QED
    BY <1>1, <2>2, <2>3
<1>8. s = m + 1
  <2> SUFFICES ASSUME s <= m PROVE FALSE
    BY <1>3, <1>4
  <2>1. s \in 1..m
    BY <1>3, <1>4
  <2> QED
    BY <1>1, <1>4, <1>6, <1>7, <2>1
<1>9. \A j \in 1..L : at[j] \in P /\ at[j] \in 1..n
  <2> SUFFICES ASSUME NEW j \in 1..L PROVE at[j] \in P /\ at[j] \in 1..n
    OBVIOUS
  <2>1. j \in 1..(L + p) /\ L \in 1..(L + p) /\ (j = L \/ j < L)
    BY <1>1
  <2>2. at[j] \in 1..n /\ at[L] \in 1..n /\ (j < L => at[j] < at[L])
    BY <1>1, <1>2, <2>1
  <2>3. at[j] <= at[L]
    BY <2>1, <2>2
  <2>4. at[j] \in Nat /\ 1 <= at[j] /\ at[j] < s
    BY <1>3, <1>8, <2>2, <2>3
  <2> QED
    BY <1>1, <1>5, <2>2, <2>4
<1>10. \A k \in 1..m : d[k] = Space => k \notin P
  <2>1. \A k \in 1..m : k \in Nat
    OBVIOUS
  <2> QED
    BY <1>5, <1>6, <2>1
<1> DEFINE Missing == {j \in 1..L : Rank(P, at[j]) # j}
<1>11. Missing = {}
  <2> SUFFICES ASSUME Missing # {} PROVE FALSE
    OBVIOUS
  <2>1. PICK j \in Missing : \A k \in Missing : j <= k
    <3>1. Missing \in SUBSET Nat
      BY <1>1
    <3> HIDE DEF Missing
    <3> QED
      BY <3>1, LeastOf
  <2>2. j \in 1..L /\ Rank(P, at[j]) # j
    BY <2>1
  <2>3. at[j] \in P /\ at[j] \in 1..n /\ at[j] \in Nat /\ at[j] <= m
    <3>1. at[j] \in P /\ at[j] \in 1..n
      BY <1>9, <2>2
    <3> QED
      BY <1>3, <1>5, <1>8, <3>1
  <2>4. Rank(P, at[j] - 1) = j - 1
    <3>1. CASE j = 1
      <4>1. \A k \in (0 + 1)..(at[j] - 1) : k \in 1..m /\ k \in 1..n /\ k < at[1]
        <5>1. at[j] \in Nat /\ at[j] <= m /\ m \in Nat /\ m <= n /\ n \in Nat
          BY <1>1, <1>3, <2>3
        <5> QED
          BY ONLY <3>1, <5>1
      <4>2. \A k \in (0 + 1)..(at[j] - 1) : k \notin P
        BY <1>1, <1>10, <4>1
      <4>3. 0 \in Nat /\ at[j] - 1 \in Nat /\ 0 <= at[j] - 1
        BY <2>3
      <4>4. Rank(P, at[j] - 1) = Rank(P, 0)
        BY ONLY <1>5, <4>2, <4>3, RankSkips
      <4> QED
        BY <1>5, <3>1, <4>4
    <3>2. CASE j # 1
      <4>1. /\ j - 1 \in 1..L /\ j - 1 \in 1..(L + p - 1) /\ j - 1 \in 1..(L + p)
            /\ j \in 1..(L + p) /\ j - 1 < j /\ (j - 1) + 1 = j /\ ~ (j <= j - 1)
        BY <1>1, <2>2, <3>2
      <4>2. Rank(P, at[j - 1]) = j - 1
        BY <2>1, <4>1
      <4>3. at[j - 1] \in 1..n /\ at[j - 1] < at[j]
        BY <1>1, <1>2, <4>1
      <4>4. /\ at[j - 1] \in Nat /\ at[j] - 1 \in Nat /\ at[j - 1] <= at[j] - 1
            /\ \A k \in (at[j - 1] + 1)..(at[j] - 1) :
                 k \in 1..m /\ k \in 1..n /\ at[j - 1] < k /\ k < at[j]
        <5>1. at[j] \in Nat /\ at[j] <= m /\ m \in Nat /\ m <= n /\ n \in Nat
          BY <1>1, <1>3, <2>3
        <5> QED
          BY ONLY <4>3, <5>1
      <4>5. \A k \in (at[j - 1] + 1)..(at[j] - 1) : k \notin P
        BY <1>1, <1>10, <4>1, <4>4
      <4>6. Rank(P, at[j] - 1) = Rank(P, at[j - 1])
        BY ONLY <1>5, <4>4, <4>5, RankSkips
      <4> QED
        BY <4>2, <4>6
    <3> QED
      BY <3>1, <3>2
  <2>5. Rank(P, (at[j] - 1) + 1) = Rank(P, at[j] - 1) + 1
    <3>1. at[j] - 1 \in Int /\ (at[j] - 1) + 1 \in P
      BY <2>3
    <3> QED
      BY <1>5, <3>1, RankStep
  <2>6. (at[j] - 1) + 1 = at[j] /\ (j - 1) + 1 = j
    BY <2>2, <2>3
  <2> QED
    BY <2>2, <2>4, <2>5, <2>6
<1>12. \A j \in 1..L : Rank(P, at[j]) = j
  BY <1>11
<1>13. Len(u) = L
  <2>1. L \in 1..L
    BY <1>1
  <2>2. \A k \in (at[L] + 1)..m : k \in 1..m
    BY <1>3
  <2>3. \A k \in (at[L] + 1)..m : k \notin P
    BY <1>3, <1>10, <2>2
  <2>4. at[L] \in Nat /\ m \in Nat /\ at[L] <= m /\ s - 1 = m
    BY <1>3, <1>8
  <2>5. Rank(P, m) = Rank(P, at[L])
    BY ONLY <1>5, <2>3, <2>4, RankSkips
  <2> QED
    BY <1>5, <1>12, <2>1, <2>4, <2>5
<1>14. \A j \in 1..L : u[j] = v[j]
  BY <1>2, <1>5, <1>9, <1>12
<1>15. u = v
  BY <1>5, <1>13, <1>14, v \in Seq(0..63), SeqEqual DEF L
<1> QED
  BY <1>8, <1>15 DEF s, m, u, w

-----------------------------------------------------------------------------
(* Canonical encodings *)

ByteOf(b, k) == IF k <= Len(b) THEN b[k] ELSE 0

(* The i-th value of the canonical encoding, when it is in the group of    *)
(* the bytes k + 1 to k + 3.                                               *)
Canonical(b, i) ==
  LET k == 3 * ((i - 1) \div 4)
  IN  CASE i % 4 = 1 -> ByteOf(b, k + 1) \div 4
        [] i % 4 = 2 -> (ByteOf(b, k + 1) % 4) * 16 + ByteOf(b, k + 2) \div 16
        [] i % 4 = 3 -> (ByteOf(b, k + 2) % 16) * 4 + ByteOf(b, k + 3) \div 64
        [] i % 4 = 0 -> ByteOf(b, k + 3) % 64

LEMMA CanonicalAt ==
  ASSUME NEW b, NEW q \in Nat
  PROVE  Splits(Canonical(b, 4 * q + 1), Canonical(b, 4 * q + 2),
                Canonical(b, 4 * q + 3), Canonical(b, 4 * q + 4),
                ByteOf(b, 3 * q + 1), ByteOf(b, 3 * q + 2), ByteOf(b, 3 * q + 3))
<1>1. \A i \in 1..4 : (4 * q + i - 1) \div 4 = q
  OBVIOUS
<1>2. /\ (4 * q + 1) % 4 = 1 /\ (4 * q + 2) % 4 = 2
      /\ (4 * q + 3) % 4 = 3 /\ (4 * q + 4) % 4 = 0
  OBVIOUS
<1>3. /\ (4 * q + 1 - 1) \div 4 = q /\ (4 * q + 2 - 1) \div 4 = q
      /\ (4 * q + 3 - 1) \div 4 = q /\ (4 * q + 4 - 1) \div 4 = q
  BY <1>1
<1> DEFINE x == ByteOf(b, 3 * q + 1)
           y == ByteOf(b, 3 * q + 2)
           z == ByteOf(b, 3 * q + 3)
<1>4. Canonical(b, 4 * q + 1) = x \div 4
  BY ONLY <1>2, <1>3 DEF Canonical
<1>5. Canonical(b, 4 * q + 2) = (x % 4) * 16 + y \div 16
  BY ONLY <1>2, <1>3 DEF Canonical
<1>6. Canonical(b, 4 * q + 3) = (y % 16) * 4 + z \div 64
  BY ONLY <1>2, <1>3 DEF Canonical
<1>7. Canonical(b, 4 * q + 4) = z % 64
  BY ONLY <1>2, <1>3 DEF Canonical
<1> HIDE DEF x, y, z
<1>8. Splits(Canonical(b, 4 * q + 1), Canonical(b, 4 * q + 2),
             Canonical(b, 4 * q + 3), Canonical(b, 4 * q + 4), x, y, z)
  BY ONLY <1>4, <1>5, <1>6, <1>7 DEF Splits
<1> QED
  BY <1>8 DEF x, y, z

(* The bytes the values join into; a byte of zero leaves no bit of them.   *)
Rejoins(a, b, c, d, x, y, z) ==
  /\ x = a * 4 + b \div 16
  /\ y = (b % 16) * 16 + c \div 4
  /\ z = (c % 4) * 64 + d
  /\ y = 0 => b % 16 = 0
  /\ z = 0 => c % 4 = 0

(* Bytes split into values and joined again.                               *)
LEMMA BytesRejoin ==
  ASSUME NEW x \in 0..255, NEW y \in 0..255, NEW z \in 0..255,
         NEW a, NEW b, NEW c, NEW d, Splits(a, b, c, d, x, y, z)
  PROVE  Rejoins(a, b, c, d, x, y, z)
<1>1. /\ a = x \div 4 /\ b = (x % 4) * 16 + y \div 16
      /\ c = (y % 16) * 4 + z \div 64 /\ d = z % 64
  BY DEF Splits
<1>2. /\ x = 4 * (x \div 4) + (x % 4) /\ x % 4 \in 0..3
      /\ y = 16 * (y \div 16) + (y % 16) /\ y % 16 \in 0..15 /\ y \div 16 \in 0..15
      /\ z = 64 * (z \div 64) + (z % 64) /\ z \div 64 \in 0..3
  OBVIOUS
<1>3. \A h \in 0..3, l \in 0..15 : (h * 16 + l) \div 16 = h /\ (h * 16 + l) % 16 = l
  OBVIOUS
<1>4. \A h \in 0..15, l \in 0..3 : (h * 4 + l) \div 4 = h /\ (h * 4 + l) % 4 = l
  OBVIOUS
<1>5. b \div 16 = x % 4 /\ b % 16 = y \div 16
  BY ONLY <1>1, <1>2, <1>3
<1>6. c \div 4 = y % 16 /\ c % 4 = z \div 64
  BY ONLY <1>1, <1>2, <1>4
<1>7. x = a * 4 + b \div 16
  BY ONLY <1>1, <1>2, <1>5, x \in 0..255
<1>8. y = (b % 16) * 16 + c \div 4
  BY ONLY <1>2, <1>5, <1>6, y \in 0..255
<1>9. z = (c % 4) * 64 + d
  BY ONLY <1>1, <1>2, <1>6, z \in 0..255
<1>10. y = 0 => b % 16 = 0
  BY ONLY <1>2, <1>5, y \in 0..255
<1>11. z = 0 => c % 4 = 0
  BY ONLY <1>2, <1>6, z \in 0..255
<1> QED
  BY ONLY <1>7, <1>8, <1>9, <1>10, <1>11 DEF Rejoins

LEMMA SameBytes ==
  \A s, t \in Seq(0..255) : Len(s) = Len(t) /\ (\A i \in 1..Len(s) : s[i] = t[i]) => s = t
<1> SUFFICES ASSUME NEW s \in Seq(0..255), NEW t \in Seq(0..255),
                    Len(s) = Len(t), \A i \in 1..Len(s) : s[i] = t[i]
             PROVE  s = t
  OBVIOUS
<1> QED
  BY SeqEqual

(* v are the values of the encoding of b, in c groups and a rest of r.     *)
Encodes(v, b, c, r) ==
  /\ Len(b) = 3 * c + r
  /\ Len(v) = 4 * c + (IF r = 0 THEN 0 ELSE r + 1)
  /\ \A j \in 1..Len(v) : v[j] = Canonical(b, j)

(* The values regain the bytes: whole chunks, then one of the rest.        *)
Regains(b, v, c, r, last) ==
  /\ last \in Seq(0..63) /\ Len(last) = IF r = 0 THEN 0 ELSE r + 1
  /\ r # 0 => ~ HasExtraBits(last)
  /\ b = IF r = 0 THEN WholeChunks(v, c) ELSE WholeChunks(v, c) \o ChunkBytes(last)

LEMMA EncodedBytes ==
  ASSUME NEW b \in Seq(0..255), NEW v \in Seq(0..63), NEW c \in Nat, NEW r \in 0..2,
         Encodes(v, b, c, r), NEW last, last = SubSeq(v, 4 * c + 1, Len(v))
  PROVE  Regains(b, v, c, r, last)
<1> DEFINE n == IF r = 0 THEN 0 ELSE r + 1
           W == WholeChunks(v, c)
           T == ChunkBytes(last)
           V(q) == Splits(Canonical(b, 4 * q + 1), Canonical(b, 4 * q + 2),
                          Canonical(b, 4 * q + 3), Canonical(b, 4 * q + 4),
                          ByteOf(b, 3 * q + 1), ByteOf(b, 3 * q + 2), ByteOf(b, 3 * q + 3))
<1>1. /\ Len(b) = 3 * c + r /\ Len(v) = 4 * c + n /\ n \in 0..3 /\ n # 1
      /\ \A j \in 1..(4 * c + n) : v[j] = Canonical(b, j) /\ v[j] \in 0..63
  <2>1. Len(b) = 3 * c + r /\ Len(v) = 4 * c + n /\ \A j \in 1..Len(v) : v[j] = Canonical(b, j)
    BY ONLY Encodes(v, b, c, r) DEF Encodes
  <2>2. \A j \in 1..Len(v) : v[j] \in 0..63
    BY ElementOfSeq
  <2>3. n \in 0..3 /\ n # 1
    OBVIOUS
  <2> HIDE DEF n
  <2> QED
    BY ONLY <2>1, <2>2, <2>3
<1>2. /\ W \in Seq(0..255) /\ Len(W) = 3 * c
      /\ \A i \in 1..(3 * c) :
           W[i] = ChunkBytes(Quartet(v, (i - 1) \div 3))[((i - 1) % 3) + 1]
  <2>1. 4 * c <= Len(v)
    BY <1>1
  <2> QED
    BY <2>1, BytesOfChunksProperties DEF WholeChunks
<1>3. last \in Seq(0..63) /\ Len(last) = n /\ \A i \in 1..n : last[i] = v[4 * c + i]
  <2>1. /\ 4 * c + 1 \in Int /\ Len(v) \in Int
        /\ \A k \in (4 * c + 1)..Len(v) : v[k] \in 0..63
    BY <1>1
  <2>2. /\ last \in Seq(0..63)
        /\ Len(last) = IF 4 * c + 1 <= Len(v) THEN Len(v) - (4 * c + 1) + 1 ELSE 0
        /\ \A i \in 1..(Len(v) - (4 * c + 1) + 1) : last[i] = v[4 * c + 1 + i - 1]
    BY <2>1, SubSeqProperties
  <2> HIDE DEF n
  <2>3. Len(last) = n /\ Len(v) - (4 * c + 1) + 1 = n
    BY <1>1, <2>2
  <2>4. \A i \in 1..n : 4 * c + 1 + i - 1 = 4 * c + i
    BY <1>1
  <2> QED
    BY <2>2, <2>3, <2>4
<1>4. \A q \in Nat : V(q)
  BY CanonicalAt
<1>5. \A k \in Nat : ByteOf(b, k) \in 0..255 \/ k = 0
  <2> SUFFICES ASSUME NEW k \in Nat, k # 0 PROVE ByteOf(b, k) \in 0..255
    OBVIOUS
  <2>1. k <= Len(b) => k \in 1..Len(b)
    BY <1>1
  <2>2. k <= Len(b) => b[k] \in 0..255
    BY <2>1, ElementOfSeq
  <2>3. 0 \in 0..255
    OBVIOUS
  <2> QED
    BY ONLY <2>2, <2>3 DEF ByteOf
<1>6. ASSUME NEW q \in Nat
      PROVE  /\ ByteOf(b, 3 * q + 1) = Canonical(b, 4 * q + 1) * 4 + Canonical(b, 4 * q + 2) \div 16
             /\ ByteOf(b, 3 * q + 2) = (Canonical(b, 4 * q + 2) % 16) * 16
                                         + Canonical(b, 4 * q + 3) \div 4
             /\ ByteOf(b, 3 * q + 3) = (Canonical(b, 4 * q + 3) % 4) * 64 + Canonical(b, 4 * q + 4)
             /\ ByteOf(b, 3 * q + 2) = 0 => Canonical(b, 4 * q + 2) % 16 = 0
             /\ ByteOf(b, 3 * q + 3) = 0 => Canonical(b, 4 * q + 3) % 4 = 0
  <2>1. /\ ByteOf(b, 3 * q + 1) \in 0..255 /\ ByteOf(b, 3 * q + 2) \in 0..255
        /\ ByteOf(b, 3 * q + 3) \in 0..255
    <3>1. /\ 3 * q + 1 \in Nat /\ 3 * q + 2 \in Nat /\ 3 * q + 3 \in Nat
          /\ 3 * q + 1 # 0 /\ 3 * q + 2 # 0 /\ 3 * q + 3 # 0
      OBVIOUS
    <3> QED
      BY ONLY <1>5, <3>1
  <2>2. Splits(Canonical(b, 4 * q + 1), Canonical(b, 4 * q + 2),
               Canonical(b, 4 * q + 3), Canonical(b, 4 * q + 4),
               ByteOf(b, 3 * q + 1), ByteOf(b, 3 * q + 2), ByteOf(b, 3 * q + 3))
    BY <1>4
  <2> DEFINE x == ByteOf(b, 3 * q + 1)
             y == ByteOf(b, 3 * q + 2)
             z == ByteOf(b, 3 * q + 3)
             v1 == Canonical(b, 4 * q + 1)
             v2 == Canonical(b, 4 * q + 2)
             v3 == Canonical(b, 4 * q + 3)
             v4 == Canonical(b, 4 * q + 4)
  <2>3. x \in 0..255 /\ y \in 0..255 /\ z \in 0..255 /\ Splits(v1, v2, v3, v4, x, y, z)
    BY ONLY <2>1, <2>2
  <2> HIDE DEF x, y, z, v1, v2, v3, v4
  <2>4. Rejoins(v1, v2, v3, v4, x, y, z)
    BY ONLY <2>3, BytesRejoin
  <2> QED
    BY ONLY <2>4 DEF Rejoins, x, y, z, v1, v2, v3, v4
<1> HIDE DEF n, W, T, V
<1>7. ASSUME NEW i \in 1..(3 * c) PROVE W[i] = b[i]
  <2> DEFINE q == (i - 1) \div 3
             g == Quartet(v, q)
  <2>1. /\ q \in Nat /\ q < c /\ 4 * q + 4 <= 4 * c
        /\ \/ i = 3 * q + 1 /\ (i - 1) % 3 = 0
           \/ i = 3 * q + 2 /\ (i - 1) % 3 = 1
           \/ i = 3 * q + 3 /\ (i - 1) % 3 = 2
    <3>1. q \in Nat /\ i = 3 * q + ((i - 1) % 3) + 1 /\ (i - 1) % 3 \in 0..2
      <4>1. \A a \in Nat : a \div 3 \in Nat /\ a % 3 \in 0..2 /\ a = 3 * (a \div 3) + (a % 3)
        OBVIOUS
      <4>2. i - 1 \in Nat /\ i \in Nat
        OBVIOUS
      <4>3. q \in Nat /\ (i - 1) % 3 \in 0..2 /\ i - 1 = 3 * q + ((i - 1) % 3)
        BY ONLY <4>1, <4>2
      <4> HIDE DEF q
      <4> QED
        BY <4>2, <4>3
    <3>2. (i - 1) % 3 = 0 \/ (i - 1) % 3 = 1 \/ (i - 1) % 3 = 2
      BY <3>1
    <3> HIDE DEF q
    <3>3. q < c
      BY <3>1, <3>2
    <3>4. 4 * q + 4 <= 4 * c
      BY <3>1, <3>3
    <3>5. 0 + 1 = 1 /\ 1 + 1 = 2 /\ 2 + 1 = 3 /\ \A x, y \in Nat : 3 * q + x + y = 3 * q + (x + y)
      BY <3>1
    <3> QED
      BY <3>1, <3>2, <3>3, <3>4, <3>5
  <2>2. W[i] = ChunkBytes(g)[((i - 1) % 3) + 1]
    BY <1>2
  <2> HIDE DEF q
  <2>3. g \in Seq(0..63) /\ Len(g) = 4 /\ \A k \in 1..4 : g[k] = v[4 * q + k]
    <3>1. 4 * q + 4 <= Len(v)
      BY <1>1, <2>1
    <3> QED
      BY <2>1, <3>1, GroupProperties
  <2> HIDE DEF g
  <2>4. /\ g[1] = Canonical(b, 4 * q + 1) /\ g[2] = Canonical(b, 4 * q + 2)
        /\ g[3] = Canonical(b, 4 * q + 3) /\ g[4] = Canonical(b, 4 * q + 4)
    <3>1. \A k \in 1..4 : 4 * q + k \in 1..(4 * c + n)
      BY <1>1, <2>1
    <3>2. 1 \in 1..4 /\ 2 \in 1..4 /\ 3 \in 1..4 /\ 4 \in 1..4
      OBVIOUS
    <3> QED
      BY ONLY <1>1, <2>3, <3>1, <3>2
  <2>5. /\ ChunkBytes(g)[1] = g[1] * 4 + g[2] \div 16
        /\ ChunkBytes(g)[2] = (g[2] % 16) * 16 + g[3] \div 4
        /\ ChunkBytes(g)[3] = (g[3] % 4) * 64 + g[4]
    <3>1. Len(g) \in 2..4 /\ Len(g) > 2 /\ Len(g) > 3
      BY <2>3
    <3> QED
      BY <2>3, <3>1, ChunkByteByByte
  <2>6. /\ ChunkBytes(g)[1] = ByteOf(b, 3 * q + 1) /\ ChunkBytes(g)[2] = ByteOf(b, 3 * q + 2)
        /\ ChunkBytes(g)[3] = ByteOf(b, 3 * q + 3)
    BY ONLY <1>6, <2>1, <2>4, <2>5
  <2>7. 0 + 1 = 1 /\ 1 + 1 = 2 /\ 2 + 1 = 3
    OBVIOUS
  <2>8. W[i] = ByteOf(b, i)
    BY ONLY <2>1, <2>2, <2>6, <2>7
  <2>9. i <= Len(b)
    BY <1>1
  <2> QED
    BY <2>8, <2>9 DEF ByteOf
<1>8. r # 0 => /\ T \in Seq(0..255) /\ Len(T) = r
               /\ T[1] = b[3 * c + 1] /\ (r = 2 => T[2] = b[3 * c + 2])
               /\ ~ HasExtraBits(last)
  <2> SUFFICES ASSUME r # 0
               PROVE  /\ T \in Seq(0..255) /\ Len(T) = r
                      /\ T[1] = b[3 * c + 1] /\ (r = 2 => T[2] = b[3 * c + 2])
                      /\ ~ HasExtraBits(last)
    OBVIOUS
  <2>1. n = r + 1 /\ Len(last) \in 2..4 /\ Len(last) - 1 = r /\ (r = 2 <=> Len(last) > 2)
        /\ (r = 1 <=> Len(last) = 2) /\ r \in 1..2
    BY <1>3 DEF n
  <2>2. T \in Seq(0..255) /\ Len(T) = r
    BY <1>3, <2>1, ChunkBytesType DEF T
  <2>3. /\ T[1] = last[1] * 4 + last[2] \div 16
        /\ r = 2 => T[2] = (last[2] % 16) * 16 + last[3] \div 4
    BY <1>3, <2>1, ChunkByteByByte DEF T
  <2>4. /\ last[1] = Canonical(b, 4 * c + 1) /\ last[2] = Canonical(b, 4 * c + 2)
        /\ r = 2 => last[3] = Canonical(b, 4 * c + 3)
    <3>1. \A k \in 1..n : 4 * c + k \in 1..(4 * c + n)
      BY <1>1
    <3>2. 1 \in 1..n /\ 2 \in 1..n /\ (r = 2 => 3 \in 1..n)
      BY <2>1
    <3> QED
      BY ONLY <1>1, <1>3, <3>1, <3>2
  <2>5. /\ ByteOf(b, 3 * c + 1) = b[3 * c + 1]
        /\ r = 2 => ByteOf(b, 3 * c + 2) = b[3 * c + 2] /\ ByteOf(b, 3 * c + 3) = 0
        /\ r = 1 => ByteOf(b, 3 * c + 2) = 0
    <3>1. /\ 3 * c + 1 <= Len(b)
          /\ r = 2 => 3 * c + 2 <= Len(b) /\ ~ (3 * c + 3 <= Len(b))
          /\ r = 1 => ~ (3 * c + 2 <= Len(b))
      BY <1>1, <2>1
    <3> QED
      BY ONLY <3>1 DEF ByteOf
  <2>6. T[1] = b[3 * c + 1]
    BY ONLY <1>6, <2>3, <2>4, <2>5, c \in Nat
  <2>7. r = 2 => T[2] = b[3 * c + 2]
    BY ONLY <1>6, <2>3, <2>4, <2>5, c \in Nat
  <2>8. ~ HasExtraBits(last)
    BY ONLY <1>6, <2>1, <2>4, <2>5, c \in Nat DEF HasExtraBits
  <2> QED
    BY <2>2, <2>6, <2>7, <2>8
<1>9. CASE r = 0
  <2>1. Len(W) = Len(b) /\ \A i \in 1..Len(W) : W[i] = b[i]
    BY <1>1, <1>2, <1>7, <1>9
  <2>2. W = b
    BY ONLY <1>2, <2>1, b \in Seq(0..255), SameBytes
  <2> QED
    BY <1>3, <1>9, <2>2 DEF Regains, n, W
<1>10. CASE r # 0
  <2>1. T \in Seq(0..255) /\ Len(T) = r /\ T[1] = b[3 * c + 1] /\ (r = 2 => T[2] = b[3 * c + 2])
    BY <1>8, <1>10
  <2>2. /\ W \o T \in Seq(0..255) /\ Len(W \o T) = Len(W) + Len(T)
        /\ \A i \in 1..(Len(W) + Len(T)) :
             (W \o T)[i] = IF i <= Len(W) THEN W[i] ELSE T[i - Len(W)]
    BY ONLY <1>2, <2>1, ConcatProperties
  <2>3. Len(W \o T) = Len(b)
    BY <1>1, <1>2, <2>1, <2>2
  <2>4. ASSUME NEW i \in 1..Len(W \o T) PROVE (W \o T)[i] = b[i]
    <3>1. i \in 1..(Len(W) + Len(T)) /\ i \in 1..(3 * c + r) /\ Len(W) = 3 * c
      BY <1>1, <1>2, <2>1, <2>2
    <3>2. (W \o T)[i] = IF i <= 3 * c THEN W[i] ELSE T[i - 3 * c]
      BY ONLY <2>2, <3>1
    <3>3. CASE i <= 3 * c
      <4>1. i \in 1..(3 * c)
        BY <3>1, <3>3
      <4> QED
        BY <1>7, <3>2, <3>3, <4>1
    <3>4. CASE ~ (i <= 3 * c)
      <4>1. (i = 3 * c + 1 /\ i - 3 * c = 1) \/ (r = 2 /\ i = 3 * c + 2 /\ i - 3 * c = 2)
        BY <1>10, <3>1, <3>4
      <4> QED
        BY ONLY <2>1, <3>2, <3>4, <4>1
    <3> QED
      BY <3>3, <3>4
  <2>5. W \o T = b
    BY ONLY <2>2, <2>3, <2>4, b \in Seq(0..255), SameBytes
  <2> QED
    BY <1>3, <1>8, <1>10, <2>5 DEF Regains, n, W, T
<1> QED
  BY <1>9, <1>10

(* The padding is none, or completes the last group.                       *)
Padded(v, p) == p = 0 \/ (Len(v) + p) % 4 = 0

LEMMA PaddingFits ==
  ASSUME NEW c \in Nat, NEW n \in 0..3, n # 1, NEW p \in 0..2
  PROVE  /\ (4 * c + n) \div 4 = c
         /\ (4 * c + n + p) % 4 = 0 => (n + p) % 4 = 0
         /\ (4 * c + n + p) % 4 = 0 /\ p > 0 => n # 0 /\ n + p = 4
<1>1. (4 * c + n) \div 4 = c
  OBVIOUS
<1>2. \A k \in 0..5 : (4 * c + k) % 4 = k % 4
  OBVIOUS
<1>3. n + p \in 0..5 /\ 4 * c + n + p = 4 * c + (n + p)
  OBVIOUS
<1>4. (4 * c + n + p) % 4 = (n + p) % 4
  BY <1>2, <1>3
<1>5. (n + p) % 4 = 0 /\ p > 0 => n # 0 /\ n + p = 4
  OBVIOUS
<1> QED
  BY <1>1, <1>4, <1>5

LEMMA SameRest ==
  ASSUME NEW q \in Nat, NEW c \in Nat, NEW k \in 0..2, NEW r \in 0..2, 3 * q + k = 3 * c + r
  PROVE  k = r
OBVIOUS

(* A verdict that reports success with nothing held back is returned as it *)
(* is, the count at the end of the payload, when the padding fits.         *)
LEMMA FinishFits ==
  ASSUME NEW call, call.entry = "safe", ~ IsPartial(call.lastChunk),
         NEW end, NEW count, NEW m \in Nat,
         IgnoreGarbage(call.options) \/ end.equalSigns = 0
           \/ (m % 3 # 0 /\ (m % 3) + 1 + end.equalSigns = 4)
  PROVE  /\ Finish(call, end, Raw("Success", count, m, FALSE)).error = "Success"
         /\ Finish(call, end, Raw("Success", count, m, FALSE)).inputCount = end.fullInputLength
<1> DEFINE raw == Raw("Success", count, m, FALSE)
           p   == PatchTailResult(raw, end, call.lastChunk)
<1>1. /\ p.error = "Success" /\ p.outputCount = m /\ p.inputCount = end.fullInputLength
  BY DEF PatchTailResult, Raw
<1>2. Finish(call, end, raw) = FinishDetails(call, end, raw)
  BY ONLY call.entry = "safe", Zenon DEF Finish
<1>3. PaddingMismatch(p, end, call.lastChunk) =>
        end.equalSigns > 0 /\ (m % 3 = 0 \/ (m % 3) + 1 + end.equalSigns # 4)
  <2> HIDE DEF p
  <2> QED
    BY ONLY <1>1, Zenon DEF PaddingMismatch
<1>4. ~ (PaddingMismatch(p, end, call.lastChunk) /\ ~ IgnoreGarbage(call.options))
  <2>1. ~ (0 > 0)
    OBVIOUS
  <2> QED
    BY ONLY <1>3, <2>1, IgnoreGarbage(call.options) \/ end.equalSigns = 0
           \/ (m % 3 # 0 /\ (m % 3) + 1 + end.equalSigns = 4), Zenon
<1>5. FinishDetails(call, end, raw) = p
  BY ONLY <1>4, ~ IsPartial(call.lastChunk), Zenon DEF FinishDetails
<1> HIDE DEF p
<1> QED
  BY ONLY <1>1, <1>2, <1>5 DEF raw

(* A text that shows the values of bytes decodes to them.                  *)
LEMMA ShownDecodes ==
  ASSUME NEW call, call.input \in CharTexts, call.entry = "safe",
         NEW b \in Seq(0..255), Len(b) >= 1, call.cap = Len(b),
         NEW c \in Nat, NEW r \in 0..2, NEW v \in Seq(0..63), Encodes(v, b, c, r),
         NEW p \in 0..2, Padded(v, p),
         call.lastChunk = "Loose" \/ (call.lastChunk = "Strict" /\ (Len(v) + p) % 4 = 0),
         NEW at, Shows(call.input, call.options, v, p, at),
         NEW end, end = FindEnd(call.input, call.options)
  PROVE  /\ Decode(call).bytes = b
         /\ Decode(call).result.error = "Success"
         /\ Decode(call).result.inputCount = end.fullInputLength
<1> DEFINE d    == call.input
           n    == IF r = 0 THEN 0 ELSE r + 1
           s    == StopPosition(call, end)
           w    == SignificantBefore(call, s)
           last == SubSeq(v, 4 * c + 1, Len(v))
           verdict == TailVerdict(last, end.equalSigns, call.options, call.lastChunk,
                                  call.cap - 3 * c)
           raw  == Raw("Success", s - 1, Len(b), FALSE)
<1>1. /\ Len(b) = 3 * c + r /\ Len(v) = 4 * c + n /\ n \in 0..3 /\ n # 1
      /\ Len(b) \in Nat /\ Len(v) \in Nat /\ Len(v) >= 1 /\ Len(d) \in Nat
      /\ (r = 0 <=> n = 0) /\ (r # 0 => n = r + 1)
  <2>1. Len(b) = 3 * c + r /\ Len(v) = 4 * c + n
    BY ONLY Encodes(v, b, c, r), Zenon DEF Encodes
  <2>2. Len(b) \in Nat /\ Len(v) \in Nat /\ Len(d) \in Nat
    BY LenProperties DEF CharTexts
  <2>3. n \in 0..3 /\ n # 1 /\ (r = 0 <=> n = 0) /\ (r # 0 => n = r + 1)
    OBVIOUS
  <2> HIDE DEF n, d
  <2>4. Len(v) >= 1
    BY <2>1, <2>3
  <2> QED
    BY ONLY <2>1, <2>2, <2>3, <2>4
<1>2. /\ end.srcLen \in at[Len(v)]..Len(d)
      /\ \A k \in (at[Len(v)] + 1)..end.srcLen : d[k] = Space
      /\ ~ IgnoreGarbage(call.options) => end.equalSigns = p /\ end.fullInputLength = Len(d)
  <2> DEFINE o == call.options
  <2>1. d \in CharTexts /\ Shows(d, o, v, p, at) /\ end = FindEnd(d, o)
    OBVIOUS
  <2> HIDE DEF d, o, n
  <2>2. Len(v) >= 1
    BY <1>1
  <2>3. EndShown(d, o, v, p, at, end)
    BY ONLY v \in Seq(0..63), p \in 0..2, <2>1, <2>2, ShownEnd
  <2> QED
    BY ONLY <2>3 DEF EndShown, o
<1>3. at[Len(v)] \in 1..Len(d)
  <2>1. at \in [1..(Len(v) + p) -> 1..Len(d)]
    BY DEF Shows
  <2>2. Len(v) \in 1..(Len(v) + p)
    <3> HIDE DEF n, d
    <3> QED
      BY <1>1
  <2> QED
    BY ONLY <2>1, <2>2
<1> HIDE DEF n
<1>4. end.srcLen \in Nat /\ end.srcLen # 0
  <2> HIDE DEF d
  <2> QED
    BY <1>1, <1>2, <1>3
<1>5. s = end.srcLen + 1 /\ Sextets(call, w) = v
  <2>1. Len(v) >= 1
    BY <1>1
  <2>2. /\ end.srcLen \in at[Len(v)]..Len(call.input)
        /\ \A k \in (at[Len(v)] + 1)..end.srcLen : call.input[k] = Space
    BY <1>2
  <2>3. /\ StopPosition(call, end) = end.srcLen + 1
        /\ Sextets(call, SignificantBefore(call, StopPosition(call, end))) = v
    BY ONLY call.input \in CharTexts, v \in Seq(0..63), p \in 0..2,
            Shows(call.input, call.options, v, p, at), <2>1, <2>2, ShownValues
  <2> QED
    BY ONLY <2>3 DEF s, w
<1>6. c = Len(v) \div 4 /\ ((Len(v) + p) % 4 = 0 => (n + p) % 4 = 0)
      /\ ((Len(v) + p) % 4 = 0 /\ p > 0 => n # 0 /\ n + p = 4)
  <2>1. n \in 0..3 /\ n # 1
    BY <1>1
  <2>2. /\ (4 * c + n) \div 4 = c
        /\ (4 * c + n + p) % 4 = 0 => (n + p) % 4 = 0
        /\ (4 * c + n + p) % 4 = 0 /\ p > 0 => n # 0 /\ n + p = 4
    BY ONLY c \in Nat, p \in 0..2, <2>1, PaddingFits
  <2>3. Len(v) = 4 * c + n
    BY <1>1
  <2> QED
    BY ONLY <2>2, <2>3
<1>7. /\ last \in Seq(0..63) /\ Len(last) = n
      /\ r # 0 => ~ HasExtraBits(last)
      /\ b = IF r = 0 THEN WholeChunks(v, c) ELSE WholeChunks(v, c) \o ChunkBytes(last)
  <2>1. last = SubSeq(v, 4 * c + 1, Len(v))
    OBVIOUS
  <2> HIDE DEF last
  <2>2. Regains(b, v, c, r, last)
    BY ONLY b \in Seq(0..255), v \in Seq(0..63), c \in Nat, r \in 0..2,
            Encodes(v, b, c, r), <2>1, EncodedBytes
  <2> QED
    BY ONLY <2>2 DEF Regains, n
<1> HIDE DEF s, w, last, d
<1>8. ~ IgnoreGarbage(call.options) =>
        /\ end.equalSigns = p
        /\ call.lastChunk = "Strict" => (n + p) % 4 = 0
        /\ p > 0 => n # 0 /\ (n + p) % 4 = 0 /\ n + p = 4
  <2>1. p > 0 => (Len(v) + p) % 4 = 0
    BY DEF Padded
  <2> QED
    BY <1>2, <1>6, <2>1
<1>9. ~ IsPartial(call.lastChunk)
  BY DEF IsPartial
<1>10. verdict = IF r = 0 THEN "Nothing" ELSE "Decoded"
  <2> DEFINE pads    == end.equalSigns
             garbage == IgnoreGarbage(call.options)
             m       == Len(last)
             room    == call.cap - 3 * c
             misfit  == (m + pads) % 4 # 0
             loose   == m >= 2 /\ ~ garbage /\ misfit /\ call.lastChunk = "Loose" /\ pads > 0
             strict  == m >= 2 /\ ~ garbage /\ misfit /\ call.lastChunk = "Strict"
             held    == \/ /\ call.lastChunk = "StopBeforePartial"
                           /\ (m \in {2, 3} /\ m + pads < 4) \/ (m = 1 /\ pads = 0)
                        \/ call.lastChunk = "OnlyFullChunks" /\ (m >= 2 \/ pads = 0)
             extra   == m >= 2 /\ ~ garbage /\ call.lastChunk = "Strict" /\ HasExtraBits(last)
             noRoom  == room < m - 1
             lone    == m = 1 /\ ~ garbage /\ (~ IsPartial(call.lastChunk) \/ pads > 0)
             padding == m = 0 /\ ~ garbage /\ pads > 0
  <2>1. verdict = IF loose THEN "Misfit"
                  ELSE IF strict THEN "StrictMisfit"
                  ELSE IF held THEN "Held"
                  ELSE IF extra THEN "ExtraBits"
                  ELSE IF m >= 2 THEN IF noRoom THEN "NoRoom" ELSE "Decoded"
                  ELSE IF lone THEN "Remainder"
                  ELSE IF padding THEN "LonePadding"
                  ELSE "Nothing"
    BY ONLY Zenon DEF TailVerdict
  <2>2. m = n /\ n \in 0..3 /\ n # 1 /\ (r = 0 <=> n = 0) /\ (r # 0 => n = r + 1) /\ room = r
    <3>1. room = r
      BY <1>1
    <3> HIDE DEF room
    <3> QED
      BY <1>1, <1>7, <3>1
  <2>3. ~ held
    BY DEF IsPartial
  <2> HIDE DEF m, room
  <2>4. garbage \/ ~ misfit \/ (call.lastChunk # "Strict" /\ pads = 0)
    <3>1. ~ garbage => pads = p /\ (call.lastChunk = "Strict" => (n + p) % 4 = 0)
                       /\ (p > 0 => (n + p) % 4 = 0)
      BY <1>8
    <3>2. p > 0 \/ p = 0
      OBVIOUS
    <3> HIDE DEF garbage, pads
    <3> QED
      BY ONLY <2>2, <3>1, <3>2
  <2>5. ~ loose /\ ~ strict
    <3>1. ~ (0 > 0)
      OBVIOUS
    <3> HIDE DEF garbage, misfit
    <3> QED
      BY ONLY <2>4, <3>1
  <2>6. ~ extra
    <3>1. m >= 2 => r # 0
      BY <2>2
    <3> QED
      BY <1>7, <3>1
  <2>7. r # 0 => m >= 2 /\ ~ noRoom
    BY <2>2
  <2>8. r = 0 => ~ (m >= 2) /\ ~ lone /\ ~ padding
    <3>1. r = 0 => m = 0 /\ n = 0
      BY <2>2
    <3>2. r = 0 /\ ~ garbage => ~ (p > 0) /\ pads = p
      BY <1>8, <3>1
    <3> HIDE DEF garbage, pads
    <3> QED
      BY ONLY <3>1, <3>2
  <2> HIDE DEF loose, strict, held, extra, noRoom, lone, padding, verdict
  <2> QED
    BY ONLY <2>1, <2>3, <2>5, <2>6, <2>7, <2>8
<1>11. HasOutcome(call, end, s, w, v, c, last, verdict)
  <2>1. /\ s = StopPosition(call, end) /\ w = SignificantBefore(call, s)
        /\ v = Sextets(call, w)
    BY <1>5 DEF s, w
  <2>2. last = SubSeq(v, 4 * c + 1, Len(v)) /\ call.cap \in Nat
    BY <1>1 DEF last
  <2>3. verdict = TailVerdict(last, end.equalSigns, call.options, call.lastChunk,
                              call.cap - 3 * c)
    OBVIOUS
  <2> HIDE DEF verdict
  <2> QED
    BY ONLY end = FindEnd(call.input, call.options), <1>1, <1>4, <1>6, <2>1, <2>2, <2>3,
            DecodeCases
<1> HIDE DEF verdict
<1>12. PICK raw0, bytes : /\ DecodeAnswers(call, end, raw0, bytes)
                          /\ Outcome(call, end, s, w, v, c, last, verdict, raw0, bytes)
  BY <1>11 DEF HasOutcome
<1>13. ~ \E q \in Nat : q < c /\ call.cap < 3 * q + 3
  <2> SUFFICES ASSUME NEW q \in Nat, q < c, call.cap < 3 * q + 3 PROVE FALSE
    OBVIOUS
  <2> QED
    BY <1>1
<1>14. ~ Offender(call, end, s)
  BY <1>4, <1>5 DEF Offender
<1>15. raw0 = raw /\ bytes = b
  <2>1. CASE r = 0
    <3>1. verdict # "Decoded" /\ verdict = "Nothing" /\ TailErrors[verdict] = "Success"
      BY <1>10, <2>1 DEF TailErrors
    <3>2. /\ raw0 = Raw(TailErrors[verdict],
                        IF verdict \in {"Held", "NoRoom"} THEN ChunkStart(w, c) ELSE s - 1,
                        3 * c, verdict \in {"Misfit", "StrictMisfit", "LonePadding"})
          /\ bytes = WholeChunks(v, c)
      BY ONLY <1>12, <1>13, <1>14, <3>1, Zenon DEF Outcome
    <3>3. verdict \notin {"Held", "NoRoom"}
          /\ (verdict \in {"Misfit", "StrictMisfit", "LonePadding"}) = FALSE
      BY ONLY <3>1
    <3>4. raw0 = Raw("Success", s - 1, 3 * c, FALSE)
      BY ONLY <3>1, <3>2, <3>3
    <3>5. 3 * c = Len(b)
      BY <1>1, <2>1
    <3> QED
      BY <1>7, <2>1, <3>2, <3>4, <3>5
  <2>2. CASE r # 0
    <3>1. verdict = "Decoded"
      BY <1>10, <2>2
    <3>2. /\ raw0 = Raw("Success", s - 1, 3 * c + Len(last) - 1, FALSE)
          /\ bytes = WholeChunks(v, c) \o ChunkBytes(last)
      BY ONLY <1>12, <1>13, <1>14, <3>1, Zenon DEF Outcome
    <3>3. 3 * c + Len(last) - 1 = Len(b)
      BY <1>1, <1>7, <2>2
    <3> QED
      BY <1>7, <2>2, <3>2, <3>3
  <2> QED
    BY <2>1, <2>2
<1>16. Decode(call).bytes = b /\ Decode(call).result = Finish(call, end, raw)
  BY <1>12, <1>15 DEF DecodeAnswers
<1>17. \/ IgnoreGarbage(call.options) \/ end.equalSigns = 0
       \/ Len(b) % 3 # 0 /\ (Len(b) % 3) + 1 + end.equalSigns = 4
  <2>1. Len(b) % 3 = r
    <3> DEFINE q == Len(b) \div 3
               k == Len(b) % 3
    <3>1. \A a \in Nat : a \div 3 \in Nat /\ a % 3 \in 0..2 /\ a = 3 * (a \div 3) + (a % 3)
      OBVIOUS
    <3>2. q \in Nat /\ k \in 0..2 /\ Len(b) = 3 * q + k
      BY ONLY <1>1, <3>1
    <3>3. Len(b) = 3 * c + r
      BY <1>1
    <3> HIDE DEF q, k
    <3>4. k = r
      BY ONLY <3>2, <3>3, SameRest
    <3> QED
      BY ONLY <3>4 DEF k
  <2>2. SUFFICES ASSUME ~ IgnoreGarbage(call.options), end.equalSigns # 0
                 PROVE  Len(b) % 3 # 0 /\ (Len(b) % 3) + 1 + end.equalSigns = 4
    OBVIOUS
  <2>3. end.equalSigns = p /\ n # 0 /\ n + p = 4
    <3>1. end.equalSigns = p /\ p > 0
      BY <1>8, <2>2
    <3> QED
      BY <1>8, <2>2, <3>1
  <2> QED
    BY <1>1, <2>1, <2>3
<1>18. /\ Finish(call, end, raw).error = "Success"
       /\ Finish(call, end, raw).inputCount = end.fullInputLength
  <2> DEFINE m     == Len(b)
             count == s - 1
  <2>1. /\ m \in Nat
        /\ \/ IgnoreGarbage(call.options) \/ end.equalSigns = 0
           \/ m % 3 # 0 /\ (m % 3) + 1 + end.equalSigns = 4
    BY <1>1, <1>17
  <2> HIDE DEF m, count
  <2>2. /\ Finish(call, end, Raw("Success", count, m, FALSE)).error = "Success"
        /\ Finish(call, end, Raw("Success", count, m, FALSE)).inputCount = end.fullInputLength
    BY ONLY call.entry = "safe", <1>9, <2>1, FinishFits
  <2> QED
    BY <2>2 DEF m, count
<1> QED
  BY <1>16, <1>18

-----------------------------------------------------------------------------
(* What a text reads as *)

(* What is read at p, where a character starts.                            *)
ReadOn(from, to, t, R, p) ==
  LET s == CHOOSE s \in CharactersAt(from, to, t, p) : TRUE
      rest == R[p + Len(s)]
  IN  [rest EXCEPT !.points = << Meaning(from, s) >> \o @]

(* How Reading goes on from p, when R is what it goes on to.               *)
ReadFrom(from, to, t, R, p) ==
  IF p > Len(t) THEN [points |-> << >>, stop |-> Len(t), whole |-> TRUE]
  ELSE IF CharactersAt(from, to, t, p) = {}
  THEN [points |-> << >>, stop |-> p - 1, whole |-> FALSE]
  ELSE ReadOn(from, to, t, R, p)

IsReading(from, to, t, R) ==
  R = [p \in 1 .. Len(t) + 1 |-> ReadFrom(from, to, t, R, p)]

LEMMA ReadingDef ==
  ASSUME NEW from, NEW to, NEW t
  PROVE  Reading(from, to, t) = (CHOOSE R : IsReading(from, to, t, R))[1]
BY DEF Reading, IsReading, ReadFrom, ReadOn

(* w units of t, from p on.                                                *)
Piece(t, p, w) == SubSeq(t, p, p + w - 1)

LEMMA PieceIs ==
  ASSUME NEW t \in Seq(Nat), NEW p \in Nat, NEW w \in Nat,
         1 <= p, 1 <= w, p + w - 1 <= Len(t)
  PROVE  /\ Piece(t, p, w) \in Seq(Nat) /\ Len(Piece(t, p, w)) = w
         /\ \A i \in 1 .. w : Piece(t, p, w)[i] = t[p + i - 1]
<1>1. Len(t) \in Nat
  BY LenProperties
<1>2. p + w - 1 - p + 1 = w /\ p \in Int /\ p + w - 1 \in Int /\ p <= p + w - 1
  BY <1>1
<1> QED
  BY <1>1, <1>2, SubSeqProperties DEF Piece

LEMMA CharacterLength ==
  ASSUME NEW from, NEW to, NEW t \in Seq(Nat), NEW p \in 1 .. Len(t),
         NEW s \in CharactersAt(from, to, t, p)
  PROVE  \E w \in 1 .. 4 : p + w - 1 <= Len(t) /\ Len(s) = w /\ s = Piece(t, p, w)
<1>1. Len(t) \in Nat
  BY LenProperties
<1>2. PICK q \in p .. (IF p + 3 < Len(t) THEN p + 3 ELSE Len(t)) : s = SubSeq(t, p, q)
  BY DEF CharactersAt
<1>3. PICK w \in 1 .. 4 : q = p + w - 1 /\ p + w - 1 <= Len(t)
  <2>1. q - p + 1 \in 1 .. 4 /\ q = p + (q - p + 1) - 1 /\ q <= Len(t)
    BY <1>1, <1>2
  <2> QED
    BY <2>1
<1>4. s = Piece(t, p, w)
  BY <1>2, <1>3 DEF Piece
<1>5. Len(Piece(t, p, w)) = w
  BY <1>1, <1>3, PieceIs
<1> QED
  BY <1>3, <1>4, <1>5

LEMMA ReadingExists ==
  ASSUME NEW from, NEW to, NEW t \in Seq(Nat)
  PROVE  \E R : IsReading(from, to, t, R)
<1> DEFINE n == Len(t)
           F(R, p) == ReadFrom(from, to, t, R, p)
           Good(k) == \E R : R = [p \in n + 1 - k .. n + 1 |-> F(R, p)]
<1>1. n \in Nat
  BY LenProperties
<1>2. \A R, Q : \A p \in 1 .. n + 1 : (\A q \in p + 1 .. n + 1 : R[q] = Q[q]) => F(R, p) = F(Q, p)
  <2> SUFFICES ASSUME NEW R, NEW Q, NEW p \in 1 .. n + 1, \A q \in p + 1 .. n + 1 : R[q] = Q[q]
               PROVE  F(R, p) = F(Q, p)
    BY Zenon
  <2> DEFINE C == CharactersAt(from, to, t, p)
             s == CHOOSE s \in C : TRUE
  <2>1. CASE p > n \/ C = {}
    BY <2>1 DEF ReadFrom
  <2>2. CASE p <= n /\ C # {}
    <3>1. s \in C
      BY <2>2
    <3>2. p \in 1 .. Len(t)
      BY <1>1, <2>2
    <3>3. p + Len(s) \in p + 1 .. Len(t) + 1
      <4> HIDE DEF s
      <4>1. PICK w \in 1 .. 4 : p + w - 1 <= Len(t) /\ Len(s) = w
        BY <3>1, <3>2, CharacterLength
      <4> QED BY <1>1, <3>2, <4>1
    <3>4. R[p + Len(s)] = Q[p + Len(s)]
      BY <3>3
    <3> QED
      BY <3>4 DEF ReadFrom, ReadOn
  <2> QED
    BY <1>1, <2>1, <2>2
<1> HIDE DEF F
<1>3. Good(0)
  <2> DEFINE R == [p \in n + 1 - 0 .. n + 1 |-> F(<< >>, p)]
  <2>1. \A p \in n + 1 - 0 .. n + 1 : F(<< >>, p) = F(R, p)
    <3> SUFFICES ASSUME NEW p \in n + 1 - 0 .. n + 1 PROVE F(<< >>, p) = F(R, p)
      OBVIOUS
    <3>1. p \in 1 .. n + 1 /\ p + 1 .. n + 1 = {}
      BY <1>1
    <3> HIDE DEF R
    <3> QED
      BY <1>2, <3>1
  <2>2. R = [p \in n + 1 - 0 .. n + 1 |-> F(R, p)]
    BY <2>1
  <2> QED
    BY <2>2
<1>4. ASSUME NEW k \in Nat, k < n + 1, Good(k), k + 1 <= n PROVE Good(k + 1)
  <2>1. PICK R : R = [p \in n + 1 - k .. n + 1 |-> F(R, p)]
    BY <1>4
  <2> DEFINE m == n + 1 - (k + 1)
             Q == [p \in m .. n + 1 |-> IF p = m THEN F(R, p) ELSE R[p]]
  <2>2. m \in 1 .. n /\ n + 1 - k = m + 1
    BY <1>1, <1>4
  <2>3. \A q \in m + 1 .. n + 1 : Q[q] = R[q] /\ R[q] = F(R, q)
    <3>1. \A q \in m + 1 .. n + 1 : q \in m .. n + 1 /\ q # m
      BY <1>1, <2>2
    <3>2. R = [p \in m + 1 .. n + 1 |-> F(R, p)]
      BY <2>1, <2>2
    <3>3. \A q \in m + 1 .. n + 1 : R[q] = F(R, q)
      BY ONLY <3>2
    <3> HIDE DEF m
    <3> QED
      BY <3>1, <3>3
  <2>4. \A q \in m .. n + 1 : F(R, q) = F(Q, q)
    <3> SUFFICES ASSUME NEW q \in m .. n + 1 PROVE F(R, q) = F(Q, q)
      OBVIOUS
    <3>1. q \in 1 .. n + 1 /\ \A r \in q + 1 .. n + 1 : r \in m + 1 .. n + 1
      BY <1>1, <2>2
    <3> HIDE DEF Q, m
    <3> QED
      BY <1>2, <2>3, <3>1
  <2>5. Q = [p \in m .. n + 1 |-> F(Q, p)]
    <3>1. \A q \in m .. n + 1 : Q[q] = F(R, q)
      <4>1. \A q \in m .. n + 1 : q = m \/ q \in m + 1 .. n + 1
        BY <1>1, <2>2
      <4> QED
        BY <2>3, <4>1
    <3>2. Q = [p \in m .. n + 1 |-> Q[p]]
      OBVIOUS
    <3> HIDE DEF Q, m
    <3> QED
      BY <2>4, <3>1, <3>2
  <2> HIDE DEF Q
  <2> QED
    BY <2>5
<1> DEFINE Unfit == {k \in 0 .. n : ~ Good(k)}
<1> HIDE DEF Good
<1>5. Unfit = {}
  <2> SUFFICES ASSUME Unfit # {} PROVE FALSE
    OBVIOUS
  <2>1. PICK m \in Unfit : \A k \in Unfit : m <= k
    <3>1. Unfit \in SUBSET Nat
      OBVIOUS
    <3> HIDE DEF Unfit
    <3> QED BY <3>1, LeastOf
  <2>2. m \in 0 .. n /\ m # 0 /\ ~ Good(m)
    BY <1>3, <2>1
  <2>3. m - 1 \in Nat /\ m - 1 < n + 1 /\ m - 1 \in 0 .. n /\ m - 1 + 1 = m /\ m <= n /\ ~ (m <= m - 1)
    BY <1>1, <2>2
  <2>4. Good(m - 1)
    BY <2>1, <2>3
  <2> QED
    BY <1>4, <2>2, <2>3, <2>4
<1>6. Good(n)
  BY <1>1, <1>5
<1>7. n + 1 - n = 1
  BY <1>1
<1> QED
  BY <1>6, <1>7 DEF IsReading, Good, F

(* Induction, the property given as the set of the numbers that have it.   *)
LEMMA Upward ==
  ASSUME NEW n \in Nat, NEW G, 0 \in G, \A k \in 0 .. n - 1 : k \in G => k + 1 \in G
  PROVE  0 .. n \subseteq G
<1> DEFINE Unfit == {k \in 0 .. n : k \notin G}
<1> SUFFICES ASSUME Unfit # {} PROVE FALSE
  OBVIOUS
<1>1. PICK m \in Unfit : \A k \in Unfit : m <= k
  <2>1. Unfit \in SUBSET Nat
    OBVIOUS
  <2> HIDE DEF Unfit
  <2> QED BY <2>1, LeastOf
<1>2. m \in 0 .. n /\ m # 0 /\ m \notin G
  BY <1>1
<1>3. m - 1 \in 0 .. n - 1 /\ m - 1 \in 0 .. n /\ m - 1 + 1 = m /\ ~ (m <= m - 1)
  BY <1>2
<1>4. m - 1 \in G
  BY <1>1, <1>3
<1> QED
  BY <1>2, <1>3, <1>4

(* From the end of a text to its beginning.                                *)
LEMMA Backward ==
  ASSUME NEW n \in Nat, NEW G, \A k \in 0 .. n : k + 1 .. n \subseteq G => k \in G
  PROVE  0 .. n \subseteq G
<1> DEFINE Unfit == {k \in 0 .. n : n - k \notin G}
<1> SUFFICES ASSUME Unfit # {} PROVE FALSE
  <2>1. \A k \in 0 .. n : n - k \in 0 .. n /\ n - (n - k) = k
    OBVIOUS
  <2> QED BY <2>1
<1>1. PICK m \in Unfit : \A k \in Unfit : m <= k
  <2>1. Unfit \in SUBSET Nat
    OBVIOUS
  <2> HIDE DEF Unfit
  <2> QED BY <2>1, LeastOf
<1>2. m \in 0 .. n /\ n - m \in 0 .. n /\ n - m \notin G
  BY <1>1
<1>3. ASSUME NEW j \in n - m + 1 .. n PROVE j \in G
  <2>1. n - j \in 0 .. n /\ ~ (m <= n - j) /\ n - (n - j) = j
    BY <1>2
  <2> QED BY <1>1, <2>1
<1> QED
  BY <1>2, <1>3

-----------------------------------------------------------------------------
(* Characters *)

Texts == {"utf8", "utf16", "utf32", "latin1", "ascii", "ascii16"}

Units(s) == /\ Len(s) \in Nat
            /\ 1 <= Len(s) => s[1] \in Nat
            /\ 2 <= Len(s) => s[2] \in Nat
            /\ 3 <= Len(s) => s[3] \in Nat
            /\ 4 <= Len(s) => s[4] \in Nat

LEMMA UnitsTyped ==
  ASSUME NEW s \in Seq(Nat)
  PROVE  Units(s)
BY SMT DEF Units

LEMMA LeadWidthIs ==
  ASSUME NEW b \in Nat
  PROVE  /\ b < 128 => LeadWidth(b) = 1
         /\ 192 <= b /\ b < 224 => LeadWidth(b) = 2
         /\ 224 <= b /\ b < 240 => LeadWidth(b) = 3
         /\ 240 <= b /\ b < 248 => LeadWidth(b) = 4
         /\ (128 <= b /\ b < 192) \/ 248 <= b => LeadWidth(b) = 0
         /\ Continuation(b) <=> Tail8(b)
BY SMT DEF LeadWidth, Continuation, Tail8, Within

(* How many units a character has is told by the first.                    *)
LEMMA UTF8CharacterIs ==
  ASSUME NEW s, Units(s), UTF8Character(s)
  PROVE  /\ Len(s) = 1 \/ Len(s) = 2 \/ Len(s) = 3 \/ Len(s) = 4
         /\ Len(s) = LeadWidth(s[1])
         /\ \A i \in 2 .. Len(s) : Tail8(s[i])
<1>1. CASE Len(s) = 1
  <2>1. s[1] \in Nat
    BY <1>1, Units(s), SMT DEF Units
  <2> QED
    BY ONLY UTF8Character(s), <1>1, <2>1, LeadWidthIs, SMT DEF UTF8Character
<1>2. CASE Len(s) = 2
  <2>1. s[1] \in Nat /\ s[2] \in Nat
    BY <1>2, Units(s), SMT DEF Units
  <2>2. 192 <= s[1] /\ s[1] < 224 /\ Tail8(s[2])
    BY ONLY UTF8Character(s), <1>2, <2>1, SMT DEF UTF8Character, Within
  <2> QED
    BY ONLY <1>2, <2>1, <2>2, LeadWidthIs, SMT
<1>3. CASE Len(s) = 3
  <2>1. s[1] \in Nat /\ s[2] \in Nat /\ s[3] \in Nat
    BY <1>3, Units(s), SMT DEF Units
  <2>2. 224 <= s[1] /\ s[1] < 240 /\ Tail8(s[2]) /\ Tail8(s[3])
    BY ONLY UTF8Character(s), <1>3, <2>1, SMT DEF UTF8Character, Tail8, Within
  <2> QED
    BY ONLY <1>3, <2>1, <2>2, LeadWidthIs, SMT
<1>4. CASE Len(s) = 4
  <2>1. s[1] \in Nat /\ s[2] \in Nat /\ s[3] \in Nat /\ s[4] \in Nat
    BY <1>4, Units(s), SMT DEF Units
  <2>2. 240 <= s[1] /\ s[1] < 248 /\ Tail8(s[2]) /\ Tail8(s[3]) /\ Tail8(s[4])
    BY ONLY UTF8Character(s), <1>4, <2>1, SMT DEF UTF8Character, Tail8, Within
  <2> QED
    BY ONLY <1>4, <2>1, <2>2, LeadWidthIs, SMT
<1> QED
  BY ONLY UTF8Character(s), <1>1, <1>2, <1>3, <1>4 DEF UTF8Character

LEMMA MeaningUTF8 ==
  ASSUME NEW s, Units(s), UTF8Character(s), NEW c, c = Meaning("utf8", s)
  PROVE  /\ Len(s) = 1 => c = s[1] /\ s[1] < 128
         /\ Len(s) = 2 => /\ c = (s[1] - 192) * 64 + (s[2] - 128)
                          /\ 128 <= c /\ c < 2048
         /\ Len(s) = 3 => /\ c = (s[1] - 224) * 4096 + (s[2] - 128) * 64 + (s[3] - 128)
                          /\ 2048 <= c /\ c < 65536
         /\ Len(s) = 4 => /\ c = (s[1] - 240) * 262144 + (s[2] - 128) * 4096
                                   + (s[3] - 128) * 64 + (s[4] - 128)
                          /\ 65536 <= c
         /\ c \in Nat /\ Scalar(c)
<1>1. CASE Len(s) = 1
  <2>1. s[1] \in Nat
    BY <1>1, Units(s), SMT DEF Units
  <2>2. c = s[1]
    BY ONLY c = Meaning("utf8", s), <1>1, SMT DEF Meaning
  <2> QED
    BY ONLY UTF8Character(s), <1>1, <2>1, <2>2, SMT DEF UTF8Character, Scalar
<1>2. CASE Len(s) = 2
  <2>1. s[1] \in Nat /\ s[2] \in Nat
    BY <1>2, Units(s), SMT DEF Units
  <2>2. c = (s[1] - 192) * 64 + (s[2] - 128)
    BY ONLY c = Meaning("utf8", s), <1>2, SMT DEF Meaning
  <2> QED
    BY ONLY UTF8Character(s), <1>2, <2>1, <2>2, SMT DEF UTF8Character, Scalar, Tail8, Within
<1>3. CASE Len(s) = 3
  <2>1. s[1] \in Nat /\ s[2] \in Nat /\ s[3] \in Nat
    BY <1>3, Units(s), SMT DEF Units
  <2>2. c = (s[1] - 224) * 4096 + (s[2] - 128) * 64 + (s[3] - 128)
    BY ONLY c = Meaning("utf8", s), <1>3, SMT DEF Meaning
  <2> QED
    BY ONLY UTF8Character(s), <1>3, <2>1, <2>2, SMT DEF UTF8Character, Scalar, Tail8, Within
<1>4. CASE Len(s) = 4
  <2>1. s[1] \in Nat /\ s[2] \in Nat /\ s[3] \in Nat /\ s[4] \in Nat
    BY <1>4, Units(s), SMT DEF Units
  <2>2. c = (s[1] - 240) * 262144 + (s[2] - 128) * 4096 + (s[3] - 128) * 64 + (s[4] - 128)
    BY ONLY c = Meaning("utf8", s), <1>4, SMT DEF Meaning
  <2> QED
    BY ONLY UTF8Character(s), <1>4, <2>1, <2>2, SMT DEF UTF8Character, Scalar, Tail8, Within
<1> QED
  BY ONLY UTF8Character(s), <1>1, <1>2, <1>3, <1>4 DEF UTF8Character

LEMMA MeaningOthers ==
  ASSUME NEW e \in Texts \ {"utf8"}, NEW s, Units(s), IsCharacter(e, s),
         NEW c, c = Meaning(e, s)
  PROVE  /\ Len(s) = 1 \/ (Len(s) = 2 /\ e = "utf16")
         /\ Len(s) = 1 => c = s[1] /\ (e = "utf16" => ~ Surrogate(s[1]) /\ c < 65536)
         /\ Len(s) = 2 => /\ c = 65536 + (s[1] - 55296) * 1024 + (s[2] - 56320)
                          /\ High(s[1]) /\ Low(s[2]) /\ 65536 <= c
         /\ c \in Nat /\ Scalar(c)
<1>1. CASE e = "utf16" /\ Len(s) = 2
  <2>1. s[1] \in Nat /\ s[2] \in Nat
    BY <1>1, Units(s), SMT DEF Units
  <2>2. c = 65536 + (s[1] - 55296) * 1024 + (s[2] - 56320)
    BY ONLY c = Meaning(e, s), <1>1, SMT DEF Meaning
  <2>3. High(s[1]) /\ Low(s[2])
    BY ONLY IsCharacter(e, s), <1>1, <2>1, SMT DEF IsCharacter, High, Low, Within
  <2> QED
    BY ONLY <1>1, <2>1, <2>2, <2>3, SMT DEF Scalar, High, Low
<1>2. CASE Len(s) = 1
  <2>1. s[1] \in Nat
    BY <1>2, Units(s), SMT DEF Units
  <2>2. c = s[1]
    BY ONLY c = Meaning(e, s), <1>2, SMT DEF Meaning
  <2>3. /\ e = "utf16" => s[1] <= 65535 /\ Scalar(s[1])
        /\ e = "utf32" => Scalar(s[1])
        /\ e \notin {"utf16", "utf32"} => s[1] <= 255
    BY ONLY IsCharacter(e, s), e \in Texts \ {"utf8"}, <1>2, <2>1, SMT DEF IsCharacter, Texts
  <2> QED
    BY ONLY <1>2, <2>1, <2>2, <2>3, SMT DEF Scalar, Surrogate
<1>3. Len(s) = 1 \/ (Len(s) = 2 /\ e = "utf16")
  BY ONLY IsCharacter(e, s), e \in Texts \ {"utf8"} DEF IsCharacter, Texts
<1> QED
  BY ONLY <1>1, <1>2, <1>3

(* The units of s are those of t from p on.                                *)
CopyOf(s, t, p) == /\ s[1] = t[p]
                   /\ 2 <= Len(s) => s[2] = t[p + 1]
                   /\ 3 <= Len(s) => s[3] = t[p + 2]
                   /\ 4 <= Len(s) => s[4] = t[p + 3]

LEMMA CharacterFacts ==
  ASSUME NEW from, NEW to, NEW t \in Seq(Nat), NEW p \in 1 .. Len(t),
         NEW s \in CharactersAt(from, to, t, p)
  PROVE  /\ Units(s) /\ CopyOf(s, t, p)
         /\ Len(s) \in 1 .. 4 /\ p + Len(s) \in p + 1 .. Len(t) + 1
         /\ s = Piece(t, p, Len(s))
         /\ IsCharacter(from, s) /\ Holds(to, Meaning(from, s))
<1>1. Len(t) \in Nat
  BY LenProperties
<1>8. PICK w \in 1 .. 4 : p + w - 1 <= Len(t) /\ Len(s) = w /\ s = Piece(t, p, w)
  BY CharacterLength
<1>2. Piece(t, p, w) \in Seq(Nat) /\ \A i \in 1 .. w : Piece(t, p, w)[i] = t[p + i - 1]
  <2>1. p \in Nat /\ w \in Nat /\ 1 <= p /\ 1 <= w /\ p + w - 1 <= Len(t)
    BY <1>1, <1>8
  <2> QED
    BY ONLY t \in Seq(Nat), <2>1, PieceIs
<1>4. s \in Seq(Nat) /\ \A i \in 1 .. w : s[i] = t[p + i - 1]
  BY ONLY <1>2, <1>8
<1>6. IsCharacter(from, s) /\ Holds(to, Meaning(from, s))
  BY DEF CharactersAt
<1>7. Units(s)
  BY <1>4, UnitsTyped
<1>9. /\ p + 1 - 1 = p /\ p + 2 - 1 = p + 1 /\ p + 3 - 1 = p + 2 /\ p + 4 - 1 = p + 3
      /\ 1 \in 1 .. w
      /\ 2 <= w => 2 \in 1 .. w
      /\ 3 <= w => 3 \in 1 .. w
      /\ 4 <= w => 4 \in 1 .. w
      /\ p + w \in p + 1 .. Len(t) + 1
  BY ONLY <1>1, <1>8, p \in 1 .. Len(t), SMT
<1>10. CopyOf(s, t, p)
  BY ONLY <1>4, <1>8, <1>9 DEF CopyOf
<1> QED
  BY ONLY <1>6, <1>7, <1>8, <1>9, <1>10

(* The units at a position, taken together.                                *)
LEMMA Together ==
  ASSUME NEW t \in Seq(Nat), NEW p \in 1 .. Len(t), NEW w \in 1 .. 4, p + w - 1 <= Len(t)
  PROVE  LET s == Piece(t, p, w)
         IN  /\ Len(s) = w /\ Units(s) /\ CopyOf(s, t, p)
             /\ \A from, to : IsCharacter(from, s) /\ Holds(to, Meaning(from, s))
                                => s \in CharactersAt(from, to, t, p)
<1> DEFINE s == Piece(t, p, w)
<1>1. Len(t) \in Nat
  BY LenProperties
<1>2. s \in Seq(Nat) /\ Len(s) = w /\ \A i \in 1 .. w : s[i] = t[p + i - 1]
  <2>1. p \in Nat /\ 1 <= p /\ w \in Nat /\ 1 <= w
    BY ONLY <1>1, p \in 1 .. Len(t), w \in 1 .. 4, SMT
  <2> QED
    BY ONLY <2>1, t \in Seq(Nat), p + w - 1 <= Len(t), PieceIs
<1>3. Units(s)
  BY <1>2, UnitsTyped
<1>4. /\ p + 1 - 1 = p /\ p + 2 - 1 = p + 1 /\ p + 3 - 1 = p + 2 /\ p + 4 - 1 = p + 3
      /\ 1 \in 1 .. w
      /\ 2 <= w => 2 \in 1 .. w
      /\ 3 <= w => 3 \in 1 .. w
      /\ 4 <= w => 4 \in 1 .. w
  OBVIOUS
<1>5. CopyOf(s, t, p)
  <2> HIDE DEF s
  <2> QED BY ONLY <1>2, <1>4 DEF CopyOf
<1>6. p + w - 1 \in p .. (IF p + 3 < Len(t) THEN p + 3 ELSE Len(t))
  BY <1>1
<1>7. \A from, to : IsCharacter(from, s) /\ Holds(to, Meaning(from, s))
                      => s \in CharactersAt(from, to, t, p)
  BY <1>6 DEF CharactersAt, Piece
<1> QED
  BY <1>2, <1>3, <1>5, <1>7

LEMMA OneCharacterAtMost ==
  ASSUME NEW from \in Texts, NEW to, NEW t \in Seq(Nat), NEW p \in 1 .. Len(t),
         NEW s \in CharactersAt(from, to, t, p), NEW u \in CharactersAt(from, to, t, p)
  PROVE  s = u
<1>1. Units(s) /\ Units(u) /\ IsCharacter(from, s) /\ IsCharacter(from, u)
  BY CharacterFacts
<1>2. s[1] = u[1] /\ (Len(s) = 2 => s[2] = t[p + 1]) /\ (Len(u) = 2 => u[2] = t[p + 1])
  <2>1. CopyOf(s, t, p) /\ CopyOf(u, t, p)
    BY CharacterFacts
  <2> QED
    BY ONLY <2>1, SMT DEF CopyOf
<1>3. Len(s) = Len(u)
  <2>1. CASE from = "utf8"
    <3>1. UTF8Character(s) /\ UTF8Character(u)
      BY ONLY <1>1, <2>1 DEF IsCharacter
    <3> QED
      BY <1>1, <1>2, <3>1, UTF8CharacterIs
  <2>2. CASE from # "utf8"
    <3>1. ASSUME NEW v, Units(v), IsCharacter(from, v)
          PROVE  /\ Len(v) = 1 \/ (Len(v) = 2 /\ from = "utf16")
                 /\ Len(v) = 1 => (from = "utf16" => ~ Surrogate(v[1]))
                 /\ Len(v) = 2 => High(v[1])
      BY <2>2, <3>1, MeaningOthers
    <3>2. s[1] \in Nat /\ (High(s[1]) => Surrogate(s[1]))
      <4>1. Len(s) = 1 \/ Len(s) = 2
        BY <1>1, <3>1
      <4> QED
        BY ONLY <1>1, <4>1, SMT DEF Units, High, Surrogate
    <3>3. /\ Len(s) = 1 \/ (Len(s) = 2 /\ from = "utf16")
          /\ Len(u) = 1 \/ (Len(u) = 2 /\ from = "utf16")
      BY ONLY <1>1, <3>1
    <3>4. Len(s) = 1 /\ from = "utf16" => ~ Surrogate(s[1])
      BY ONLY <1>1, <3>1
    <3>5. Len(u) = 1 /\ from = "utf16" => ~ Surrogate(u[1])
      BY ONLY <1>1, <3>1
    <3>6. (Len(s) = 2 => High(s[1])) /\ (Len(u) = 2 => High(u[1]))
      BY ONLY <1>1, <3>1
    <3> QED
      BY ONLY <1>2, <3>2, <3>3, <3>4, <3>5, <3>6
  <2> QED BY <2>1, <2>2
<1> QED
  <2>1. \A v \in CharactersAt(from, to, t, p) : v = Piece(t, p, Len(v))
    BY CharacterFacts
  <2>2. s = Piece(t, p, Len(s)) /\ u = Piece(t, p, Len(u))
    BY <2>1
  <2> QED BY ONLY <1>3, <2>1, <2>2

LEMMA MeaningNat ==
  ASSUME NEW from \in Texts, NEW s, Units(s), IsCharacter(from, s)
  PROVE  Meaning(from, s) \in Nat /\ Scalar(Meaning(from, s)) /\ Len(s) \in 1 .. 4
<1>1. CASE from = "utf8"
  <2>1. UTF8Character(s)
    BY ONLY IsCharacter(from, s), <1>1 DEF IsCharacter
  <2>2. Len(s) \in 1 .. 4
    BY <2>1, UTF8CharacterIs
  <2> QED
    BY <1>1, <2>1, <2>2, MeaningUTF8
<1>2. CASE from # "utf8"
  <2>1. Len(s) = 1 \/ Len(s) = 2
    BY <1>2, MeaningOthers
  <2> QED
    BY <1>2, <2>1, MeaningOthers
<1> QED
  BY <1>1, <1>2

-----------------------------------------------------------------------------
(* What a text reads as once n of its units are read                       *)

After(from, to, t, n) == (CHOOSE R : IsReading(from, to, t, R))[n + 1]

(* A character of w units that stands for c starts at p.                   *)
StartsAt(from, to, t, p, w, c) ==
  \E s \in CharactersAt(from, to, t, p) : Len(s) = w /\ Meaning(from, s) = c

LEMMA ReadingIsAfter ==
  ASSUME NEW from, NEW to, NEW t
  PROVE  Reading(from, to, t) = After(from, to, t, 0)
BY ReadingDef, 0 + 1 = 1 DEF After

LEMMA AfterIs ==
  ASSUME NEW from \in Texts, NEW to, NEW t \in Seq(Nat), NEW n \in 0 .. Len(t)
  PROVE  LET R == CHOOSE Q : IsReading(from, to, t, Q)
         IN  R[n + 1] = ReadFrom(from, to, t, R, n + 1)
<1> DEFINE R == CHOOSE Q : IsReading(from, to, t, Q)
<1>1. n + 1 \in 1 .. Len(t) + 1
  BY LenProperties
<1>2. IsReading(from, to, t, R)
  BY ReadingExists
<1> HIDE DEF R
<1>3. R = [p \in 1 .. Len(t) + 1 |-> ReadFrom(from, to, t, R, p)]
  BY ONLY <1>2 DEF IsReading
<1>4. R[n + 1] = ReadFrom(from, to, t, R, n + 1)
  BY ONLY <1>1, <1>3
<1> QED
  BY <1>4 DEF R

LEMMA AfterEnd ==
  ASSUME NEW from \in Texts, NEW to, NEW t \in Seq(Nat)
  PROVE  After(from, to, t, Len(t)) = [points |-> << >>, stop |-> Len(t), whole |-> TRUE]
<1> DEFINE R == CHOOSE Q : IsReading(from, to, t, Q)
<1>1. Len(t) \in 0 .. Len(t) /\ Len(t) + 1 > Len(t)
  BY LenProperties
<1>2. R[Len(t) + 1] = ReadFrom(from, to, t, R, Len(t) + 1)
  BY <1>1, AfterIs
<1>3. After(from, to, t, Len(t)) = R[Len(t) + 1]
  BY DEF After
<1> HIDE DEF R
<1> QED
  BY ONLY <1>1, <1>2, <1>3 DEF ReadFrom

LEMMA AfterNone ==
  ASSUME NEW from \in Texts, NEW to, NEW t \in Seq(Nat), NEW n \in 0 .. Len(t), n < Len(t),
         CharactersAt(from, to, t, n + 1) = {}
  PROVE  After(from, to, t, n) = [points |-> << >>, stop |-> n, whole |-> FALSE]
<1> DEFINE R == CHOOSE Q : IsReading(from, to, t, Q)
<1>1. ~ (n + 1 > Len(t)) /\ (n + 1) - 1 = n
  BY LenProperties
<1>2. R[n + 1] = ReadFrom(from, to, t, R, n + 1)
  BY AfterIs
<1>3. After(from, to, t, n) = R[n + 1]
  BY DEF After
<1> HIDE DEF R
<1>4. R[n + 1] = [points |-> << >>, stop |-> (n + 1) - 1, whole |-> FALSE]
  BY ONLY <1>1, <1>2, CharactersAt(from, to, t, n + 1) = {}, Zenon DEF ReadFrom
<1> QED
  BY ONLY <1>1, <1>3, <1>4

(* A reading with one more code point in front.                            *)
Prefixed(c, r) == [r EXCEPT !.points = << c >> \o r.points]

LEMMA AfterMore ==
  ASSUME NEW from \in Texts, NEW to, NEW t \in Seq(Nat), NEW n \in 0 .. Len(t), n < Len(t),
         NEW w, NEW c, StartsAt(from, to, t, n + 1, w, c)
  PROVE  After(from, to, t, n) = Prefixed(c, After(from, to, t, n + w))
<1> DEFINE R == CHOOSE Q : IsReading(from, to, t, Q)
           s == CHOOSE u \in CharactersAt(from, to, t, n + 1) : TRUE
<1>1. R[n + 1] = ReadFrom(from, to, t, R, n + 1)
  BY AfterIs
<1>2. After(from, to, t, n) = R[n + 1]
  BY DEF After
<1>3. PICK u \in CharactersAt(from, to, t, n + 1) : Len(u) = w /\ Meaning(from, u) = c
  BY DEF StartsAt
<1>4. CharactersAt(from, to, t, n + 1) # {} /\ s \in CharactersAt(from, to, t, n + 1)
  BY <1>3
<1>5. n + 1 \in 1 .. Len(t) /\ ~ (n + 1 > Len(t)) /\ n \in Int
  BY LenProperties
<1>6. R[n + 1] = Prefixed(Meaning(from, s), R[n + 1 + Len(s)])
  <2> HIDE DEF R
  <2> QED
    BY ONLY <1>1, <1>4, <1>5 DEF ReadFrom, ReadOn, Prefixed
<1> HIDE DEF s
<1>7. u = s
  BY <1>3, <1>4, <1>5, OneCharacterAtMost
<1>8. w \in 1 .. 4
  BY <1>3, <1>5, CharacterFacts
<1>9. n + 1 + w = (n + w) + 1
  BY <1>5, <1>8
<1>10. After(from, to, t, n + w) = R[(n + w) + 1]
  BY DEF After
<1> HIDE DEF R
<1> QED
  BY ONLY <1>2, <1>3, <1>6, <1>7, <1>9, <1>10

AReading == [points : Seq(Nat), stop : Nat, whole : BOOLEAN]

LEMMA ReadingFields ==
  /\ \A a \in Seq(Nat), b \in Nat, f \in BOOLEAN : [points |-> a, stop |-> b, whole |-> f] \in AReading
  /\ \A r \in AReading : r.points \in Seq(Nat) /\ r.stop \in Nat /\ r.whole \in BOOLEAN
BY DEF AReading

LEMMA ReadingExcept ==
  ASSUME NEW r \in AReading, NEW x
  PROVE [r EXCEPT !.points = x] = [points |-> x, stop |-> r.stop, whole |-> r.whole]
BY SMT DEF AReading

LEMMA Prepend == << >> \in Seq(Nat) /\ \A c \in Nat, a \in Seq(Nat) : << c >> \o a \in Seq(Nat)
<1>1. << >> \in Seq(Nat) /\ \A c \in Nat : << c >> \in Seq(Nat)
  OBVIOUS
<1> QED
  BY <1>1, ConcatProperties

LEMMA AfterType ==
  ASSUME NEW from \in Texts, NEW to, NEW t \in Seq(Nat)
  PROVE  \A n \in 0 .. Len(t) :
           LET r == After(from, to, t, n)
           IN  /\ r \in AReading
               /\ r.stop \in n .. Len(t)
               /\ r.whole => r.stop = Len(t)
               /\ ~ r.whole => r.stop < Len(t) /\ CharactersAt(from, to, t, r.stop + 1) = {}
<1> DEFINE A(n) == After(from, to, t, n)
           Good(n) == /\ A(n) \in AReading
                      /\ A(n).stop \in n .. Len(t)
                      /\ A(n).whole => A(n).stop = Len(t)
                      /\ ~ A(n).whole => A(n).stop < Len(t) /\ CharactersAt(from, to, t, A(n).stop + 1) = {}
           G == {n \in 0 .. Len(t) : Good(n)}
<1>1. Len(t) \in Nat
  BY LenProperties
<1>2. ASSUME NEW n \in 0 .. Len(t), n + 1 .. Len(t) \subseteq G PROVE Good(n)
  <2>0. n \in Nat /\ n \in n .. Len(t)
    BY <1>1
  <2>1. CASE n = Len(t)
    <3>1. A(n) = [points |-> << >>, stop |-> n, whole |-> TRUE]
      BY <2>1, AfterEnd
    <3>2. A(n) \in AReading
      BY ONLY <2>0, <3>1, Prepend, ReadingFields, TRUE \in BOOLEAN
    <3>3. A(n).stop = n /\ A(n).whole
      BY ONLY <3>1
    <3> HIDE DEF A
    <3> QED
      BY ONLY <2>0, <2>1, <3>2, <3>3
  <2>2. CASE n < Len(t) /\ CharactersAt(from, to, t, n + 1) = {}
    <3>1. A(n) = [points |-> << >>, stop |-> n, whole |-> FALSE]
      BY <2>2, AfterNone
    <3>2. A(n) \in AReading
      BY ONLY <2>0, <3>1, Prepend, ReadingFields, FALSE \in BOOLEAN
    <3>3. A(n).stop = n /\ ~ A(n).whole
      BY ONLY <3>1
    <3> HIDE DEF A
    <3> QED
      BY ONLY <2>0, <2>2, <3>2, <3>3
  <2>3. CASE n < Len(t) /\ CharactersAt(from, to, t, n + 1) # {}
    <3>1. PICK s : s \in CharactersAt(from, to, t, n + 1)
      BY <2>3
    <3>2. n + 1 \in 1 .. Len(t) /\ n \in Nat
      BY <1>1, <2>3
    <3> DEFINE w == Len(s)
               c == Meaning(from, s)
    <3>3. /\ w \in 1 .. 4 /\ (n + 1) + w \in (n + 1) + 1 .. Len(t) + 1
          /\ Units(s) /\ IsCharacter(from, s)
      BY <3>1, <3>2, CharacterFacts
    <3>4. n + w \in n + 1 .. Len(t) /\ n + w \in Nat
      BY ONLY <1>1, <3>2, <3>3
    <3>5. c \in Nat
      BY <3>3, MeaningNat
    <3>6. StartsAt(from, to, t, n + 1, w, c)
      BY <3>1 DEF StartsAt
    <3> HIDE DEF w, c
    <3> DEFINE r == A(n + w)
    <3>7. A(n) = Prefixed(c, r)
      BY <2>3, <3>6, AfterMore
    <3>8. Good(n + w)
      BY <1>2, <3>4
    <3>9. r \in AReading
      BY ONLY <3>8
    <3> HIDE DEF A, r
    <3>10. A(n) = [points |-> << c >> \o r.points, stop |-> r.stop, whole |-> r.whole]
      BY ONLY <3>7, <3>9, ReadingExcept DEF Prefixed
    <3>11. << c >> \o r.points \in Seq(Nat) /\ r.stop \in Nat /\ r.whole \in BOOLEAN
      BY ONLY <3>5, <3>9, ReadingFields, Prepend
    <3>12. A(n) \in AReading
      BY ONLY <3>10, <3>11, ReadingFields
    <3>13. A(n).stop = r.stop /\ A(n).whole = r.whole
      BY ONLY <3>10
    <3>14. r.stop \in n + w .. Len(t) /\ (r.whole => r.stop = Len(t))
           /\ (~ r.whole => r.stop < Len(t) /\ CharactersAt(from, to, t, r.stop + 1) = {})
      BY ONLY <3>8 DEF r
    <3>15. r.stop \in n .. Len(t)
      BY ONLY <1>1, <3>2, <3>4, <3>14
    <3> QED
      BY ONLY <3>12, <3>13, <3>14, <3>15
  <2> QED
    BY <1>1, <2>1, <2>2, <2>3
<1>3. 0 .. Len(t) \subseteq G
  <2>1. \A n \in 0 .. Len(t) : n + 1 .. Len(t) \subseteq G => n \in G
    BY <1>2
  <2> HIDE DEF G
  <2> QED BY <1>1, <2>1, Backward
<1> QED
  BY <1>3

(* Sequences the provers are better off not looking into.                  *)
InFront(c, s) == << c >> \o s

AtEnd(s, c) == Append(s, c)

LEMMA FrontAndEnd ==
  /\ \A c \in Nat, d \in Nat, s \in Seq(Nat) : InFront(d, AtEnd(s, c)) = AtEnd(InFront(d, s), c)
  /\ \A c : InFront(c, << >>) = AtEnd(<< >>, c)
  /\ \A c \in Nat, s \in Seq(Nat) : /\ InFront(c, s) \in Seq(Nat) /\ Len(InFront(c, s)) = Len(s) + 1
                                   /\ AtEnd(s, c) \in Seq(Nat) /\ Len(AtEnd(s, c)) = Len(s) + 1
<1>1. \A c \in Nat, d \in Nat, s \in Seq(Nat) : InFront(d, AtEnd(s, c)) = AtEnd(InFront(d, s), c)
  BY SMT DEF InFront, AtEnd
<1>2. \A c : InFront(c, << >>) = AtEnd(<< >>, c)
  BY SMT DEF InFront, AtEnd
<1>3. \A c \in Nat, s \in Seq(Nat) : AtEnd(s, c) \in Seq(Nat) /\ Len(AtEnd(s, c)) = Len(s) + 1
  BY AppendProperties DEF AtEnd
<1>4. \A c \in Nat, s \in Seq(Nat) : InFront(c, s) \in Seq(Nat) /\ Len(InFront(c, s)) = Len(s) + 1
  <2> SUFFICES ASSUME NEW c \in Nat, NEW s \in Seq(Nat)
               PROVE  InFront(c, s) \in Seq(Nat) /\ Len(InFront(c, s)) = Len(s) + 1
    OBVIOUS
  <2>1. << c >> \in Seq(Nat) /\ Len(<< c >>) = 1 /\ Len(s) \in Nat
    BY LenProperties
  <2> QED
    BY <2>1, ConcatProperties DEF InFront
<1> QED
  BY <1>1, <1>2, <1>3, <1>4

(* The readings at the end, and where no character starts, by their fields. *)
LEMMA AfterLast ==
  ASSUME NEW from \in Texts, NEW to, NEW t \in Seq(Nat)
  PROVE  LET r == After(from, to, t, Len(t))
         IN  r.points = << >> /\ r.stop = Len(t) /\ r.whole
<1> DEFINE r == After(from, to, t, Len(t))
<1>1. r = [points |-> << >>, stop |-> Len(t), whole |-> TRUE]
  BY AfterEnd
<1> HIDE DEF r
<1>2. r.points = << >> /\ r.stop = Len(t) /\ r.whole
  BY ONLY <1>1
<1> QED
  BY ONLY <1>2 DEF r

LEMMA AfterFault ==
  ASSUME NEW from \in Texts, NEW to, NEW t \in Seq(Nat), NEW n \in 0 .. Len(t), n < Len(t),
         CharactersAt(from, to, t, n + 1) = {}
  PROVE  LET r == After(from, to, t, n)
         IN  r.points = << >> /\ r.stop = n /\ ~ r.whole
<1> DEFINE r == After(from, to, t, n)
<1>1. r = [points |-> << >>, stop |-> n, whole |-> FALSE]
  BY AfterNone
<1> HIDE DEF r
<1>2. r.points = << >> /\ r.stop = n /\ ~ r.whole
  BY ONLY <1>1
<1> QED
  BY ONLY <1>2 DEF r

LEMMA AfterOne ==
  ASSUME NEW from \in Texts, NEW to, NEW t \in Seq(Nat), NEW n \in 0 .. Len(t), n < Len(t),
         NEW w, NEW c, StartsAt(from, to, t, n + 1, w, c)
  PROVE  /\ w \in 1 .. 4 /\ n + w \in n + 1 .. Len(t) /\ c \in Nat /\ Scalar(c)
         /\ After(from, to, t, n).points = InFront(c, After(from, to, t, n + w).points)
         /\ After(from, to, t, n).stop = After(from, to, t, n + w).stop
         /\ After(from, to, t, n).whole <=> After(from, to, t, n + w).whole
<1>1. Len(t) \in Nat
  BY LenProperties
<1>2. PICK s \in CharactersAt(from, to, t, n + 1) : Len(s) = w /\ Meaning(from, s) = c
  BY DEF StartsAt
<1>3. n + 1 \in 1 .. Len(t)
  BY <1>1
<1>4. /\ Len(s) \in 1 .. 4 /\ (n + 1) + Len(s) \in (n + 1) + 1 .. Len(t) + 1
      /\ Units(s) /\ IsCharacter(from, s)
  BY <1>3, CharacterFacts
<1>5. w \in 1 .. 4 /\ n + w \in n + 1 .. Len(t) /\ n + w \in 0 .. Len(t)
  <2>1. n \in Nat
    BY <1>1
  <2> QED BY ONLY <1>1, <1>2, <1>4, <2>1
<1>6. c \in Nat /\ Scalar(c)
  BY <1>2, <1>4, MeaningNat
<1> DEFINE r == After(from, to, t, n + w)
<1>7. After(from, to, t, n) = Prefixed(c, r)
  BY AfterMore
<1>8. r \in AReading
  BY <1>5, AfterType
<1> HIDE DEF r
<1>9. After(from, to, t, n) = [points |-> InFront(c, r.points), stop |-> r.stop, whole |-> r.whole]
  BY ONLY <1>7, <1>8, ReadingExcept DEF Prefixed, InFront
<1> DEFINE q == After(from, to, t, n)
<1> HIDE DEF q
<1>10. q = [points |-> InFront(c, r.points), stop |-> r.stop, whole |-> r.whole]
  BY ONLY <1>9 DEF q
<1>11. q.points = InFront(c, r.points) /\ q.stop = r.stop /\ q.whole = r.whole
  BY ONLY <1>10
<1> QED
  BY ONLY <1>5, <1>6, <1>11 DEF r, q

-----------------------------------------------------------------------------
(* One more character at the end of a text                                 *)

LEMMA JoinType ==
  ASSUME NEW t \in Seq(Nat), NEW u \in Seq(Nat)
  PROVE  t \o u \in Seq(Nat) /\ Len(t \o u) = Len(t) + Len(u)
BY ConcatProperties

LEMMA JoinAssociative ==
  ASSUME NEW a \in Seq(Nat), NEW b \in Seq(Nat), NEW d \in Seq(Nat)
  PROVE  a \o (b \o d) = (a \o b) \o d
<1>1. (a \o b) \o d = a \o (b \o d)
  BY ConcatAssociative, SMTT(30)
<1> QED
  BY ONLY <1>1

LEMMA JoinIs ==
  ASSUME NEW t \in Seq(Nat), NEW u \in Seq(Nat), NEW v, v = t \o u
  PROVE  /\ \A i \in 1 .. Len(t) : v[i] = t[i]
         /\ \A i \in 1 .. Len(u) : v[Len(t) + i] = u[i]
<1>1. Len(t) \in Nat /\ Len(u) \in Nat
  BY LenProperties
<1>2. \A i \in 1 .. Len(t) + Len(u) : v[i] = IF i <= Len(t) THEN t[i] ELSE u[i - Len(t)]
  BY ConcatProperties
<1>3. \A i \in 1 .. Len(u) : Len(t) + i \in 1 .. Len(t) + Len(u) /\ ~ (Len(t) + i <= Len(t))
                              /\ (Len(t) + i) - Len(t) = i
  BY ONLY <1>1
<1>4. \A i \in 1 .. Len(t) : i \in 1 .. Len(t) + Len(u) /\ i <= Len(t)
  BY ONLY <1>1
<1> QED
  BY ONLY <1>2, <1>3, <1>4

LEMMA JoinFront ==
  ASSUME NEW t \in Seq(Nat), NEW u \in Seq(Nat), NEW p \in 1 .. Len(t), NEW w \in Nat,
         1 <= w, p + w - 1 <= Len(t)
  PROVE  Piece(t \o u, p, w) = Piece(t, p, w)
<1> DEFINE v == t \o u
<1>1. Len(t) \in Nat /\ Len(u) \in Nat
  BY LenProperties
<1>2. v \in Seq(Nat) /\ Len(v) = Len(t) + Len(u) /\ \A i \in 1 .. Len(t) : v[i] = t[i]
  BY JoinType, JoinIs
<1> HIDE DEF v
<1>3. p \in Nat /\ 1 <= p /\ p + w - 1 <= Len(v) /\ \A i \in 1 .. w : p + i - 1 \in 1 .. Len(t)
  BY ONLY <1>1, <1>2, p \in 1 .. Len(t), w \in Nat, 1 <= w, p + w - 1 <= Len(t)
<1>4. /\ Piece(t, p, w) \in Seq(Nat) /\ Len(Piece(t, p, w)) = w
      /\ \A i \in 1 .. w : Piece(t, p, w)[i] = t[p + i - 1]
  BY ONLY t \in Seq(Nat), w \in Nat, 1 <= w, p + w - 1 <= Len(t), <1>3, PieceIs
<1>5. /\ Piece(v, p, w) \in Seq(Nat) /\ Len(Piece(v, p, w)) = w
      /\ \A i \in 1 .. w : Piece(v, p, w)[i] = v[p + i - 1]
  BY ONLY w \in Nat, 1 <= w, <1>2, <1>3, PieceIs
<1>6. \A i \in 1 .. w : Piece(t, p, w)[i] = Piece(v, p, w)[i]
  BY ONLY <1>2, <1>3, <1>4, <1>5
<1>7. Piece(v, p, w) = Piece(t, p, w)
  BY ONLY <1>4, <1>5, <1>6, SeqEqual
<1> QED
  BY <1>7 DEF v

LEMMA JoinBack ==
  ASSUME NEW t \in Seq(Nat), NEW u \in Seq(Nat), 1 <= Len(u)
  PROVE  Piece(t \o u, Len(t) + 1, Len(u)) = u
<1> DEFINE v == t \o u
<1>1. Len(t) \in Nat /\ Len(u) \in Nat
  BY LenProperties
<1>2. v \in Seq(Nat) /\ Len(v) = Len(t) + Len(u) /\ \A i \in 1 .. Len(u) : v[Len(t) + i] = u[i]
  BY JoinType, JoinIs
<1> HIDE DEF v
<1>3. /\ Len(t) + 1 \in Nat /\ 1 <= Len(t) + 1 /\ (Len(t) + 1) + Len(u) - 1 <= Len(v)
      /\ \A i \in 1 .. Len(u) : (Len(t) + 1) + i - 1 = Len(t) + i
  BY ONLY <1>1, <1>2
<1>4. /\ Piece(v, Len(t) + 1, Len(u)) \in Seq(Nat) /\ Len(Piece(v, Len(t) + 1, Len(u))) = Len(u)
      /\ \A i \in 1 .. Len(u) : Piece(v, Len(t) + 1, Len(u))[i] = v[(Len(t) + 1) + i - 1]
  BY ONLY <1>1, <1>2, 1 <= Len(u), <1>3, PieceIs
<1>5. \A i \in 1 .. Len(u) : Piece(v, Len(t) + 1, Len(u))[i] = u[i]
  BY ONLY <1>2, <1>3, <1>4
<1>6. Piece(v, Len(t) + 1, Len(u)) = u
  BY ONLY u \in Seq(Nat), <1>4, <1>5, SeqEqual
<1> QED
  BY <1>6 DEF v

LEMMA StartsAtIs ==
  ASSUME NEW from, NEW to, NEW t \in Seq(Nat), NEW p \in 1 .. Len(t),
         NEW w \in 1 .. 4, p + w - 1 <= Len(t),
         IsCharacter(from, Piece(t, p, w)), Holds(to, Meaning(from, Piece(t, p, w)))
  PROVE  StartsAt(from, to, t, p, w, Meaning(from, Piece(t, p, w)))
<1>1. Len(Piece(t, p, w)) = w /\ Piece(t, p, w) \in CharactersAt(from, to, t, p)
  BY Together
<1> QED
  BY ONLY <1>1 DEF StartsAt

LEMMA WidthOf ==
  ASSUME NEW w \in 1 .. 4
  PROVE  w \in Nat /\ 1 <= w
OBVIOUS

LEMMA StartsAtPiece ==
  ASSUME NEW from \in Texts, NEW to, NEW t \in Seq(Nat), NEW p \in 1 .. Len(t), NEW w, NEW c,
         StartsAt(from, to, t, p, w, c)
  PROVE  /\ w \in 1 .. 4 /\ p + w - 1 <= Len(t) /\ c = Meaning(from, Piece(t, p, w))
         /\ IsCharacter(from, Piece(t, p, w)) /\ Holds(to, c)
         /\ Units(Piece(t, p, w)) /\ CopyOf(Piece(t, p, w), t, p) /\ Len(Piece(t, p, w)) = w
         /\ c \in Nat /\ Scalar(c)
<1>1. PICK s \in CharactersAt(from, to, t, p) : Len(s) = w /\ Meaning(from, s) = c
  BY DEF StartsAt
<1>2. /\ Units(s) /\ CopyOf(s, t, p)
      /\ Len(s) \in 1 .. 4 /\ p + Len(s) \in p + 1 .. Len(t) + 1
      /\ s = Piece(t, p, Len(s))
      /\ IsCharacter(from, s) /\ Holds(to, Meaning(from, s))
  BY CharacterFacts
<1>3. w \in 1 .. 4 /\ p + w - 1 <= Len(t)
  BY <1>1, <1>2, LenProperties
<1>4. Meaning(from, s) \in Nat /\ Scalar(Meaning(from, s))
  BY ONLY from \in Texts, <1>2, MeaningNat
<1> QED
  BY ONLY <1>1, <1>2, <1>3, <1>4

LEMMA ReadingAppend ==
  ASSUME NEW e \in Texts, NEW t \in Seq(Nat), NEW u \in Seq(Nat),
         Len(u) \in 1 .. 4, IsCharacter(e, u), Holds(e, Meaning(e, u)),
         Reading(e, e, t).whole
  PROVE  /\ Reading(e, e, t \o u).points = AtEnd(Reading(e, e, t).points, Meaning(e, u))
         /\ Reading(e, e, t \o u).whole
<1> DEFINE v == t \o u
           c == Meaning(e, u)
           A(n) == After(e, e, t, n)
           B(n) == After(e, e, v, n)
           Good(n) == A(n).whole => B(n).points = AtEnd(A(n).points, c) /\ B(n).whole
           G == {n \in 0 .. Len(t) : Good(n)}
<1>1. Len(t) \in Nat /\ Len(u) \in Nat
  BY LenProperties
<1>2. 1 <= Len(u) /\ Len(u) \in 1 .. 4 /\ Len(u) \in Nat
  <2>1. \A w \in 1 .. 4 : 1 <= w /\ w \in Nat
    BY ONLY SMT
  <2> QED
    BY ONLY Len(u) \in 1 .. 4, <2>1, Zenon
<1>3. v \in Seq(Nat) /\ Len(v) = Len(t) + Len(u)
  BY ONLY t \in Seq(Nat), u \in Seq(Nat), JoinType
<1>4. \A p \in 1 .. Len(t), w \in Nat : 1 <= w /\ p + w - 1 <= Len(t) => Piece(v, p, w) = Piece(t, p, w)
  BY ONLY t \in Seq(Nat), u \in Seq(Nat), JoinFront, Zenon
<1>5. Piece(v, Len(t) + 1, Len(u)) = u
  BY ONLY t \in Seq(Nat), u \in Seq(Nat), <1>2, JoinBack, Zenon
<1>6. c \in Nat
  BY <1>2, UnitsTyped, MeaningNat
<1> HIDE DEF v, c
<1>7. ASSUME NEW n \in 0 .. Len(t), n + 1 .. Len(t) \subseteq G, A(n).whole
      PROVE  B(n).points = AtEnd(A(n).points, c) /\ B(n).whole
  <2>1. n \in Nat /\ n \in 0 .. Len(v) /\ n < Len(v)
    BY ONLY <1>1, <1>2, <1>3, n \in 0 .. Len(t)
  <2>2. CASE n = Len(t)
    <3>1. A(n).points = << >>
      BY <2>2, AfterLast
    <3>2. StartsAt(e, e, v, n + 1, Len(u), c)
      <4>1. n + 1 \in 1 .. Len(v) /\ (n + 1) + Len(u) - 1 <= Len(v)
        BY ONLY <1>1, <1>2, <1>3, <2>2
      <4>2. Piece(v, n + 1, Len(u)) = u
        BY ONLY <1>5, <2>2
      <4>3. IsCharacter(e, Piece(v, n + 1, Len(u))) /\ Holds(e, Meaning(e, Piece(v, n + 1, Len(u))))
        BY ONLY <4>2, IsCharacter(e, u), Holds(e, Meaning(e, u))
      <4>4. StartsAt(e, e, v, n + 1, Len(u), Meaning(e, Piece(v, n + 1, Len(u))))
        BY ONLY <1>2, <1>3, <4>1, <4>3, StartsAtIs, Zenon
      <4> QED
        BY ONLY <4>2, <4>4 DEF c
    <3>3. B(n).points = InFront(c, B(n + Len(u)).points) /\ (B(n).whole <=> B(n + Len(u)).whole)
      <4>1. PICK w : w = Len(u)
        OBVIOUS
      <4>2. StartsAt(e, e, v, n + 1, w, c)
        BY ONLY <3>2, <4>1
      <4>3. B(n).points = InFront(c, B(n + w).points) /\ (B(n).whole <=> B(n + w).whole)
        BY ONLY e \in Texts, <1>3, <2>1, <4>2, AfterOne
      <4> QED
        BY ONLY <4>1, <4>3
    <3>4. n + Len(u) = Len(v)
      BY ONLY <1>3, <2>2
    <3>5. B(n + Len(u)).points = << >> /\ B(n + Len(u)).whole
      BY <1>3, <3>4, AfterLast
    <3> HIDE DEF A, B
    <3> QED
      BY ONLY <3>1, <3>3, <3>5, FrontAndEnd
  <2>3. CASE n < Len(t)
    <3>1. n + 1 \in 1 .. Len(t)
      BY <1>1, <2>1, <2>3
    <3>2. CharactersAt(e, e, t, n + 1) # {}
      <4> SUFFICES ASSUME CharactersAt(e, e, t, n + 1) = {} PROVE FALSE
        OBVIOUS
      <4>1. ~ A(n).whole
        BY <2>3, AfterFault
      <4> QED
        BY ONLY <1>7, <4>1
    <3>3. PICK s : s \in CharactersAt(e, e, t, n + 1)
      BY <3>2
    <3> DEFINE w == Len(s)
               d == Meaning(e, s)
    <3>4. StartsAt(e, e, t, n + 1, w, d)
      BY <3>3 DEF StartsAt
    <3> HIDE DEF w, d
    <3>5. /\ w \in 1 .. 4 /\ (n + 1) + w - 1 <= Len(t)
          /\ d = Meaning(e, Piece(t, n + 1, w))
          /\ IsCharacter(e, Piece(t, n + 1, w)) /\ Holds(e, d) /\ d \in Nat
      BY <3>1, <3>4, StartsAtPiece
    <3>6. Piece(v, n + 1, w) = Piece(t, n + 1, w)
      <4>1. w \in Nat /\ 1 <= w
        BY <3>5
      <4> QED
        BY ONLY <1>4, <3>1, <3>5, <4>1
    <3>7. StartsAt(e, e, v, n + 1, w, d)
      <4>1. n + 1 \in 1 .. Len(v) /\ (n + 1) + w - 1 <= Len(v)
        BY ONLY <1>1, <1>3, <2>1, <3>1, <3>5
      <4> QED
        BY <1>3, <3>5, <3>6, <4>1, StartsAtIs
    <3>8. /\ n + w \in n + 1 .. Len(t)
          /\ A(n).points = InFront(d, A(n + w).points) /\ (A(n).whole <=> A(n + w).whole)
      BY <2>3, <3>4, AfterOne
    <3>9. B(n).points = InFront(d, B(n + w).points) /\ (B(n).whole <=> B(n + w).whole)
      BY <1>3, <2>1, <3>7, AfterOne
    <3>10. n + w \in G
      BY <1>7, <3>8
    <3>11. A(n + w) \in AReading
      <4>1. n + w \in 0 .. Len(t)
        BY ONLY <1>1, <2>1, <3>8
      <4> QED
        BY <4>1, AfterType
    <3>12. B(n + w).points = AtEnd(A(n + w).points, c) /\ B(n + w).whole
      BY <1>7, <3>8, <3>10
    <3>13. A(n + w).points \in Seq(Nat)
      BY ONLY <3>11, ReadingFields
    <3> HIDE DEF A, B
    <3>14. InFront(d, AtEnd(A(n + w).points, c)) = AtEnd(InFront(d, A(n + w).points), c)
      BY ONLY <1>6, <3>5, <3>13, FrontAndEnd
    <3> QED
      BY ONLY <3>8, <3>9, <3>12, <3>14
  <2> QED
    BY <1>1, <2>2, <2>3
<1>8. 0 .. Len(t) \subseteq G
  <2>1. \A n \in 0 .. Len(t) : n + 1 .. Len(t) \subseteq G => n \in G
    BY <1>7
  <2> HIDE DEF G
  <2> QED BY <1>1, <2>1, Backward
<1>9. 0 \in 0 .. Len(t) /\ Reading(e, e, t) = A(0) /\ Reading(e, e, v) = B(0)
  BY <1>1, ReadingIsAfter
<1> QED
  BY <1>8, <1>9 DEF v, c

-----------------------------------------------------------------------------
(* UTF-8 as the code judges it *)

LEMMA LowBits ==
  ASSUME NEW b \in Nat
  PROVE  /\ 192 <= b /\ b < 224 => b % 32 = b - 192
         /\ 224 <= b /\ b < 240 => b % 16 = b - 224
         /\ 240 <= b /\ b < 248 => b % 8 = b - 240
         /\ 128 <= b /\ b < 192 => b % 64 = b - 128
BY SMT

LEMMA TwoBytes ==
  ASSUME NEW a \in Nat, NEW b \in Nat, 192 <= a, a < 224, Tail8(b),
         NEW c, c = (a % 32) * 64 + (b % 64)
  PROVE  /\ c = (a - 192) * 64 + (b - 128) /\ c \in Nat
         /\ c < 2048
         /\ 128 <= c <=> 194 <= a
         /\ c <= 255 <=> a < 196
<1>1. a % 32 = a - 192 /\ b % 64 = b - 128
  BY LowBits, SMT DEF Tail8, Within
<1> QED
  BY <1>1, SMT DEF Tail8, Within

LEMMA Shortest ==
  ShortestOf[1] = 0 /\ ShortestOf[2] = 128 /\ ShortestOf[3] = 2048 /\ ShortestOf[4] = 65536
BY DEF ShortestOf

Overlong(s) == \/ s[1] = 192 \/ s[1] = 193
               \/ s[1] = 224 /\ s[2] < 160
               \/ s[1] = 240 /\ s[2] < 144

OpensSurrogate(s) == s[1] = 237 /\ s[2] >= 160

UTF8InRange(w, c) == ~ (c < ShortestOf[w]) /\ ~ Surrogate(c) /\ ~ (c > 1114111)

(* A lead and the continuation bytes it announces are a character just     *)
(* when what they stand for is in range.                                   *)
LEMMA UTF8Form ==
  ASSUME NEW s, Units(s), NEW w \in 1 .. 4, Len(s) = w, LeadWidth(s[1]) = w,
         \A i \in 2 .. w : Tail8(s[i]),
         NEW c, c = Assembled(s, 1)
  PROVE  /\ c = Meaning("utf8", s) /\ c \in Nat
         /\ UTF8Character(s) <=> UTF8InRange(w, c)
         /\ c < ShortestOf[w] <=> Overlong(s)
         /\ ~ (c < ShortestOf[w]) => (Surrogate(c) <=> OpensSurrogate(s))
<1>1. s[1] \in Nat
  BY SMT DEF Units
<1>2. CASE w = 1
  <2>1. c = s[1] /\ c = Meaning("utf8", s)
    BY ONLY <1>2, c = Assembled(s, 1), Len(s) = w, LeadWidth(s[1]) = w, SMT DEF Assembled, Meaning
  <2>2. s[1] < 128
    BY ONLY <1>1, <1>2, LeadWidth(s[1]) = w, LeadWidthIs, SMT
  <2>3. UTF8Character(s)
    BY ONLY <1>2, <2>2, Len(s) = w, SMT DEF UTF8Character
  <2>4. ShortestOf[w] = 0
    BY ONLY <1>2, Shortest
  <2>5. ~ (c < 0) /\ ~ Surrogate(c) /\ ~ (c > 1114111) /\ c \in Nat /\ ~ Overlong(s) /\ s[1] # 237
    BY ONLY <1>1, <2>1, <2>2, SMT DEF Surrogate, Overlong
  <2> QED
    BY ONLY <2>1, <2>3, <2>4, <2>5, SMT DEF UTF8InRange, OpensSurrogate
<1>3. CASE w = 2
  <2>1. s[2] \in Nat /\ Tail8(s[2])
    BY ONLY Units(s), <1>3, Len(s) = w, \A i \in 2 .. w : Tail8(s[i]), SMT DEF Units
  <2>2. 192 <= s[1] /\ s[1] < 224
    BY ONLY <1>1, <1>3, LeadWidth(s[1]) = w, LeadWidthIs, SMT
  <2>3. c = (s[1] % 32) * 64 + (s[2] % 64)
    BY ONLY <1>3, c = Assembled(s, 1), LeadWidth(s[1]) = w, SMT DEF Assembled
  <2>4. /\ c = (s[1] - 192) * 64 + (s[2] - 128) /\ c \in Nat /\ c < 2048
        /\ 128 <= c <=> 194 <= s[1]
    BY ONLY <1>1, <2>1, <2>2, <2>3, TwoBytes, SMT
  <2>5. c = Meaning("utf8", s)
    BY ONLY <1>3, <2>4, Len(s) = w, SMT DEF Meaning
  <2>6. UTF8Character(s) <=> 194 <= s[1]
    BY ONLY <1>1, <1>3, <2>1, <2>2, Len(s) = w, SMT DEF UTF8Character, Within
  <2>7. ShortestOf[w] = 128
    BY ONLY <1>3, Shortest
  <2>8. /\ ~ (c < 128) <=> 194 <= s[1]
        /\ ~ Surrogate(c) /\ ~ (c > 1114111) /\ s[1] # 237
        /\ c < 128 <=> Overlong(s)
    BY ONLY <1>1, <2>2, <2>4, SMT DEF Surrogate, Overlong
  <2> QED
    BY ONLY <2>4, <2>5, <2>6, <2>7, <2>8, SMT DEF UTF8InRange, OpensSurrogate
<1>4. CASE w = 3
  <2>1. s[2] \in Nat /\ Tail8(s[2]) /\ s[3] \in Nat /\ Tail8(s[3])
    BY ONLY Units(s), <1>4, Len(s) = w, \A i \in 2 .. w : Tail8(s[i]), SMT DEF Units
  <2>2. 224 <= s[1] /\ s[1] < 240
    BY ONLY <1>1, <1>4, LeadWidth(s[1]) = w, LeadWidthIs, SMT
  <2>3. c = (s[1] % 16) * 4096 + (s[2] % 64) * 64 + (s[3] % 64)
    BY ONLY <1>4, c = Assembled(s, 1), LeadWidth(s[1]) = w, SMT DEF Assembled
  <2>4. /\ c = (s[1] - 224) * 4096 + (s[2] - 128) * 64 + (s[3] - 128) /\ c \in Nat /\ c < 65536
        /\ 2048 <= c <=> (s[1] > 224 \/ s[2] >= 160)
        /\ Surrogate(c) <=> (s[1] = 237 /\ s[2] >= 160)
    <3>1. s[1] % 16 = s[1] - 224 /\ s[2] % 64 = s[2] - 128 /\ s[3] % 64 = s[3] - 128
      BY ONLY <1>1, <2>1, <2>2, LowBits, SMT DEF Tail8, Within
    <3>2. c = (s[1] - 224) * 4096 + (s[2] - 128) * 64 + (s[3] - 128)
      BY ONLY <2>3, <3>1
    <3>3. 128 <= s[2] /\ s[2] <= 191 /\ 128 <= s[3] /\ s[3] <= 191
      BY ONLY <2>1, SMT DEF Tail8, Within
    <3>4. c \in Nat /\ c < 65536
      BY ONLY <1>1, <2>1, <2>2, <3>2, <3>3, SMT
    <3>5. 2048 <= c <=> (s[1] > 224 \/ s[2] >= 160)
      BY ONLY <1>1, <2>1, <2>2, <3>2, <3>3, SMT
    <3>6. Surrogate(c) <=> (s[1] = 237 /\ s[2] >= 160)
      BY ONLY <1>1, <2>1, <2>2, <3>2, <3>3, SMT DEF Surrogate
    <3> QED
      BY ONLY <3>2, <3>4, <3>5, <3>6
  <2>5. c = Meaning("utf8", s)
    BY ONLY <1>4, <2>4, Len(s) = w, SMT DEF Meaning
  <2>6. UTF8Character(s) <=> /\ s[1] > 224 \/ s[2] >= 160
                             /\ ~ (s[1] = 237 /\ s[2] >= 160)
    BY ONLY <1>1, <1>4, <2>1, <2>2, Len(s) = w, SMT DEF UTF8Character, Within, Tail8
  <2>7. ShortestOf[w] = 2048
    BY ONLY <1>4, Shortest
  <2>8. (~ (c < 2048) <=> 2048 <= c) /\ ~ (c > 1114111)
    BY ONLY <2>4, SMT
  <2>9. c < 2048 <=> Overlong(s)
    BY ONLY <1>1, <2>1, <2>2, <2>4, <2>8, SMT DEF Overlong
  <2> QED
    BY ONLY <2>4, <2>5, <2>6, <2>7, <2>8, <2>9, SMT DEF UTF8InRange, OpensSurrogate
<1>5. CASE w = 4
  <2>1. s[2] \in Nat /\ Tail8(s[2]) /\ s[3] \in Nat /\ Tail8(s[3]) /\ s[4] \in Nat /\ Tail8(s[4])
    BY ONLY Units(s), <1>5, Len(s) = w, \A i \in 2 .. w : Tail8(s[i]), SMT DEF Units
  <2>2. 240 <= s[1] /\ s[1] < 248
    BY ONLY <1>1, <1>5, LeadWidth(s[1]) = w, LeadWidthIs, SMT
  <2>3. c = (s[1] % 8) * 262144 + (s[2] % 64) * 4096 + (s[3] % 64) * 64 + (s[4] % 64)
    BY ONLY <1>5, c = Assembled(s, 1), LeadWidth(s[1]) = w, SMT DEF Assembled
  <2>4. /\ c = (s[1] - 240) * 262144 + (s[2] - 128) * 4096 + (s[3] - 128) * 64 + (s[4] - 128)
        /\ c \in Nat
        /\ 65536 <= c <=> (s[1] > 240 \/ s[2] >= 144)
        /\ c <= 1114111 <=> (s[1] < 244 \/ (s[1] = 244 /\ s[2] < 144))
    <3>1. s[1] % 8 = s[1] - 240 /\ s[2] % 64 = s[2] - 128 /\ s[3] % 64 = s[3] - 128 /\ s[4] % 64 = s[4] - 128
      BY ONLY <1>1, <2>1, <2>2, LowBits, SMT DEF Tail8, Within
    <3> QED
      BY ONLY <1>1, <2>1, <2>2, <2>3, <3>1, SMT DEF Tail8, Within
  <2>5. c = Meaning("utf8", s)
    BY ONLY <1>5, <2>4, Len(s) = w, SMT DEF Meaning
  <2>6. UTF8Character(s) <=> /\ s[1] > 240 \/ s[2] >= 144
                             /\ s[1] < 244 \/ (s[1] = 244 /\ s[2] < 144)
    BY ONLY <1>1, <1>5, <2>1, <2>2, Len(s) = w, SMT DEF UTF8Character, Within, Tail8
  <2>7. 65536 <= c => ~ Surrogate(c)
    BY ONLY <2>4, SMT DEF Surrogate
  <2>8. ShortestOf[w] = 65536
    BY ONLY <1>5, Shortest
  <2>9. (~ (c < 65536) <=> 65536 <= c) /\ (~ (c > 1114111) <=> c <= 1114111)
    BY ONLY <2>4, SMT
  <2>10. (c < 65536 <=> Overlong(s)) /\ s[1] # 237
    BY ONLY <1>1, <2>1, <2>2, <2>4, <2>9, SMT DEF Overlong
  <2> QED
    BY ONLY <2>4, <2>5, <2>6, <2>7, <2>8, <2>9, <2>10, SMT DEF UTF8InRange, OpensSurrogate
<1> QED
  BY ONLY w \in 1 .. 4, <1>2, <1>3, <1>4, <1>5

LEMMA LeadWidthRange ==
  ASSUME NEW b \in Nat
  PROVE  LeadWidth(b) \in 0 .. 4
BY SMT DEF LeadWidth

LEMMA UnitAt ==
  ASSUME NEW t \in Seq(Nat), NEW p \in 1 .. Len(t)
  PROVE  t[p] \in Nat /\ Len(t) \in Nat /\ p \in Nat
BY LenProperties

LEMMA BrokenIs ==
  ASSUME NEW t, NEW p, NEW w, w = LeadWidth(t[p])
  PROVE  Broken(t, p) <=> \/ p + w - 1 > Len(t)
                          \/ \E i \in 1 .. w - 1 : ~ Continuation(t[p + i])
BY DEF Broken

LEMMA AssembledCopy ==
  ASSUME NEW s, NEW t, NEW p, NEW w \in 1 .. 4, Len(s) = w, LeadWidth(s[1]) = w, CopyOf(s, t, p)
  PROVE  Assembled(t, p) = Assembled(s, 1)
<1>1. s[1] = t[p] /\ LeadWidth(t[p]) = w
  BY DEF CopyOf
<1>2. 1 + 1 = 2 /\ 1 + 2 = 3 /\ 1 + 3 = 4
  BY SMT
<1>3. CASE w = 1
  BY ONLY <1>1, <1>3, LeadWidth(s[1]) = w, SMT DEF Assembled
<1>4. CASE w = 2
  <2>1. s[2] = t[p + 1]
    BY ONLY <1>4, Len(s) = w, CopyOf(s, t, p), SMT DEF CopyOf
  <2> QED
    BY ONLY <1>1, <1>2, <1>4, <2>1, LeadWidth(s[1]) = w, SMT DEF Assembled
<1>5. CASE w = 3
  <2>1. s[2] = t[p + 1] /\ s[3] = t[p + 2]
    BY ONLY <1>5, Len(s) = w, CopyOf(s, t, p), SMT DEF CopyOf
  <2> QED
    BY ONLY <1>1, <1>2, <1>5, <2>1, LeadWidth(s[1]) = w, SMT DEF Assembled
<1>6. CASE w = 4
  <2>1. s[2] = t[p + 1] /\ s[3] = t[p + 2] /\ s[4] = t[p + 3]
    BY ONLY <1>6, Len(s) = w, CopyOf(s, t, p), SMT DEF CopyOf
  <2> QED
    BY ONLY <1>1, <1>2, <1>6, <2>1, LeadWidth(s[1]) = w, SMT DEF Assembled
<1> QED
  BY ONLY w \in 1 .. 4, <1>3, <1>4, <1>5, <1>6

(* The announced units, when they are all there.                           *)
Foretold(t, p, w, s) ==
  w = LeadWidth(t[p]) /\ w # 0 /\ p + w - 1 <= Len(t) /\ s = Piece(t, p, w)

ForetoldAre(t, p, w, s) ==
  /\ w \in 1 .. 4 /\ Units(s) /\ Len(s) = w /\ CopyOf(s, t, p) /\ LeadWidth(s[1]) = w
  /\ Assembled(t, p) = Assembled(s, 1)
  /\ \A i \in 2 .. w : s[i] = t[p + (i - 1)] /\ s[i] \in Nat
  /\ Broken(t, p) <=> ~ \A i \in 2 .. w : Tail8(s[i])

LEMMA UTF8Here ==
  ASSUME NEW t \in Seq(Nat), NEW p \in 1 .. Len(t), NEW w, NEW s, Foretold(t, p, w, s)
  PROVE  ForetoldAre(t, p, w, s)
<1>0. w = LeadWidth(t[p]) /\ w # 0 /\ p + w - 1 <= Len(t) /\ s = Piece(t, p, w)
  BY DEF Foretold
<1>1. t[p] \in Nat /\ Len(t) \in Nat /\ p \in Nat
  BY UnitAt
<1>2. w \in 1 .. 4 /\ w \in Nat /\ 1 <= w
  <2>1. LeadWidth(t[p]) \in 0 .. 4
    BY ONLY <1>1, LeadWidthRange
  <2> QED
    BY ONLY <2>1, <1>0
<1>3. Units(s) /\ Len(s) = w /\ CopyOf(s, t, p)
  BY <1>0, <1>2, Together
<1>4. LeadWidth(s[1]) = w
  BY ONLY <1>3, <1>0 DEF CopyOf
<1>5. Assembled(t, p) = Assembled(s, 1)
  BY ONLY <1>2, <1>3, <1>4, AssembledCopy, Zenon
<1>6. \A i \in 1 .. w : s[i] = t[p + i - 1]
  <2>1. 1 <= p
    BY ONLY p \in 1 .. Len(t), <1>1, SMT
  <2>2. \A i \in 1 .. w : Piece(t, p, w)[i] = t[p + i - 1]
    BY ONLY <1>1, <1>2, <2>1, t \in Seq(Nat), <1>0, PieceIs, Zenon
  <2> QED
    BY ONLY <2>2, <1>0, Zenon
<1>7. ASSUME NEW i \in 2 .. w PROVE s[i] = t[p + (i - 1)] /\ s[i] \in Nat /\ i - 1 \in 1 .. w - 1
  <2>0. p + w - 1 <= Len(t)
    BY ONLY <1>0
  <2>1. i \in 1 .. w /\ p + i - 1 = p + (i - 1) /\ i - 1 \in 1 .. w - 1 /\ p + (i - 1) \in 1 .. Len(t)
    BY ONLY <1>1, <1>2, <2>0, i \in 2 .. w, SMT
  <2>2. t[p + (i - 1)] \in Nat
    BY ONLY <2>1, t \in Seq(Nat)
  <2> QED
    BY ONLY <1>6, <2>1, <2>2
<1>8. ASSUME NEW i \in 1 .. w - 1 PROVE i + 1 \in 2 .. w /\ (i + 1) - 1 = i
  BY ONLY <1>2, i \in 1 .. w - 1, SMT
<1>9. Broken(t, p) <=> ~ \A i \in 2 .. w : Tail8(s[i])
  <2>1. Broken(t, p) <=> \E i \in 1 .. w - 1 : ~ Continuation(t[p + i])
    <3>0. p + w - 1 <= Len(t)
      BY ONLY <1>0
    <3>1. ~ (p + w - 1 > Len(t))
      BY ONLY <1>1, <1>2, <3>0, SMT
    <3> QED
      BY ONLY <3>1, <1>0, BrokenIs, Zenon
  <2>2. \A i \in 2 .. w : Tail8(s[i]) <=> Continuation(t[p + (i - 1)])
    <3> SUFFICES ASSUME NEW i \in 2 .. w PROVE Tail8(s[i]) <=> Continuation(t[p + (i - 1)])
      OBVIOUS
    <3>1. s[i] = t[p + (i - 1)] /\ s[i] \in Nat
      BY <1>7
    <3>2. Continuation(s[i]) <=> Tail8(s[i])
      BY ONLY <3>1, LeadWidthIs, Zenon
    <3> QED
      BY ONLY <3>1, <3>2
  <2> QED
    BY ONLY <1>7, <1>8, <2>1, <2>2
<1> QED
  BY ONLY <1>2, <1>3, <1>4, <1>5, <1>7, <1>9 DEF ForetoldAre

LEMMA UTF8NoForm ==
  ASSUME NEW t, NEW p, NEW w \in 0 .. 4, w = LeadWidth(t[p])
  PROVE  /\ w = 0 => UTF8Verdict(t, p) = (IF Continuation(t[p]) THEN "TooLong" ELSE "HeaderBits")
         /\ w # 0 /\ Broken(t, p) => UTF8Verdict(t, p) = "TooShort"
<1>1. w # 0 => w > 0
  BY SMT
<1> QED
  BY ONLY <1>1, w = LeadWidth(t[p]), SMT DEF UTF8Verdict

LEMMA UTF8VerdictIs ==
  ASSUME NEW t, NEW p, NEW w \in 1 .. 4, w = LeadWidth(t[p]), ~ Broken(t, p),
         NEW c \in Nat, c = Assembled(t, p)
  PROVE  /\ c < ShortestOf[w] => UTF8Verdict(t, p) = "Overlong"
         /\ ~ (c < ShortestOf[w]) /\ Surrogate(c) => UTF8Verdict(t, p) = "Surrogate"
         /\ ~ (c < ShortestOf[w]) /\ ~ Surrogate(c) /\ ~ UTF8InRange(w, c)
              => UTF8Verdict(t, p) = "TooLarge"
         /\ UTF8InRange(w, c) => UTF8Verdict(t, p) = "Success"
<1>1. w > 0 /\ w # 0
  BY ONLY w \in 1 .. 4, SMT
<1>2. PICK m \in Nat : m = ShortestOf[w] /\ m <= 65536
  BY ONLY w \in 1 .. 4, Shortest, SMT
<1>3. /\ c >= m <=> ~ (c < m)
      /\ c < m => ~ (c > 1114111)
      /\ Surrogate(c) => ~ (c > 1114111)
  BY ONLY <1>2, c \in Nat, SMT DEF Surrogate
<1>4. UTF8Verdict(t, p) = CASE c < m                   -> "Overlong"
                            [] c >= m /\ Surrogate(c)  -> "Surrogate"
                            [] c > 1114111             -> "TooLarge"
                            [] OTHER                   -> "Success"
  BY ONLY <1>1, <1>2, w = LeadWidth(t[p]), ~ Broken(t, p), c = Assembled(t, p), SMT DEF UTF8Verdict
<1>5. c < m => UTF8Verdict(t, p) = "Overlong"
  BY ONLY <1>3, <1>4, SMT
<1>6. ~ (c < m) /\ Surrogate(c) => UTF8Verdict(t, p) = "Surrogate"
  BY ONLY <1>3, <1>4, SMT
<1>7. ~ (c < m) /\ ~ Surrogate(c) /\ c > 1114111 => UTF8Verdict(t, p) = "TooLarge"
  BY ONLY <1>3, <1>4, SMT
<1>8. ~ (c < m) /\ ~ Surrogate(c) /\ ~ (c > 1114111) => UTF8Verdict(t, p) = "Success"
  BY ONLY <1>3, <1>4, SMT
<1> QED
  BY ONLY <1>2, <1>5, <1>6, <1>7, <1>8, SMT DEF UTF8InRange

LEMMA UTF8Recognised ==
  ASSUME NEW t \in Seq(Nat), NEW p \in 1 .. Len(t), NEW to, NEW w, NEW c,
         StartsAt("utf8", to, t, p, w, c)
  PROVE  /\ w = LeadWidth(t[p]) /\ w \in 1 .. 4 /\ p + w - 1 <= Len(t)
         /\ c = Assembled(t, p) /\ c \in Nat /\ Holds(to, c)
         /\ ~ Broken(t, p) /\ UTF8Verdict(t, p) = "Success"
<1> DEFINE s == Piece(t, p, w)
<1>1. "utf8" \in Texts
  BY DEF Texts
<1>2. /\ w \in 1 .. 4 /\ p + w - 1 <= Len(t) /\ c = Meaning("utf8", s)
      /\ IsCharacter("utf8", s) /\ Holds(to, c)
      /\ Units(s) /\ CopyOf(s, t, p) /\ Len(s) = w /\ c \in Nat
  BY <1>1, StartsAtPiece
<1>3. s = Piece(t, p, w)
  OBVIOUS
<1> HIDE DEF s
<1>4. UTF8Character(s)
  BY ONLY <1>2 DEF IsCharacter
<1>5. Len(s) = LeadWidth(s[1]) /\ \A i \in 2 .. Len(s) : Tail8(s[i])
  BY ONLY <1>2, <1>4, UTF8CharacterIs, Zenon
<1>6. s[1] = t[p]
  BY ONLY <1>2 DEF CopyOf
<1>7. w = LeadWidth(t[p]) /\ w # 0
  <2>1. w # 0
    BY ONLY <1>2, SMT
  <2> QED
    BY ONLY <1>2, <1>5, <1>6, <2>1
<1>8. Assembled(t, p) = Assembled(s, 1) /\ ~ Broken(t, p)
  <2>1. \A i \in 2 .. w : Tail8(s[i])
    BY ONLY <1>2, <1>5
  <2>2. /\ Assembled(t, p) = Assembled(s, 1)
        /\ Broken(t, p) <=> ~ \A i \in 2 .. w : Tail8(s[i])
    <3>1. Foretold(t, p, w, s)
      BY ONLY <1>2, <1>3, <1>7 DEF Foretold
    <3>2. ForetoldAre(t, p, w, s)
      BY ONLY <3>1, t \in Seq(Nat), p \in 1 .. Len(t), UTF8Here
    <3> QED
      BY ONLY <3>2 DEF ForetoldAre
  <2> QED
    BY ONLY <2>1, <2>2
<1>9. c = Assembled(s, 1) /\ UTF8InRange(w, c)
  <2>1. PICK d : d = Assembled(s, 1)
    OBVIOUS
  <2>2. \A i \in 2 .. w : Tail8(s[i])
    BY ONLY <1>2, <1>5
  <2>3. LeadWidth(s[1]) = w
    BY ONLY <1>2, <1>5
  <2>4. /\ d = Meaning("utf8", s)
        /\ UTF8Character(s) <=> UTF8InRange(w, d)
    BY ONLY <1>2, <2>1, <2>2, <2>3, UTF8Form, Zenon
  <2> QED
    BY ONLY <1>2, <1>4, <2>1, <2>4
<1>10. UTF8Verdict(t, p) = "Success"
  <2>1. c = Assembled(t, p)
    BY ONLY <1>8, <1>9
  <2> QED
    BY ONLY <1>2, <1>7, <1>8, <1>9, <2>1, UTF8VerdictIs, Zenon
<1> QED
  BY ONLY <1>2, <1>7, <1>8, <1>9, <1>10

(* The announced units are all there and are continuation bytes.           *)
Sound(t, p, w, c, s) ==
  /\ LeadWidth(t[p]) # 0 /\ ~ Broken(t, p)
  /\ w = LeadWidth(t[p]) /\ c = Assembled(t, p) /\ s = Piece(t, p, w)

SoundIs(t, p, w, c, s) ==
  /\ w \in 1 .. 4 /\ p + w - 1 <= Len(t) /\ c \in Nat
  /\ Units(s) /\ Len(s) = w /\ CopyOf(s, t, p)
  /\ c = Meaning("utf8", s)
  /\ UTF8Character(s) <=> UTF8InRange(w, c)
  /\ c < ShortestOf[w] <=> Overlong(s)
  /\ ~ (c < ShortestOf[w]) => (Surrogate(c) <=> OpensSurrogate(s))

LEMMA UTF8Judged ==
  ASSUME NEW t \in Seq(Nat), NEW p \in 1 .. Len(t), NEW w, NEW c, NEW s, Sound(t, p, w, c, s)
  PROVE  SoundIs(t, p, w, c, s)
<1>0. LeadWidth(t[p]) # 0 /\ ~ Broken(t, p) /\ w = LeadWidth(t[p]) /\ c = Assembled(t, p) /\ s = Piece(t, p, w)
  BY DEF Sound
<1>1. t[p] \in Nat /\ Len(t) \in Nat /\ p \in Nat
  BY UnitAt
<1>2. w \in 0 .. 4 /\ w # 0
  BY ONLY <1>1, <1>0, LeadWidthRange
<1>3. p + w - 1 <= Len(t)
  <2>1. ~ (p + w - 1 > Len(t))
    BY ONLY <1>0, BrokenIs, Zenon
  <2> QED
    BY ONLY <1>1, <1>2, <2>1, SMT
<1>4. /\ w \in 1 .. 4 /\ Units(s) /\ Len(s) = w /\ CopyOf(s, t, p) /\ LeadWidth(s[1]) = w
      /\ Assembled(t, p) = Assembled(s, 1)
      /\ Broken(t, p) <=> ~ \A i \in 2 .. w : Tail8(s[i])
  <2>1. Foretold(t, p, w, s)
    BY ONLY <1>2, <1>3, <1>0 DEF Foretold
  <2>2. ForetoldAre(t, p, w, s)
    BY ONLY <2>1, t \in Seq(Nat), p \in 1 .. Len(t), UTF8Here
  <2> QED
    BY ONLY <2>2 DEF ForetoldAre
<1>5. c = Assembled(s, 1) /\ \A i \in 2 .. w : Tail8(s[i])
  BY ONLY <1>4, <1>0
<1>6. /\ c = Meaning("utf8", s) /\ c \in Nat
      /\ UTF8Character(s) <=> UTF8InRange(w, c)
      /\ c < ShortestOf[w] <=> Overlong(s)
      /\ ~ (c < ShortestOf[w]) => (Surrogate(c) <=> OpensSurrogate(s))
  BY ONLY <1>4, <1>5, UTF8Form, Zenon
<1> QED
  BY ONLY <1>3, <1>4, <1>6 DEF SoundIs

LEMMA UTF8Accepted ==
  ASSUME NEW t \in Seq(Nat), NEW p \in 1 .. Len(t), NEW to, UTF8Verdict(t, p) = "Success",
         Holds(to, Assembled(t, p))
  PROVE  StartsAt("utf8", to, t, p, LeadWidth(t[p]), Assembled(t, p))
<1> DEFINE w == LeadWidth(t[p])
           c == Assembled(t, p)
           s == Piece(t, p, w)
<1>1. w \in 0 .. 4
  BY UnitAt, LeadWidthRange
<1>2. w # 0 /\ ~ Broken(t, p)
  <2> HIDE DEF w
  <2>1. w = LeadWidth(t[p])
    BY DEF w
  <2>2. /\ w = 0 => UTF8Verdict(t, p) = (IF Continuation(t[p]) THEN "TooLong" ELSE "HeaderBits")
        /\ w # 0 /\ Broken(t, p) => UTF8Verdict(t, p) = "TooShort"
    BY ONLY <1>1, <2>1, UTF8NoForm, Zenon
  <2> QED
    BY ONLY <2>2, UTF8Verdict(t, p) = "Success", SMT
<1>3. /\ w \in 1 .. 4 /\ p + w - 1 <= Len(t) /\ c \in Nat
      /\ c = Meaning("utf8", s)
      /\ UTF8Character(s) <=> UTF8InRange(w, c)
  <2>1. Sound(t, p, w, c, s)
    BY <1>2 DEF Sound
  <2> HIDE DEF w, c, s
  <2>2. SoundIs(t, p, w, c, s)
    BY ONLY <2>1, t \in Seq(Nat), p \in 1 .. Len(t), UTF8Judged
  <2> QED
    BY ONLY <2>2 DEF SoundIs
<1>4. UTF8InRange(w, c)
  <2>1. w = LeadWidth(t[p]) /\ c = Assembled(t, p)
    OBVIOUS
  <2> HIDE DEF w, c
  <2>2. /\ c < ShortestOf[w] => UTF8Verdict(t, p) = "Overlong"
        /\ ~ (c < ShortestOf[w]) /\ Surrogate(c) => UTF8Verdict(t, p) = "Surrogate"
        /\ ~ (c < ShortestOf[w]) /\ ~ Surrogate(c) /\ ~ UTF8InRange(w, c) => UTF8Verdict(t, p) = "TooLarge"
    BY ONLY <1>2, <1>3, <2>1, UTF8VerdictIs, Zenon
  <2> QED
    BY ONLY <2>2, UTF8Verdict(t, p) = "Success", SMT DEF UTF8InRange
<1>5. IsCharacter("utf8", s) /\ Holds(to, Meaning("utf8", s))
  <2>1. UTF8Character(s)
    BY ONLY <1>3, <1>4
  <2> QED
    BY ONLY <1>3, <2>1, Holds(to, c) DEF IsCharacter
<1>6. StartsAt("utf8", to, t, p, w, Meaning("utf8", s))
  BY <1>3, <1>5, StartsAtIs
<1> QED
  BY ONLY <1>3, <1>6

LEMMA NoLead ==
  ASSUME NEW b \in Nat, LeadWidth(b) = 0
  PROVE  Tail8(b) \/ 248 <= b
BY SMT DEF Tail8, Within, LeadWidth

(* The bytes at p do not start a character, seen from the lead.            *)
OverlongAt(t, p) == \/ t[p] = 192 \/ t[p] = 193
                    \/ t[p] = 224 /\ t[p + 1] < 160
                    \/ t[p] = 240 /\ t[p + 1] < 144

OpensSurrogateAt(t, p) == t[p] = 237 /\ t[p + 1] >= 160

LEMMA FaultUTF8 ==
  ASSUME NEW t, NEW p, NEW to, t[p] \in Nat
  PROVE  /\ Tail8(t[p]) => Fault("utf8", to, t, p) = "TooLong"
         /\ 248 <= t[p] => Fault("utf8", to, t, p) = "HeaderBits"
         /\ 192 <= t[p] /\ t[p] < 248 =>
              Fault("utf8", to, t, p) =
                IF to = "latin1" /\ t[p] >= 224 THEN "TooLarge"
                ELSE IF CutOff(t, p) THEN "TooShort"
                ELSE IF OverlongAt(t, p) THEN "Overlong"
                ELSE IF OpensSurrogateAt(t, p) THEN "Surrogate"
                ELSE "TooLarge"
BY SMT DEF Fault, Tail8, Within, OverlongAt, OpensSurrogateAt

LEMMA CutOffIsBroken ==
  ASSUME NEW t \in Seq(Nat), NEW p \in 1 .. Len(t), 192 <= t[p], t[p] < 248
  PROVE  CutOff(t, p) <=> Broken(t, p)
<1>1. t[p] \in Nat /\ Len(t) \in Nat /\ p \in Nat
  BY UnitAt
<1>2. PICK w : w = LeadWidth(t[p])
  OBVIOUS
<1>3. w \in 2 .. 4 /\ w - 1 = (CASE t[p] < 224 -> 1 [] Within(t[p], 224, 239) -> 2 [] OTHER -> 3)
  <2>1. /\ t[p] < 224 => w = 2
        /\ 224 <= t[p] /\ t[p] < 240 => w = 3
        /\ 240 <= t[p] => w = 4
    BY ONLY <1>1, <1>2, 192 <= t[p], t[p] < 248, LeadWidthIs, SMT
  <2> QED
    BY ONLY <1>1, <2>1, SMT DEF Within
<1>4. CutOff(t, p) <=> \E i \in 1 .. w - 1 : IF p + i > Len(t) THEN TRUE ELSE ~ Tail8(t[p + i])
  BY ONLY <1>3 DEF CutOff
<1>5. Broken(t, p) <=> \/ p + w - 1 > Len(t)
                       \/ \E i \in 1 .. w - 1 : ~ Continuation(t[p + i])
  BY ONLY <1>2, BrokenIs
<1>6. ASSUME NEW i \in 1 .. w - 1
      PROVE  \/ p + i > Len(t) /\ p + w - 1 > Len(t)
             \/ ~ (p + i > Len(t)) /\ (Tail8(t[p + i]) <=> Continuation(t[p + i]))
  <2>1. i \in Nat /\ (p + i > Len(t) => p + w - 1 > Len(t)) /\ (~ (p + i > Len(t)) => p + i \in 1 .. Len(t))
    <3>1. w \in 2 .. 4
      BY ONLY <1>3
    <3> QED
      BY ONLY <1>1, <3>1, i \in 1 .. w - 1, SMT
  <2>2. CASE ~ (p + i > Len(t))
    <3>1. t[p + i] \in Nat
      BY ONLY <2>1, <2>2, t \in Seq(Nat)
    <3> QED
      BY ONLY <2>2, <3>1, LeadWidthIs, Zenon
  <2> QED
    BY ONLY <2>1, <2>2
<1>7. CASE p + w - 1 > Len(t)
  <2>0. w \in 2 .. 4
    BY ONLY <1>3
  <2>1. w - 1 \in 1 .. w - 1 /\ p + (w - 1) > Len(t)
    BY ONLY <1>1, <2>0, <1>7, SMT
  <2> QED
    BY ONLY <1>4, <1>5, <1>7, <2>1
<1>8. CASE ~ (p + w - 1 > Len(t))
  BY ONLY <1>4, <1>5, <1>6, <1>8
<1> QED
  BY ONLY <1>7, <1>8

LEMMA SoundBytes ==
  ASSUME NEW t, NEW p, NEW s, NEW w, LeadWidth(t[p]) = w, t[p] \in Nat, CopyOf(s, t, p), Len(s) = w
  PROVE  /\ Overlong(s) <=> OverlongAt(t, p)
         /\ OpensSurrogate(s) <=> OpensSurrogateAt(t, p)
<1>1. s[1] = t[p]
  BY DEF CopyOf
<1>2. t[p] \in {224, 237, 240} => w \in {3, 4}
  BY ONLY LeadWidth(t[p]) = w, t[p] \in Nat, LeadWidthIs, SMT
<1>3. w \in {3, 4} => s[2] = t[p + 1]
  BY ONLY CopyOf(s, t, p), Len(s) = w, SMT DEF CopyOf
<1> QED
  BY ONLY <1>1, <1>2, <1>3, SMT DEF Overlong, OverlongAt, OpensSurrogate, OpensSurrogateAt

LEMMA UTF8Refused ==
  ASSUME NEW t \in Seq(Nat), NEW p \in 1 .. Len(t), NEW to, UTF8Verdict(t, p) # "Success"
  PROVE  CharactersAt("utf8", to, t, p) = {}
<1> SUFFICES ASSUME NEW s \in CharactersAt("utf8", to, t, p) PROVE FALSE
  OBVIOUS
<1>1. StartsAt("utf8", to, t, p, Len(s), Meaning("utf8", s))
  BY DEF StartsAt
<1> QED
  BY <1>1, UTF8Recognised

LEMMA UTF8FaultIs ==
  ASSUME NEW t \in Seq(Nat), NEW p \in 1 .. Len(t), NEW to,
         UTF8Verdict(t, p) # "Success", to # "latin1" \/ ~ (224 <= t[p] /\ t[p] < 248)
  PROVE  /\ Fault("utf8", to, t, p) = UTF8Verdict(t, p)
         /\ UTF8Verdict(t, p) \in {"TooLong", "HeaderBits", "TooShort", "Overlong", "Surrogate", "TooLarge"}
<1>1. t[p] \in Nat /\ Len(t) \in Nat /\ p \in Nat
  BY UnitAt
<1>2. PICK w : w = LeadWidth(t[p])
  OBVIOUS
<1>3. w \in 0 .. 4
  BY ONLY <1>1, <1>2, LeadWidthRange
<1>4. /\ w = 0 => UTF8Verdict(t, p) = (IF Continuation(t[p]) THEN "TooLong" ELSE "HeaderBits")
      /\ w # 0 /\ Broken(t, p) => UTF8Verdict(t, p) = "TooShort"
  BY ONLY <1>2, <1>3, UTF8NoForm
<1>5. /\ Tail8(t[p]) => Fault("utf8", to, t, p) = "TooLong"
      /\ 248 <= t[p] => Fault("utf8", to, t, p) = "HeaderBits"
      /\ 192 <= t[p] /\ t[p] < 248 =>
           Fault("utf8", to, t, p) =
             IF CutOff(t, p) THEN "TooShort"
             ELSE IF OverlongAt(t, p) THEN "Overlong"
             ELSE IF OpensSurrogateAt(t, p) THEN "Surrogate"
             ELSE "TooLarge"
  <2>1. /\ Tail8(t[p]) => Fault("utf8", to, t, p) = "TooLong"
        /\ 248 <= t[p] => Fault("utf8", to, t, p) = "HeaderBits"
    BY ONLY <1>1, FaultUTF8, SMT
  <2>2. 192 <= t[p] /\ t[p] < 248 =>
          Fault("utf8", to, t, p) =
             IF to = "latin1" /\ t[p] >= 224 THEN "TooLarge"
             ELSE IF CutOff(t, p) THEN "TooShort"
             ELSE IF OverlongAt(t, p) THEN "Overlong"
             ELSE IF OpensSurrogateAt(t, p) THEN "Surrogate"
             ELSE "TooLarge"
    BY ONLY <1>1, FaultUTF8, SMT
  <2>3. t[p] < 248 => ~ (to = "latin1" /\ t[p] >= 224)
    BY ONLY <1>1, to # "latin1" \/ ~ (224 <= t[p] /\ t[p] < 248), SMT
  <2> QED
    BY ONLY <2>1, <2>2, <2>3, SMT
<1>6. CASE w = 0
  <2>1. Tail8(t[p]) \/ 248 <= t[p]
    <3>1. PICK b : b = t[p]
      OBVIOUS
    <3>2. b \in Nat /\ LeadWidth(b) = 0
      BY ONLY <1>1, <1>2, <1>6, <3>1
    <3>3. Tail8(b) \/ 248 <= b
      BY ONLY <3>2, NoLead, Zenon
    <3> QED
      BY ONLY <3>1, <3>3
  <2>2. Continuation(t[p]) <=> Tail8(t[p])
    BY ONLY <1>1, LeadWidthIs, SMT
  <2> QED
    BY ONLY <1>4, <1>5, <1>6, <2>1, <2>2, SMT
<1>7. CASE w # 0 /\ Broken(t, p)
  <2>1. ~ (t[p] < 128)
    <3> SUFFICES ASSUME t[p] < 128 PROVE FALSE
      OBVIOUS
    <3>1. w = 1
      BY ONLY <1>1, <1>2, t[p] < 128, LeadWidthIs, SMT
    <3>2. /\ Broken(t, p) <=> \/ p + w - 1 > Len(t)
                              \/ \E i \in 1 .. w - 1 : ~ Continuation(t[p + i])
      BY ONLY <1>2, BrokenIs
    <3>3. 1 .. w - 1 = {} /\ ~ (p + w - 1 > Len(t))
      BY ONLY <1>1, <3>1, p \in 1 .. Len(t), SMT
    <3> QED
      BY ONLY <1>7, <3>2, <3>3
  <2>2. 192 <= t[p] /\ t[p] < 248
    BY ONLY <1>1, <1>2, <1>7, <2>1, LeadWidthIs, SMT
  <2>3. CutOff(t, p)
    BY <1>7, <2>2, CutOffIsBroken
  <2> QED
    BY ONLY <1>4, <1>5, <1>7, <2>2, <2>3
<1>8. CASE w # 0 /\ ~ Broken(t, p)
  <2>1. PICK c : c = Assembled(t, p)
    OBVIOUS
  <2>2. PICK s : s = Piece(t, p, w)
    OBVIOUS
  <2>3. Sound(t, p, w, c, s)
    BY ONLY <1>2, <1>8, <2>1, <2>2 DEF Sound
  <2>4. SoundIs(t, p, w, c, s)
    BY ONLY <2>3, t \in Seq(Nat), p \in 1 .. Len(t), UTF8Judged
  <2>5. /\ w \in 1 .. 4 /\ c \in Nat /\ Len(s) = w /\ CopyOf(s, t, p)
        /\ c < ShortestOf[w] <=> Overlong(s)
        /\ ~ (c < ShortestOf[w]) => (Surrogate(c) <=> OpensSurrogate(s))
    BY ONLY <2>4 DEF SoundIs
  <2>6. /\ c < ShortestOf[w] => UTF8Verdict(t, p) = "Overlong"
        /\ ~ (c < ShortestOf[w]) /\ Surrogate(c) => UTF8Verdict(t, p) = "Surrogate"
        /\ ~ (c < ShortestOf[w]) /\ ~ Surrogate(c) /\ ~ UTF8InRange(w, c)
             => UTF8Verdict(t, p) = "TooLarge"
        /\ UTF8InRange(w, c) => UTF8Verdict(t, p) = "Success"
    BY ONLY <1>2, <1>8, <2>1, <2>5, UTF8VerdictIs, Zenon
  <2>7. /\ Overlong(s) <=> OverlongAt(t, p)
        /\ OpensSurrogate(s) <=> OpensSurrogateAt(t, p)
    BY ONLY <1>1, <1>2, <2>5, SoundBytes, Zenon
  <2>8. ~ UTF8InRange(w, c)
    BY ONLY <2>6, UTF8Verdict(t, p) # "Success"
  <2>9. 192 <= t[p] /\ t[p] < 248
    <3>1. CASE t[p] < 128
      <4>1. w = 1
        BY ONLY <1>1, <1>2, <3>1, LeadWidthIs, SMT
      <4>2. c = t[p]
        BY ONLY <1>2, <2>1, <4>1, SMT DEF Assembled
      <4>3. ShortestOf[w] = 0
        BY ONLY <4>1, Shortest
      <4>4. ~ (c < 0) /\ ~ Surrogate(c) /\ ~ (c > 1114111)
        BY ONLY <1>1, <3>1, <4>2, SMT DEF Surrogate
      <4> QED
        BY ONLY <2>8, <4>3, <4>4, SMT DEF UTF8InRange
    <3>2. CASE ~ (t[p] < 128)
      BY ONLY <1>1, <1>2, <1>8, <3>2, LeadWidthIs, SMT
    <3> QED
      BY ONLY <3>1, <3>2
  <2>10. ~ CutOff(t, p)
    BY <1>8, <2>9, CutOffIsBroken
  <2> QED
    BY ONLY <1>5, <2>5, <2>6, <2>7, <2>8, <2>9, <2>10, SMT
<1> QED
  BY ONLY <1>6, <1>7, <1>8

(* One unit that is a character by itself.                                 *)
Single(e, u) ==
  \/ e = "utf8" /\ u < 128
  \/ e = "utf16" /\ u <= 65535 /\ Scalar(u)
  \/ e = "utf32" /\ Scalar(u)
  \/ e = "latin1" /\ u <= 255
  \/ e \in {"ascii", "ascii16"} /\ u <= 127

LEMMA SingleIs ==
  ASSUME NEW e, NEW s, NEW u, Len(s) = 1, s[1] = u
  PROVE  (IsCharacter(e, s) <=> Single(e, u)) /\ Meaning(e, s) = u
<1>1. Len(s) # 2 /\ Len(s) # 3 /\ Len(s) # 4
  BY SMT
<1>2. UTF8Character(s) <=> u < 128
  BY ONLY <1>1, Len(s) = 1, s[1] = u DEF UTF8Character
<1>3. IsCharacter(e, s) <=> Single(e, u)
  BY ONLY <1>1, <1>2, Len(s) = 1, s[1] = u DEF IsCharacter, Single
<1>4. Meaning(e, s) = u
  BY ONLY <1>1, Len(s) = 1, s[1] = u, SMT DEF Meaning
<1> QED
  BY ONLY <1>3, <1>4

LEMMA SingleStarts ==
  ASSUME NEW t \in Seq(Nat), NEW p \in 1 .. Len(t), NEW from, NEW to
  PROVE  /\ Single(from, t[p]) /\ Holds(to, t[p]) => StartsAt(from, to, t, p, 1, t[p])
         /\ \A c : from \in Texts /\ StartsAt(from, to, t, p, 1, c)
                     => c = t[p] /\ Single(from, t[p]) /\ Holds(to, t[p])
<1>1. 1 \in 1 .. 4 /\ p + 1 - 1 <= Len(t)
  BY UnitAt
<1>2. PICK s : s = Piece(t, p, 1)
  OBVIOUS
<1>3. Len(s) = 1 /\ s[1] = t[p]
  BY <1>1, <1>2, Together, Zenon DEF CopyOf
<1>4. (IsCharacter(from, s) <=> Single(from, t[p])) /\ Meaning(from, s) = t[p]
  BY ONLY <1>3, SingleIs, Zenon
<1>5. ASSUME Single(from, t[p]), Holds(to, t[p]) PROVE StartsAt(from, to, t, p, 1, t[p])
  <2>1. IsCharacter(from, Piece(t, p, 1)) /\ Holds(to, Meaning(from, Piece(t, p, 1)))
    BY ONLY <1>2, <1>4, <1>5
  <2>2. StartsAt(from, to, t, p, 1, Meaning(from, Piece(t, p, 1)))
    BY ONLY <1>1, <2>1, t \in Seq(Nat), p \in 1 .. Len(t), StartsAtIs, Zenon
  <2> QED
    BY ONLY <1>2, <1>4, <2>2
<1>6. ASSUME NEW c, from \in Texts, StartsAt(from, to, t, p, 1, c)
      PROVE  c = t[p] /\ Single(from, t[p]) /\ Holds(to, t[p])
  <2>1. c = Meaning(from, Piece(t, p, 1)) /\ IsCharacter(from, Piece(t, p, 1)) /\ Holds(to, c)
    BY ONLY <1>6, t \in Seq(Nat), p \in 1 .. Len(t), StartsAtPiece
  <2> QED
    BY ONLY <1>2, <1>4, <2>1
<1> QED
  BY <1>5, <1>6

PairValue(h, l) == 65536 + (h - 55296) * 1024 + (l - 56320)

LEMMA SixteenBits ==
  ASSUME NEW h \in Nat, NEW l \in Nat, High(h), Low(l)
  PROVE  FromPair(h, l) = PairValue(h, l)
<1>1. (h - 55296) % 65536 = h - 55296 /\ (l - 56320) % 65536 = l - 56320
  BY SMT DEF High, Low
<1> QED
  BY <1>1, SMT DEF FromPair, PairValue

PieceFacts(from, to, t, p, w, c) ==
  /\ w \in 1 .. 4 /\ p + w - 1 <= Len(t) /\ c = Meaning(from, Piece(t, p, w))
  /\ IsCharacter(from, Piece(t, p, w)) /\ Holds(to, c)
  /\ Units(Piece(t, p, w)) /\ CopyOf(Piece(t, p, w), t, p) /\ Len(Piece(t, p, w)) = w
  /\ c \in Nat /\ Scalar(c)

LEMMA StartsPiece ==
  ASSUME NEW from \in Texts, NEW to, NEW t \in Seq(Nat), NEW p \in 1 .. Len(t), NEW w, NEW c,
         StartsAt(from, to, t, p, w, c)
  PROVE  PieceFacts(from, to, t, p, w, c)
BY StartsAtPiece DEF PieceFacts

LEMMA PairStarts ==
  ASSUME NEW t \in Seq(Nat), NEW p \in 1 .. Len(t), NEW to, to # "latin1"
  PROVE  /\ Pair(t, p) => StartsAt("utf16", to, t, p, 2, FromPair(t[p], t[p + 1]))
         /\ \A c : StartsAt("utf16", to, t, p, 2, c) => Pair(t, p) /\ c = FromPair(t[p], t[p + 1])
<1>1. t[p] \in Nat /\ Len(t) \in Nat /\ p \in Nat
  BY UnitAt
<1>2. PICK s : s = Piece(t, p, 2)
  OBVIOUS
<1>3. ASSUME Pair(t, p)
      PROVE  StartsAt("utf16", to, t, p, 2, FromPair(t[p], t[p + 1]))
  <2>1. p < Len(t) /\ p + 1 \in 1 .. Len(t) /\ p + 2 - 1 <= Len(t) /\ 2 \in 1 .. 4
    BY ONLY <1>1, <1>3, p \in 1 .. Len(t), SMT DEF Pair
  <2>2. t[p + 1] \in Nat
    BY ONLY <2>1, UnitAt, t \in Seq(Nat)
  <2>3. Len(s) = 2 /\ CopyOf(s, t, p)
    BY ONLY <1>2, <2>1, t \in Seq(Nat), p \in 1 .. Len(t), Together, Zenon
  <2>4. s[1] = t[p] /\ s[2] = t[p + 1]
    BY ONLY <2>3, SMT DEF CopyOf
  <2>5. High(s[1]) /\ Low(s[2]) /\ s[1] \in Nat /\ s[2] \in Nat
    BY ONLY <1>1, <1>3, <2>2, <2>4 DEF Pair
  <2>6. IsCharacter("utf16", s)
    BY ONLY <2>3, <2>5, SMT DEF IsCharacter, High, Low, Within
  <2>7. Meaning("utf16", s) = FromPair(t[p], t[p + 1])
    <3>1. Meaning("utf16", s) = PairValue(s[1], s[2])
      BY ONLY <2>3, SMT DEF Meaning, PairValue
    <3>2. FromPair(s[1], s[2]) = PairValue(s[1], s[2])
      BY ONLY <2>5, SixteenBits
    <3>3. Meaning("utf16", s) = FromPair(s[1], s[2])
      BY ONLY <3>1, <3>2
    <3> QED
      BY ONLY <2>4, <3>3
  <2>8. Holds(to, Meaning("utf16", s))
    BY to # "latin1" DEF Holds
  <2>9. StartsAt("utf16", to, t, p, 2, Meaning("utf16", s))
    BY ONLY <1>2, <2>1, <2>6, <2>8, t \in Seq(Nat), p \in 1 .. Len(t), StartsAtIs, Zenon
  <2> QED
    BY ONLY <2>7, <2>9
<1>4. ASSUME NEW c, StartsAt("utf16", to, t, p, 2, c)
      PROVE  Pair(t, p) /\ c = FromPair(t[p], t[p + 1])
  <2>1. "utf16" \in Texts
    BY DEF Texts
  <2>2. /\ p + 2 - 1 <= Len(t) /\ c = Meaning("utf16", s) /\ IsCharacter("utf16", s)
        /\ Units(s) /\ CopyOf(s, t, p) /\ Len(s) = 2
    <3>1. /\ p + 2 - 1 <= Len(t) /\ c = Meaning("utf16", Piece(t, p, 2))
          /\ IsCharacter("utf16", Piece(t, p, 2)) /\ Units(Piece(t, p, 2))
          /\ CopyOf(Piece(t, p, 2), t, p) /\ Len(Piece(t, p, 2)) = 2
      <4>1. PieceFacts("utf16", to, t, p, 2, c)
        BY ONLY <1>4, <2>1, t \in Seq(Nat), p \in 1 .. Len(t), StartsPiece
      <4> QED
        BY ONLY <4>1 DEF PieceFacts
    <3> QED
      BY ONLY <1>2, <3>1, Zenon
  <2>3. s[1] = t[p] /\ s[2] = t[p + 1] /\ s[1] \in Nat /\ s[2] \in Nat
    BY ONLY <2>2, SMT DEF CopyOf, Units
  <2>4. High(s[1]) /\ Low(s[2])
    BY ONLY <2>2, <2>3, SMT DEF IsCharacter, High, Low, Within
  <2>5. p < Len(t)
    BY ONLY <1>1, <2>2, SMT
  <2>6. c = PairValue(s[1], s[2])
    BY ONLY <2>2, SMT DEF Meaning, PairValue
  <2>7. c = FromPair(s[1], s[2])
    BY ONLY <2>3, <2>4, <2>6, SixteenBits
  <2> QED
    BY ONLY <2>3, <2>4, <2>5, <2>7 DEF Pair
<1> QED
  BY <1>3, <1>4

Readers == {"plain", "errors", "valid", "safe", "replacement", "wellFormed"}

LEMMA NothingStarts ==
  ASSUME NEW from, NEW to, NEW t, NEW p, \A w, c : ~ StartsAt(from, to, t, p, w, c)
  PROVE  CharactersAt(from, to, t, p) = {}
BY DEF StartsAt

(* Only UTF-8 and UTF-16 have characters of more than one unit.            *)
LEMMA WidthOne ==
  ASSUME NEW t \in Seq(Nat), NEW p \in 1 .. Len(t), NEW from \in Texts \ {"utf8", "utf16"}, NEW to,
         NEW w, NEW c, StartsAt(from, to, t, p, w, c)
  PROVE  w = 1
<1>1. PieceFacts(from, to, t, p, w, c)
  BY StartsPiece
<1>2. IsCharacter(from, Piece(t, p, w)) /\ Len(Piece(t, p, w)) = w
  BY ONLY <1>1 DEF PieceFacts
<1> QED
  BY ONLY <1>2, from \in Texts \ {"utf8", "utf16"} DEF IsCharacter, Texts

(* A code point of one byte takes one unit, or two of UTF-8.               *)
LEMMA SmallPoints ==
  ASSUME NEW e \in Texts, NEW s, Units(s), IsCharacter(e, s), NEW c, c = Meaning(e, s),
         Holds("latin1", c)
  PROVE  Len(s) = 1 \/ (Len(s) = 2 /\ e = "utf8")
<1>1. c <= 255
  BY DEF Holds
<1>2. CASE e = "utf8"
  <2>1. UTF8Character(s) /\ c = Meaning("utf8", s)
    BY ONLY IsCharacter(e, s), c = Meaning(e, s), <1>2 DEF IsCharacter
  <2>2. /\ Len(s) = 3 => 2048 <= c
        /\ Len(s) = 4 => 65536 <= c
        /\ c \in Nat
    BY ONLY Units(s), <2>1, MeaningUTF8, SMT
  <2>3. Len(s) = 1 \/ Len(s) = 2 \/ Len(s) = 3 \/ Len(s) = 4
    BY ONLY Units(s), <2>1, UTF8CharacterIs
  <2> QED
    BY ONLY <1>1, <1>2, <2>2, <2>3, SMT
<1>3. CASE e # "utf8"
  <2>1. e \in Texts \ {"utf8"}
    BY <1>3
  <2>2. /\ Len(s) = 1 \/ (Len(s) = 2 /\ e = "utf16")
        /\ Len(s) = 2 => 65536 <= c
        /\ c \in Nat
    BY ONLY Units(s), IsCharacter(e, s), c = Meaning(e, s), <2>1, MeaningOthers, SMT
  <2> QED
    BY ONLY <1>1, <2>2, SMT
<1> QED
  BY <1>2, <1>3

LEMMA WordIs ==
  ASSUME NEW u \in Nat, u <= 65535
  PROVE  /\ Single("utf16", u) <=> ~ Surrogate(u)
         /\ High(u) => Surrogate(u)
BY SMT DEF Single, Scalar, Surrogate, High

LEMMA LongForms ==
  ASSUME NEW t \in Seq(Nat), NEW p \in 1 .. Len(t), NEW to, NEW w, NEW c,
         StartsAt("utf8", to, t, p, w, c), Holds("latin1", c)
  PROVE  w \notin {3, 4}
<1>1. PieceFacts("utf8", to, t, p, w, c)
  BY StartsPiece DEF Texts
<1>2. PICK s : s = Piece(t, p, w)
  OBVIOUS
<1>3. /\ c = Meaning("utf8", s) /\ IsCharacter("utf8", s)
      /\ Units(s) /\ Len(s) = w
  BY ONLY <1>1, <1>2 DEF PieceFacts
<1>4. Len(s) = 1 \/ Len(s) = 2
  BY ONLY <1>3, Holds("latin1", c), SmallPoints DEF Texts
<1> QED
  BY ONLY <1>3, <1>4, SMT

LEMMA LongLead ==
  ASSUME NEW b \in Nat
  PROVE  LeadWidth(b) \in {3, 4} <=> 224 <= b /\ b < 248
BY SMT DEF LeadWidth

-----------------------------------------------------------------------------
(* Spelling *)

LEMMA Quotients ==
  ASSUME NEW c \in Nat
  PROVE  /\ c = (c \div 64) * 64 + (c % 64) /\ c % 64 \in Nat /\ c % 64 < 64 /\ c \div 64 \in Nat
         /\ (c \div 64) \div 64 = c \div 4096
         /\ (c \div 4096) \div 64 = c \div 262144
         /\ (c \div 64) % 64 = (c \div 64) - (c \div 4096) * 64
         /\ (c \div 4096) % 64 = (c \div 4096) - (c \div 262144) * 64
         /\ c \div 4096 \in Nat /\ c \div 262144 \in Nat
BY SMT

LEMMA TwoUnits ==
  ASSUME NEW c \in Nat, 128 <= c, c < 2048,
         NEW s, Len(s) = 2, s[1] = 192 + c \div 64, s[2] = 128 + (c % 64)
  PROVE  UTF8Character(s) /\ Meaning("utf8", s) = c /\ s[1] \in 0 .. 255 /\ s[2] \in 0 .. 255
<1>1. c \div 64 \in 2 .. 31 /\ c % 64 \in 0 .. 63 /\ c = (c \div 64) * 64 + (c % 64)
  BY ONLY c \in Nat, 128 <= c, c < 2048, SMT
<1>2. Meaning("utf8", s) = (s[1] - 192) * 64 + (s[2] - 128)
  BY ONLY Len(s) = 2, SMT DEF Meaning
<1>3. Within(s[1], 194, 223) /\ Tail8(s[2]) /\ s[1] \in 0 .. 255 /\ s[2] \in 0 .. 255
  BY ONLY s[1] = 192 + c \div 64, s[2] = 128 + (c % 64), <1>1, SMT DEF Within, Tail8
<1>4. Meaning("utf8", s) = c
  BY ONLY s[1] = 192 + c \div 64, s[2] = 128 + (c % 64), <1>1, <1>2, SMT
<1> QED
  BY ONLY Len(s) = 2, <1>3, <1>4 DEF UTF8Character

LEMMA ThreeUnits ==
  ASSUME NEW c \in Nat, 2048 <= c, c < 65536, NEW s, Len(s) = 3,
         s[1] = 224 + c \div 4096, s[2] = 128 + ((c \div 64) % 64), s[3] = 128 + (c % 64)
  PROVE  /\ Scalar(c) => UTF8Character(s)
         /\ Meaning("utf8", s) = c
         /\ s[1] \in 0 .. 255 /\ s[2] \in 0 .. 255 /\ s[3] \in 0 .. 255
<1> DEFINE x == c \div 4096
           y == (c \div 64) % 64
           z == c % 64
<1>1. x \in 0 .. 15 /\ y \in 0 .. 63 /\ z \in 0 .. 63 /\ c = x * 4096 + y * 64 + z
  BY ONLY c \in Nat, 2048 <= c, c < 65536, SMT
<1>2. s[1] = 224 + x /\ s[2] = 128 + y /\ s[3] = 128 + z
  OBVIOUS
<1> HIDE DEF x, y, z
<1>3. Meaning("utf8", s) = (s[1] - 224) * 4096 + (s[2] - 128) * 64 + (s[3] - 128)
  BY ONLY Len(s) = 3, SMT DEF Meaning
<1>4. Meaning("utf8", s) = c
  BY ONLY <1>1, <1>2, <1>3, SMT
<1>5. Tail8(s[2]) /\ Tail8(s[3]) /\ s[1] \in 0 .. 255 /\ s[2] \in 0 .. 255 /\ s[3] \in 0 .. 255
  BY ONLY <1>1, <1>2, SMT DEF Tail8, Within
<1>6. Scalar(c) => \/ s[1] = 224 /\ Within(s[2], 160, 191)
                   \/ Within(s[1], 225, 239) /\ s[1] # 237 /\ Tail8(s[2])
                   \/ s[1] = 237 /\ Within(s[2], 128, 159)
  BY ONLY 2048 <= c, <1>1, <1>2, SMT DEF Scalar, Within, Tail8
<1> QED
  BY ONLY Len(s) = 3, <1>4, <1>5, <1>6 DEF UTF8Character

LEMMA FourUnits ==
  ASSUME NEW c \in Nat, 65536 <= c, NEW s, Len(s) = 4,
         s[1] = 240 + ((c \div 262144) % 16), s[2] = 128 + ((c \div 4096) % 64),
         s[3] = 128 + ((c \div 64) % 64), s[4] = 128 + (c % 64)
  PROVE  /\ Scalar(c) => UTF8Character(s) /\ Meaning("utf8", s) = c
         /\ s[1] \in 0 .. 255 /\ s[2] \in 0 .. 255 /\ s[3] \in 0 .. 255 /\ s[4] \in 0 .. 255
<1> DEFINE v == (c \div 262144) % 16
           x == (c \div 4096) % 64
           y == (c \div 64) % 64
           z == c % 64
<1>1. v \in 0 .. 15 /\ x \in 0 .. 63 /\ y \in 0 .. 63 /\ z \in 0 .. 63
  BY ONLY c \in Nat, SMT
<1>2. Scalar(c) => v \in 0 .. 4 /\ c = v * 262144 + x * 4096 + y * 64 + z
  <2> SUFFICES ASSUME Scalar(c) PROVE v \in 0 .. 4 /\ c = v * 262144 + x * 4096 + y * 64 + z
    OBVIOUS
  <2>1. c <= 1114111
    BY ONLY c \in Nat, 65536 <= c, Scalar(c), SMT DEF Scalar
  <2>2. c \div 262144 \in 0 .. 4
    BY ONLY c \in Nat, <2>1, SMT
  <2>3. v = c \div 262144
    BY ONLY <2>2, SMT
  <2>4. /\ z = c - (c \div 64) * 64
        /\ y = (c \div 64) - (c \div 4096) * 64
        /\ x = (c \div 4096) - (c \div 262144) * 64
    BY ONLY c \in Nat, Quotients, SMT
  <2>5. c \div 64 \in Nat /\ c \div 4096 \in Nat
    BY ONLY c \in Nat, SMT
  <2> HIDE DEF v, x, y, z
  <2> QED
    BY ONLY c \in Nat, <1>1, <2>2, <2>3, <2>4, <2>5, SMT
<1>3. s[1] = 240 + v /\ s[2] = 128 + x /\ s[3] = 128 + y /\ s[4] = 128 + z
  OBVIOUS
<1> HIDE DEF v, x, y, z
<1>4. Meaning("utf8", s) = (s[1] - 240) * 262144 + (s[2] - 128) * 4096
                             + (s[3] - 128) * 64 + (s[4] - 128)
  BY ONLY Len(s) = 4, SMT DEF Meaning
<1>5. Scalar(c) => Meaning("utf8", s) = c
  BY ONLY <1>1, <1>2, <1>3, <1>4, SMT
<1>6. /\ Tail8(s[3]) /\ Tail8(s[4])
      /\ s[1] \in 0 .. 255 /\ s[2] \in 0 .. 255 /\ s[3] \in 0 .. 255 /\ s[4] \in 0 .. 255
  BY ONLY <1>1, <1>3, SMT DEF Tail8, Within
<1>7. Scalar(c) => \/ s[1] = 240 /\ Within(s[2], 144, 191)
                   \/ Within(s[1], 241, 243) /\ Tail8(s[2])
                   \/ s[1] = 244 /\ Within(s[2], 128, 143)
  BY ONLY 65536 <= c, <1>1, <1>2, <1>3, SMT DEF Scalar, Within, Tail8
<1> QED
  BY ONLY Len(s) = 4, <1>5, <1>6, <1>7 DEF UTF8Character

LEMMA UTF8UnitsIs ==
  ASSUME NEW c \in Nat, NEW s, s = UTF8Units(c)
  PROVE  /\ c < 128 => Len(s) = 1 /\ s[1] = c
         /\ 128 <= c /\ c < 2048 => Len(s) = 2 /\ s[1] = 192 + c \div 64 /\ s[2] = 128 + (c % 64)
         /\ 2048 <= c /\ c < 65536 =>
              Len(s) = 3 /\ s[1] = 224 + c \div 4096 /\ s[2] = 128 + ((c \div 64) % 64) /\ s[3] = 128 + (c % 64)
         /\ 65536 <= c =>
              /\ Len(s) = 4 /\ s[1] = 240 + ((c \div 262144) % 16) /\ s[2] = 128 + ((c \div 4096) % 64)
              /\ s[3] = 128 + ((c \div 64) % 64) /\ s[4] = 128 + (c % 64)
         /\ s \in Seq(Int)
BY SMT DEF UTF8Units

(* A sequence of k naturals, none above the bound.                         *)
UnitsUpTo(s, bound) ==
  /\ s \in Seq(Nat)
  /\ \A i \in DOMAIN s : s[i] <= bound

LEMMA NatUnits ==
  ASSUME NEW s \in Seq(Int), NEW bound \in Nat, \A i \in 1 .. Len(s) : s[i] \in 0 .. bound
  PROVE  UnitsUpTo(s, bound)
<1>1. DOMAIN s = 1 .. Len(s) /\ Len(s) \in Nat
  BY LenProperties
<1>2. \A i \in 1 .. Len(s) : s[i] \in Nat /\ s[i] <= bound
  OBVIOUS
<1>3. s \in Seq(Nat)
  BY <1>1, <1>2, SeqDef
<1> QED
  BY ONLY <1>1, <1>2, <1>3 DEF UnitsUpTo

LEMMA BoundedUnits ==
  ASSUME NEW s \in Seq(Int), NEW bound \in Nat
  PROVE  /\ Len(s) = 1 /\ s[1] \in 0 .. bound => UnitsUpTo(s, bound)
         /\ Len(s) = 2 /\ s[1] \in 0 .. bound /\ s[2] \in 0 .. bound => UnitsUpTo(s, bound)
         /\ Len(s) = 3 /\ s[1] \in 0 .. bound /\ s[2] \in 0 .. bound /\ s[3] \in 0 .. bound
              => UnitsUpTo(s, bound)
         /\ Len(s) = 4 /\ s[1] \in 0 .. bound /\ s[2] \in 0 .. bound /\ s[3] \in 0 .. bound
              /\ s[4] \in 0 .. bound => UnitsUpTo(s, bound)
<1>1. (\A i \in 1 .. Len(s) : s[i] \in 0 .. bound) => UnitsUpTo(s, bound)
  BY NatUnits
<1>2. /\ \A i \in 1 .. 1 : i = 1
      /\ \A i \in 1 .. 2 : i = 1 \/ i = 2
      /\ \A i \in 1 .. 3 : i = 1 \/ i = 2 \/ i = 3
      /\ \A i \in 1 .. 4 : i = 1 \/ i = 2 \/ i = 3 \/ i = 4
  OBVIOUS
<1> QED
  BY ONLY <1>1, <1>2, Zenon

(* Units of UTF-8 for each size of code point.                             *)
Size8(c) == IF c < 128 THEN 1 ELSE IF c < 2048 THEN 2 ELSE IF c < 65536 THEN 3 ELSE 4

LEMMA UTF8Spelled ==
  ASSUME NEW c \in Nat, NEW s, s = UTF8Units(c)
  PROVE  /\ UnitsUpTo(s, 255) /\ Len(s) = Size8(c)
         /\ Scalar(c) => UTF8Character(s) /\ Meaning("utf8", s) = c
<1>0. s \in Seq(Int)
  BY UTF8UnitsIs
<1>1. CASE c < 128
  <2>1. Len(s) = 1 /\ s[1] = c
    BY <1>1, UTF8UnitsIs
  <2>2. UTF8Character(s) /\ Meaning("utf8", s) = c
    BY ONLY <1>1, <2>1, SMT DEF UTF8Character, Meaning
  <2>4. UnitsUpTo(s, 255)
    BY ONLY c \in Nat, <1>0, <1>1, <2>1, BoundedUnits, SMT
  <2> QED
    BY ONLY <1>1, <2>1, <2>2, <2>4 DEF Size8
<1>2. CASE 128 <= c /\ c < 2048
  <2>1. Len(s) = 2 /\ s[1] = 192 + c \div 64 /\ s[2] = 128 + (c % 64)
    BY ONLY c \in Nat, s = UTF8Units(c), <1>2, UTF8UnitsIs, SMT
  <2>2. UTF8Character(s) /\ Meaning("utf8", s) = c /\ s[1] \in 0 .. 255 /\ s[2] \in 0 .. 255
    BY ONLY c \in Nat, <1>2, <2>1, TwoUnits, SMT
  <2>4. UnitsUpTo(s, 255)
    <3>1. PICK b \in Nat : b = 255
      OBVIOUS
    <3>2. Len(s) = 2 /\ s[1] \in 0 .. b /\ s[2] \in 0 .. b
      BY ONLY <2>1, <2>2, <3>1
    <3>3. UnitsUpTo(s, b)
      BY ONLY <1>0, <3>2, BoundedUnits
    <3> QED
      BY ONLY <3>1, <3>3
  <2>5. Size8(c) = 2
    BY ONLY c \in Nat, <1>2, SMT DEF Size8
  <2> QED
    BY ONLY <2>1, <2>2, <2>4, <2>5
<1>3. CASE 2048 <= c /\ c < 65536
  <2>1. Len(s) = 3 /\ s[1] = 224 + c \div 4096 /\ s[2] = 128 + ((c \div 64) % 64) /\ s[3] = 128 + (c % 64)
    BY ONLY c \in Nat, s = UTF8Units(c), <1>3, UTF8UnitsIs, SMT
  <2>2. /\ Scalar(c) => UTF8Character(s)
        /\ Meaning("utf8", s) = c
        /\ s[1] \in 0 .. 255 /\ s[2] \in 0 .. 255 /\ s[3] \in 0 .. 255
    BY ONLY c \in Nat, <1>3, <2>1, ThreeUnits, SMT
  <2>4. UnitsUpTo(s, 255)
    <3>1. PICK b \in Nat : b = 255
      OBVIOUS
    <3>2. Len(s) = 3 /\ s[1] \in 0 .. b /\ s[2] \in 0 .. b /\ s[3] \in 0 .. b
      BY ONLY <2>1, <2>2, <3>1
    <3>3. UnitsUpTo(s, b)
      BY ONLY <1>0, <3>2, BoundedUnits
    <3> QED
      BY ONLY <3>1, <3>3
  <2>5. Size8(c) = 3
    BY ONLY c \in Nat, <1>3, SMT DEF Size8
  <2> QED
    BY ONLY <2>1, <2>2, <2>4, <2>5
<1>4. CASE 65536 <= c
  <2>1. /\ Len(s) = 4 /\ s[1] = 240 + ((c \div 262144) % 16) /\ s[2] = 128 + ((c \div 4096) % 64)
        /\ s[3] = 128 + ((c \div 64) % 64) /\ s[4] = 128 + (c % 64)
    BY ONLY c \in Nat, s = UTF8Units(c), <1>4, UTF8UnitsIs, SMT
  <2>2. /\ Scalar(c) => UTF8Character(s) /\ Meaning("utf8", s) = c
        /\ s[1] \in 0 .. 255 /\ s[2] \in 0 .. 255 /\ s[3] \in 0 .. 255 /\ s[4] \in 0 .. 255
    BY ONLY c \in Nat, <1>4, <2>1, FourUnits, SMT
  <2>4. UnitsUpTo(s, 255)
    <3>1. PICK b \in Nat : b = 255
      OBVIOUS
    <3>2. Len(s) = 4 /\ s[1] \in 0 .. b /\ s[2] \in 0 .. b /\ s[3] \in 0 .. b /\ s[4] \in 0 .. b
      BY ONLY <2>1, <2>2, <3>1
    <3>3. UnitsUpTo(s, b)
      BY ONLY <1>0, <3>2, BoundedUnits
    <3> QED
      BY ONLY <3>1, <3>3
  <2>5. Size8(c) = 4
    BY ONLY c \in Nat, <1>4, SMT DEF Size8
  <2> QED
    BY ONLY <2>1, <2>2, <2>4, <2>5
<1>5. c < 128 \/ (128 <= c /\ c < 2048) \/ (2048 <= c /\ c < 65536) \/ 65536 <= c
  BY ONLY c \in Nat, SMT
<1> QED
  BY ONLY <1>1, <1>2, <1>3, <1>4, <1>5

Size16(c) == IF c < 65536 THEN 1 ELSE 2

LEMMA UTF16Spelled ==
  ASSUME NEW c \in Nat, NEW s, s = UTF16Units(c)
  PROVE  /\ UnitsUpTo(s, 65535) /\ Len(s) = Size16(c)
         /\ Scalar(c) => IsCharacter("utf16", s) /\ Meaning("utf16", s) = c
         /\ c < 65536 => s[1] = c
<1>0. s \in Seq(Int)
  BY SMT DEF UTF16Units, UTF16Pair
<1>1. CASE c < 65536
  <2>1. Len(s) = 1 /\ s[1] = c
    BY ONLY s = UTF16Units(c), <1>1, SMT DEF UTF16Units
  <2>2. Scalar(c) => IsCharacter("utf16", s)
    BY ONLY c \in Nat, <1>1, <2>1, SMT DEF IsCharacter
  <2>3. Meaning("utf16", s) = c
    BY ONLY <2>1, SMT DEF Meaning
  <2>4. PICK b : b = 65535
    OBVIOUS
  <2>5. UnitsUpTo(s, 65535)
    <3>0. c <= b /\ b \in Nat
      BY ONLY c \in Nat, <1>1, <2>4, SMT
    <3>1. s[1] \in 0 .. b /\ b \in Nat
      <4>1. c \in 0 .. b
        BY ONLY c \in Nat, <3>0, SMT
      <4> QED
        BY ONLY <2>1, <3>0, <4>1
    <3>2. Len(s) = 1
      BY ONLY <2>1
    <3>3. UnitsUpTo(s, b)
      BY ONLY <1>0, <3>1, <3>2, BoundedUnits
    <3> QED
      BY ONLY <2>4, <3>3
  <2> QED
    BY ONLY <1>1, <2>1, <2>2, <2>3, <2>5 DEF Size16
<1>2. CASE 65536 <= c
  <2>0. ~ (c < 65536)
    BY ONLY c \in Nat, <1>2, SMT
  <2>1. Len(s) = 2 /\ s[1] = (55296 + (c - 65536) \div 1024) % 65536 /\ s[2] = 56320 + ((c - 65536) % 1024)
    BY ONLY s = UTF16Units(c), <2>0, SMT DEF UTF16Units, UTF16Pair
  <2>3. PICK b : b = 65535
    OBVIOUS
  <2>4. UnitsUpTo(s, 65535)
    <3>0. PICK q \in Nat, r \in Nat : q = (c - 65536) \div 1024 /\ r = (c - 65536) % 1024 /\ r <= 1023
      BY ONLY c \in Nat, <1>2, SMT
    <3>1. s[1] \in 0 .. b /\ s[2] \in 0 .. b /\ b \in Nat
      <4>1. s[1] = (55296 + q) % 65536 /\ s[2] = 56320 + r
        BY ONLY <2>1, <3>0
      <4>2. PICK m : m = (55296 + q) % 65536
        OBVIOUS
      <4>3. m \in 0 .. b /\ b \in Nat
        <5>1. m \in Nat /\ m <= 65535
          BY ONLY q \in Nat, <4>2, SMT
        <5>2. m <= b /\ b \in Nat
          BY ONLY <5>1, <2>3
        <5> QED
          BY ONLY <5>1, <5>2, SMT
      <4>4. PICK n : n = 56320 + r
        OBVIOUS
      <4>5. n \in 0 .. b
        <5>1. n \in Nat /\ n <= 65535
          BY ONLY r \in Nat, <3>0, <4>4, SMT
        <5>2. n <= b /\ b \in Nat
          BY ONLY <5>1, <2>3
        <5> QED
          BY ONLY <5>1, <5>2, SMT
      <4> QED
        BY ONLY <4>1, <4>2, <4>3, <4>4, <4>5
    <3>2. Len(s) = 2
      BY ONLY <2>1
    <3>3. UnitsUpTo(s, b)
      BY ONLY <1>0, <3>1, <3>2, BoundedUnits
    <3> QED
      BY ONLY <2>3, <3>3
  <2>5. Scalar(c) => IsCharacter("utf16", s) /\ Meaning("utf16", s) = c
    <3> SUFFICES ASSUME Scalar(c) PROVE IsCharacter("utf16", s) /\ Meaning("utf16", s) = c
      OBVIOUS
    <3> DEFINE d == c - 65536
               q == d \div 1024
               r == d % 1024
    <3>1. d \in Nat /\ d <= 1048575
      BY ONLY c \in Nat, <1>2, Scalar(c), SMT DEF Scalar
    <3>2. q \in Nat /\ q <= 1023 /\ r \in Nat /\ r <= 1023 /\ d = q * 1024 + r
      <4> HIDE DEF d
      <4> QED BY ONLY <3>1, SMT
    <3>3. s[1] = 55296 + q /\ s[2] = 56320 + r /\ c = 65536 + d
      <4>1. s[1] = (55296 + q) % 65536 /\ s[2] = 56320 + r
        BY ONLY <2>1
      <4>2. c = 65536 + d
        BY ONLY c \in Nat, SMT
      <4> HIDE DEF q, r, d
      <4> QED BY ONLY <3>2, <4>1, <4>2, SMT
    <3> HIDE DEF d, q, r
    <3>4. Within(s[1], 55296, 56319) /\ Within(s[2], 56320, 57343)
      BY ONLY <3>2, <3>3, SMT DEF Within
    <3>5. Meaning("utf16", s) = 65536 + (s[1] - 55296) * 1024 + (s[2] - 56320)
      BY ONLY <2>1, SMT DEF Meaning
    <3>6. Meaning("utf16", s) = c
      BY ONLY <3>2, <3>3, <3>5, SMT
    <3> QED
      BY ONLY <2>1, <3>4, <3>6 DEF IsCharacter
  <2> QED
    BY ONLY <2>0, <2>1, <2>4, <2>5 DEF Size16
<1> QED
  BY ONLY c \in Nat, <1>1, <1>2, SMT

LEMMA SwapTwice ==
  ASSUME NEW u \in Nat, u <= 65535
  PROVE  /\ ReverseBytes16(u) \in Nat /\ ReverseBytes16(u) <= 65535
         /\ ReverseBytes16(ReverseBytes16(u)) = u
<1> DEFINE q == u \div 256
           r == u % 256
<1>1. q \in 0 .. 255 /\ r \in 0 .. 255 /\ u = q * 256 + r
  BY SMT
<1>2. ReverseBytes16(u) = r * 256 + q
  BY SMT DEF ReverseBytes16
<1> HIDE DEF q, r
<1>3. (r * 256 + q) \div 256 = r /\ (r * 256 + q) % 256 = q
  BY ONLY <1>1, SMT
<1> QED
  BY ONLY <1>1, <1>2, <1>3, SMT DEF ReverseBytes16

(* What is stored for the call, back in native order.                      *)
Native(c, o) ==
  [i \in DOMAIN o |-> IF c.to = "utf16" /\ c.swapped THEN ReverseBytes16(o[i]) ELSE o[i]]

(* A code point spelled in native order, and the number of its units.      *)
Spelling(e, c) == CASE e = "latin1" -> << c % 256 >>
                    [] e = "utf8"   -> UTF8Units(c)
                    [] e = "utf32"  -> << c >>
                    [] e = "utf16"  -> UTF16Units(c)

SpellSize(e, c) == CASE e = "utf8"  -> Size8(c)
                     [] e = "utf16" -> Size16(c)
                     [] e \in {"latin1", "utf32"} -> 1

Targets == {"latin1", "utf8", "utf16", "utf32"}

LEMMA SizesFew ==
  ASSUME NEW e \in Targets, NEW c \in Nat
  PROVE  SpellSize(e, c) \in 1 .. 4
<1>1. Size8(c) \in 1 .. 4
  BY SMT DEF Size8
<1>2. Size16(c) \in 1 .. 4
  BY SMT DEF Size16
<1> QED
  BY ONLY e \in Targets, <1>1, <1>2, SMT DEF Targets, SpellSize

LEMMA AssembledNat ==
  ASSUME NEW t \in Seq(Nat), NEW p \in 1 .. Len(t), NEW w \in 1 .. 4, w = LeadWidth(t[p]),
         p + w - 1 <= Len(t)
  PROVE  Assembled(t, p) \in Nat
<1>1. /\ t[p] \in Nat
      /\ w >= 2 => t[p + 1] \in Nat
      /\ w >= 3 => t[p + 2] \in Nat
      /\ w >= 4 => t[p + 3] \in Nat
  <2>1. \A i \in 1 .. Len(t) : t[i] \in Nat
    BY ElementOfSeq
  <2>2. Len(t) \in Nat
    BY LenProperties
  <2>3. PICK n \in Nat : n = Len(t)
    BY <2>2
  <2>4. /\ w >= 2 => p + 1 \in 1 .. n
        /\ w >= 3 => p + 2 \in 1 .. n
        /\ w >= 4 => p + 3 \in 1 .. n
    <3>1. p \in 1 .. n /\ p + w - 1 <= n
      BY ONLY <2>3, p \in 1 .. Len(t), p + w - 1 <= Len(t)
    <3> QED
      BY ONLY <3>1, w \in 1 .. 4, n \in Nat, SMT
  <2> QED
    BY ONLY <2>1, <2>3, <2>4, p \in 1 .. Len(t)
<1>2. \A x \in Nat : x % 8 \in Nat /\ x % 16 \in Nat /\ x % 32 \in Nat /\ x % 64 \in Nat
  BY SMT
<1>3. CASE w = 1
  BY ONLY <1>1, <1>3, w = LeadWidth(t[p]) DEF Assembled
<1>4. CASE w = 2
  <2>1. Assembled(t, p) = (t[p] % 32) * 64 + (t[p + 1] % 64)
    BY ONLY <1>4, w = LeadWidth(t[p]) DEF Assembled
  <2>2. PICK a \in Nat, b \in Nat : a = t[p] % 32 /\ b = t[p + 1] % 64
    <3>1. t[p] \in Nat /\ t[p + 1] \in Nat
      BY ONLY <1>1, <1>4
    <3> QED
      BY ONLY <1>2, <3>1, Zenon
  <2>3. Assembled(t, p) = a * 64 + b
    BY ONLY <2>1, <2>2
  <2> QED
    BY ONLY <2>3, a \in Nat, b \in Nat, SMT
<1>5. CASE w = 3
  <2>1. Assembled(t, p) = (t[p] % 16) * 4096 + (t[p + 1] % 64) * 64 + (t[p + 2] % 64)
    BY ONLY <1>5, w = LeadWidth(t[p]) DEF Assembled
  <2>2. PICK a \in Nat, b \in Nat, c \in Nat : a = t[p] % 16 /\ b = t[p + 1] % 64 /\ c = t[p + 2] % 64
    <3>1. t[p] \in Nat /\ t[p + 1] \in Nat /\ t[p + 2] \in Nat
      BY ONLY <1>1, <1>5
    <3> QED
      BY ONLY <1>2, <3>1, Zenon
  <2>3. Assembled(t, p) = a * 4096 + b * 64 + c
    BY ONLY <2>1, <2>2
  <2> QED
    BY ONLY <2>3, a \in Nat, b \in Nat, c \in Nat, SMT
<1>6. CASE w = 4
  <2>1. Assembled(t, p) = (t[p] % 8) * 262144 + (t[p + 1] % 64) * 4096
                            + (t[p + 2] % 64) * 64 + (t[p + 3] % 64)
    BY ONLY <1>6, w = LeadWidth(t[p]) DEF Assembled
  <2>2. PICK a \in Nat, b \in Nat, c \in Nat, d \in Nat :
          a = t[p] % 8 /\ b = t[p + 1] % 64 /\ c = t[p + 2] % 64 /\ d = t[p + 3] % 64
    <3>1. t[p] \in Nat /\ t[p + 1] \in Nat /\ t[p + 2] \in Nat /\ t[p + 3] \in Nat
      BY ONLY <1>1, <1>6
    <3> QED
      BY ONLY <1>2, <3>1, Zenon
  <2>3. Assembled(t, p) = a * 262144 + b * 4096 + c * 64 + d
    BY ONLY <2>1, <2>2
  <2> QED
    BY ONLY <2>3, a \in Nat, b \in Nat, c \in Nat, d \in Nat, SMT
<1> QED
  BY ONLY <1>3, <1>4, <1>5, <1>6, w \in 1 .. 4, SMT

LEMMA FromPairNat ==
  ASSUME NEW h \in Nat, NEW l \in Nat
  PROVE  FromPair(h, l) \in Nat
<1>1. PICK a \in Nat, b \in Nat : a = (h - 55296) % 65536 /\ b = (l - 56320) % 65536
  BY SMT
<1>2. FromPair(h, l) = a * 1024 + b + 65536
  BY ONLY <1>1 DEF FromPair
<1> QED
  BY ONLY <1>2, a \in Nat, b \in Nat, SMT

-----------------------------------------------------------------------------
(* Answers of the inspections *)

LEMMA TrimUTF8Nat ==
  ASSUME NEW t \in Seq(Nat)
  PROVE  trimPartialUTF8(t) \in Nat
<1> DEFINE cuts == {k \in 1 .. 3 : PromisesMore(t, k)}
<1>1. Len(t) \in Nat
  BY LenProperties
<1>2. \A k \in cuts : k \in Nat /\ k <= Len(t)
  BY DEF PromisesMore
<1>3. cuts # {} => (CHOOSE k \in cuts : \A j \in cuts : k <= j) \in cuts
  <2>1. cuts \in SUBSET Nat
    OBVIOUS
  <2> HIDE DEF cuts
  <2>2. cuts # {} => \E k \in cuts : \A j \in cuts : k <= j
    BY <2>1, LeastOf
  <2> QED
    BY ONLY <2>2
<1>4. trimPartialUTF8(t) =
        IF cuts = {} THEN Len(t) ELSE Len(t) - (CHOOSE k \in cuts : \A j \in cuts : k <= j)
  BY DEF trimPartialUTF8
<1> HIDE DEF cuts
<1> QED
  BY ONLY <1>1, <1>2, <1>3, <1>4

LEMMA TrimUTF16Nat ==
  ASSUME NEW t \in Seq(Nat)
  PROVE  trimPartialUTF16(t) \in Nat
<1>1. Len(t) \in Nat
  BY LenProperties
<1> QED
  BY ONLY <1>1, SMT DEF trimPartialUTF16

LEMMA DetectNat ==
  ASSUME NEW t, NEW little
  PROVE  detectEncodings(t, little) \in Nat
<1>1. CheckBOM(t) \in {0, 1, 2, 4, 8, 16}
  <2>1. \A a, b, d, e, f \in BOOLEAN :
          (CASE a -> 8 [] b /\ ~ a -> 2 [] d -> 4 [] e -> 16 [] f -> 1 [] OTHER -> 0) \in {0, 1, 2, 4, 8, 16}
    OBVIOUS
  <2>2. PICK a \in BOOLEAN : a <=> Opens(t, << 255, 254, 0, 0 >>)
    OBVIOUS
  <2>3. PICK b \in BOOLEAN : b <=> Opens(t, << 255, 254 >>)
    OBVIOUS
  <2>4. PICK d \in BOOLEAN : d <=> Opens(t, << 254, 255 >>)
    OBVIOUS
  <2>5. PICK e \in BOOLEAN : e <=> Opens(t, << 0, 0, 254, 255 >>)
    OBVIOUS
  <2>6. PICK f \in BOOLEAN : f <=> Opens(t, << 239, 187, 191 >>)
    OBVIOUS
  <2>7. CheckBOM(t) = CASE a -> 8 [] b /\ ~ a -> 2 [] d -> 4 [] e -> 16 [] f -> 1 [] OTHER -> 0
    BY ONLY <2>2, <2>3, <2>4, <2>5, <2>6, SMT DEF CheckBOM, UTF8, UTF16LE, UTF16BE, UTF32LE,
         UTF32BE, Unspecified
  <2> QED
    BY ONLY <2>1, <2>7, a \in BOOLEAN, b \in BOOLEAN, d \in BOOLEAN, e \in BOOLEAN, f \in BOOLEAN
<1>2. CheckBOM(t) \in Nat
  BY ONLY <1>1
<1>3. \A A, B, C \in BOOLEAN : (IF A THEN 1 ELSE 0) + (IF B THEN 2 ELSE 0) + (IF C THEN 8 ELSE 0) \in Nat
  OBVIOUS
<1>4. PICK A \in BOOLEAN : A <=> validateUTF8(t)
  OBVIOUS
<1>5. PICK B \in BOOLEAN : B <=> Len(t) % 2 = 0 /\ validateUTF16LE(nativeUTF16Units(t, little), little)
  OBVIOUS
<1>6. PICK C \in BOOLEAN : C <=> Len(t) % 4 = 0 /\ validateUTF32(nativeUTF32Units(t, little))
  OBVIOUS
<1>7. detectEncodings(t, little) =
        IF CheckBOM(t) # Unspecified THEN CheckBOM(t)
        ELSE (IF A THEN 1 ELSE 0) + (IF B THEN 2 ELSE 0) + (IF C THEN 8 ELSE 0)
  BY ONLY <1>4, <1>5, <1>6, Zenon DEF detectEncodings, UTF8, UTF16LE, UTF32LE
<1> QED
  BY ONLY <1>2, <1>3, <1>7, A \in BOOLEAN, B \in BOOLEAN, C \in BOOLEAN

LEMMA AutodetectNat ==
  ASSUME NEW n \in Nat
  PROVE  autodetectEncoding(n) \in Nat
<1>1. autodetectEncoding(n) \in {1, 2, 8, n}
  BY ONLY Zenon DEF autodetectEncoding, UTF8, UTF16LE, UTF32LE
<1> QED
  BY ONLY <1>1, n \in Nat

-----------------------------------------------------------------------------
(* Types *)

Pcs == {"call", "kernel", "scalar", "returned", "panicked", "overrun"}

-----------------------------------------------------------------------------
(* What was written and what is left to read *)

Both(a, b) == a \o b

LEMMA BothIs ==
  /\ \A r \in Seq(Nat) : Both(<< >>, r) = r
  /\ \A d \in Seq(Nat) : Both(d, << >>) = d
  /\ \A d \in Seq(Nat), r \in Seq(Nat), c \in Nat : Both(AtEnd(d, c), r) = Both(d, InFront(c, r))
<1>1. \A r \in Seq(Nat) : Both(<< >>, r) = r
  BY DEF Both
<1>2. \A d \in Seq(Nat) : Both(d, << >>) = d
  BY DEF Both
<1>3. ASSUME NEW d \in Seq(Nat), NEW r \in Seq(Nat), NEW c \in Nat
      PROVE  Both(AtEnd(d, c), r) = Both(d, InFront(c, r))
  <2>1. Append(d, c) = d \o << c >>
    BY AppendIsConcat
  <2>2. << c >> \in Seq(Nat)
    BY c \in Nat
  <2>3. (d \o << c >>) \o r = d \o (<< c >> \o r)
    BY ONLY <2>2, d \in Seq(Nat), r \in Seq(Nat), JoinAssociative
  <2> QED
    BY <2>1, <2>3 DEF Both, AtEnd, InFront
<1> QED
  BY <1>1, <1>2, <1>3

LEMMA SameSequence ==
  ASSUME NEW a \in Seq(Nat), NEW b \in Seq(Nat), Len(a) = Len(b),
         \A i \in 1 .. Len(a) : a[i] = b[i]
  PROVE  a = b
BY SeqEqual

(* What o reads as, with what is still to come, is r0.                     *)
OutLink(c, o, r, r0) ==
  LET d == Reading(c.to, c.to, Native(c, o)) IN d.whole /\ Both(d.points, r) = r0

LEMMA ReadingType ==
  ASSUME NEW e \in Texts, NEW t \in Seq(Nat)
  PROVE  Reading(e, e, t) \in AReading
<1>1. 0 \in 0 .. Len(t)
  BY LenProperties
<1> QED
  BY <1>1, ReadingIsAfter, AfterType

(* p units are read, o is written: nothing is lost in between.             *)
Linked(c, t, p, o) ==
  LET r == After(c.from, c.to, t, p)
      r0 == After(c.from, c.to, t, 0)
  IN  /\ r.stop = r0.stop /\ (r.whole <=> r0.whole)
      /\ c.to # "none" => OutLink(c, o, r.points, r0.points)

LEMMA OneUnit ==
  ASSUME NEW s \in Seq(Nat), Len(s) = 1
  PROVE  s = << s[1] >> /\ s[1] \in Nat
<1>1. 1 \in 1 .. Len(s)
  OBVIOUS
<1>2. s[1] \in Nat
  BY ONLY <1>1, s \in Seq(Nat), ElementOfSeq
<1>3. << s[1] >> \in Seq(Nat) /\ Len(<< s[1] >>) = 1 /\ << s[1] >>[1] = s[1]
  BY ONLY <1>2
<1>4. \A i \in 1 .. 1 : i = 1
  OBVIOUS
<1>5. PICK q : q = << s[1] >>
  OBVIOUS
<1>6. \A i \in 1 .. Len(s) : s[i] = q[i]
  BY ONLY <1>3, <1>4, <1>5, Len(s) = 1, Zenon
<1>7. s = q
  BY ONLY <1>3, <1>5, <1>6, s \in Seq(Nat), Len(s) = 1, SameSequence
<1> QED
  BY ONLY <1>2, <1>5, <1>7

-----------------------------------------------------------------------------
(* What the kernels take *)

Checking == {"plain", "errors", "valid", "safe"}

-----------------------------------------------------------------------------
(* Where the UTF-8 validator starts again is where a character starts      *)

(* Positions of continuation bytes C and announced widths L up to s, where *)
(* every continuation is announced and every announced byte is one.        *)
Clean(C, L, s) ==
  /\ C \subseteq 1 .. s /\ L \in [1 .. s -> 0 .. 4]
  /\ \A p \in C : L[p] = 0 /\ \E q \in 1 .. p - 1 : q + L[q] > p
  /\ \A p \in (1 .. s) \ C : /\ 1 <= L[p] /\ p + L[p] <= s + 1
                             /\ \A i \in p + 1 .. s : i < p + L[p] => i \in C

LEMMA Greatest ==
  ASSUME NEW b \in Nat, NEW C, 1 <= b, 1 \notin C
  PROVE  \E p \in 1 .. b : p \notin C /\ \A i \in p + 1 .. b : i \in C
<1> DEFINE T == {m \in 0 .. b - 1 : b - m \notin C}
<1>1. T \in SUBSET Nat /\ b - 1 \in T
  BY SMT
<1>2. PICK m \in T : \A k \in T : m <= k
  BY ONLY <1>1, LeastOf
<1>3. b - m \in 1 .. b /\ b - m \notin C
  BY <1>2
<1>4. ASSUME NEW i \in b - m + 1 .. b, i \notin C PROVE FALSE
  <2>1. b - i \in 0 .. b - 1 /\ b - (b - i) = i /\ b - i < m
    BY ONLY <1>2, <1>4, b \in Nat, m \in 0 .. b - 1, i \in b - m + 1 .. b, SMT
  <2>2. b - i \in T
    BY ONLY <1>4, <2>1
  <2> QED
    BY ONLY <1>2, <2>1, <2>2, b \in Nat, m \in 0 .. b - 1, i \in b - m + 1 .. b, SMT
<1> QED
  BY ONLY <1>3, <1>4

LEMMA LeadBefore ==
  ASSUME NEW s \in Nat, NEW C, NEW L, Clean(C, L, s), NEW b \in 1 .. s, b = s \/ b + 1 \notin C
  PROVE  \E p \in 1 .. b : p \notin C /\ p + L[p] = b + 1
<1>1. /\ C \subseteq 1 .. s
      /\ \A p \in 1 .. s : L[p] \in 0 .. 4
      /\ \A p \in C : L[p] = 0 /\ \E q \in 1 .. p - 1 : q + L[q] > p
      /\ \A p \in (1 .. s) \ C : /\ 1 <= L[p] /\ p + L[p] <= s + 1
                                 /\ \A i \in p + 1 .. s : i < p + L[p] => i \in C
  BY DEF Clean
<1>2. 1 \notin C
  BY ONLY <1>1, SMT
<1>3. b \in Nat /\ 1 <= b
  OBVIOUS
<1>4. PICK p \in 1 .. b : p \notin C /\ \A i \in p + 1 .. b : i \in C
  BY ONLY <1>2, <1>3, Greatest
<1>5. p \in (1 .. s) \ C /\ p \in Nat
  BY ONLY <1>4, p \in 1 .. b, b \in 1 .. s, s \in Nat, SMT
<1>6. /\ 1 <= L[p] /\ p + L[p] <= s + 1 /\ L[p] \in 0 .. 4
      /\ \A i \in p + 1 .. s : i < p + L[p] => i \in C
  BY ONLY <1>1, <1>5
<1>7. PICK w \in 0 .. 4 : w = L[p]
  BY ONLY <1>6
<1>8. ASSUME p + w < b + 1 PROVE FALSE
  <2>1. p + w \in C /\ p + w \in p + 1 .. b
    BY ONLY <1>4, <1>5, <1>6, <1>7, <1>8, b \in 1 .. s, s \in Nat, p \in 1 .. b, w \in 0 .. 4, SMT
  <2>2. PICK q \in 1 .. p + w - 1 : q + L[q] > p + w
    BY ONLY <1>1, <2>1
  <2>3. q \in 1 .. s /\ q \in Nat /\ p + w \in 1 .. s
    BY ONLY <1>5, <2>1, q \in 1 .. p + w - 1, w \in 0 .. 4, b \in 1 .. s, s \in Nat, SMT
  <2>4. PICK v \in 0 .. 4 : v = L[q]
    BY ONLY <1>1, <2>3
  <2>5. q \notin C
    <3>1. CASE q \in C
      <4>1. v = 0
        BY ONLY <1>1, <2>4, <3>1
      <4> QED
        BY ONLY <1>5, <2>2, <2>3, <2>4, <4>1, q \in 1 .. p + w - 1, w \in 0 .. 4, SMT
    <3> QED
      BY <3>1
  <2>6. \A i \in q + 1 .. s : i < q + v => i \in C
    BY ONLY <1>1, <2>3, <2>4, <2>5
  <2>7. CASE q = p
    BY ONLY <1>5, <1>7, <2>2, <2>7, w \in 0 .. 4, SMT
  <2>8. CASE q < p
    <3>1. p \in q + 1 .. s /\ p < q + v
      BY ONLY <1>5, <2>2, <2>3, <2>4, <2>8, w \in 0 .. 4, v \in 0 .. 4, s \in Nat, SMT
    <3> QED
      BY ONLY <1>5, <2>6, <3>1
  <2>9. CASE q > p
    <3>1. q \in p + 1 .. s /\ q < p + w
      BY ONLY <1>5, <2>3, <2>9, q \in 1 .. p + w - 1, w \in 0 .. 4, SMT
    <3> QED
      BY ONLY <1>6, <1>7, <2>5, <3>1
  <2> QED
    BY ONLY <1>5, <2>3, <2>7, <2>8, <2>9
<1>9. ASSUME p + w > b + 1 PROVE FALSE
  <2>1. b + 1 \in p + 1 .. s /\ b + 1 < p + w /\ b # s
    BY ONLY <1>5, <1>6, <1>7, <1>9, b \in 1 .. s, s \in Nat, p \in 1 .. b, w \in 0 .. 4, SMT
  <2> QED
    BY ONLY <1>6, <1>7, <2>1, b = s \/ b + 1 \notin C
<1>10. p + w \in Nat /\ b + 1 \in Nat
  BY ONLY <1>3, <1>5, w \in 0 .. 4
<1>11. p + w = b + 1
  BY ONLY <1>8, <1>9, <1>10, SMT
<1>12. p \notin C /\ p + L[p] = b + 1
  BY ONLY <1>4, <1>7, <1>11
<1> QED
  BY ONLY <1>12, p \in 1 .. b, Zenon

(* Back from n to a byte that is no continuation, in a text that is clean  *)
(* up to s and where what follows belongs to a character that n cuts.      *)
Rewinding(s, n, C, D, l, r) ==
  /\ s <= n /\ D \cap (1 .. s) = C
  /\ n > s => s + 1 \notin D /\ l > n - s /\ \A p \in s + 2 .. n : p \in D
  /\ (r < n \/ n = 0) /\ r + 6 >= n
  /\ n > 0 => r = 0 \/ r + 6 = n \/ r + 1 \notin D
  /\ \A i \in r + 2 .. n : i \in D

Restarts(s, C, r) == r \in 0 .. s /\ (r = 0 \/ r = s \/ r + 1 \notin C)

LEMMA RewindClean ==
  ASSUME NEW s \in Nat, NEW n \in Nat, NEW C, NEW L, Clean(C, L, s),
         NEW D, NEW l \in 0 .. 4, NEW r \in 0 .. n, Rewinding(s, n, C, D, l, r)
  PROVE  Restarts(s, C, r)
<1> SUFFICES r \in 0 .. s /\ (r = 0 \/ r = s \/ r + 1 \notin C)
  BY DEF Restarts
<1>00. s <= n /\ D \cap (1 .. s) = C
  BY DEF Rewinding
<1>0. /\ n > s => s + 1 \notin D /\ l > n - s /\ \A p \in s + 2 .. n : p \in D
      /\ (r < n \/ n = 0) /\ r + 6 >= n
      /\ n > 0 => r = 0 \/ r + 6 = n \/ r + 1 \notin D
      /\ \A i \in r + 2 .. n : i \in D
  BY DEF Rewinding
<1>1. /\ C \subseteq 1 .. s
      /\ \A p \in 1 .. s : L[p] \in 0 .. 4
      /\ \A p \in C : L[p] = 0 /\ \E q \in 1 .. p - 1 : q + L[q] > p
  BY DEF Clean
<1>2. CASE r = 0
  BY ONLY <1>2, s \in Nat
<1>3. CASE r # 0 /\ n > s
  <2>1. s + 1 \notin D /\ l > n - s /\ \A p \in s + 2 .. n : p \in D
    BY ONLY <1>3, <1>0
  <2>2. s + 1 \notin r + 2 .. n
    BY ONLY <2>1, <1>0
  <2>3. s <= r
    BY ONLY <1>3, <2>2, s \in Nat, n \in Nat, r \in 0 .. n, SMT
  <2>4. CASE s < r
    <3>1. r + 1 \in s + 2 .. n
      BY ONLY <1>3, <2>4, s \in Nat, n \in Nat, r \in 0 .. n, <1>0, SMT
    <3>2. r + 1 \in D
      BY ONLY <2>1, <3>1
    <3>3. r + 6 = n
      BY ONLY <1>3, <3>2, s \in Nat, n \in Nat, <1>0, SMT
    <3> QED
      BY ONLY <2>1, <2>4, <3>3, s \in Nat, n \in Nat, r \in 0 .. n, l \in 0 .. 4, SMT
  <2>5. CASE s = r
    BY ONLY <2>5, s \in Nat
  <2> QED
    BY ONLY <2>3, <2>4, <2>5, s \in Nat, r \in 0 .. n, SMT
<1>4. CASE r # 0 /\ n = s
  <2>1. r \in 0 .. s /\ r < s /\ r \in Nat /\ s > 0
    BY ONLY <1>4, s \in Nat, r \in 0 .. n, <1>0, SMT
  <2>2. CASE r + 1 \in C
    <3>1. r + 1 \in D
      BY ONLY <2>2, <1>00
    <3>2. r + 6 = s
      BY ONLY <1>4, <2>1, <3>1, <1>0
    <3>3. s \in D /\ s \in 1 .. s
      <4>1. s \in r + 2 .. n
        BY ONLY <1>4, <2>1, <3>2, s \in Nat, SMT
      <4> QED
        BY ONLY <2>1, <4>1, s \in Nat, <1>0
    <3>4. s \in C
      BY ONLY <3>3, <1>00
    <3>5. PICK q \in 1 .. s - 1 : q + L[q] > s
      BY ONLY <1>1, <3>4
    <3>6. q \in 1 .. s
      BY ONLY q \in 1 .. s - 1, s \in Nat, SMT
    <3>7. PICK v \in 0 .. 4 : v = L[q]
      BY ONLY <1>1, <3>6
    <3>8. q \in r + 2 .. n /\ v # 0
      BY ONLY <1>4, <2>1, <3>2, <3>5, <3>7, q \in 1 .. s - 1, v \in 0 .. 4, s \in Nat, SMT
    <3>9. q \in C
      BY ONLY <3>6, <3>8, <1>00, <1>0
    <3> QED
      BY ONLY <1>1, <3>7, <3>8, <3>9
  <2> QED
    BY ONLY <2>1, <2>2
<1> QED
  BY ONLY <1>2, <1>3, <1>4, s \in Nat, n \in Nat, <1>00, SMT

Tails(t, k) == {i \in 1 .. k : Continuation(t[i])}

Widths(t, k) == [i \in 1 .. k |-> LeadWidth(t[i])]

LEMMA WidthRange ==
  ASSUME NEW b \in Nat
  PROVE  LeadWidth(b) \in 0 .. 4 /\ (Continuation(b) => LeadWidth(b) = 0)
<1>1. /\ b < 128 => LeadWidth(b) = 1
      /\ 192 <= b /\ b < 224 => LeadWidth(b) = 2
      /\ 224 <= b /\ b < 240 => LeadWidth(b) = 3
      /\ 240 <= b /\ b < 248 => LeadWidth(b) = 4
      /\ (128 <= b /\ b < 192) \/ 248 <= b => LeadWidth(b) = 0
      /\ Continuation(b) => 128 <= b /\ b < 192
  BY LeadWidthIs DEF Tail8, Within
<1> QED
  BY ONLY <1>1, b \in Nat, SMT

(* The first s units of t, by themselves.                                  *)
LEMMA FirstPart ==
  ASSUME NEW t \in Seq(Nat), NEW s \in 0 .. Len(t), NEW u, u = SubSeq(t, 1, s)
  PROVE  u \in Seq(Nat) /\ Len(u) = s /\ \A i \in 1 .. s : u[i] = t[i]
<1>1. Len(t) \in Nat
  BY LenProperties
<1>2. 1 \in 1 .. Len(t) + 1 /\ s \in 1 - 1 .. Len(t) /\ s - 1 + 1 = s /\ \A i \in 1 .. s : 1 + i - 1 = i
  BY ONLY <1>1, s \in 0 .. Len(t), SMT
<1> QED
  BY ONLY <1>1, <1>2, t \in Seq(Nat), u = SubSeq(t, 1, s), SMT

LEMMA SamePiece ==
  ASSUME NEW t \in Seq(Nat), NEW s \in 0 .. Len(t), NEW u, u = SubSeq(t, 1, s),
         NEW p \in 1 .. s, NEW w \in 1 .. 4, p + w - 1 <= s
  PROVE  Piece(u, p, w) = Piece(t, p, w)
<1>1. Len(t) \in Nat /\ s \in Nat /\ p \in Nat /\ 1 <= p /\ w \in Nat /\ 1 <= w /\ p + w - 1 <= Len(t)
  <2>1. Len(t) \in Nat
    BY LenProperties
  <2> QED
    BY ONLY <2>1, s \in 0 .. Len(t), p \in 1 .. s, w \in 1 .. 4, p + w - 1 <= s, SMT
<1>2. u \in Seq(Nat) /\ Len(u) = s /\ \A i \in 1 .. s : u[i] = t[i]
  BY FirstPart
<1>3. PICK a : a = Piece(u, p, w)
  OBVIOUS
<1>4. PICK b : b = Piece(t, p, w)
  OBVIOUS
<1>5. a \in Seq(Nat) /\ Len(a) = w /\ \A i \in 1 .. w : a[i] = u[p + i - 1]
  <2>1. p + w - 1 <= Len(u)
    BY ONLY <1>2, p + w - 1 <= s
  <2>2. u \in Seq(Nat) /\ p \in Nat /\ 1 <= p /\ w \in Nat /\ 1 <= w
    BY ONLY <1>1, <1>2
  <2> QED
    BY ONLY <1>3, <2>1, <2>2, PieceIs
<1>6. b \in Seq(Nat) /\ Len(b) = w /\ \A i \in 1 .. w : b[i] = t[p + i - 1]
  BY ONLY <1>1, <1>4, t \in Seq(Nat), PieceIs
<1>7. \A i \in 1 .. w : a[i] = b[i]
  <2> TAKE i \in 1 .. w
  <2>1. PICK q \in 1 .. s : q = p + i - 1
    <3>1. p + i - 1 \in 1 .. s
      BY ONLY <1>1, p \in 1 .. s, i \in 1 .. w, p + w - 1 <= s, SMT
    <3> QED
      BY <3>1
  <2>2. a[i] = u[q] /\ b[i] = t[q]
    BY ONLY <1>5, <1>6, <2>1, i \in 1 .. w
  <2> QED
    BY ONLY <1>2, <2>2, q \in 1 .. s
<1>8. a = b
  BY ONLY <1>5, <1>6, <1>7, SameSequence
<1> QED
  BY ONLY <1>3, <1>4, <1>8

(* A lead that the validator found no fault with in the first s units.     *)
Led(t, s, p) ==
  /\ LeadWidth(t[p]) \in 1 .. 4 /\ p + LeadWidth(t[p]) <= s + 1
  /\ \A i \in p + 1 .. s : i < p + LeadWidth(t[p]) => Continuation(t[i])
  /\ \E c : StartsAt("utf8", "none", t, p, LeadWidth(t[p]), c)

LEMMA CleanLead ==
  ASSUME NEW t \in Seq(Nat), NEW s \in 0 .. Len(t), NEW p \in 1 .. s,
         UTF8Verdict(SubSeq(t, 1, s), p) = "Success"
  PROVE  Led(t, s, p)
<1>1. PICK u : u = SubSeq(t, 1, s)
  OBVIOUS
<1>2. u \in Seq(Nat) /\ Len(u) = s /\ \A i \in 1 .. s : u[i] = t[i]
  BY ONLY <1>1, t \in Seq(Nat), s \in 0 .. Len(t), FirstPart
<1>3. Len(t) \in Nat /\ s \in Nat /\ p \in 1 .. Len(u) /\ p \in 1 .. Len(t)
  <2>1. Len(t) \in Nat
    BY LenProperties
  <2> QED
    BY ONLY <1>2, <2>1, s \in 0 .. Len(t), p \in 1 .. s
<1>4. UTF8Verdict(u, p) = "Success"
  BY ONLY <1>1, UTF8Verdict(SubSeq(t, 1, s), p) = "Success"
<1>5. PICK c : c = Assembled(u, p)
  OBVIOUS
<1>6. PICK w : w = LeadWidth(u[p])
  OBVIOUS
<1>7. StartsAt("utf8", "none", u, p, w, c)
  <2>1. Holds("none", c)
    BY DEF Holds
  <2> QED
    BY ONLY <1>2, <1>3, <1>4, <1>5, <1>6, <2>1, UTF8Accepted
<1>8. w \in 1 .. 4 /\ p + w - 1 <= s /\ ~ Broken(u, p)
  BY ONLY <1>2, <1>3, <1>7, UTF8Recognised
<1>9. w = LeadWidth(t[p])
  BY ONLY <1>2, <1>6, p \in 1 .. s
<1>10. StartsAt("utf8", "none", t, p, w, c)
  <2>1. "utf8" \in Texts
    BY DEF Texts
  <2>2. PieceFacts("utf8", "none", u, p, w, c)
    BY ONLY <1>2, <1>3, <1>7, <2>1, StartsPiece
  <2>3. Piece(u, p, w) = Piece(t, p, w)
    BY ONLY <1>1, <1>8, t \in Seq(Nat), s \in 0 .. Len(t), p \in 1 .. s, SamePiece
  <2>4. IsCharacter("utf8", Piece(t, p, w)) /\ c = Meaning("utf8", Piece(t, p, w)) /\ Holds("none", c)
    BY ONLY <2>2, <2>3, Zenon DEF PieceFacts
  <2>5. p + w - 1 <= Len(t)
    BY ONLY <1>3, <1>8, s \in 0 .. Len(t), p \in 1 .. s, SMT
  <2> QED
    BY ONLY <1>3, <1>8, <2>4, <2>5, t \in Seq(Nat), StartsAtIs
<1>11. p + w <= s + 1
  BY ONLY <1>3, <1>8, p \in 1 .. s, SMT
<1>12. \A i \in p + 1 .. s : i < p + w => Continuation(t[i])
  <2>1. \A i \in 1 .. w - 1 : Continuation(u[p + i])
    BY ONLY <1>6, <1>8, Zenon DEF Broken
  <2> TAKE i \in p + 1 .. s
  <2> SUFFICES ASSUME i < p + w PROVE Continuation(t[i])
    OBVIOUS
  <2>2. PICK j \in 1 .. w - 1 : i = p + j
    <3>1. i - p \in 1 .. w - 1 /\ i = p + (i - p)
      BY ONLY <1>3, <1>8, p \in 1 .. s, i \in p + 1 .. s, i < p + w, SMT
    <3> QED
      BY <3>1
  <2>3. Continuation(u[i])
    BY ONLY <2>1, <2>2, j \in 1 .. w - 1
  <2>4. i \in 1 .. s
    BY ONLY <1>3, p \in 1 .. s, i \in p + 1 .. s, SMT
  <2> QED
    BY ONLY <1>2, <2>3, <2>4
<1> QED
  BY ONLY <1>8, <1>9, <1>10, <1>11, <1>12 DEF Led

CleanText(t, s) ==
  \A p \in 1 .. s : IF Continuation(t[p]) THEN \E q \in 1 .. p - 1 : q + LeadWidth(t[q]) > p
                    ELSE Led(t, s, p)

LEMMA CleanIs ==
  ASSUME NEW t \in Seq(Nat), NEW s \in 0 .. Len(t), CleanText(t, s)
  PROVE  Clean(Tails(t, s), Widths(t, s), s)
<1>1. Len(t) \in Nat /\ \A i \in 1 .. s : t[i] \in Nat
  <2>1. Len(t) \in Nat
    BY LenProperties
  <2>2. \A i \in 1 .. s : i \in 1 .. Len(t)
    BY ONLY <2>1, s \in 0 .. Len(t), SMT
  <2> QED
    BY ONLY <2>1, <2>2, t \in Seq(Nat), ElementOfSeq
<1>2. PICK C : C = Tails(t, s)
  OBVIOUS
<1>3. PICK L : L = Widths(t, s)
  OBVIOUS
<1>4. \A i \in 1 .. s : L[i] = LeadWidth(t[i])
  BY ONLY <1>3 DEF Widths
<1>5. C \subseteq 1 .. s /\ \A i \in 1 .. s : i \in C <=> Continuation(t[i])
  BY ONLY <1>2 DEF Tails
<1>6. \A i \in 1 .. s : LeadWidth(t[i]) \in 0 .. 4 /\ (Continuation(t[i]) => LeadWidth(t[i]) = 0)
  BY ONLY <1>1, WidthRange
<1>7. L \in [1 .. s -> 0 .. 4]
  BY ONLY <1>3, <1>6 DEF Widths
<1>8. ASSUME NEW p \in C PROVE L[p] = 0 /\ \E q \in 1 .. p - 1 : q + L[q] > p
  <2>1. p \in 1 .. s /\ Continuation(t[p])
    BY ONLY <1>5, p \in C
  <2>2. PICK q \in 1 .. p - 1 : q + LeadWidth(t[q]) > p
    BY ONLY <2>1, CleanText(t, s), Zenon DEF CleanText
  <2>3. q \in 1 .. s
    BY ONLY <2>1, q \in 1 .. p - 1, s \in 0 .. Len(t), <1>1, SMT
  <2>4. q + L[q] > p
    BY ONLY <1>4, <2>2, <2>3
  <2> QED
    BY ONLY <1>4, <1>6, <2>1, <2>4, q \in 1 .. p - 1
<1>9. ASSUME NEW p \in (1 .. s) \ C
      PROVE  /\ 1 <= L[p] /\ p + L[p] <= s + 1
             /\ \A i \in p + 1 .. s : i < p + L[p] => i \in C
  <2>1. p \in 1 .. s /\ ~ Continuation(t[p])
    BY ONLY <1>5, p \in (1 .. s) \ C
  <2>2. Led(t, s, p)
    BY ONLY <2>1, CleanText(t, s), Zenon DEF CleanText
  <2>3. L[p] \in 1 .. 4 /\ p + L[p] <= s + 1 /\ \A i \in p + 1 .. s : i < p + L[p] => Continuation(t[i])
    BY ONLY <1>4, <2>1, <2>2 DEF Led
  <2>4. \A i \in p + 1 .. s : i \in 1 .. s
    BY ONLY <2>1, s \in 0 .. Len(t), <1>1, SMT
  <2>5. \A i \in p + 1 .. s : i < p + L[p] => i \in C
    BY ONLY <1>5, <2>3, <2>4
  <2> QED
    BY ONLY <2>3, <2>5
<1>10. Clean(C, L, s)
  BY ONLY <1>5, <1>7, <1>8, <1>9 DEF Clean
<1> QED
  BY ONLY <1>2, <1>3, <1>10

CleanRun(t, n) ==
  \E s \in 0 .. n :
    /\ \A p \in 1 .. s :
         IF Continuation(t[p])
         THEN \E q \in 1 .. p - 1 : q + LeadWidth(t[q]) > p
         ELSE UTF8Verdict(SubSeq(t, 1, s), p) = "Success"
    /\ n > s => /\ LeadWidth(t[s + 1]) > n - s
                /\ \A p \in s + 2 .. n : Continuation(t[p])

-----------------------------------------------------------------------------
(* What the length functions count of the units not yet read               *)

Left(S, p) == Cardinality({i \in S : i > p})

Bit(x) == IF x THEN 1 ELSE 0

LEMMA LeftIs ==
  ASSUME NEW n \in Nat, NEW S, S \subseteq 1 .. n
  PROVE  /\ \A p \in 0 .. n : Left(S, p) \in Nat
         /\ Left(S, n) = 0 /\ Left(S, 0) = Cardinality(S)
         /\ \A p \in 0 .. n - 1 : Left(S, p) = Left(S, p + 1) + Bit(p + 1 \in S)
<1>1. IsFiniteSet(1 .. n)
  BY FS_Interval
<1>0. \A i \in S : i \in Nat /\ 1 <= i /\ i <= n
  BY SMT
<1>2. ASSUME NEW p \in 0 .. n PROVE IsFiniteSet({i \in S : i > p}) /\ Left(S, p) \in Nat
  <2>1. {i \in S : i > p} \in SUBSET (1 .. n)
    OBVIOUS
  <2>2. IsFiniteSet({i \in S : i > p})
    BY ONLY <1>1, <2>1, FS_Subset
  <2> QED
    BY <2>2, FS_CardinalityType DEF Left
<1>3. Left(S, n) = 0
  <2>1. {i \in S : i > n} = {}
    <3>1. \A i \in S : ~ (i > n)
      BY ONLY <1>0, n \in Nat, SMT
    <3> QED
      BY ONLY <3>1
  <2> QED
    BY ONLY <2>1, FS_EmptySet DEF Left
<1>4. Left(S, 0) = Cardinality(S)
  <2>1. {i \in S : i > 0} = S
    <3>1. \A i \in S : i > 0
      BY ONLY <1>0, SMT
    <3> QED
      BY ONLY <3>1
  <2> QED
    BY ONLY <2>1 DEF Left
<1>5. ASSUME NEW p \in 0 .. n - 1 PROVE Left(S, p) = Left(S, p + 1) + Bit(p + 1 \in S)
  <2>1. p + 1 \in 0 .. n /\ p \in Nat
    OBVIOUS
  <2>2. PICK T : T = {i \in S : i > p + 1}
    OBVIOUS
  <2>3. IsFiniteSet(T) /\ Cardinality(T) \in Nat /\ p + 1 \notin T
    BY ONLY <1>2, <2>1, <2>2, FS_CardinalityType
  <2>4. CASE p + 1 \in S
    <3>1. {i \in S : i > p} = T \cup {p + 1}
      <4>1. \A i \in S : i > p <=> i > p + 1 \/ i = p + 1
        BY ONLY <1>0, <2>1, SMT
      <4>2. p + 1 > p
        BY ONLY <2>1, SMT
      <4> QED
        BY ONLY <2>2, <2>4, <4>1, <4>2
    <3>2. Cardinality(T \cup {p + 1}) = Cardinality(T) + 1
      BY ONLY <2>3, FS_AddElement
    <3> QED
      BY ONLY <2>2, <2>4, <3>1, <3>2 DEF Left, Bit
  <2>5. CASE p + 1 \notin S
    <3>1. {i \in S : i > p} = T
      <4>1. \A i \in S : i > p <=> i > p + 1 \/ i = p + 1
        BY ONLY <1>0, <2>1, SMT
      <4> QED
        BY ONLY <2>2, <2>5, <4>1
    <3> QED
      BY ONLY <2>2, <2>3, <2>5, <3>1 DEF Left, Bit
  <2> QED
    BY <2>4, <2>5
<1> QED
  BY <1>2, <1>3, <1>4, <1>5

LEMMA BitIs == \A x : Bit(x) \in {0, 1}
BY DEF Bit

(* The units from n on weigh what they weigh in the whole text.            *)
Ahead(t, n, s) == n \in 0 .. Len(t) /\ s = SubSeq(t, n + 1, Len(t))

(* Nothing is owed twice                                                   *)
LEMMA LeftMonotone ==
  ASSUME NEW n \in Nat, NEW S, NEW T, S \subseteq T, T \subseteq 1 .. n, NEW p \in 0 .. n
  PROVE  Left(S, p) <= Left(T, p)
<1>1. {i \in T : i > p} \subseteq 1 .. n /\ {i \in S : i > p} \subseteq {i \in T : i > p}
  OBVIOUS
<1>2. IsFiniteSet({i \in T : i > p})
  <2>1. {i \in T : i > p} \in SUBSET (1 .. n)
    BY ONLY <1>1
  <2>2. IsFiniteSet(1 .. n)
    BY ONLY n \in Nat, FS_Interval
  <2> QED
    BY ONLY <2>1, <2>2, FS_Subset
<1>3. PICK A, B : A = {i \in S : i > p} /\ B = {i \in T : i > p}
  OBVIOUS
<1>4. IsFiniteSet(B) /\ A \in SUBSET B
  BY ONLY <1>1, <1>2, <1>3
<1>5. Cardinality(A) <= Cardinality(B)
  BY ONLY <1>4, FS_Subset
<1> QED
  BY ONLY <1>3, <1>5 DEF Left

(* What a call answers *)
Plainspoken == {"plain", "errors", "valid"}

(* Where the safe converters stop *)
Stops(s, d, room, k) ==
  /\ d = SubSeq(s, 1, Len(d))
  /\ Len(d) < Len(s) => k + Len(UTF8Units(s[Len(d) + 1])) > room

(* d is what s begins with, r the rest of it.                              *)
Parted(d, r, s) ==
  /\ d = SubSeq(s, 1, Len(d)) /\ Len(s) = Len(d) + Len(r) /\ Len(d) \in Nat /\ Len(r) \in Nat
  /\ \A c \in Nat, x \in Seq(Nat) : r = InFront(c, x) => s[Len(d) + 1] = c

LEMMA FrontOf ==
  ASSUME NEW d \in Seq(Nat), NEW r \in Seq(Nat), NEW s, s = Both(d, r)
  PROVE  Parted(d, r, s)
<1>1. s = d \o r
  BY DEF Both
<1>2. s \in Seq(Nat) /\ Len(s) = Len(d) + Len(r)
  BY ONLY <1>1, d \in Seq(Nat), r \in Seq(Nat), JoinType
<1>3. \A i \in 1 .. Len(d) : s[i] = d[i]
  BY ONLY <1>1, d \in Seq(Nat), r \in Seq(Nat), JoinIs
<1>4. \A i \in 1 .. Len(r) : s[Len(d) + i] = r[i]
  BY ONLY <1>1, d \in Seq(Nat), r \in Seq(Nat), JoinIs
<1>5. Len(d) \in Nat /\ Len(r) \in Nat
  OBVIOUS
<1>6. d = SubSeq(s, 1, Len(d))
  <2>1. PICK n \in Nat : n = Len(d)
    BY <1>5
  <2>2. n \in 0 .. Len(s)
    BY ONLY <1>2, <1>5, <2>1, SMT
  <2>3. PICK u : u = SubSeq(s, 1, n)
    OBVIOUS
  <2>4. u \in Seq(Nat) /\ Len(u) = n /\ \A i \in 1 .. n : u[i] = s[i]
    BY ONLY <1>2, <2>2, <2>3, FirstPart
  <2>5. d = u
    BY ONLY <1>3, <2>1, <2>4, d \in Seq(Nat), SameSequence
  <2> QED
    BY ONLY <2>1, <2>3, <2>5
<1>7. \A c \in Nat, x \in Seq(Nat) : r = InFront(c, x) => s[Len(d) + 1] = c
  <2> SUFFICES ASSUME NEW c \in Nat, NEW x \in Seq(Nat), r = InFront(c, x)
               PROVE  s[Len(d) + 1] = c
    OBVIOUS
  <2>1. Len(r) = Len(x) + 1 /\ Len(x) \in Nat
    BY ONLY r = InFront(c, x), c \in Nat, x \in Seq(Nat), FrontAndEnd
  <2>2. 1 \in 1 .. Len(r)
    BY ONLY <2>1, SMT
  <2>3. r[1] = c
    <3>1. << c >> \in Seq(Nat) /\ Len(<< c >>) = 1 /\ << c >>[1] = c
      BY ONLY c \in Nat
    <3>2. PICK h \in Seq(Nat) : h = << c >>
      BY ONLY <3>1
    <3>3. r = h \o x
      BY ONLY r = InFront(c, x), <3>2 DEF InFront
    <3>4. \A i \in 1 .. Len(h) : r[i] = h[i]
      BY ONLY <3>2, <3>3, x \in Seq(Nat), JoinIs
    <3> QED
      BY ONLY <3>1, <3>2, <3>4
  <2> QED
    BY ONLY <1>4, <2>2, <2>3
<1> QED
  BY ONLY <1>2, <1>5, <1>6, <1>7 DEF Parted

-----------------------------------------------------------------------------
(* What a text reads as once it is repaired *)

(* The code point of the character at p, and what follows it.              *)
RepairOn(from, t, R, p) ==
  LET s == CHOOSE s \in CharactersAt(from, from, t, p) : TRUE
  IN  << Meaning(from, s) >> \o R[p + Len(s)]

(* How Repaired goes on from p, when R is what it goes on to.              *)
RepairFrom(from, t, R, p) ==
  IF p > Len(t) THEN << >>
  ELSE IF CharactersAt(from, from, t, p) = {} THEN << 65533 >> \o R[p + 1]
  ELSE RepairOn(from, t, R, p)

IsRepair(from, t, R) == R = [p \in 1 .. Len(t) + 1 |-> RepairFrom(from, t, R, p)]

LEMMA RepairedDef ==
  ASSUME NEW from, NEW t
  PROVE  Repaired(from, t) = (CHOOSE R : IsRepair(from, t, R))[1]
BY DEF Repaired, IsRepair, RepairFrom, RepairOn

(* The text is read from its end, so that what follows a unit is known.    *)
LEMMA RepairExists ==
  ASSUME NEW from, NEW t \in Seq(Nat)
  PROVE  \E R : IsRepair(from, t, R)
<1> DEFINE n == Len(t)
           F(R, p) == RepairFrom(from, t, R, p)
           Good(k) == \E R : R = [p \in n + 1 - k .. n + 1 |-> F(R, p)]
<1>1. n \in Nat
  BY LenProperties
<1>2. \A R, Q : \A p \in 1 .. n + 1 : (\A q \in p + 1 .. n + 1 : R[q] = Q[q]) => F(R, p) = F(Q, p)
  <2> SUFFICES ASSUME NEW R, NEW Q, NEW p \in 1 .. n + 1, \A q \in p + 1 .. n + 1 : R[q] = Q[q]
               PROVE  F(R, p) = F(Q, p)
    BY Zenon
  <2> DEFINE C == CharactersAt(from, from, t, p)
             s == CHOOSE s \in C : TRUE
  <2>1. CASE p > n
    BY <2>1 DEF RepairFrom
  <2>3. CASE p <= n /\ C = {}
    <3>1. p + 1 \in p + 1 .. n + 1
      BY <1>1, <2>3
    <3>2. R[p + 1] = Q[p + 1]
      BY <3>1
    <3> QED
      BY <2>3, <3>2 DEF RepairFrom
  <2>2. CASE p <= n /\ C # {}
    <3>1. s \in C
      BY <2>2
    <3>2. p \in 1 .. Len(t)
      BY <1>1, <2>2
    <3>3. p + Len(s) \in p + 1 .. Len(t) + 1
      <4> HIDE DEF s
      <4>1. PICK w \in 1 .. 4 : p + w - 1 <= Len(t) /\ Len(s) = w
        BY <3>1, <3>2, CharacterLength
      <4> QED BY <1>1, <3>2, <4>1
    <3>4. R[p + Len(s)] = Q[p + Len(s)]
      BY <3>3
    <3> QED
      BY <3>4 DEF RepairFrom, RepairOn
  <2> QED
    BY <1>1, <2>1, <2>2, <2>3
<1> HIDE DEF F
<1>3. Good(0)
  <2> DEFINE R == [p \in n + 1 - 0 .. n + 1 |-> F(<< >>, p)]
  <2>1. \A p \in n + 1 - 0 .. n + 1 : F(<< >>, p) = F(R, p)
    <3> SUFFICES ASSUME NEW p \in n + 1 - 0 .. n + 1 PROVE F(<< >>, p) = F(R, p)
      OBVIOUS
    <3>1. p \in 1 .. n + 1 /\ p + 1 .. n + 1 = {}
      BY <1>1
    <3> HIDE DEF R
    <3> QED
      BY <1>2, <3>1
  <2>2. R = [p \in n + 1 - 0 .. n + 1 |-> F(R, p)]
    BY <2>1
  <2> QED
    BY <2>2
<1>4. ASSUME NEW k \in Nat, k < n + 1, Good(k), k + 1 <= n PROVE Good(k + 1)
  <2>1. PICK R : R = [p \in n + 1 - k .. n + 1 |-> F(R, p)]
    BY <1>4
  <2> DEFINE m == n + 1 - (k + 1)
             Q == [p \in m .. n + 1 |-> IF p = m THEN F(R, p) ELSE R[p]]
  <2>2. m \in 1 .. n /\ n + 1 - k = m + 1
    BY <1>1, <1>4
  <2>3. \A q \in m + 1 .. n + 1 : Q[q] = R[q] /\ R[q] = F(R, q)
    <3>1. \A q \in m + 1 .. n + 1 : q \in m .. n + 1 /\ q # m
      BY <1>1, <2>2
    <3>2. R = [p \in m + 1 .. n + 1 |-> F(R, p)]
      BY <2>1, <2>2
    <3>3. \A q \in m + 1 .. n + 1 : R[q] = F(R, q)
      BY ONLY <3>2
    <3> HIDE DEF m
    <3> QED
      BY <3>1, <3>3
  <2>4. \A q \in m .. n + 1 : F(R, q) = F(Q, q)
    <3> SUFFICES ASSUME NEW q \in m .. n + 1 PROVE F(R, q) = F(Q, q)
      OBVIOUS
    <3>1. q \in 1 .. n + 1 /\ \A r \in q + 1 .. n + 1 : r \in m + 1 .. n + 1
      BY <1>1, <2>2
    <3> HIDE DEF Q, m
    <3> QED
      BY <1>2, <2>3, <3>1
  <2>5. Q = [p \in m .. n + 1 |-> F(Q, p)]
    <3>1. \A q \in m .. n + 1 : Q[q] = F(R, q)
      <4>1. \A q \in m .. n + 1 : q = m \/ q \in m + 1 .. n + 1
        BY <1>1, <2>2
      <4> QED
        BY <2>3, <4>1
    <3>2. Q = [p \in m .. n + 1 |-> Q[p]]
      OBVIOUS
    <3> HIDE DEF Q, m
    <3> QED
      BY <2>4, <3>1, <3>2
  <2> HIDE DEF Q
  <2> QED
    BY <2>5
<1> DEFINE Unfit == {k \in 0 .. n : ~ Good(k)}
<1> HIDE DEF Good
<1>5. Unfit = {}
  <2> SUFFICES ASSUME Unfit # {} PROVE FALSE
    OBVIOUS
  <2>1. PICK m \in Unfit : \A k \in Unfit : m <= k
    <3>1. Unfit \in SUBSET Nat
      OBVIOUS
    <3> HIDE DEF Unfit
    <3> QED BY <3>1, LeastOf
  <2>2. m \in 0 .. n /\ m # 0 /\ ~ Good(m)
    BY <1>3, <2>1
  <2>3. m - 1 \in Nat /\ m - 1 < n + 1 /\ m - 1 \in 0 .. n /\ m - 1 + 1 = m /\ m <= n /\ ~ (m <= m - 1)
    BY <1>1, <2>2
  <2>4. Good(m - 1)
    BY <2>1, <2>3
  <2> QED
    BY <1>4, <2>2, <2>3, <2>4
<1>6. Good(n)
  BY <1>1, <1>5
<1>7. n + 1 - n = 1
  BY <1>1
<1> QED
  BY <1>6, <1>7 DEF IsRepair, Good, F

(* What is left of a repaired text once n of its units are read.           *)
RepairedAfter(from, t, n) == (CHOOSE R : IsRepair(from, t, R))[n + 1]

LEMMA RepairedFirst ==
  ASSUME NEW from, NEW t
  PROVE  Repaired(from, t) = RepairedAfter(from, t, 0)
BY RepairedDef, 0 + 1 = 1 DEF RepairedAfter

LEMMA RepairedIs ==
  ASSUME NEW from, NEW t \in Seq(Nat), NEW n \in 0 .. Len(t)
  PROVE  LET R == CHOOSE Q : IsRepair(from, t, Q)
         IN  R[n + 1] = RepairFrom(from, t, R, n + 1)
<1> DEFINE R == CHOOSE Q : IsRepair(from, t, Q)
<1>1. n + 1 \in 1 .. Len(t) + 1
  BY LenProperties
<1>2. IsRepair(from, t, R)
  BY RepairExists
<1> HIDE DEF R
<1>3. R = [p \in 1 .. Len(t) + 1 |-> RepairFrom(from, t, R, p)]
  BY ONLY <1>2 DEF IsRepair
<1>4. R[n + 1] = RepairFrom(from, t, R, n + 1)
  BY ONLY <1>1, <1>3
<1> QED
  BY <1>4 DEF R

LEMMA RepairedEnd ==
  ASSUME NEW from, NEW t \in Seq(Nat)
  PROVE  RepairedAfter(from, t, Len(t)) = << >>
<1> DEFINE R == CHOOSE Q : IsRepair(from, t, Q)
<1>1. Len(t) \in 0 .. Len(t) /\ Len(t) + 1 > Len(t)
  BY LenProperties
<1>2. R[Len(t) + 1] = RepairFrom(from, t, R, Len(t) + 1)
  BY <1>1, RepairedIs
<1>3. RepairedAfter(from, t, Len(t)) = R[Len(t) + 1]
  BY DEF RepairedAfter
<1> HIDE DEF R
<1> QED
  BY ONLY <1>1, <1>2, <1>3 DEF RepairFrom

(* A unit where no character starts reads as U+FFFD.                       *)
LEMMA RepairedNone ==
  ASSUME NEW from, NEW t \in Seq(Nat), NEW n \in 0 .. Len(t), n < Len(t),
         CharactersAt(from, from, t, n + 1) = {}
  PROVE  RepairedAfter(from, t, n) = InFront(65533, RepairedAfter(from, t, n + 1))
<1> DEFINE R == CHOOSE Q : IsRepair(from, t, Q)
<1>1. ~ (n + 1 > Len(t))
  BY LenProperties
<1>2. R[n + 1] = RepairFrom(from, t, R, n + 1)
  BY RepairedIs
<1>3. RepairedAfter(from, t, n) = R[n + 1] /\ RepairedAfter(from, t, n + 1) = R[n + 1 + 1]
  BY DEF RepairedAfter
<1> HIDE DEF R
<1>4. PICK q : q = n + 1
  OBVIOUS
<1>5. R[q] = << 65533 >> \o R[q + 1]
  <2>1. ~ (q > Len(t)) /\ R[q] = RepairFrom(from, t, R, q) /\ CharactersAt(from, from, t, q) = {}
    BY ONLY <1>1, <1>2, <1>4, CharactersAt(from, from, t, n + 1) = {}
  <2> QED
    BY ONLY <2>1 DEF RepairFrom
<1>6. RepairedAfter(from, t, n) = R[q] /\ RepairedAfter(from, t, n + 1) = R[q + 1]
  BY ONLY <1>3, <1>4
<1> QED
  BY ONLY <1>5, <1>6 DEF InFront

(* A character is kept.                                                    *)
LEMMA RepairedMore ==
  ASSUME NEW from \in Texts, NEW t \in Seq(Nat), NEW n \in 0 .. Len(t), n < Len(t),
         NEW w, NEW c, StartsAt(from, from, t, n + 1, w, c)
  PROVE  RepairedAfter(from, t, n) = InFront(c, RepairedAfter(from, t, n + w))
<1> DEFINE R == CHOOSE Q : IsRepair(from, t, Q)
           s == CHOOSE u \in CharactersAt(from, from, t, n + 1) : TRUE
<1>1. R[n + 1] = RepairFrom(from, t, R, n + 1)
  BY RepairedIs
<1>2. RepairedAfter(from, t, n) = R[n + 1]
  BY DEF RepairedAfter
<1>3. PICK u \in CharactersAt(from, from, t, n + 1) : Len(u) = w /\ Meaning(from, u) = c
  BY DEF StartsAt
<1>4. CharactersAt(from, from, t, n + 1) # {} /\ s \in CharactersAt(from, from, t, n + 1)
  BY <1>3
<1>5. n + 1 \in 1 .. Len(t) /\ ~ (n + 1 > Len(t)) /\ n \in Int
  BY LenProperties
<1>6. R[n + 1] = InFront(Meaning(from, s), R[n + 1 + Len(s)])
  <2> HIDE DEF R
  <2> QED
    BY ONLY <1>1, <1>4, <1>5 DEF RepairFrom, RepairOn, InFront
<1> HIDE DEF s
<1>7. u = s
  BY <1>3, <1>4, <1>5, OneCharacterAtMost
<1>8. w \in 1 .. 4
  BY <1>3, <1>5, CharacterFacts
<1>9. n + 1 + w = (n + w) + 1
  BY <1>5, <1>8
<1>10. RepairedAfter(from, t, n + w) = R[(n + w) + 1]
  BY DEF RepairedAfter
<1> HIDE DEF R
<1> QED
  BY ONLY <1>2, <1>3, <1>6, <1>7, <1>9, <1>10

(* Whatever the text, it is repaired to a sequence of code points.         *)
LEMMA RepairedType ==
  ASSUME NEW from \in Texts, NEW t \in Seq(Nat)
  PROVE  \A n \in 0 .. Len(t) : RepairedAfter(from, t, n) \in Seq(Nat)
<1> DEFINE Good(n) == RepairedAfter(from, t, n) \in Seq(Nat)
           G == {n \in 0 .. Len(t) : Good(n)}
<1>1. Len(t) \in Nat
  BY LenProperties
<1>2. ASSUME NEW n \in 0 .. Len(t), n + 1 .. Len(t) \subseteq G PROVE Good(n)
  <2>1. CASE n = Len(t)
    <3>1. RepairedAfter(from, t, n) = << >>
      BY <2>1, RepairedEnd
    <3> QED
      BY ONLY <3>1, Prepend
  <2>2. CASE n < Len(t) /\ CharactersAt(from, from, t, n + 1) = {}
    <3>1. RepairedAfter(from, t, n) = InFront(65533, RepairedAfter(from, t, n + 1))
      BY <2>2, RepairedNone
    <3>2. n + 1 \in n + 1 .. Len(t)
      BY <1>1, <2>2
    <3>3. RepairedAfter(from, t, n + 1) \in Seq(Nat)
      BY <1>2, <3>2
    <3>4. 65533 \in Nat
      BY SMT
    <3> QED
      BY ONLY <3>1, <3>3, <3>4, FrontAndEnd
  <2>3. CASE n < Len(t) /\ CharactersAt(from, from, t, n + 1) # {}
    <3>1. PICK s : s \in CharactersAt(from, from, t, n + 1)
      BY <2>3
    <3>2. StartsAt(from, from, t, n + 1, Len(s), Meaning(from, s))
      BY <3>1 DEF StartsAt
    <3>3. Len(s) \in 1 .. 4 /\ n + Len(s) \in n + 1 .. Len(t) /\ Meaning(from, s) \in Nat
      BY <2>3, <3>2, AfterOne
    <3>4. RepairedAfter(from, t, n) = InFront(Meaning(from, s), RepairedAfter(from, t, n + Len(s)))
      BY <2>3, <3>2, RepairedMore
    <3>5. RepairedAfter(from, t, n + Len(s)) \in Seq(Nat)
      BY <1>2, <3>3
    <3> QED
      BY ONLY <3>3, <3>4, <3>5, FrontAndEnd
  <2> QED
    BY <1>1, <2>1, <2>2, <2>3
<1>3. 0 .. Len(t) \subseteq G
  <2>1. \A n \in 0 .. Len(t) : n + 1 .. Len(t) \subseteq G => n \in G
    BY <1>2
  <2> HIDE DEF G
  <2> QED BY <1>1, <2>1, Backward
<1> QED
  BY <1>3

(* Only Latin-1 cannot hold every character.                               *)
LEMMA SameCharacters ==
  ASSUME NEW from, NEW to \in Targets \ {"latin1"}, from # "latin1", NEW t, NEW p
  PROVE  /\ CharactersAt(from, to, t, p) = CharactersAt(from, from, t, p)
         /\ \A w, c : StartsAt(from, to, t, p, w, c) <=> StartsAt(from, from, t, p, w, c)
<1>1. \A c : Holds(to, c) <=> Holds(from, c)
  BY DEF Holds
<1>2. CharactersAt(from, to, t, p) = CharactersAt(from, from, t, p)
  BY ONLY <1>1 DEF CharactersAt
<1> QED
  BY ONLY <1>2, Zenon DEF StartsAt

-----------------------------------------------------------------------------
(* What was written and what is left to read are the repaired text *)

Repairing == {"replacement", "wellFormed"}

(* What the repair may put where the text has its unit i.                  *)
May(t, i) == {t[i]} \cup (IF Surrogate(t[i]) THEN {Replacement} ELSE {})

(* What one or two words stand for.                                        *)
WordMeaning(s, c) ==
  /\ Len(s) = 1 \/ Len(s) = 2
  /\ Len(s) = 1 => c = s[1] /\ c < 65536
  /\ Len(s) = 2 => /\ c = 65536 + (s[1] - 55296) * 1024 + (s[2] - 56320)
                   /\ High(s[1]) /\ Low(s[2]) /\ 65536 <= c

LEMMA WordMeans ==
  ASSUME NEW s, Units(s), IsCharacter("utf16", s), NEW c, c = Meaning("utf16", s)
  PROVE  WordMeaning(s, c)
<1>1. PICK e \in Texts \ {"utf8"} : e = "utf16"
  BY DEF Texts
<1>2. IsCharacter(e, s) /\ c = Meaning(e, s)
  BY ONLY <1>1, IsCharacter("utf16", s), c = Meaning("utf16", s)
<1>3. /\ Len(s) = 1 \/ (Len(s) = 2 /\ e = "utf16")
      /\ Len(s) = 1 => c = s[1] /\ (e = "utf16" => ~ Surrogate(s[1]) /\ c < 65536)
      /\ Len(s) = 2 => /\ c = 65536 + (s[1] - 55296) * 1024 + (s[2] - 56320)
                       /\ High(s[1]) /\ Low(s[2]) /\ 65536 <= c
      /\ c \in Nat /\ Scalar(c)
  BY ONLY <1>2, e \in Texts \ {"utf8"}, Units(s), MeaningOthers
<1> QED
  BY ONLY <1>1, <1>3 DEF WordMeaning

(* The words that spell c in UTF-16 are those at p.                        *)
Again(t, p, w, c) == Len(UTF16Units(c)) = w /\ \A j \in 1 .. w : UTF16Units(c)[j] = t[p + j - 1]

(* A character spelled again in UTF-16 is the words it was read from.      *)
LEMMA SpelledAgain ==
  ASSUME NEW to, NEW t \in Seq(Nat), NEW p \in 1 .. Len(t), NEW w, NEW c,
         StartsAt("utf16", to, t, p, w, c)
  PROVE  Again(t, p, w, c)
<1>1. "utf16" \in Texts /\ "utf16" \in Texts \ {"utf8"}
  BY DEF Texts
<1>2. PieceFacts("utf16", to, t, p, w, c)
  BY ONLY <1>1, p \in 1 .. Len(t), t \in Seq(Nat), StartsAt("utf16", to, t, p, w, c), StartsPiece
<1>3. PICK s : s = Piece(t, p, w)
  OBVIOUS
<1>4. /\ w \in 1 .. 4 /\ Len(s) = w /\ Units(s) /\ CopyOf(s, t, p) /\ IsCharacter("utf16", s)
      /\ c = Meaning("utf16", s) /\ c \in Nat /\ Scalar(c)
  BY ONLY <1>2, <1>3 DEF PieceFacts
<1>5. PICK v : v = UTF16Units(c)
  OBVIOUS
<1>6. UnitsUpTo(v, 65535) /\ Len(v) = Size16(c) /\ IsCharacter("utf16", v) /\ Meaning("utf16", v) = c
  BY ONLY <1>4, <1>5, UTF16Spelled
<1>7. v \in Seq(Nat)
  BY ONLY <1>6 DEF UnitsUpTo
<1>8. Units(v)
  BY ONLY <1>7, UnitsTyped
<1>9. /\ Len(s) = 1 \/ Len(s) = 2
      /\ Len(s) = 1 => c = s[1] /\ c < 65536
      /\ Len(s) = 2 => /\ c = 65536 + (s[1] - 55296) * 1024 + (s[2] - 56320)
                       /\ High(s[1]) /\ Low(s[2]) /\ 65536 <= c
  <2>1. WordMeaning(s, c)
    BY ONLY <1>4, WordMeans
  <2> QED
    BY ONLY <2>1 DEF WordMeaning
<1>10. /\ Len(v) = 1 \/ Len(v) = 2
       /\ Len(v) = 1 => c = v[1] /\ c < 65536
       /\ Len(v) = 2 => /\ c = 65536 + (v[1] - 55296) * 1024 + (v[2] - 56320)
                        /\ High(v[1]) /\ Low(v[2]) /\ 65536 <= c
  <2>1. c = Meaning("utf16", v)
    BY ONLY <1>6
  <2>2. WordMeaning(v, c)
    BY ONLY <1>6, <1>8, <2>1, WordMeans
  <2> QED
    BY ONLY <2>2 DEF WordMeaning
<1>11. CASE Len(s) = 1
  <2>1. Len(v) = 1
    <3>1. ~ (65536 <= c)
      BY ONLY <1>4, <1>9, <1>11, SMT
    <3> QED
      BY ONLY <1>10, <3>1
  <2>2. v[1] = t[p]
    BY ONLY <1>4, <1>9, <1>10, <1>11, <2>1 DEF CopyOf
  <2>3. \A j \in 1 .. 1 : j = 1 /\ p + j - 1 = p
    BY ONLY p \in 1 .. Len(t), SMT
  <2> QED
    BY ONLY <1>4, <1>5, <1>11, <2>1, <2>2, <2>3 DEF Again
<1>12. CASE Len(s) = 2
  <2>1. Len(v) = 2
    <3>1. ~ (c < 65536)
      BY ONLY <1>4, <1>9, <1>12, SMT
    <3> QED
      BY ONLY <1>10, <3>1
  <2>2. s[1] \in Nat /\ s[2] \in Nat /\ v[1] \in Nat /\ v[2] \in Nat
    BY ONLY <1>4, <1>8, <1>12, <2>1, SMT DEF Units
  <2>3. PICK a \in Nat : a = s[1]
    BY ONLY <2>2
  <2>4. PICK b \in Nat : b = s[2]
    BY ONLY <2>2
  <2>5. PICK x \in Nat : x = v[1]
    BY ONLY <2>2
  <2>6. PICK y \in Nat : y = v[2]
    BY ONLY <2>2
  <2>7. /\ c = 65536 + (a - 55296) * 1024 + (b - 56320) /\ High(a) /\ Low(b)
        /\ c = 65536 + (x - 55296) * 1024 + (y - 56320) /\ High(x) /\ Low(y)
    BY ONLY <1>9, <1>10, <1>12, <2>1, <2>3, <2>4, <2>5, <2>6
  <2>8. a = x /\ b = y
    <3>1. 56320 <= b /\ b <= 57343 /\ 56320 <= y /\ y <= 57343
      BY ONLY <2>7, SMT DEF Low
    <3>2. (a - 55296) * 1024 + (b - 56320) = (x - 55296) * 1024 + (y - 56320)
      BY ONLY <2>7, a \in Nat, b \in Nat, x \in Nat, y \in Nat, SMT
    <3>3. a = x /\ b = y
      BY ONLY <3>1, <3>2, a \in Nat, b \in Nat, x \in Nat, y \in Nat, SMT
    <3> QED
      BY ONLY <3>3
  <2>9. s[1] = t[p] /\ s[2] = t[p + 1]
    <3>1. 2 <= Len(s)
      BY ONLY <1>12, SMT
    <3> QED
      BY ONLY <1>4, <3>1 DEF CopyOf
  <2>10. \A j \in 1 .. 2 : (j = 1 /\ p + j - 1 = p) \/ (j = 2 /\ p + j - 1 = p + 1)
    BY ONLY p \in 1 .. Len(t), SMT
  <2>11. v[1] = t[p] /\ v[2] = t[p + 1] /\ w = 2
    BY ONLY <1>4, <1>12, <2>3, <2>4, <2>5, <2>6, <2>8, <2>9
  <2>12. \A j \in 1 .. 2 : v[j] = t[p + j - 1]
    BY ONLY <2>10, <2>11
  <2> QED
    BY ONLY <1>5, <2>1, <2>11, <2>12 DEF Again
<1> QED
  BY ONLY <1>9, <1>11, <1>12

-----------------------------------------------------------------------------
(* What is trimmed off a text that was cut *)

(* A byte that is the k-th from the end of whole characters is below this. *)
Bound(k) == IF k = 1 THEN 192 ELSE IF k = 2 THEN 224 ELSE 240

LEMMA BoundIs ==
  /\ Bound(1) = 192 /\ Bound(2) = 224 /\ Bound(3) = 240
  /\ \A t : \A k \in 1 .. 3 : PromisesMore(t, k) <=> k <= Len(t) /\ t[Len(t) - k + 1] >= Bound(k)
<1>1. Bound(1) = 192 /\ Bound(2) = 224 /\ Bound(3) = 240
  BY DEF Bound
<1>2. \A k \in 1 .. 3 : << 192, 224, 240 >>[k] = Bound(k)
  <2>1. \A k \in 1 .. 3 : k = 1 \/ k = 2 \/ k = 3
    BY SMT
  <2>2. << 192, 224, 240 >>[1] = 192 /\ << 192, 224, 240 >>[2] = 224 /\ << 192, 224, 240 >>[3] = 240
    OBVIOUS
  <2> QED
    BY ONLY <1>1, <2>1, <2>2
<1> QED
  BY ONLY <1>1, <1>2 DEF PromisesMore

(* Nothing before the position b promises bytes behind it.                 *)
Settled8(t, b) == \A k \in 1 .. 3 : k <= b => t[b - k + 1] < Bound(k)

(* A character leaves nothing open behind it.                              *)
LEMMA SettledStep8 ==
  ASSUME NEW to, NEW t \in Seq(Nat), NEW b \in 0 .. Len(t), b < Len(t), NEW w, NEW c,
         StartsAt("utf8", to, t, b + 1, w, c), Settled8(t, b)
  PROVE  Settled8(t, b + w)
<1>1. Len(t) \in Nat /\ b + 1 \in 1 .. Len(t) /\ b \in Nat
  <2>1. Len(t) \in Nat
    BY LenProperties
  <2> QED
    BY ONLY <2>1, b \in 0 .. Len(t), b < Len(t), SMT
<1>2. PICK p \in 1 .. Len(t) : p = b + 1
  BY ONLY <1>1
<1>3. PieceFacts("utf8", to, t, p, w, c)
  <2>1. PICK e \in Texts : e = "utf8"
    BY DEF Texts
  <2>2. StartsAt(e, to, t, p, w, c)
    BY ONLY <1>2, <2>1, StartsAt("utf8", to, t, b + 1, w, c)
  <2>3. PieceFacts(e, to, t, p, w, c)
    BY ONLY <2>2, t \in Seq(Nat), StartsPiece
  <2> QED
    BY ONLY <2>1, <2>3
<1>4. PICK s : s = Piece(t, p, w)
  OBVIOUS
<1>5. /\ w \in 1 .. 4 /\ p + w - 1 <= Len(t) /\ UTF8Character(s) /\ Units(s) /\ CopyOf(s, t, p) /\ Len(s) = w
  <2>1. /\ w \in 1 .. 4 /\ p + w - 1 <= Len(t) /\ IsCharacter("utf8", s) /\ Units(s) /\ CopyOf(s, t, p)
        /\ Len(s) = w
    BY ONLY <1>3, <1>4 DEF PieceFacts
  <2> QED
    BY ONLY <2>1 DEF IsCharacter
<1>6. /\ w = LeadWidth(s[1]) /\ s[1] \in Nat
      /\ 2 <= w => s[2] \in Nat /\ Tail8(s[2])
      /\ 3 <= w => s[3] \in Nat /\ Tail8(s[3])
      /\ 4 <= w => s[4] \in Nat /\ Tail8(s[4])
  <2>1. Len(s) = LeadWidth(s[1]) /\ \A i \in 2 .. Len(s) : Tail8(s[i])
    BY ONLY <1>5, UTF8CharacterIs
  <2>2. \A i \in 2 .. w : Tail8(s[i])
    BY ONLY <1>5, <2>1
  <2>3. /\ 1 <= w
        /\ 2 <= w => 2 \in 2 .. w
        /\ 3 <= w => 3 \in 2 .. w
        /\ 4 <= w => 4 \in 2 .. w
    BY ONLY <1>5, SMT
  <2>4. /\ 1 <= w => s[1] \in Nat
        /\ 2 <= w => s[2] \in Nat
        /\ 3 <= w => s[3] \in Nat
        /\ 4 <= w => s[4] \in Nat
    BY ONLY <1>5 DEF Units
  <2> QED
    BY ONLY <1>5, <2>1, <2>2, <2>3, <2>4
<1>7. /\ s[1] = t[b + 1]
      /\ 2 <= w => s[2] = t[b + 2]
      /\ 3 <= w => s[3] = t[b + 3]
      /\ 4 <= w => s[4] = t[b + 4]
  <2>1. p = b + 1 /\ p + 1 = b + 2 /\ p + 2 = b + 3 /\ p + 3 = b + 4
    BY ONLY <1>1, <1>2, SMT
  <2>2. /\ s[1] = t[p]
        /\ 2 <= w => s[2] = t[p + 1]
        /\ 3 <= w => s[3] = t[p + 2]
        /\ 4 <= w => s[4] = t[p + 3]
    BY ONLY <1>5 DEF CopyOf
  <2> QED
    BY ONLY <2>1, <2>2
<1>8. /\ w = 1 => s[1] < 192
      /\ w = 2 => s[1] < 224
      /\ w = 3 => s[1] < 240
  <2>1. /\ s[1] < 128 => LeadWidth(s[1]) = 1
        /\ 192 <= s[1] /\ s[1] < 224 => LeadWidth(s[1]) = 2
        /\ 224 <= s[1] /\ s[1] < 240 => LeadWidth(s[1]) = 3
        /\ 240 <= s[1] /\ s[1] < 248 => LeadWidth(s[1]) = 4
        /\ (128 <= s[1] /\ s[1] < 192) \/ 248 <= s[1] => LeadWidth(s[1]) = 0
    BY ONLY <1>6, LeadWidthIs
  <2>2. PICK u \in Nat : u = s[1]
    BY ONLY <1>6
  <2>3. PICK l : l = LeadWidth(u)
    OBVIOUS
  <2>4. /\ w = l
        /\ u < 128 => l = 1
        /\ 192 <= u /\ u < 224 => l = 2
        /\ 224 <= u /\ u < 240 => l = 3
        /\ 240 <= u /\ u < 248 => l = 4
        /\ (128 <= u /\ u < 192) \/ 248 <= u => l = 0
    BY ONLY <1>6, <2>1, <2>2, <2>3
  <2>5. /\ w = 1 => u < 192
        /\ w = 2 => u < 224
        /\ w = 3 => u < 240
    BY ONLY <2>4, u \in Nat, SMT
  <2> QED
    BY ONLY <2>2, <2>5
<1>9. /\ 2 <= w => s[2] \in Nat /\ s[2] < 192
      /\ 3 <= w => s[3] \in Nat /\ s[3] < 192
      /\ 4 <= w => s[4] \in Nat /\ s[4] < 192
  <2>1. \A x \in Nat : Tail8(x) => x < 192
    BY SMT DEF Tail8, Within
  <2> QED
    BY ONLY <1>6, <2>1
<1>10. /\ 1 <= b => t[b] < 192
       /\ 2 <= b => t[b - 1] < 224
  <2>1. \A k \in 1 .. 3 : k <= b => t[b - k + 1] < Bound(k)
    BY ONLY Settled8(t, b) DEF Settled8
  <2>2. 1 \in 1 .. 3 /\ 2 \in 1 .. 3 /\ b - 1 + 1 = b /\ b - 2 + 1 = b - 1
    BY ONLY <1>1, SMT
  <2>3. Bound(1) = 192 /\ Bound(2) = 224
    BY BoundIs
  <2> QED
    BY ONLY <2>1, <2>2, <2>3
<1>11. Bound(1) = 192 /\ Bound(2) = 224 /\ Bound(3) = 240
  BY BoundIs
<1>12. ASSUME NEW k \in 1 .. 3, k <= b + w PROVE t[(b + w) - k + 1] < Bound(k)
  <2>1. CASE w = 1
    <3>1. CASE k = 1
      <4>1. (b + w) - k + 1 = b + 1
        BY ONLY <1>1, <2>1, <3>1, SMT
      <4> QED
        BY ONLY <1>7, <1>8, <1>11, <2>1, <3>1, <4>1
    <3>2. CASE k = 2
      <4>1. (b + w) - k + 1 = b /\ 1 <= b
        BY ONLY <1>1, <2>1, <3>2, k <= b + w, SMT
      <4>2. t[b] < 192
        BY ONLY <1>10, <4>1
      <4>3. t[b] \in Nat
        BY ONLY <1>1, <4>1, t \in Seq(Nat), b \in 0 .. Len(t)
      <4>4. t[b] < 224
        BY ONLY <4>2, <4>3, SMT
      <4> QED
        BY ONLY <1>11, <3>2, <4>1, <4>4
    <3>3. CASE k = 3
      <4>1. (b + w) - k + 1 = b - 1 /\ 2 <= b /\ b - 1 \in 1 .. Len(t)
        BY ONLY <1>1, <2>1, <3>3, k <= b + w, b \in 0 .. Len(t), SMT
      <4>2. t[b - 1] < 224
        BY ONLY <1>10, <4>1
      <4>3. t[b - 1] \in Nat
        BY ONLY <4>1, t \in Seq(Nat)
      <4>4. t[b - 1] < 240
        BY ONLY <4>2, <4>3, SMT
      <4> QED
        BY ONLY <1>11, <3>3, <4>1, <4>4
    <3> QED
      BY ONLY <3>1, <3>2, <3>3, k \in 1 .. 3, SMT
  <2>2. CASE w = 2
    <3>0. t[b + 2] < 192 /\ t[b + 1] < 224
      <4>1. 2 <= w
        BY ONLY <2>2, SMT
      <4> QED
        BY ONLY <1>7, <1>8, <1>9, <2>2, <4>1
    <3>1. CASE k = 1
      <4>1. (b + w) - k + 1 = b + 2
        BY ONLY <1>1, <2>2, <3>1, SMT
      <4> QED
        BY ONLY <1>11, <3>0, <3>1, <4>1
    <3>2. CASE k = 2
      <4>1. (b + w) - k + 1 = b + 1
        BY ONLY <1>1, <2>2, <3>2, SMT
      <4> QED
        BY ONLY <1>11, <3>0, <3>2, <4>1
    <3>3. CASE k = 3
      <4>1. (b + w) - k + 1 = b /\ 1 <= b
        BY ONLY <1>1, <2>2, <3>3, k <= b + w, SMT
      <4>2. t[b] < 192
        BY ONLY <1>10, <4>1
      <4>3. t[b] \in Nat
        BY ONLY <1>1, <4>1, t \in Seq(Nat), b \in 0 .. Len(t)
      <4>4. t[b] < 240
        BY ONLY <4>2, <4>3, SMT
      <4> QED
        BY ONLY <1>11, <3>3, <4>1, <4>4
    <3> QED
      BY ONLY <3>1, <3>2, <3>3, k \in 1 .. 3, SMT
  <2>3. CASE w = 3
    <3>0. s[3] < 192 /\ s[2] < 192 /\ s[1] < 240 /\ s[2] = t[b + 2] /\ s[3] = t[b + 3] /\ s[1] = t[b + 1]
      <4>1. 2 <= w /\ 3 <= w
        BY ONLY <2>3, SMT
      <4> QED
        BY ONLY <1>7, <1>8, <1>9, <2>3, <4>1
    <3>1. t[b + 2] < 224
      <4>1. s[2] \in Nat
        <5>1. 2 <= w
          BY ONLY <2>3, SMT
        <5> QED
          BY ONLY <1>9, <5>1
      <4>2. s[2] < 224
        BY ONLY <3>0, <4>1, SMT
      <4> QED
        BY ONLY <3>0, <4>2
    <3>2. /\ k = 1 => (b + w) - k + 1 = b + 3
          /\ k = 2 => (b + w) - k + 1 = b + 2
          /\ k = 3 => (b + w) - k + 1 = b + 1
          /\ k = 1 \/ k = 2 \/ k = 3
      BY ONLY <1>1, <2>3, k \in 1 .. 3, SMT
    <3>3. CASE k = 1
      <4>1. (b + w) - k + 1 = b + 3
        BY ONLY <3>2, <3>3
      <4>2. t[b + 3] < Bound(k)
        BY ONLY <1>11, <3>0, <3>1, <3>3
      <4> QED
        BY ONLY <4>1, <4>2
    <3>4. CASE k = 2
      <4>1. (b + w) - k + 1 = b + 2
        BY ONLY <3>2, <3>4
      <4>2. t[b + 2] < Bound(k)
        BY ONLY <1>11, <3>0, <3>1, <3>4
      <4> QED
        BY ONLY <4>1, <4>2
    <3>5. CASE k = 3
      <4>1. (b + w) - k + 1 = b + 1
        BY ONLY <3>2, <3>5
      <4>2. t[b + 1] < Bound(k)
        BY ONLY <1>11, <3>0, <3>1, <3>5
      <4> QED
        BY ONLY <4>1, <4>2
    <3> QED
      BY ONLY <3>2, <3>3, <3>4, <3>5
  <2>4. CASE w = 4
    <3>0. s[4] < 192 /\ s[3] < 192 /\ s[2] < 192 /\ s[2] = t[b + 2] /\ s[3] = t[b + 3] /\ s[4] = t[b + 4]
      <4>1. 2 <= w /\ 3 <= w /\ 4 <= w
        BY ONLY <2>4, SMT
      <4> QED
        BY ONLY <1>7, <1>9, <4>1
    <3>1. t[b + 3] < 224 /\ t[b + 2] < 240
      <4>1. s[2] \in Nat /\ s[3] \in Nat
        <5>1. 2 <= w /\ 3 <= w
          BY ONLY <2>4, SMT
        <5> QED
          BY ONLY <1>9, <5>1
      <4>2. s[3] < 224 /\ s[2] < 240
        <5>1. \A x \in Nat : x < 192 => x < 224 /\ x < 240
          BY SMT
        <5>2. s[3] < 192 /\ s[2] < 192
          BY ONLY <3>0
        <5> QED
          BY ONLY <4>1, <5>1, <5>2
      <4> QED
        BY ONLY <3>0, <4>2
    <3>2. /\ k = 1 => (b + w) - k + 1 = b + 4
          /\ k = 2 => (b + w) - k + 1 = b + 3
          /\ k = 3 => (b + w) - k + 1 = b + 2
          /\ k = 1 \/ k = 2 \/ k = 3
      BY ONLY <1>1, <2>4, k \in 1 .. 3, SMT
    <3>3. CASE k = 1
      <4>1. (b + w) - k + 1 = b + 4
        BY ONLY <3>2, <3>3
      <4>2. t[b + 4] < 192
        BY ONLY <3>0, <3>1
      <4>3. Bound(k) = 192
        BY ONLY <1>11, <3>3
      <4> QED
        BY ONLY <4>1, <4>2, <4>3
    <3>4. CASE k = 2
      <4>1. (b + w) - k + 1 = b + 3
        BY ONLY <3>2, <3>4
      <4>2. t[b + 3] < 224
        BY ONLY <3>0, <3>1
      <4>3. Bound(k) = 224
        BY ONLY <1>11, <3>4
      <4> QED
        BY ONLY <4>1, <4>2, <4>3
    <3>5. CASE k = 3
      <4>1. (b + w) - k + 1 = b + 2
        BY ONLY <3>2, <3>5
      <4>2. t[b + 2] < 240
        BY ONLY <3>0, <3>1
      <4>3. Bound(k) = 240
        BY ONLY <1>11, <3>5
      <4> QED
        BY ONLY <4>1, <4>2, <4>3
    <3> QED
      BY ONLY <3>2, <3>3, <3>4, <3>5
  <2> QED
    BY ONLY <1>5, <2>1, <2>2, <2>3, <2>4, SMT
<1> QED
  BY ONLY <1>12 DEF Settled8

(* The last word of whole UTF-16 characters is no leading surrogate.       *)
Settled16(t, b) == b > 0 => ~ High(t[b])

LEMMA SettledStep16 ==
  ASSUME NEW to, to # "latin1", NEW t \in Seq(Nat), NEW b \in 0 .. Len(t), b < Len(t), NEW w, NEW c,
         StartsAt("utf16", to, t, b + 1, w, c)
  PROVE  Settled16(t, b + w)
<1>1. Len(t) \in Nat /\ b + 1 \in 1 .. Len(t) /\ b \in Nat
  <2>1. Len(t) \in Nat
    BY LenProperties
  <2> QED
    BY ONLY <2>1, b \in 0 .. Len(t), b < Len(t), SMT
<1>2. PICK p \in 1 .. Len(t) : p = b + 1
  BY ONLY <1>1
<1>3. StartsAt("utf16", to, t, p, w, c)
  BY ONLY <1>2, StartsAt("utf16", to, t, b + 1, w, c)
<1>4. PICK e \in Texts : e = "utf16"
  BY DEF Texts
<1>5. PieceFacts(e, to, t, p, w, c)
  BY ONLY <1>3, <1>4, t \in Seq(Nat), StartsPiece
<1>6. PICK s : s = Piece(t, p, w)
  OBVIOUS
<1>7. IsCharacter("utf16", s) /\ CopyOf(s, t, p) /\ Len(s) = w
  BY ONLY <1>4, <1>5, <1>6 DEF PieceFacts
<1>8. \/ w = 1 /\ Scalar(s[1]) /\ s[1] = t[p] /\ s[1] \in Nat
      \/ w = 2 /\ 56320 <= s[2] /\ s[2] = t[p + 1] /\ s[2] \in Nat
  <2>1. Units(s)
    BY ONLY <1>5, <1>6 DEF PieceFacts
  <2>2. \/ Len(s) = 1 /\ Scalar(s[1])
        \/ Len(s) = 2 /\ 56320 <= s[2]
    BY ONLY <1>7 DEF IsCharacter, Within
  <2>3. CASE Len(s) = 1 /\ Scalar(s[1])
    BY ONLY <1>7, <2>1, <2>3, SMT DEF CopyOf, Units
  <2>4. CASE Len(s) = 2 /\ 56320 <= s[2]
    BY ONLY <1>7, <2>1, <2>4, SMT DEF CopyOf, Units
  <2> QED
    BY ONLY <2>2, <2>3, <2>4
<1>9. CASE w = 1 /\ Scalar(s[1]) /\ s[1] = t[p] /\ s[1] \in Nat
  <2>1. ~ High(s[1])
    BY ONLY <1>9, SMT DEF High, Scalar
  <2> QED
    BY ONLY <1>2, <1>9, <2>1 DEF Settled16
<1>10. CASE w = 2 /\ 56320 <= s[2] /\ s[2] = t[p + 1] /\ s[2] \in Nat
  <2>1. ~ High(s[2])
    BY ONLY <1>10, SMT DEF High
  <2>2. p + 1 = b + w
    BY ONLY <1>1, <1>2, <1>10, SMT
  <2> QED
    BY ONLY <1>10, <2>1, <2>2 DEF Settled16
<1> QED
  BY ONLY <1>8, <1>9, <1>10

(* What a text is read to settles nothing more than its characters do.     *)
Settled(e, t, b) == IF e = "utf8" THEN Settled8(t, b) ELSE Settled16(t, b)

LEMMA SettledStop ==
  ASSUME NEW e \in {"utf8", "utf16"}, NEW t \in Seq(Nat), NEW r, r = Reading(e, "none", t)
  PROVE  Settled(e, t, r.stop) /\ r.stop \in 0 .. Len(t) /\ (r.whole => r.stop = Len(t))
<1> DEFINE A(n) == After(e, "none", t, n)
           Good(n) == Settled(e, t, n) => Settled(e, t, A(n).stop)
           G == {n \in 0 .. Len(t) : Good(n)}
<1>1. Len(t) \in Nat /\ e \in Texts
  BY LenProperties DEF Texts
<1>2. ASSUME NEW n \in 0 .. Len(t), n + 1 .. Len(t) \subseteq G PROVE Good(n)
  <2>1. CASE n = Len(t)
    <3>1. A(n).stop = n
      BY ONLY <1>1, <2>1, t \in Seq(Nat), AfterLast
    <3> QED
      BY ONLY <3>1
  <2>2. CASE n < Len(t) /\ CharactersAt(e, "none", t, n + 1) = {}
    <3>1. A(n).stop = n
      BY ONLY <1>1, <2>2, n \in 0 .. Len(t), t \in Seq(Nat), AfterFault
    <3> QED
      BY ONLY <3>1
  <2>3. CASE n < Len(t) /\ CharactersAt(e, "none", t, n + 1) # {}
    <3>1. PICK s : s \in CharactersAt(e, "none", t, n + 1)
      BY <2>3
    <3>2. PICK w, c : StartsAt(e, "none", t, n + 1, w, c)
      BY <3>1 DEF StartsAt
    <3>3. n + w \in n + 1 .. Len(t) /\ A(n).stop = A(n + w).stop
      BY ONLY <1>1, <2>3, <3>2, n \in 0 .. Len(t), t \in Seq(Nat), AfterOne
    <3>4. Good(n + w)
      BY <1>2, <3>3
    <3>5. Settled(e, t, n) => Settled(e, t, n + w)
      <4>1. CASE e = "utf8"
        BY ONLY <2>3, <3>2, <4>1, n \in 0 .. Len(t), t \in Seq(Nat), SettledStep8 DEF Settled
      <4>2. CASE e = "utf16"
        BY ONLY <2>3, <3>2, <4>2, n \in 0 .. Len(t), t \in Seq(Nat), SettledStep16 DEF Settled
      <4> QED
        BY ONLY <4>1, <4>2, e \in {"utf8", "utf16"}
    <3> QED
      BY ONLY <3>3, <3>4, <3>5
  <2> QED
    BY ONLY <1>1, <2>1, <2>2, <2>3, n \in 0 .. Len(t), SMT
<1>3. 0 .. Len(t) \subseteq G
  <2>1. \A n \in 0 .. Len(t) : n + 1 .. Len(t) \subseteq G => n \in G
    BY <1>2
  <2> HIDE DEF G
  <2> QED BY <1>1, <2>1, Backward
<1>4. 0 \in 0 .. Len(t)
  BY ONLY <1>1, SMT
<1>5. Settled(e, t, 0)
  <2>1. \A k \in 1 .. 3 : ~ (k <= 0)
    BY SMT
  <2> QED
    BY ONLY <2>1, SMT DEF Settled, Settled8, Settled16
<1>6. r = A(0)
  BY ReadingIsAfter
<1>7. Good(0)
  BY <1>3, <1>4
<1>8. A(0).stop \in 0 .. Len(t) /\ (A(0).whole => A(0).stop = Len(t))
  BY ONLY <1>1, <1>4, t \in Seq(Nat), AfterType
<1> QED
  BY ONLY <1>5, <1>6, <1>7, <1>8

LEMMA TrimSettled ==
  ASSUME NEW t \in Seq(Nat)
  PROVE  /\ Settled8(t, Len(t)) => trimPartialUTF8(t) = Len(t)
         /\ Settled16(t, Len(t)) => trimPartialUTF16(t) = Len(t)
<1>1. Len(t) \in Nat
  BY LenProperties
<1>2. ASSUME Settled8(t, Len(t)) PROVE trimPartialUTF8(t) = Len(t)
  <2>1. ASSUME NEW k \in 1 .. 3 PROVE ~ PromisesMore(t, k)
    <3>1. PromisesMore(t, k) <=> k <= Len(t) /\ t[Len(t) - k + 1] >= Bound(k)
      BY ONLY k \in 1 .. 3, BoundIs
    <3>2. k <= Len(t) => t[Len(t) - k + 1] < Bound(k)
      BY ONLY <1>2, k \in 1 .. 3 DEF Settled8
    <3>3. ASSUME k <= Len(t) PROVE ~ (t[Len(t) - k + 1] >= Bound(k))
      <4>1. Len(t) - k + 1 \in 1 .. Len(t)
        BY ONLY <1>1, <3>3, k \in 1 .. 3, SMT
      <4>2. t[Len(t) - k + 1] \in Nat
        BY ONLY <4>1, t \in Seq(Nat)
      <4>3. Bound(k) \in Nat
        BY ONLY SMT DEF Bound
      <4>4. t[Len(t) - k + 1] < Bound(k)
        BY ONLY <3>2, <3>3
      <4>5. \A x, y \in Nat : x < y => ~ (x >= y)
        BY SMT
      <4> QED
        BY ONLY <4>2, <4>3, <4>4, <4>5
    <3> QED
      BY ONLY <3>1, <3>3
  <2>2. {k \in 1 .. 3 : PromisesMore(t, k)} = {}
    BY ONLY <2>1
  <2> QED
    BY ONLY <2>2 DEF trimPartialUTF8
<1>3. ASSUME Settled16(t, Len(t)) PROVE trimPartialUTF16(t) = Len(t)
  <2>1. Len(t) > 0 => ~ High(t[Len(t)])
    BY ONLY <1>3 DEF Settled16
  <2> QED
    BY ONLY <2>1 DEF trimPartialUTF16
<1> QED
  BY ONLY <1>2, <1>3

(* The unread rest of a text.                                              *)
Unread(t, s, r) ==
  /\ r \in Seq(Nat) /\ Len(t) = s + Len(r) /\ Len(r) \in Nat \ {0}
  /\ \A i \in 1 .. Len(r) : r[i] = t[s + i]

LEMMA UnreadIs ==
  ASSUME NEW t \in Seq(Nat), NEW s \in 0 .. Len(t), s # Len(t),
         NEW r, r = SubSeq(t, s + 1, Len(t))
  PROVE  Unread(t, s, r)
<1>1. Len(t) \in Nat
  BY LenProperties
<1>2. PICK n \in Nat, a \in Int : n = Len(t) /\ a = s + 1
  BY ONLY <1>1, s \in 0 .. Len(t), SMT
<1>3. s \in Nat /\ s < n /\ a <= n /\ n - a + 1 = n - s /\ n \in Int /\ n - s \in Nat \ {0} /\ n = s + (n - s)
  BY ONLY <1>2, s \in 0 .. Len(t), s # Len(t), SMT
<1>4. /\ \A i \in a .. n : i \in 1 .. Len(t)
      /\ \A i \in 1 .. n - s : a + i - 1 = s + i
  BY ONLY <1>2, <1>3, SMT
<1>5. \A i \in a .. n : t[i] \in Nat
  BY ONLY <1>4, t \in Seq(Nat)
<1>6. /\ SubSeq(t, a, n) \in Seq(Nat) /\ Len(SubSeq(t, a, n)) = IF a <= n THEN n - a + 1 ELSE 0
      /\ \A i \in 1 .. n - a + 1 : SubSeq(t, a, n)[i] = t[a + i - 1]
  BY ONLY <1>2, <1>3, <1>5, SubSeqProperties
<1>7. r = SubSeq(t, a, n)
  BY ONLY <1>2, r = SubSeq(t, s + 1, Len(t))
<1>8. r \in Seq(Nat) /\ Len(r) = n - s /\ \A i \in 1 .. n - s : r[i] = t[s + i]
  BY ONLY <1>3, <1>4, <1>6, <1>7
<1> QED
  BY ONLY <1>2, <1>3, <1>8 DEF Unread

(* As many bytes are cut off as the open character has.                    *)
LEMMA TrimCut8 ==
  ASSUME NEW t \in Seq(Nat), NEW s \in Nat, NEW r, Unread(t, s, r), Truncated("utf8", r)
  PROVE  trimPartialUTF8(t) = s
<1>1. r \in Seq(Nat) /\ Len(t) = s + Len(r) /\ Len(r) \in Nat \ {0} /\ \A i \in 1 .. Len(r) : r[i] = t[s + i]
  BY ONLY Unread(t, s, r) DEF Unread
<1>2. PICK m \in Nat \ {0} : m = Len(r)
  BY <1>1
<1>3. PICK x \in Completions("utf8") : IsCharacter("utf8", r \o x)
  BY DEF Truncated
<1>4. PICK k \in 1 .. 3 : x \in [1 .. k -> {128, 144, 160, 191}]
  BY ONLY <1>3 DEF Completions
<1>5. x \in Seq(Nat) /\ Len(x) = k
  BY ONLY <1>4, SMT
<1>6. PICK z : z = r \o x
  OBVIOUS
<1>7. z \in Seq(Nat) /\ Len(z) = m + k
  BY ONLY <1>1, <1>2, <1>5, <1>6, JoinType
<1>8. \A i \in 1 .. m : z[i] = t[s + i]
  BY ONLY <1>1, <1>2, <1>5, <1>6, JoinIs
<1>9. Units(z) /\ UTF8Character(z)
  <2>1. IsCharacter("utf8", z)
    BY ONLY <1>3, <1>6
  <2> QED
    BY ONLY <1>7, <2>1, UnitsTyped DEF IsCharacter
<1>10. /\ Len(z) = 1 \/ Len(z) = 2 \/ Len(z) = 3 \/ Len(z) = 4
       /\ Len(z) = LeadWidth(z[1]) /\ \A i \in 2 .. Len(z) : Tail8(z[i])
  BY ONLY <1>9, UTF8CharacterIs
<1>11. m \in 1 .. 3 /\ m < Len(z) /\ Len(z) \in Nat /\ k \in Nat /\ 1 \in 1 .. m
  <2>1. PICK l : l = Len(z)
    OBVIOUS
  <2>2. l = m + k /\ (l = 1 \/ l = 2 \/ l = 3 \/ l = 4)
    BY ONLY <1>7, <1>10, <2>1
  <2>3. m \in 1 .. 3 /\ m < l /\ l \in Nat /\ k \in Nat /\ 1 \in 1 .. m
    BY ONLY <2>2, m \in Nat \ {0}, k \in 1 .. 3, SMT
  <2> QED
    BY ONLY <2>1, <2>3
<1>12. PICK u \in Nat : u = z[1]
  <2>1. 1 \in 1 .. Len(z)
    BY ONLY <1>11, SMT
  <2> QED
    BY ONLY <1>7, <2>1
<1>13. Bound(1) = 192 /\ Bound(2) = 224 /\ Bound(3) = 240
  BY BoundIs
<1>14. u >= Bound(m)
  <2>1. PICK l : l = LeadWidth(u)
    OBVIOUS
  <2>2. /\ u < 128 => l = 1
        /\ 192 <= u /\ u < 224 => l = 2
        /\ 224 <= u /\ u < 240 => l = 3
        /\ 240 <= u /\ u < 248 => l = 4
        /\ (128 <= u /\ u < 192) \/ 248 <= u => l = 0
    BY ONLY <2>1, u \in Nat, LeadWidthIs
  <2>3. m < l
    BY ONLY <1>10, <1>11, <1>12, <2>1
  <2>4. (m = 1 /\ u >= 192) \/ (m = 2 /\ u >= 224) \/ (m = 3 /\ u >= 240)
    <3>1. m \in 1 .. 3
      BY ONLY <1>11
    <3> QED
      BY ONLY <2>2, <2>3, <3>1, u \in Nat, SMT
  <2> QED
    BY ONLY <1>13, <2>4
<1>15. PromisesMore(t, m)
  <2>1. PromisesMore(t, m) <=> m <= Len(t) /\ t[Len(t) - m + 1] >= Bound(m)
    <3>1. m \in 1 .. 3
      BY ONLY <1>11
    <3> QED
      BY ONLY <3>1, BoundIs
  <2>2. m <= Len(t) /\ Len(t) - m + 1 = s + 1
    BY ONLY <1>1, <1>2, s \in Nat, SMT
  <2>3. t[s + 1] = u
    BY ONLY <1>8, <1>11, <1>12
  <2> QED
    BY ONLY <1>14, <2>1, <2>2, <2>3
<1>16. ASSUME NEW j \in 1 .. 3, j < m PROVE ~ PromisesMore(t, j)
  <2>1. PromisesMore(t, j) <=> j <= Len(t) /\ t[Len(t) - j + 1] >= Bound(j)
    BY ONLY j \in 1 .. 3, BoundIs
  <2>2. PICK i \in Nat : i = m - j + 1
    BY ONLY <1>11, j \in 1 .. 3, j < m, SMT
  <2>3. i \in 1 .. m /\ i \in 2 .. Len(z) /\ Len(t) - j + 1 = s + i /\ i \in 1 .. Len(z)
    <3>1. PICK l : l = Len(z)
      OBVIOUS
    <3>2. PICK n : n = Len(t)
      OBVIOUS
    <3>3. n = s + m /\ m \in 1 .. 3 /\ m < l /\ l \in Nat
      BY ONLY <1>1, <1>2, <1>11, <3>1, <3>2
    <3>4. i \in 1 .. m /\ i \in 2 .. l /\ n - j + 1 = s + i /\ i \in 1 .. l
      BY ONLY <2>2, <3>3, j \in 1 .. 3, j < m, s \in Nat, SMT
    <3> QED
      BY ONLY <3>1, <3>2, <3>4
  <2>4. PICK v \in Nat : v = z[i]
    BY ONLY <1>7, <2>3
  <2>5. v < 192
    <3>1. Tail8(v)
      BY ONLY <1>10, <2>3, <2>4
    <3> QED
      BY ONLY <3>1, v \in Nat, SMT DEF Tail8, Within
  <2>6. t[Len(t) - j + 1] = v
    BY ONLY <1>8, <2>3, <2>4
  <2>7. ~ (v >= Bound(j))
    BY ONLY <2>5, v \in Nat, j \in 1 .. 3, SMT DEF Bound
  <2> QED
    BY ONLY <2>1, <2>6, <2>7
<1> DEFINE cuts == {j \in 1 .. 3 : PromisesMore(t, j)}
<1>17. m \in cuts /\ \A j \in cuts : m <= j
  <2>1. m \in cuts
    BY ONLY <1>11, <1>15
  <2>2. ASSUME NEW j \in cuts PROVE m <= j
    <3>1. j \in 1 .. 3 /\ ~ (j < m)
      BY ONLY <1>16, j \in cuts
    <3> QED
      BY ONLY <1>11, <3>1, SMT
  <2> QED
    BY ONLY <2>1, <2>2
<1>18. (CHOOSE k_1 \in cuts : \A j \in cuts : k_1 <= j) = m
  <2>1. PICK n : n = CHOOSE n_1 \in cuts : \A j \in cuts : n_1 <= j
    OBVIOUS
  <2>2. n \in cuts /\ \A j \in cuts : n <= j
    BY ONLY <1>17, <2>1
  <2>3. n \in 1 .. 3 /\ n <= m /\ m <= n
    BY ONLY <1>17, <2>2
  <2>4. n = m
    BY ONLY <1>11, <2>3, SMT
  <2> QED
    BY ONLY <2>1, <2>4
<1>19. trimPartialUTF8(t) = Len(t) - m
  <2>1. cuts # {}
    BY ONLY <1>17
  <2> HIDE DEF cuts
  <2>2. trimPartialUTF8(t) = IF cuts = {} THEN Len(t)
                             ELSE Len(t) - (CHOOSE n \in cuts : \A j \in cuts : n <= j)
    BY ONLY DEF trimPartialUTF8, cuts
  <2> QED
    BY ONLY <1>18, <2>1, <2>2
<1> QED
  BY ONLY <1>1, <1>2, <1>19, s \in Nat, SMT

LEMMA TrimCut16 ==
  ASSUME NEW t \in Seq(Nat), NEW s \in Nat, NEW r, Unread(t, s, r), Truncated("utf16", r)
  PROVE  trimPartialUTF16(t) = s
<1>1. r \in Seq(Nat) /\ Len(t) = s + Len(r) /\ Len(r) \in Nat \ {0} /\ \A i \in 1 .. Len(r) : r[i] = t[s + i]
  BY ONLY Unread(t, s, r) DEF Unread
<1>2. PICK x \in Completions("utf16") : IsCharacter("utf16", r \o x)
  BY DEF Truncated
<1>3. x = << 56320 >>
  BY ONLY <1>2 DEF Completions
<1>4. x \in Seq(Nat) /\ Len(x) = 1
  <2>1. 56320 \in Nat
    BY SMT
  <2> QED
    BY ONLY <1>3, <2>1
<1>5. PICK z : z = r \o x
  OBVIOUS
<1>6. z \in Seq(Nat) /\ Len(z) = Len(r) + 1 /\ \A i \in 1 .. Len(r) : z[i] = r[i]
  <2>1. r \in Seq(Nat)
    BY ONLY <1>1
  <2>2. r \o x \in Seq(Nat) /\ Len(r \o x) = Len(r) + Len(x)
    BY ONLY <1>4, <2>1, JoinType
  <2>3. \A i \in 1 .. Len(r) : z[i] = r[i]
    BY ONLY <1>4, <1>5, <2>1, JoinIs
  <2> QED
    BY ONLY <1>4, <1>5, <2>2, <2>3
<1>7. Len(z) = 1 \/ (Len(z) = 2 /\ High(z[1]))
  <2>1. IsCharacter("utf16", z)
    BY ONLY <1>2, <1>5
  <2> QED
    BY ONLY <2>1 DEF IsCharacter, Within, High
<1>8. Len(z) = 2 /\ Len(r) = 1 /\ 1 \in 1 .. Len(r)
  <2>1. PICK l, n : l = Len(z) /\ n = Len(r)
    OBVIOUS
  <2>2. l = n + 1 /\ n \in Nat \ {0} /\ (l = 1 \/ l = 2)
    BY ONLY <1>1, <1>6, <1>7, <2>1
  <2>3. l = 2 /\ n = 1 /\ 1 \in 1 .. n
    BY ONLY <2>2, SMT
  <2> QED
    BY ONLY <2>1, <2>3
<1>9. High(t[s + 1])
  <2>1. Len(z) # 1
    BY ONLY <1>8, SMT
  <2> QED
    BY ONLY <1>1, <1>6, <1>7, <1>8, <2>1
<1>10. Len(t) = s + 1 /\ Len(t) > 0 /\ Len(t) - 1 = s
  BY ONLY <1>1, <1>8, s \in Nat, SMT
<1> QED
  BY ONLY <1>9, <1>10 DEF trimPartialUTF16

(* Where an inspection that trims says the whole characters end.           *)
Trimmed(e, t) == IF e = "utf8" THEN trimPartialUTF8(t) ELSE trimPartialUTF16(t)

LEMMA KeptIs ==
  ASSUME NEW e \in {"utf8", "utf16"}, NEW t \in Seq(Nat), NEW r, r = Reading(e, "none", t),
         r.whole \/ Truncated(e, SubSeq(t, r.stop + 1, Len(t)))
  PROVE  Trimmed(e, t) = r.stop
<1>1. Settled(e, t, r.stop) /\ r.stop \in 0 .. Len(t) /\ (r.whole => r.stop = Len(t))
  BY ONLY e \in {"utf8", "utf16"}, t \in Seq(Nat), r = Reading(e, "none", t), SettledStop
<1>2. CASE r.stop = Len(t)
  <2>1. CASE e = "utf8"
    <3>1. Settled8(t, Len(t))
      BY ONLY <1>1, <1>2, <2>1 DEF Settled
    <3> QED
      BY ONLY <1>2, <2>1, <3>1, t \in Seq(Nat), TrimSettled DEF Trimmed
  <2>2. CASE e = "utf16"
    <3>1. e # "utf8"
      BY ONLY <2>2
    <3>2. Settled16(t, Len(t))
      BY ONLY <1>1, <1>2, <3>1 DEF Settled
    <3> QED
      BY ONLY <1>2, <3>1, <3>2, t \in Seq(Nat), TrimSettled DEF Trimmed
  <2> QED
    BY ONLY <2>1, <2>2, e \in {"utf8", "utf16"}
<1>3. CASE r.stop # Len(t)
  <2>1. PICK s \in 0 .. Len(t) : s = r.stop
    BY ONLY <1>1
  <2>2. s \in Nat /\ s # Len(t)
    BY ONLY <1>3, <2>1, SMT
  <2>3. PICK x : x = SubSeq(t, s + 1, Len(t))
    OBVIOUS
  <2>4. Truncated(e, x)
    BY <1>1, <1>3, <2>1, <2>3
  <2>5. Unread(t, s, x)
    BY ONLY <2>2, <2>3, t \in Seq(Nat), s \in 0 .. Len(t), UnreadIs
  <2>6. CASE e = "utf8"
    <3>1. Truncated("utf8", x)
      BY ONLY <2>4, <2>6
    <3> QED
      BY ONLY <2>1, <2>2, <2>5, <2>6, <3>1, t \in Seq(Nat), TrimCut8 DEF Trimmed
  <2>7. CASE e = "utf16"
    <3>1. Truncated("utf16", x) /\ e # "utf8"
      BY ONLY <2>4, <2>7
    <3> QED
      BY ONLY <2>1, <2>2, <2>5, <3>1, t \in Seq(Nat), TrimCut16 DEF Trimmed
  <2> QED
    BY ONLY <2>6, <2>7, e \in {"utf8", "utf16"}
<1> QED
  BY ONLY <1>2, <1>3

-----------------------------------------------------------------------------
(* What detection answers *)

(* A validator walks from unit to unit: R is true from p on if p is behind *)
(* the n units, or is in ok and the walk goes on w[p] units farther.       *)
Onward(n, ok, w, R, p) == p > n \/ (p \in ok /\ R[p + w[p]])

Walk(n, ok, w, R) == R = [p \in 1 .. n + 1 |-> Onward(n, ok, w, R, p)]

LEMMA WalksAgree ==
  ASSUME NEW n \in Nat, NEW ok \in SUBSET (1 .. n), NEW w, \A p \in ok : w[p] \in 1 .. n + 1 - p,
         NEW R, Walk(n, ok, w, R), NEW Q, Walk(n, ok, w, Q)
  PROVE  \A p \in 1 .. n + 1 : R[p] = Q[p]
<1> DEFINE G == {k \in 0 .. n : R[k + 1] = Q[k + 1]}
<1>1. \A p \in 1 .. n + 1 : R[p] = Onward(n, ok, w, R, p) /\ Q[p] = Onward(n, ok, w, Q, p)
  <2>1. ASSUME NEW F, Walk(n, ok, w, F), NEW p \in 1 .. n + 1
        PROVE  F[p] = Onward(n, ok, w, F, p)
    <3>1. F = [q \in 1 .. n + 1 |-> Onward(n, ok, w, F, q)]
      BY ONLY <2>1 DEF Walk
    <3> DEFINE B(q) == Onward(n, ok, w, F, q)
    <3>2. F = [q \in 1 .. n + 1 |-> B(q)]
      BY ONLY <3>1
    <3> HIDE DEF B
    <3>3. F[p] = B(p)
      BY ONLY <3>2, p \in 1 .. n + 1
    <3> QED
      BY ONLY <3>3 DEF B
  <2> QED
    BY <2>1
<1>2. ASSUME NEW k \in 0 .. n, k + 1 .. n \subseteq G
      PROVE  k \in G
  <2> DEFINE p == k + 1
  <2>1. p \in 1 .. n + 1
    BY SMT
  <2>2. CASE p \in ok
    <3>1. p + w[p] - 1 \in k + 1 .. n
      BY <2>2, SMT
    <3>2. p + w[p] - 1 \in G
      BY <1>2, <3>1
    <3>3. p + w[p] - 1 + 1 = p + w[p]
      BY <2>2, SMT
    <3>4. R[p + w[p]] = Q[p + w[p]]
      BY ONLY <3>2, <3>3
    <3>5. R[p] = Onward(n, ok, w, R, p) /\ Q[p] = Onward(n, ok, w, Q, p)
      BY ONLY <1>1, <2>1
    <3>6. R[p] = Q[p]
      BY ONLY <3>4, <3>5 DEF Onward
    <3> QED
      BY ONLY <3>6, k \in 0 .. n
  <2>3. CASE p \notin ok
    <3>5. R[p] = Onward(n, ok, w, R, p) /\ Q[p] = Onward(n, ok, w, Q, p)
      BY ONLY <1>1, <2>1
    <3>6. R[p] = Q[p]
      BY ONLY <2>3, <3>5 DEF Onward
    <3> QED
      BY ONLY <3>6, k \in 0 .. n
  <2> QED
    BY ONLY <2>2, <2>3
<1>3. 0 .. n \subseteq G
  <2> HIDE DEF G
  <2> QED
    BY <1>2, Backward
<1> SUFFICES ASSUME NEW p \in 1 .. n + 1 PROVE R[p] = Q[p]
  OBVIOUS
<1>4. p - 1 \in 0 .. n /\ p - 1 + 1 = p
  BY SMT
<1> QED
  BY ONLY <1>3, <1>4

-----------------------------------------------------------------------------
(* UTF-8 *)

Good8(t) == {p \in 1 .. Len(t) : UTF8Verdict(t, p) = "Success"}

Wide8(t) == [p \in 1 .. Len(t) |-> LeadWidth(t[p])]

From8(t, R) ==
  R = [p \in 1 .. Len(t) + 1 |->
         p > Len(t) \/ (UTF8Verdict(t, p) = "Success" /\ R[p + LeadWidth(t[p])])]

LEMMA From8Walks ==
  ASSUME NEW t \in Seq(Nat), NEW R
  PROVE  From8(t, R) <=> Walk(Len(t), Good8(t), Wide8(t), R)
<1>1. \A p \in 1 .. Len(t) + 1 :
        Onward(Len(t), Good8(t), Wide8(t), R, p)
          = (p > Len(t) \/ (UTF8Verdict(t, p) = "Success" /\ R[p + LeadWidth(t[p])]))
  <2> SUFFICES ASSUME NEW p \in 1 .. Len(t) + 1
               PROVE  Onward(Len(t), Good8(t), Wide8(t), R, p)
                        = (p > Len(t) \/ (UTF8Verdict(t, p) = "Success" /\ R[p + LeadWidth(t[p])]))
    OBVIOUS
  <2>1. Len(t) \in Nat
    BY LenProperties
  <2>2. CASE p > Len(t)
    BY ONLY <2>2 DEF Onward
  <2>3. CASE ~ (p > Len(t))
    <3>1. p \in 1 .. Len(t)
      BY ONLY <2>1, <2>3, p \in 1 .. Len(t) + 1, SMT
    <3>2. Wide8(t)[p] = LeadWidth(t[p])
      BY ONLY <3>1 DEF Wide8
    <3>3. p \in Good8(t) <=> UTF8Verdict(t, p) = "Success"
      BY ONLY <3>1 DEF Good8
    <3> QED
      BY ONLY <2>3, <3>2, <3>3 DEF Onward
  <2> QED
    BY ONLY <2>2, <2>3
<1>2. [p \in 1 .. Len(t) + 1 |-> Onward(Len(t), Good8(t), Wide8(t), R, p)]
        = [p \in 1 .. Len(t) + 1 |->
             p > Len(t) \/ (UTF8Verdict(t, p) = "Success" /\ R[p + LeadWidth(t[p])])]
  BY ONLY <1>1
<1> QED
  BY ONLY <1>2 DEF From8, Walk

LEMMA Validate8Def ==
  ASSUME NEW t
  PROVE  validateUTF8(t) = (CHOOSE R : From8(t, R))[1]
BY DEF validateUTF8, From8

(* Whether the text reads as whole characters from p on.                   *)
Whole8(t) == [p \in 1 .. Len(t) + 1 |-> After("utf8", "utf8", t, p - 1).whole]

LEMMA Whole8Walks ==
  ASSUME NEW t \in Seq(Nat)
  PROVE  Walk(Len(t), Good8(t), Wide8(t), Whole8(t))
<1> DEFINE n == Len(t)
           A(k) == After("utf8", "utf8", t, k).whole
<1>1. n \in Nat
  BY LenProperties
<1>2. \A k \in 0 .. n : A(k) \in BOOLEAN
  <2>1. "utf8" \in Texts
    BY DEF Texts
  <2> SUFFICES ASSUME NEW k \in 0 .. n PROVE A(k) \in BOOLEAN
    OBVIOUS
  <2>2. After("utf8", "utf8", t, k) \in AReading
    BY ONLY <2>1, t \in Seq(Nat), k \in 0 .. n, AfterType
  <2> QED
    BY ONLY <2>2, ReadingFields
<1>3. \A p \in 1 .. n + 1 : Whole8(t)[p] = A(p - 1)
  BY DEF Whole8
<1>4. ASSUME NEW p \in 1 .. n + 1
      PROVE  A(p - 1) = Onward(n, Good8(t), Wide8(t), Whole8(t), p)
  <2>0. "utf8" \in Texts
    BY DEF Texts
  <2>1. CASE p > n
    <3>1. p - 1 = n
      BY <1>1, <2>1, SMT
    <3>2. A(n) = TRUE
      BY ONLY <2>0, t \in Seq(Nat), AfterEnd
    <3> QED
      BY ONLY <2>1, <3>1, <3>2 DEF Onward
  <2>2. CASE ~ (p > n)
    <3>1. p \in 1 .. n /\ p - 1 \in 0 .. n /\ p - 1 < n /\ p - 1 + 1 = p
      BY ONLY <1>1, <2>2, p \in 1 .. n + 1, SMT
    <3>2. CASE UTF8Verdict(t, p) = "Success"
      <4>1. Holds("utf8", Assembled(t, p))
        BY DEF Holds
      <4>2. StartsAt("utf8", "utf8", t, p, LeadWidth(t[p]), Assembled(t, p))
        BY <3>1, <3>2, <4>1, UTF8Accepted
      <4>3. PICK w : w = LeadWidth(t[p])
        OBVIOUS
      <4>4. w \in 1 .. 4 /\ p + w - 1 <= n
        BY ONLY <3>1, <4>2, <4>3, t \in Seq(Nat), UTF8Recognised
      <4>5. p - 1 + w \in 0 .. n /\ p + w \in 1 .. n + 1 /\ p + w - 1 = p - 1 + w
        BY ONLY <1>1, <3>1, <4>4, SMT
      <4>6. After("utf8", "utf8", t, p - 1) = Prefixed(Assembled(t, p), After("utf8", "utf8", t, p - 1 + w))
        BY ONLY <2>0, <3>1, <4>2, <4>3, t \in Seq(Nat), AfterMore
      <4>7. After("utf8", "utf8", t, p - 1 + w) \in AReading
        BY ONLY <2>0, <4>5, t \in Seq(Nat), AfterType
      <4>8. A(p - 1) = A(p - 1 + w)
        <5>1. \A r \in AReading : \A c : Prefixed(c, r).whole = r.whole
          BY DEF Prefixed, AReading
        <5> QED
          BY ONLY <4>6, <4>7, <5>1
      <4>9. Whole8(t)[p + w] = A(p - 1 + w)
        <5>1. PICK q \in 1 .. n + 1 : q = p + w
          BY ONLY <4>5
        <5>2. Whole8(t)[q] = A(q - 1)
          BY <1>3
        <5>3. q - 1 = p - 1 + w
          BY ONLY <3>1, <4>4, <5>1, <4>5, SMT
        <5> HIDE DEF A
        <5> QED
          BY ONLY <5>1, <5>2, <5>3
      <4>10. p \in Good8(t) /\ Wide8(t)[p] = w
        BY ONLY <3>1, <3>2, <4>3 DEF Good8, Wide8
      <4>11. A(p - 1 + w) \in BOOLEAN
        BY ONLY <1>2, <4>5
      <4> HIDE DEF A
      <4> QED
        BY ONLY <2>2, <4>8, <4>9, <4>10, <4>11 DEF Onward
    <3>3. CASE UTF8Verdict(t, p) # "Success"
      <4>1. CharactersAt("utf8", "utf8", t, p) = {}
        BY ONLY <3>1, <3>3, t \in Seq(Nat), UTF8Refused
      <4>2. After("utf8", "utf8", t, p - 1) = [points |-> << >>, stop |-> p - 1, whole |-> FALSE]
        BY ONLY <2>0, <3>1, <4>1, t \in Seq(Nat), AfterNone
      <4>3. A(p - 1) = FALSE
        BY ONLY <4>2
      <4>4. p \notin Good8(t)
        BY ONLY <3>3 DEF Good8
      <4> QED
        BY ONLY <2>2, <4>3, <4>4 DEF Onward
    <3> QED
      BY ONLY <3>2, <3>3
  <2> QED
    BY ONLY <2>1, <2>2
<1>5. Whole8(t) = [p \in 1 .. n + 1 |-> A(p - 1)]
  BY DEF Whole8
<1>6. [p \in 1 .. n + 1 |-> A(p - 1)] = [p \in 1 .. n + 1 |-> Onward(n, Good8(t), Wide8(t), Whole8(t), p)]
  BY ONLY <1>4
<1> QED
  BY ONLY <1>5, <1>6 DEF Walk

(* ValidateUTF8 accepts what reads as a whole text.                        *)
LEMMA Validates8 ==
  ASSUME NEW t \in Seq(Nat)
  PROVE  validateUTF8(t) = Reading("utf8", "utf8", t).whole
<1>1. Len(t) \in Nat /\ Good8(t) \in SUBSET (1 .. Len(t))
  BY LenProperties DEF Good8
<1>2. \A p \in Good8(t) : Wide8(t)[p] \in 1 .. Len(t) + 1 - p
  <2> SUFFICES ASSUME NEW p \in Good8(t) PROVE Wide8(t)[p] \in 1 .. Len(t) + 1 - p
    OBVIOUS
  <2>1. p \in 1 .. Len(t) /\ UTF8Verdict(t, p) = "Success"
    BY DEF Good8
  <2>2. Holds("utf8", Assembled(t, p))
    BY DEF Holds
  <2>3. StartsAt("utf8", "utf8", t, p, LeadWidth(t[p]), Assembled(t, p))
    BY ONLY <2>1, <2>2, t \in Seq(Nat), UTF8Accepted
  <2>4. PICK w : w = LeadWidth(t[p])
    OBVIOUS
  <2>5. w \in 1 .. 4 /\ p + w - 1 <= Len(t)
    BY ONLY <2>1, <2>3, <2>4, t \in Seq(Nat), UTF8Recognised
  <2>6. Wide8(t)[p] = w
    BY ONLY <2>1, <2>4 DEF Wide8
  <2> QED
    BY ONLY <1>1, <2>1, <2>5, <2>6, SMT
<1>3. Walk(Len(t), Good8(t), Wide8(t), Whole8(t))
  BY Whole8Walks
<1>4. From8(t, CHOOSE R : From8(t, R))
  BY <1>3, From8Walks
<1>5. PICK R : R = (CHOOSE Q : From8(t, Q))
  OBVIOUS
<1>6. From8(t, R)
  BY ONLY <1>4, <1>5
<1>6a. Walk(Len(t), Good8(t), Wide8(t), R)
  BY ONLY <1>6, t \in Seq(Nat), From8Walks
<1>7. 1 \in 1 .. Len(t) + 1
  BY <1>1, SMT
<1>8. R[1] = Whole8(t)[1]
  <2> HIDE DEF Good8, Wide8, Whole8, Walk
  <2> QED
    BY ONLY <1>1, <1>2, <1>3, <1>6a, <1>7, WalksAgree
<1>9. Whole8(t)[1] = After("utf8", "utf8", t, 0).whole
  <2>1. 1 - 1 = 0
    OBVIOUS
  <2> QED
    BY ONLY <1>7, <2>1 DEF Whole8
<1>10. validateUTF8(t) = R[1]
  BY ONLY <1>5, Validate8Def
<1>11. Reading("utf8", "utf8", t) = After("utf8", "utf8", t, 0)
  BY ONLY ReadingIsAfter
<1> QED
  BY ONLY <1>8, <1>9, <1>10, <1>11

-----------------------------------------------------------------------------
(* UTF-16 *)

(* From p on, each position of H is followed by one of L, and each of L    *)
(* follows one of H.                                                       *)
InPairs(n, H, L, p) ==
  \A i \in p .. n : (i \in H => i + 1 \in L) /\ (i \in L => p < i /\ i - 1 \in H)

LEMMA PairsStep ==
  ASSUME NEW n \in Nat, NEW H \in SUBSET (1 .. n), NEW L \in SUBSET (1 .. n), H \cap L = {},
         NEW p \in 1 .. n
  PROVE  /\ p \in H /\ p + 1 \in L => (InPairs(n, H, L, p) <=> InPairs(n, H, L, p + 2))
         /\ p \notin H /\ p \notin L => (InPairs(n, H, L, p) <=> InPairs(n, H, L, p + 1))
         /\ p \in L \/ (p \in H /\ p + 1 \notin L) => ~ InPairs(n, H, L, p)
<1>1. ASSUME p \in H, p + 1 \in L
      PROVE  InPairs(n, H, L, p) <=> InPairs(n, H, L, p + 2)
  <2>1. p + 1 \notin H /\ p \notin L /\ p + 1 \in p .. n
    BY <1>1
  <2>2. ASSUME InPairs(n, H, L, p), NEW i \in p + 2 .. n
        PROVE  (i \in H => i + 1 \in L) /\ (i \in L => p + 2 < i /\ i - 1 \in H)
    <3>1. i \in p .. n /\ (i # p + 2 => p + 2 < i)
      BY SMT
    <3>2. (i \in H => i + 1 \in L) /\ (i \in L => p < i /\ i - 1 \in H)
      BY ONLY <2>2, <3>1 DEF InPairs
    <3>3. i = p + 2 => i \notin L
      <4>1. i = p + 2 => i - 1 = p + 1
        BY SMT
      <4> QED
        BY ONLY <2>1, <3>2, <4>1
    <3> QED
      BY ONLY <3>1, <3>2, <3>3
  <2>3. ASSUME InPairs(n, H, L, p + 2), NEW i \in p .. n
        PROVE  (i \in H => i + 1 \in L) /\ (i \in L => p < i /\ i - 1 \in H)
    <3>1. i = p \/ i = p + 1 \/ i \in p + 2 .. n
      BY SMT
    <3>2. CASE i = p
      BY ONLY <1>1, <2>1, <3>2
    <3>3. CASE i = p + 1
      <4>1. p < i /\ i - 1 = p
        BY ONLY <3>3, p \in 1 .. n, SMT
      <4> QED
        BY ONLY <1>1, <2>1, <3>3, <4>1
    <3>4. CASE i \in p + 2 .. n
      <4>1. (i \in H => i + 1 \in L) /\ (i \in L => p + 2 < i /\ i - 1 \in H)
        BY ONLY <2>3, <3>4 DEF InPairs
      <4>2. p < i
        BY ONLY <3>4, p \in 1 .. n, n \in Nat, SMT
      <4> QED
        BY ONLY <4>1, <4>2
    <3> QED
      BY ONLY <3>1, <3>2, <3>3, <3>4
  <2> QED
    BY ONLY <2>2, <2>3 DEF InPairs
<1>2. ASSUME p \notin H, p \notin L
      PROVE  InPairs(n, H, L, p) <=> InPairs(n, H, L, p + 1)
  <2>2. ASSUME InPairs(n, H, L, p), NEW i \in p + 1 .. n
        PROVE  (i \in H => i + 1 \in L) /\ (i \in L => p + 1 < i /\ i - 1 \in H)
    <3>1. i \in p .. n /\ (i # p + 1 => p + 1 < i)
      BY SMT
    <3>2. (i \in H => i + 1 \in L) /\ (i \in L => p < i /\ i - 1 \in H)
      BY ONLY <2>2, <3>1 DEF InPairs
    <3>3. i = p + 1 => i \notin L
      <4>1. i = p + 1 => i - 1 = p
        BY SMT
      <4> QED
        BY ONLY <1>2, <3>2, <4>1
    <3> QED
      BY ONLY <3>1, <3>2, <3>3
  <2>3. ASSUME InPairs(n, H, L, p + 1), NEW i \in p .. n
        PROVE  (i \in H => i + 1 \in L) /\ (i \in L => p < i /\ i - 1 \in H)
    <3>1. i = p \/ i \in p + 1 .. n
      BY SMT
    <3>2. CASE i = p
      BY ONLY <1>2, <3>2
    <3>4. CASE i \in p + 1 .. n
      <4>1. (i \in H => i + 1 \in L) /\ (i \in L => p + 1 < i /\ i - 1 \in H)
        BY ONLY <2>3, <3>4 DEF InPairs
      <4>2. p < i
        BY ONLY <3>4, p \in 1 .. n, n \in Nat, SMT
      <4> QED
        BY ONLY <4>1, <4>2
    <3> QED
      BY ONLY <3>1, <3>2, <3>4
  <2> QED
    BY ONLY <2>2, <2>3 DEF InPairs
<1>3. ASSUME p \in L \/ (p \in H /\ p + 1 \notin L)
      PROVE  ~ InPairs(n, H, L, p)
  <2>1. p \in p .. n /\ ~ (p < p)
    BY SMT
  <2> QED
    BY ONLY <1>3, <2>1 DEF InPairs
<1> QED
  BY <1>1, <1>2, <1>3

Good16(t) == {p \in 1 .. Len(t) : UTF16Verdict(t, p) = "Success"}

Wide16(t) == [p \in 1 .. Len(t) |-> IF Pair(t, p) THEN 2 ELSE 1]

From16(t, R) ==
  R = [p \in 1 .. Len(t) + 1 |->
         p > Len(t) \/ (UTF16Verdict(t, p) = "Success" /\ R[p + (IF Pair(t, p) THEN 2 ELSE 1)])]

LEMMA From16Walks ==
  ASSUME NEW t \in Seq(Nat), NEW R
  PROVE  From16(t, R) <=> Walk(Len(t), Good16(t), Wide16(t), R)
<1> DEFINE W(p) == IF Pair(t, p) THEN 2 ELSE 1
<1>1. \A p \in 1 .. Len(t) + 1 :
        Onward(Len(t), Good16(t), Wide16(t), R, p)
          = (p > Len(t) \/ (UTF16Verdict(t, p) = "Success" /\ R[p + W(p)]))
  <2> SUFFICES ASSUME NEW p \in 1 .. Len(t) + 1
               PROVE  Onward(Len(t), Good16(t), Wide16(t), R, p)
                        = (p > Len(t) \/ (UTF16Verdict(t, p) = "Success" /\ R[p + W(p)]))
    OBVIOUS
  <2>1. Len(t) \in Nat
    BY LenProperties
  <2>2. CASE p > Len(t)
    BY ONLY <2>2 DEF Onward
  <2>3. CASE ~ (p > Len(t))
    <3>1. p \in 1 .. Len(t)
      BY ONLY <2>1, <2>3, p \in 1 .. Len(t) + 1, SMT
    <3>2. Wide16(t)[p] = W(p)
      BY ONLY <3>1 DEF Wide16
    <3>3. p \in Good16(t) <=> UTF16Verdict(t, p) = "Success"
      BY ONLY <3>1 DEF Good16
    <3> HIDE DEF W
    <3> QED
      BY ONLY <2>3, <3>2, <3>3 DEF Onward
  <2> QED
    BY ONLY <2>2, <2>3
<1>2. [p \in 1 .. Len(t) + 1 |-> Onward(Len(t), Good16(t), Wide16(t), R, p)]
        = [p \in 1 .. Len(t) + 1 |-> p > Len(t) \/ (UTF16Verdict(t, p) = "Success" /\ R[p + W(p)])]
  <2> HIDE DEF W
  <2> QED
    BY ONLY <1>1
<1> QED
  BY ONLY <1>2 DEF From16, Walk

Highs(t) == {i \in 1 .. Len(t) : High(t[i])}
Lows(t)  == {i \in 1 .. Len(t) : Low(t[i])}

(* Whether the surrogates are all paired from p on.                        *)
Whole16(t) == [p \in 1 .. Len(t) + 1 |-> InPairs(Len(t), Highs(t), Lows(t), p)]

LEMMA SurrogateHalves ==
  ASSUME NEW u \in Nat
  PROVE  /\ Surrogate(u) <=> High(u) \/ Low(u)
         /\ ~ (High(u) /\ Low(u))
BY SMT DEF Surrogate, High, Low

LEMMA HalvesApart ==
  ASSUME NEW t \in Seq(Nat)
  PROVE  /\ Highs(t) \in SUBSET (1 .. Len(t)) /\ Lows(t) \in SUBSET (1 .. Len(t))
         /\ Highs(t) \cap Lows(t) = {}
<1>1. \A i \in 1 .. Len(t) : t[i] \in Nat
  BY ElementOfSeq
<1>2. \A i \in 1 .. Len(t) : ~ (High(t[i]) /\ Low(t[i]))
  BY ONLY <1>1, SurrogateHalves
<1> HIDE DEF High, Low
<1> QED
  BY <1>2 DEF Highs, Lows

(* The verdict on a word, by where the halves are.                         *)
LEMMA VerdictByHalves ==
  ASSUME NEW t \in Seq(Nat), NEW p \in 1 .. Len(t)
  PROVE  /\ Pair(t, p) <=> p \in Highs(t) /\ p + 1 \in Lows(t)
         /\ UTF16Verdict(t, p) = "Success"
              <=> Pair(t, p) \/ (p \notin Highs(t) /\ p \notin Lows(t))
<1>1. t[p] \in Nat /\ Len(t) \in Nat
  BY LenProperties, ElementOfSeq
<1>2. p \in Highs(t) <=> High(t[p])
  BY DEF Highs
<1>3. p \in Lows(t) <=> Low(t[p])
  BY DEF Lows
<1>4. p < Len(t) <=> p + 1 \in 1 .. Len(t)
  BY <1>1, SMT
<1>5. p + 1 \in Lows(t) <=> p < Len(t) /\ Low(t[p + 1])
  BY ONLY <1>4 DEF Lows
<1>6. Pair(t, p) <=> p \in Highs(t) /\ p + 1 \in Lows(t)
  BY ONLY <1>2, <1>5 DEF Pair
<1>7. Surrogate(t[p]) <=> High(t[p]) \/ Low(t[p])
  BY ONLY <1>1, SurrogateHalves
<1>8. UTF16Verdict(t, p) = "Success" <=> ~ (Surrogate(t[p]) /\ ~ Pair(t, p))
  BY DEF UTF16Verdict
<1> QED
  BY ONLY <1>2, <1>3, <1>6, <1>7, <1>8

LEMMA Whole16Walks ==
  ASSUME NEW t \in Seq(Nat)
  PROVE  /\ Walk(Len(t), Good16(t), Wide16(t), Whole16(t))
         /\ Good16(t) \in SUBSET (1 .. Len(t))
         /\ \A p \in Good16(t) : Wide16(t)[p] \in 1 .. Len(t) + 1 - p
<1> DEFINE n == Len(t)
           H == Highs(t)
           L == Lows(t)
           P(p) == InPairs(n, H, L, p)
<1>1. n \in Nat
  BY LenProperties
<1>2. H \in SUBSET (1 .. n) /\ L \in SUBSET (1 .. n) /\ H \cap L = {}
  BY HalvesApart
<1>3. ASSUME NEW p \in 1 .. n + 1
      PROVE  P(p) = Onward(n, Good16(t), Wide16(t), Whole16(t), p)
  <2>1. CASE p > n
    <3>1. p .. n = {}
      BY <1>1, <2>1, SMT
    <3>2. P(p) = TRUE
      BY ONLY <3>1 DEF InPairs
    <3> QED
      BY ONLY <2>1, <3>2 DEF Onward
  <2>2. CASE ~ (p > n)
    <3>1. p \in 1 .. n
      BY ONLY <1>1, <2>2, p \in 1 .. n + 1, SMT
    <3>2. /\ Pair(t, p) <=> p \in H /\ p + 1 \in L
          /\ p \in Good16(t) <=> Pair(t, p) \/ (p \notin H /\ p \notin L)
          /\ Wide16(t)[p] = IF Pair(t, p) THEN 2 ELSE 1
      BY <3>1, VerdictByHalves DEF Good16, Wide16
    <3>3. /\ p \in H /\ p + 1 \in L => (P(p) <=> P(p + 2))
          /\ p \notin H /\ p \notin L => (P(p) <=> P(p + 1))
          /\ p \in L \/ (p \in H /\ p + 1 \notin L) => ~ P(p)
      <4> HIDE DEF H, L
      <4> QED
        BY ONLY <1>1, <1>2, <3>1, PairsStep
    <3>4. \A q \in 1 .. n + 1 : Whole16(t)[q] = P(q)
      BY ONLY TRUE DEF Whole16
    <3>5. p + 1 \in 1 .. n + 1 /\ (p + 1 \in L => p + 2 \in 1 .. n + 1)
      <4>1. p + 1 \in L => p + 1 \in 1 .. n
        BY ONLY <1>2
      <4> QED
        BY ONLY <1>1, <3>1, <4>1, SMT
    <3>6. \A q : P(q) \in BOOLEAN
      BY ONLY TRUE DEF InPairs
    <3> HIDE DEF P, H, L
    <3>7. CASE p \in H /\ p + 1 \in L
      <4>1. Whole16(t)[p + 2] = P(p + 2)
        BY ONLY <3>4, <3>5, <3>7
      <4>2. p \in Good16(t) /\ Wide16(t)[p] = 2
        BY ONLY <3>2, <3>7
      <4>3. P(p) = P(p + 2)
        BY ONLY <3>3, <3>6, <3>7
      <4>4. P(p + 2) \in BOOLEAN
        BY ONLY <3>6
      <4> QED
        BY ONLY <2>2, <4>1, <4>2, <4>3, <4>4 DEF Onward
    <3>8. CASE p \notin H /\ p \notin L
      <4>1. Whole16(t)[p + 1] = P(p + 1)
        BY ONLY <3>4, <3>5
      <4>2. p \in Good16(t) /\ Wide16(t)[p] = 1
        BY ONLY <3>2, <3>8
      <4>3. P(p) = P(p + 1)
        BY ONLY <3>3, <3>6, <3>8
      <4>4. P(p + 1) \in BOOLEAN
        BY ONLY <3>6
      <4> QED
        BY ONLY <2>2, <4>1, <4>2, <4>3, <4>4 DEF Onward
    <3>9. CASE p \in L \/ (p \in H /\ p + 1 \notin L)
      <4>1. p \notin Good16(t)
        BY ONLY <1>2, <3>2, <3>9
      <4>2. P(p) = FALSE
        BY ONLY <3>3, <3>6, <3>9
      <4> QED
        BY ONLY <2>2, <4>1, <4>2 DEF Onward
    <3> QED
      BY ONLY <3>7, <3>8, <3>9
  <2> QED
    BY ONLY <2>1, <2>2
<1>4. Whole16(t) = [p \in 1 .. n + 1 |-> P(p)]
  BY DEF Whole16
<1>5. [p \in 1 .. n + 1 |-> P(p)] = [p \in 1 .. n + 1 |-> Onward(n, Good16(t), Wide16(t), Whole16(t), p)]
  <2> HIDE DEF P
  <2> QED
    BY ONLY <1>3
<1>6. Good16(t) \in SUBSET (1 .. n)
  BY DEF Good16
<1>7. ASSUME NEW p \in Good16(t)
      PROVE  Wide16(t)[p] \in 1 .. n + 1 - p
  <2>1. p \in 1 .. n
    BY <1>6
  <2>2. Wide16(t)[p] = IF Pair(t, p) THEN 2 ELSE 1
    BY ONLY <2>1 DEF Wide16
  <2>3. Pair(t, p) => p < n
    BY DEF Pair
  <2> QED
    BY ONLY <1>1, <2>1, <2>2, <2>3, SMT
<1> QED
  BY ONLY <1>4, <1>5, <1>6, <1>7 DEF Walk

Ordered(stored, little) ==
  [i \in DOMAIN stored |-> IF little THEN stored[i] ELSE ReverseBytes16(stored[i])]

LEMMA Validate16Def ==
  ASSUME NEW stored, NEW little
  PROVE  validateUTF16LE(stored, little) = (CHOOSE R : From16(Ordered(stored, little), R))[1]
BY DEF validateUTF16LE, From16, Ordered

(* ValidateUTF16LE accepts what has its surrogates in pairs.               *)
LEMMA Validates16 ==
  ASSUME NEW stored, NEW little, NEW t \in Seq(Nat), t = Ordered(stored, little)
  PROVE  validateUTF16LE(stored, little) = InPairs(Len(t), Highs(t), Lows(t), 1)
<1>1. Len(t) \in Nat
  BY LenProperties
<1>2. /\ Walk(Len(t), Good16(t), Wide16(t), Whole16(t))
      /\ Good16(t) \in SUBSET (1 .. Len(t))
      /\ \A p \in Good16(t) : Wide16(t)[p] \in 1 .. Len(t) + 1 - p
  BY Whole16Walks
<1>3. From16(t, CHOOSE R : From16(t, R))
  BY <1>2, From16Walks
<1>4. PICK R : R = (CHOOSE Q : From16(t, Q))
  OBVIOUS
<1>5. From16(t, R)
  BY ONLY <1>3, <1>4
<1>6. Walk(Len(t), Good16(t), Wide16(t), R)
  BY ONLY <1>5, t \in Seq(Nat), From16Walks
<1>7. 1 \in 1 .. Len(t) + 1
  BY <1>1, SMT
<1>8. R[1] = Whole16(t)[1]
  <2> HIDE DEF Good16, Wide16, Whole16, Walk
  <2> QED
    BY ONLY <1>1, <1>2, <1>6, <1>7, WalksAgree
<1>9. Whole16(t)[1] = InPairs(Len(t), Highs(t), Lows(t), 1)
  BY ONLY <1>7 DEF Whole16
<1>10. validateUTF16LE(stored, little) = R[1]
  BY ONLY <1>4, t = Ordered(stored, little), Validate16Def
<1> QED
  BY ONLY <1>8, <1>9, <1>10

-----------------------------------------------------------------------------
(* OctetText as units of the machine *)

OctetText(t) == t \in Seq(Nat) /\ \A i \in 1 .. Len(t) : t[i] <= 255

LEMMA Halved ==
  ASSUME NEW n \in Nat
  PROVE  /\ n \div 2 \in Nat /\ \A i \in 1 .. n \div 2 : 2 * i \in 1 .. n /\ 2 * i - 1 \in 1 .. n
         /\ n \div 4 \in Nat /\ \A i \in 1 .. n \div 4 : 4 * i - 3 \in 1 .. n /\ 4 * i - 2 \in 1 .. n
                                                           /\ 4 * i - 1 \in 1 .. n /\ 4 * i \in 1 .. n
<1>1. PICK h \in Nat : h = n \div 2 /\ 2 * h <= n
  BY SMT
<1>2. PICK q \in Nat : q = n \div 4 /\ 4 * q <= n
  BY SMT
<1>3. \A i \in 1 .. h : 2 * i \in 1 .. n /\ 2 * i - 1 \in 1 .. n
  BY <1>1, SMT
<1>4. \A i \in 1 .. q : 4 * i - 3 \in 1 .. n /\ 4 * i - 2 \in 1 .. n /\ 4 * i - 1 \in 1 .. n /\ 4 * i \in 1 .. n
  BY <1>2, SMT
<1> QED
  BY ONLY <1>1, <1>2, <1>3, <1>4

LEMMA SwappedBytes ==
  ASSUME NEW a \in Nat, NEW b \in Nat, a <= 255, b <= 255
  PROVE  ReverseBytes16(b * 256 + a) = a * 256 + b
<1>1. (b * 256 + a) % 256 = a /\ (b * 256 + a) \div 256 = b
  BY SMT
<1> QED
  BY <1>1 DEF ReverseBytes16

LEMMA HighByte ==
  ASSUME NEW a \in Nat, NEW b \in Nat, a <= 255, b <= 255, NEW u, u = a * 256 + b
  PROVE  (High(u) <=> a \in 216 .. 219) /\ (Low(u) <=> a \in 220 .. 223) /\ u \in Nat
BY SMT DEF High, Low

(* In either order of the machine the words come out little-endian.        *)
LEMMA Words16 ==
  ASSUME NEW t, OctetText(t), NEW little \in BOOLEAN,
         NEW u, u = Ordered(nativeUTF16Units(t, little), little)
  PROVE  /\ u \in Seq(Nat) /\ Len(u) = Len(t) \div 2
         /\ \A i \in 1 .. Len(u) : u[i] = t[2 * i] * 256 + t[2 * i - 1]
<1>1. t \in Seq(Nat) /\ Len(t) \in Nat /\ \A i \in 1 .. Len(t) : t[i] \in Nat /\ t[i] <= 255
  BY LenProperties, ElementOfSeq DEF OctetText
<1>2. PICK n \in Nat : n = Len(t) \div 2 /\ \A i \in 1 .. n : 2 * i \in 1 .. Len(t) /\ 2 * i - 1 \in 1 .. Len(t)
  BY ONLY <1>1, Halved
<1> DEFINE V == nativeUTF16Units(t, little)
<1>3. V = [i \in 1 .. n |-> BytesOf(t, 2, i, little)[1] * 256 + BytesOf(t, 2, i, little)[2]]
  BY ONLY <1>2 DEF nativeUTF16Units
<1>4. DOMAIN V = 1 .. n /\ \A i \in 1 .. n : V[i] = BytesOf(t, 2, i, little)[1] * 256 + BytesOf(t, 2, i, little)[2]
  BY ONLY <1>3
<1>5. ASSUME NEW i \in 1 .. n
      PROVE  /\ little => V[i] = t[2 * i] * 256 + t[2 * i - 1]
             /\ ~ little => V[i] = t[2 * i - 1] * 256 + t[2 * i]
  <2>1. /\ little => BytesOf(t, 2, i, little)[1] = t[2 * i - 1 + 1] /\ BytesOf(t, 2, i, little)[2] = t[2 * i - 2 + 1]
        /\ ~ little => BytesOf(t, 2, i, little)[1] = t[2 * (i - 1) + 1] /\ BytesOf(t, 2, i, little)[2] = t[2 * (i - 1) + 2]
    <3>1. 1 \in 1 .. 2 /\ 2 \in 1 .. 2
      BY SMT
    <3> QED
      BY ONLY <3>1 DEF BytesOf
  <2>2. 2 * i - 1 + 1 = 2 * i /\ 2 * i - 2 + 1 = 2 * i - 1 /\ 2 * (i - 1) + 1 = 2 * i - 1 /\ 2 * (i - 1) + 2 = 2 * i
    BY SMT
  <2> QED
    BY ONLY <1>4, <2>1, <2>2, i \in 1 .. n
<1>6. ASSUME NEW i \in 1 .. n
      PROVE  /\ (IF little THEN V[i] ELSE ReverseBytes16(V[i])) = t[2 * i] * 256 + t[2 * i - 1]
             /\ t[2 * i] * 256 + t[2 * i - 1] \in Nat
  <2>1. t[2 * i] \in Nat /\ t[2 * i] <= 255 /\ t[2 * i - 1] \in Nat /\ t[2 * i - 1] <= 255
    BY ONLY <1>1, <1>2, i \in 1 .. n
  <2>2. ReverseBytes16(t[2 * i - 1] * 256 + t[2 * i]) = t[2 * i] * 256 + t[2 * i - 1]
    BY ONLY <2>1, SwappedBytes
  <2>3. t[2 * i] * 256 + t[2 * i - 1] \in Nat
    BY ONLY <2>1, SMT
  <2> QED
    BY ONLY <1>5, <2>2, <2>3, i \in 1 .. n
<1>7. u = [i \in 1 .. n |-> IF little THEN V[i] ELSE ReverseBytes16(V[i])]
  <2> HIDE DEF V
  <2>1. u = [i \in DOMAIN V |-> IF little THEN V[i] ELSE ReverseBytes16(V[i])]
    BY DEF Ordered, V
  <2> QED
    BY ONLY <1>4, <2>1
<1> HIDE DEF V
<1>8. DOMAIN u = 1 .. n /\ \A i \in 1 .. n : u[i] = t[2 * i] * 256 + t[2 * i - 1]
  BY ONLY <1>6, <1>7
<1>9. u \in [1 .. n -> Nat]
  BY ONLY <1>6, <1>7
<1>10. u \in Seq(Nat) /\ Len(u) = n
  BY ONLY <1>2, <1>9, SeqDef, LenProperties, SMT
<1> QED
  BY ONLY <1>2, <1>8, <1>10

(* That every half has its other half, of the two sets as they are stated. *)
LEMMA PairsAre ==
  ASSUME NEW n \in Nat, NEW H \in SUBSET (1 .. n), NEW L \in SUBSET (1 .. n), H \cap L = {}
  PROVE  InPairs(n, H, L, 1) <=> L = {i + 1 : i \in H}
<1>1. ASSUME InPairs(n, H, L, 1)
      PROVE  L = {i + 1 : i \in H}
  <2>1. \A i \in 1 .. n : (i \in H => i + 1 \in L) /\ (i \in L => i - 1 \in H)
    BY ONLY <1>1 DEF InPairs
  <2>2. ASSUME NEW x \in {i + 1 : i \in H} PROVE x \in L
    <3>1. PICK i \in H : x = i + 1
      BY ONLY <2>2
    <3> QED
      BY <2>1, <3>1
  <2>3. ASSUME NEW x \in L PROVE x \in {i + 1 : i \in H}
    <3>1. x - 1 \in H
      BY <2>1
    <3>2. x = x - 1 + 1
      BY SMT
    <3> QED
      BY ONLY <3>1, <3>2
  <2> QED
    BY ONLY <2>2, <2>3
<1>2. ASSUME L = {i + 1 : i \in H}
      PROVE  InPairs(n, H, L, 1)
  <2> SUFFICES ASSUME NEW i \in 1 .. n
               PROVE  (i \in H => i + 1 \in L) /\ (i \in L => 1 < i /\ i - 1 \in H)
    BY DEF InPairs
  <2>1. i \in H => i + 1 \in L
    BY ONLY <1>2
  <2>2. ASSUME i \in L PROVE 1 < i /\ i - 1 \in H
    <3>1. PICK j \in H : i = j + 1
      BY ONLY <1>2, <2>2
    <3>2. j \in 1 .. n
      OBVIOUS
    <3>3. 1 < i /\ i - 1 = j
      BY ONLY <3>1, <3>2, n \in Nat, SMT
    <3> QED
      BY ONLY <3>3, j \in H
  <2> QED
    BY <2>1, <2>2
<1> QED
  BY <1>1, <1>2

LEMMA Reads16 ==
  ASSUME NEW t, OctetText(t), NEW little \in BOOLEAN
  PROVE  Len(t) % 2 = 0 /\ validateUTF16LE(nativeUTF16Units(t, little), little) <=> Readable16(t)
<1>1. t \in Seq(Nat) /\ Len(t) \in Nat /\ \A i \in 1 .. Len(t) : t[i] \in Nat /\ t[i] <= 255
  BY LenProperties, ElementOfSeq DEF OctetText
<1>2. PICK u : u = Ordered(nativeUTF16Units(t, little), little)
  OBVIOUS
<1>3. /\ u \in Seq(Nat) /\ Len(u) = Len(t) \div 2
      /\ \A i \in 1 .. Len(u) : u[i] = t[2 * i] * 256 + t[2 * i - 1]
  BY <1>2, Words16
<1>4. validateUTF16LE(nativeUTF16Units(t, little), little) = InPairs(Len(u), Highs(u), Lows(u), 1)
  BY ONLY <1>2, <1>3, Validates16
<1>5. PICK n \in Nat : n = Len(t) \div 2 /\ \A i \in 1 .. n : 2 * i \in 1 .. Len(t) /\ 2 * i - 1 \in 1 .. Len(t)
  BY ONLY <1>1, Halved
<1>6. \A i \in 1 .. n : (High(u[i]) <=> t[2 * i] \in 216 .. 219) /\ (Low(u[i]) <=> t[2 * i] \in 220 .. 223)
  <2> SUFFICES ASSUME NEW i \in 1 .. n
               PROVE  (High(u[i]) <=> t[2 * i] \in 216 .. 219) /\ (Low(u[i]) <=> t[2 * i] \in 220 .. 223)
    OBVIOUS
  <2>1. t[2 * i] \in Nat /\ t[2 * i] <= 255 /\ t[2 * i - 1] \in Nat /\ t[2 * i - 1] <= 255
    BY ONLY <1>1, <1>5, i \in 1 .. n
  <2>2. u[i] = t[2 * i] * 256 + t[2 * i - 1]
    BY ONLY <1>3, <1>5, i \in 1 .. n
  <2> QED
    BY ONLY <2>1, <2>2, HighByte
<1>7. Highs(u) = {i \in 1 .. n : t[2 * i] \in 216 .. 219}
  BY ONLY <1>3, <1>5, <1>6 DEF Highs
<1>8. Lows(u) = {i \in 1 .. n : t[2 * i] \in 220 .. 223}
  BY ONLY <1>3, <1>5, <1>6 DEF Lows
<1>9. /\ Highs(u) \in SUBSET (1 .. Len(u)) /\ Lows(u) \in SUBSET (1 .. Len(u))
      /\ Highs(u) \cap Lows(u) = {}
  BY ONLY <1>3, HalvesApart
<1>10. Len(u) = n
  BY ONLY <1>3, <1>5
<1>11. InPairs(n, Highs(u), Lows(u), 1) <=> Lows(u) = {i + 1 : i \in Highs(u)}
  BY ONLY <1>9, <1>10, n \in Nat, PairsAre
<1>12. Readable16(t) <=> Len(t) % 2 = 0 /\ Lows(u) = {i + 1 : i \in Highs(u)}
  BY ONLY <1>5, <1>7, <1>8 DEF Readable16
<1> QED
  BY ONLY <1>4, <1>10, <1>11, <1>12

-----------------------------------------------------------------------------
(* UTF-32 *)

Octets == 0 .. 255

(* A word of four bytes, the most significant first.                       *)
WordOf(a, b, c, d) == IF a > 0 THEN Beyond ELSE b * 65536 + c * 256 + d

(* When such a word is a scalar value.                                     *)
LEMMA ScalarWord ==
  ASSUME NEW a \in Octets, NEW b \in Octets, NEW c \in Octets, NEW d \in Octets
  PROVE  UTF32Verdict(WordOf(a, b, c, d)) = "Success"
           <=> a = 0 /\ b <= 16 /\ (b = 0 => c \notin 216 .. 223)
<1>0. /\ a \in Nat /\ b \in Nat /\ c \in Nat /\ d \in Nat
      /\ a <= 255 /\ b <= 255 /\ c <= 255 /\ d <= 255
  BY SMT DEF Octets
<1>a. PICK u : u = WordOf(a, b, c, d)
  OBVIOUS
<1>1. UTF32Verdict(u) = "Success" <=> ~ (u > 1114111) /\ ~ Surrogate(u)
  BY DEF UTF32Verdict
<1>2. CASE a > 0
  <2>1. u > 1114111
    BY <1>a, <1>2, SMT DEF Beyond, WordOf
  <2> QED
    BY ONLY <1>a, <1>0, <1>1, <1>2, <2>1, SMT
<1>3. CASE ~ (a > 0)
  <2>1. a = 0 /\ u = b * 65536 + c * 256 + d
    BY <1>a, <1>0, <1>3, SMT DEF WordOf
  <2>2. ~ (u > 1114111) <=> b <= 16
    BY ONLY <1>0, <2>1, SMT
  <2>3. Surrogate(u) <=> b = 0 /\ c \in 216 .. 223
    BY ONLY <1>0, <2>1, SMT DEF Surrogate
  <2> QED
    BY ONLY <1>a, <1>0, <1>1, <2>1, <2>2, <2>3, SMT
<1> QED
  BY <1>2, <1>3

LEMMA Words32 ==
  ASSUME NEW t, OctetText(t), NEW little \in BOOLEAN, NEW i \in 1 .. Len(t) \div 4
  PROVE  UTF32Verdict(nativeUTF32Units(t, little)[i]) = "Success"
           <=> LET b == SubSeq(t, 4 * i - 3, 4 * i)
               IN  Scalar32(IF ~ little THEN << b[4], b[3], b[2], b[1] >> ELSE b)
<1>1. t \in Seq(Nat) /\ Len(t) \in Nat /\ \A j \in 1 .. Len(t) : t[j] \in Nat /\ t[j] <= 255
  BY LenProperties, ElementOfSeq DEF OctetText
<1>2. PICK n \in Nat : /\ n = Len(t) \div 4
                       /\ \A j \in 1 .. n : 4 * j - 3 \in 1 .. Len(t) /\ 4 * j - 2 \in 1 .. Len(t)
                                              /\ 4 * j - 1 \in 1 .. Len(t) /\ 4 * j \in 1 .. Len(t)
  BY ONLY <1>1, Halved
<1>3. i \in 1 .. n
  BY <1>2
<1> DEFINE B == BytesOf(t, 4, i, little)
           S == SubSeq(t, 4 * i - 3, 4 * i)
<1>4. nativeUTF32Units(t, little)[i] = WordOf(B[1], B[2], B[3], B[4])
  BY ONLY <1>2, <1>3 DEF nativeUTF32Units, WordOf
<1>5. 1 \in 1 .. 4 /\ 2 \in 1 .. 4 /\ 3 \in 1 .. 4 /\ 4 \in 1 .. 4
  BY SMT
<1>6. /\ 4 * i - 1 + 1 = 4 * i /\ 4 * i - 2 + 1 = 4 * i - 1 /\ 4 * i - 3 + 1 = 4 * i - 2 /\ 4 * i - 4 + 1 = 4 * i - 3
      /\ 4 * (i - 1) + 1 = 4 * i - 3 /\ 4 * (i - 1) + 2 = 4 * i - 2
      /\ 4 * (i - 1) + 3 = 4 * i - 1 /\ 4 * (i - 1) + 4 = 4 * i
  BY ONLY <1>3, SMT
<1>7. little => B[1] = t[4 * i] /\ B[2] = t[4 * i - 1] /\ B[3] = t[4 * i - 2] /\ B[4] = t[4 * i - 3]
  <2>1. little => /\ B[1] = t[4 * i - 1 + 1] /\ B[2] = t[4 * i - 2 + 1]
                  /\ B[3] = t[4 * i - 3 + 1] /\ B[4] = t[4 * i - 4 + 1]
    BY ONLY <1>5 DEF BytesOf
  <2> HIDE DEF B
  <2> QED
    BY ONLY <1>6, <2>1
<1>8. ~ little => B[1] = t[4 * i - 3] /\ B[2] = t[4 * i - 2] /\ B[3] = t[4 * i - 1] /\ B[4] = t[4 * i]
  <2>1. ~ little => /\ B[1] = t[4 * (i - 1) + 1] /\ B[2] = t[4 * (i - 1) + 2]
                    /\ B[3] = t[4 * (i - 1) + 3] /\ B[4] = t[4 * (i - 1) + 4]
    BY ONLY <1>5 DEF BytesOf
  <2> HIDE DEF B
  <2> QED
    BY ONLY <1>6, <2>1
<1>9. S[1] = t[4 * i - 3] /\ S[2] = t[4 * i - 2] /\ S[3] = t[4 * i - 1] /\ S[4] = t[4 * i]
  <2>1. 4 * i - 3 \in Nat /\ 1 <= 4 * i - 3 /\ 4 * i - 3 + 4 - 1 = 4 * i /\ 4 * i <= Len(t)
    BY ONLY <1>1, <1>2, <1>3, SMT
  <2>2. S = Piece(t, 4 * i - 3, 4)
    BY ONLY <2>1 DEF Piece
  <2>3. \A k \in 1 .. 4 : Piece(t, 4 * i - 3, 4)[k] = t[4 * i - 3 + k - 1]
    <3>1. PICK p \in Nat : p = 4 * i - 3
      BY ONLY <2>1
    <3>2. 1 <= p /\ p + 4 - 1 <= Len(t)
      BY ONLY <1>1, <2>1, <3>1, SMT
    <3>3. PICK w \in Nat : w = 4 /\ 1 <= w
      BY SMT
    <3>4. p + w - 1 <= Len(t)
      BY ONLY <3>2, <3>3
    <3>5. \A k \in 1 .. w : Piece(t, p, w)[k] = t[p + k - 1]
      BY ONLY <1>1, <3>2, <3>3, <3>4, p \in Nat, w \in Nat, PieceIs
    <3> QED
      BY ONLY <3>1, <3>3, <3>5
  <2>4. 4 * i - 3 + 1 - 1 = 4 * i - 3 /\ 4 * i - 3 + 2 - 1 = 4 * i - 2
        /\ 4 * i - 3 + 3 - 1 = 4 * i - 1 /\ 4 * i - 3 + 4 - 1 = 4 * i
    BY ONLY <1>3, SMT
  <2> HIDE DEF S
  <2> QED
    BY ONLY <1>5, <2>2, <2>3, <2>4
<1>10. \A k \in 1 .. 4 : B[k] \in Octets
  <2>0. \A j \in 1 .. Len(t) : t[j] \in Octets
    <3>1. \A x \in Nat : x <= 255 => x \in Octets
      BY SMT DEF Octets
    <3> QED
      BY ONLY <1>1, <3>1
  <2>1. /\ t[4 * i] \in Octets /\ t[4 * i - 1] \in Octets
        /\ t[4 * i - 2] \in Octets /\ t[4 * i - 3] \in Octets
    BY ONLY <1>2, <1>3, <2>0
  <2>2. \A k \in 1 .. 4 : k = 1 \/ k = 2 \/ k = 3 \/ k = 4
    BY SMT
  <2> HIDE DEF B
  <2> QED
    BY ONLY <1>7, <1>8, <2>1, <2>2
<1> HIDE DEF B, S
<1>11. UTF32Verdict(nativeUTF32Units(t, little)[i]) = "Success"
         <=> B[1] = 0 /\ B[2] <= 16 /\ (B[2] = 0 => B[3] \notin 216 .. 223)
  <2>1. B[1] \in Octets /\ B[2] \in Octets /\ B[3] \in Octets /\ B[4] \in Octets
    BY ONLY <1>5, <1>10
  <2> QED
    BY ONLY <1>4, <2>1, ScalarWord
<1>12. CASE little
  <2>1. Scalar32(S) <=> S[4] = 0 /\ S[3] <= 16 /\ (S[3] = 0 => S[2] \notin 216 .. 223)
    BY DEF Scalar32
  <2>2. S[4] = B[1] /\ S[3] = B[2] /\ S[2] = B[3]
    BY ONLY <1>7, <1>9, <1>12
  <2> QED
    BY ONLY <1>11, <1>12, <2>1, <2>2 DEF S
<1>13. CASE ~ little
  <2>1. Scalar32(<< S[4], S[3], S[2], S[1] >>)
          <=> S[1] = 0 /\ S[2] <= 16 /\ (S[2] = 0 => S[3] \notin 216 .. 223)
    BY DEF Scalar32
  <2>2. S[1] = B[1] /\ S[2] = B[2] /\ S[3] = B[3]
    BY ONLY <1>8, <1>9, <1>13
  <2> QED
    BY ONLY <1>11, <1>13, <2>1, <2>2 DEF S
<1> QED
  BY ONLY <1>12, <1>13

LEMMA Reads32 ==
  ASSUME NEW t, OctetText(t), NEW little \in BOOLEAN
  PROVE  Len(t) % 4 = 0 /\ validateUTF32(nativeUTF32Units(t, little)) <=> Readable32(t, ~ little)
<1>1. DOMAIN nativeUTF32Units(t, little) = 1 .. Len(t) \div 4
  BY DEF nativeUTF32Units
<1>2. validateUTF32(nativeUTF32Units(t, little))
        <=> \A i \in 1 .. Len(t) \div 4 : UTF32Verdict(nativeUTF32Units(t, little)[i]) = "Success"
  BY ONLY <1>1 DEF validateUTF32
<1>3. \A i \in 1 .. Len(t) \div 4 :
        UTF32Verdict(nativeUTF32Units(t, little)[i]) = "Success"
          <=> LET b == SubSeq(t, 4 * i - 3, 4 * i)
              IN  Scalar32(IF ~ little THEN << b[4], b[3], b[2], b[1] >> ELSE b)
  BY Words32
<1> QED
  BY ONLY <1>2, <1>3 DEF Readable32

-----------------------------------------------------------------------------
(* Marks *)

LEMMA MarksAre ==
  /\ DOMAIN MarkOf = {"UTF8", "UTF16LE", "UTF16BE", "UTF32LE", "UTF32BE"}
  /\ MarkOf["UTF8"] = << 239, 187, 191 >>
  /\ MarkOf["UTF16LE"] = << 255, 254 >> /\ MarkOf["UTF16BE"] = << 254, 255 >>
  /\ MarkOf["UTF32LE"] = << 255, 254, 0, 0 >> /\ MarkOf["UTF32BE"] = << 0, 0, 254, 255 >>
BY DEF MarkOf

LEMMA OpensIs ==
  ASSUME NEW t \in Seq(Nat), NEW m \in Seq(Nat)
  PROVE  Opens(t, m) <=> \A i \in DOMAIN m : i <= Len(t) /\ t[i] = m[i]
<1>1. PICK k \in Nat : k = Len(m)
  BY LenProperties
<1>2. PICK n \in Nat : n = Len(t)
  BY LenProperties
<1>3. DOMAIN m = 1 .. k
  BY <1>1, LenProperties
<1>4. ASSUME n >= k
      PROVE  /\ SubSeq(t, 1, k) \in Seq(Nat) /\ Len(SubSeq(t, 1, k)) = k
             /\ \A i \in 1 .. k : SubSeq(t, 1, k)[i] = t[i]
  <2>1. CASE k = 0
    <3>1. SubSeq(t, 1, 0) = << >> /\ Len(<< >>) = 0
      BY SMT
    <3>2. 1 .. 0 = {} /\ << >> \in Seq(Nat)
      BY SMT
    <3> QED
      BY ONLY <2>1, <3>1, <3>2
  <2>2. CASE k # 0
    <3>1. 1 \in 1 .. n + 1 /\ k \in 1 - 1 .. n /\ 1 \in Nat /\ 1 <= k /\ 1 + k - 1 <= n
      BY <1>4, <2>2, SMT
    <3>2. /\ Piece(t, 1, k) \in Seq(Nat) /\ Len(Piece(t, 1, k)) = k
          /\ \A i \in 1 .. k : Piece(t, 1, k)[i] = t[1 + i - 1]
      BY ONLY <1>2, <3>1, t \in Seq(Nat), k \in Nat, PieceIs
    <3>3. Piece(t, 1, k) = SubSeq(t, 1, k)
      <4>1. 1 + k - 1 = k
        BY SMT
      <4> QED
        BY ONLY <4>1 DEF Piece
    <3>4. \A i \in 1 .. k : 1 + i - 1 = i
      BY SMT
    <3> QED
      BY ONLY <3>2, <3>3, <3>4
  <2> QED
    BY <2>1, <2>2
<1>5. ASSUME Opens(t, m), NEW i \in 1 .. k
      PROVE  i <= n /\ t[i] = m[i]
  <2>1. n >= k /\ SubSeq(t, 1, k) = m
    BY ONLY <1>1, <1>2, <1>5 DEF Opens
  <2>2. SubSeq(t, 1, k)[i] = t[i]
    BY <1>4, <2>1
  <2>3. i <= n
    BY <2>1, SMT
  <2> QED
    BY ONLY <2>1, <2>2, <2>3
<1>6. ASSUME \A i \in 1 .. k : i <= n /\ t[i] = m[i]
      PROVE  Opens(t, m)
  <2>1. n >= k
    <3>1. k = 0 \/ k \in 1 .. k
      BY SMT
    <3>2. CASE k = 0
      BY ONLY <3>2, n \in Nat, SMT
    <3>3. CASE k \in 1 .. k
      <4>1. k <= n
        BY ONLY <1>6, <3>3
      <4> QED
        BY ONLY <4>1, k \in Nat, n \in Nat, SMT
    <3> QED
      BY ONLY <3>1, <3>2, <3>3
  <2>2. /\ SubSeq(t, 1, k) \in Seq(Nat) /\ Len(SubSeq(t, 1, k)) = k
        /\ \A i \in 1 .. k : SubSeq(t, 1, k)[i] = t[i]
    BY ONLY <1>4, <2>1
  <2>3. PICK s \in Seq(Nat) : s = SubSeq(t, 1, k)
    BY ONLY <2>2
  <2>4. Len(s) = Len(m) /\ \A i \in 1 .. Len(s) : s[i] = m[i]
    BY ONLY <1>1, <1>6, <2>2, <2>3
  <2>5. s = m
    BY ONLY <2>4, s \in Seq(Nat), m \in Seq(Nat), SeqEqual
  <2> QED
    BY ONLY <1>1, <1>2, <2>1, <2>3, <2>5 DEF Opens
<1> QED
  BY ONLY <1>2, <1>3, <1>5, <1>6

(* A text opens with a mark, as the code asks, just when it has the mark.  *)
LEMMA OpensMark ==
  ASSUME NEW t \in Seq(Nat)
  PROVE  /\ Opens(t, << 239, 187, 191 >>) <=> "UTF8" \in MarksOn(t)
         /\ Opens(t, << 255, 254 >>) <=> "UTF16LE" \in MarksOn(t)
         /\ Opens(t, << 254, 255 >>) <=> "UTF16BE" \in MarksOn(t)
         /\ Opens(t, << 255, 254, 0, 0 >>) <=> "UTF32LE" \in MarksOn(t)
         /\ Opens(t, << 0, 0, 254, 255 >>) <=> "UTF32BE" \in MarksOn(t)
<1>1. ASSUME NEW e \in DOMAIN MarkOf, MarkOf[e] \in Seq(Nat)
      PROVE  Opens(t, MarkOf[e]) <=> e \in MarksOn(t)
  <2>1. PICK m \in Seq(Nat) : m = MarkOf[e]
    BY <1>1
  <2>2. Opens(t, m) <=> \A i \in DOMAIN m : i <= Len(t) /\ t[i] = m[i]
    BY ONLY t \in Seq(Nat), m \in Seq(Nat), OpensIs
  <2> QED
    BY ONLY <2>1, <2>2, e \in DOMAIN MarkOf DEF MarksOn
<1>2. Opens(t, << 239, 187, 191 >>) <=> "UTF8" \in MarksOn(t)
  <2>1. "UTF8" \in DOMAIN MarkOf /\ MarkOf["UTF8"] = << 239, 187, 191 >>
    BY MarksAre
  <2>2. << 239, 187, 191 >> \in Seq(Nat)
    BY SMT
  <2>3. MarkOf["UTF8"] \in Seq(Nat)
    BY ONLY <2>1, <2>2
  <2>4. Opens(t, MarkOf["UTF8"]) <=> "UTF8" \in MarksOn(t)
    BY <1>1, <2>1, <2>3
  <2> QED
    BY ONLY <2>1, <2>4
<1>3. Opens(t, << 255, 254 >>) <=> "UTF16LE" \in MarksOn(t)
  <2>1. "UTF16LE" \in DOMAIN MarkOf /\ MarkOf["UTF16LE"] = << 255, 254 >>
    BY MarksAre
  <2>2. << 255, 254 >> \in Seq(Nat)
    BY SMT
  <2>3. MarkOf["UTF16LE"] \in Seq(Nat)
    BY ONLY <2>1, <2>2
  <2>4. Opens(t, MarkOf["UTF16LE"]) <=> "UTF16LE" \in MarksOn(t)
    BY <1>1, <2>1, <2>3
  <2> QED
    BY ONLY <2>1, <2>4
<1>4. Opens(t, << 254, 255 >>) <=> "UTF16BE" \in MarksOn(t)
  <2>1. "UTF16BE" \in DOMAIN MarkOf /\ MarkOf["UTF16BE"] = << 254, 255 >>
    BY MarksAre
  <2>2. << 254, 255 >> \in Seq(Nat)
    BY SMT
  <2>3. MarkOf["UTF16BE"] \in Seq(Nat)
    BY ONLY <2>1, <2>2
  <2>4. Opens(t, MarkOf["UTF16BE"]) <=> "UTF16BE" \in MarksOn(t)
    BY <1>1, <2>1, <2>3
  <2> QED
    BY ONLY <2>1, <2>4
<1>5. Opens(t, << 255, 254, 0, 0 >>) <=> "UTF32LE" \in MarksOn(t)
  <2>1. "UTF32LE" \in DOMAIN MarkOf /\ MarkOf["UTF32LE"] = << 255, 254, 0, 0 >>
    BY MarksAre
  <2>2. << 255, 254, 0, 0 >> \in Seq(Nat)
    BY SMT
  <2>3. MarkOf["UTF32LE"] \in Seq(Nat)
    BY ONLY <2>1, <2>2
  <2>4. Opens(t, MarkOf["UTF32LE"]) <=> "UTF32LE" \in MarksOn(t)
    BY <1>1, <2>1, <2>3
  <2> QED
    BY ONLY <2>1, <2>4
<1>6. Opens(t, << 0, 0, 254, 255 >>) <=> "UTF32BE" \in MarksOn(t)
  <2>1. "UTF32BE" \in DOMAIN MarkOf /\ MarkOf["UTF32BE"] = << 0, 0, 254, 255 >>
    BY MarksAre
  <2>2. << 0, 0, 254, 255 >> \in Seq(Nat)
    BY SMT
  <2>3. MarkOf["UTF32BE"] \in Seq(Nat)
    BY ONLY <2>1, <2>2
  <2>4. Opens(t, MarkOf["UTF32BE"]) <=> "UTF32BE" \in MarksOn(t)
    BY <1>1, <2>1, <2>3
  <2> QED
    BY ONLY <2>1, <2>4
<1> QED
  BY ONLY <1>2, <1>3, <1>4, <1>5, <1>6

(* Two marks on one text are those of UTF-16 and UTF-32, little-endian.    *)
LEMMA MarksApart ==
  ASSUME NEW t \in Seq(Nat)
  PROVE  /\ "UTF32LE" \in MarksOn(t) => "UTF16LE" \in MarksOn(t)
         /\ \A d \in MarksOn(t), e \in MarksOn(t) :
              d = e \/ (d \in {"UTF16LE", "UTF32LE"} /\ e \in {"UTF16LE", "UTF32LE"})
<1>1. "UTF32LE" \in MarksOn(t) => "UTF16LE" \in MarksOn(t)
  <2> SUFFICES ASSUME "UTF32LE" \in MarksOn(t) PROVE "UTF16LE" \in MarksOn(t)
    OBVIOUS
  <2>1. \A i \in DOMAIN << 255, 254, 0, 0 >> : i <= Len(t) /\ t[i] = << 255, 254, 0, 0 >>[i]
    BY MarksAre DEF MarksOn
  <2>2. 1 <= Len(t) /\ 2 <= Len(t) /\ t[1] = 255 /\ t[2] = 254
    BY ONLY <2>1
  <2>3. \A i \in DOMAIN << 255, 254 >> : i <= Len(t) /\ t[i] = << 255, 254 >>[i]
    BY ONLY <2>2
  <2> QED
    BY ONLY <2>3, MarksAre DEF MarksOn
<1>2. \A e \in MarksOn(t) : e \in DOMAIN MarkOf /\ t[1] = MarkOf[e][1]
  <2>1. \A e \in DOMAIN MarkOf : 1 \in DOMAIN MarkOf[e]
    BY MarksAre
  <2> QED
    BY ONLY <2>1 DEF MarksOn
<1>3. \A d \in DOMAIN MarkOf, e \in DOMAIN MarkOf : MarkOf[d][1] = MarkOf[e][1] =>
        d = e \/ (d \in {"UTF16LE", "UTF32LE"} /\ e \in {"UTF16LE", "UTF32LE"})
  <2>1. /\ MarkOf["UTF8"][1] = 239 /\ MarkOf["UTF16LE"][1] = 255 /\ MarkOf["UTF16BE"][1] = 254
        /\ MarkOf["UTF32LE"][1] = 255 /\ MarkOf["UTF32BE"][1] = 0
    BY MarksAre
  <2> QED
    BY ONLY <2>1, MarksAre, SMT
<1> QED
  BY ONLY <1>1, <1>2, <1>3

(* The bit of one encoding.                                                *)
LEMMA BitsOfOne ==
  /\ BitsOf({"UTF8"}) = UTF8 /\ BitsOf({"UTF16LE"}) = UTF16LE /\ BitsOf({"UTF16BE"}) = UTF16BE
  /\ BitsOf({"UTF32LE"}) = UTF32LE /\ BitsOf({"UTF32BE"}) = UTF32BE
<1>1. /\ BitOf["UTF8"] = 1 /\ BitOf["UTF16LE"] = 2 /\ BitOf["UTF16BE"] = 4
      /\ BitOf["UTF32LE"] = 8 /\ BitOf["UTF32BE"] = 16
  BY DEF BitOf
<1>2. BitsOf({"UTF8"}) = 1
  BY ONLY <1>1, SMT DEF BitsOf
<1>3. BitsOf({"UTF16LE"}) = 2
  BY ONLY <1>1, SMT DEF BitsOf
<1>4. BitsOf({"UTF16BE"}) = 4
  BY ONLY <1>1, SMT DEF BitsOf
<1>5. BitsOf({"UTF32LE"}) = 8
  BY ONLY <1>1, SMT DEF BitsOf
<1>6. BitsOf({"UTF32BE"}) = 16
  BY ONLY <1>1, SMT DEF BitsOf
<1> QED
  BY ONLY <1>2, <1>3, <1>4, <1>5, <1>6 DEF UTF8, UTF16LE, UTF16BE, UTF32LE, UTF32BE

Longest(M) == CHOOSE e \in M : \A d \in M : Len(MarkOf[d]) <= Len(MarkOf[e])

(* CheckBOM answers the longest mark of the text.                          *)
LEMMA MarkFound ==
  ASSUME NEW t \in Seq(Nat), NEW M, M = MarksOn(t)
  PROVE  IF M # {} THEN CheckBOM(t) = BitsOf({Longest(M)}) /\ CheckBOM(t) # Unspecified
                   ELSE CheckBOM(t) = Unspecified
<1>1. M \subseteq {"UTF8", "UTF16LE", "UTF16BE", "UTF32LE", "UTF32BE"}
  <2>1. \A x \in DOMAIN MarkOf : x \in {"UTF8", "UTF16LE", "UTF16BE", "UTF32LE", "UTF32BE"}
    BY MarksAre
  <2>2. \A x \in M : x \in DOMAIN MarkOf
    BY DEF MarksOn
  <2> QED
    BY ONLY <2>1, <2>2
<1>2. /\ "UTF32LE" \in M => "UTF16LE" \in M
      /\ \A d \in M, e \in M : d = e \/ (d \in {"UTF16LE", "UTF32LE"} /\ e \in {"UTF16LE", "UTF32LE"})
  BY ONLY M = MarksOn(t), t \in Seq(Nat), MarksApart
<1>3. PICK c : c = CheckBOM(t)
  OBVIOUS
<1>4. /\ Opens(t, << 239, 187, 191 >>) <=> "UTF8" \in M
      /\ Opens(t, << 255, 254 >>) <=> "UTF16LE" \in M
      /\ Opens(t, << 254, 255 >>) <=> "UTF16BE" \in M
      /\ Opens(t, << 255, 254, 0, 0 >>) <=> "UTF32LE" \in M
      /\ Opens(t, << 0, 0, 254, 255 >>) <=> "UTF32BE" \in M
  BY ONLY M = MarksOn(t), t \in Seq(Nat), OpensMark
<1>5. PICK E : E = Longest(M)
  OBVIOUS
<1>6. Len(MarkOf["UTF16LE"]) = 2 /\ Len(MarkOf["UTF32LE"]) = 4
  BY MarksAre
<1>7. ASSUME NEW e \in M, M = {e}
      PROVE  E = e
  <2>1. Len(MarkOf[e]) <= Len(MarkOf[e])
    <3>1. MarkOf[e] \in Seq(Nat)
      <4>1. e = "UTF32LE" => MarkOf[e] \in Seq(Nat)
        <5>1. << 255, 254, 0, 0 >> \in Seq(Nat)
          BY SMT
        <5>2. MarkOf["UTF32LE"] = << 255, 254, 0, 0 >>
          BY MarksAre
        <5> QED
          BY ONLY <5>1, <5>2
      <4>2. e = "UTF16LE" => MarkOf[e] \in Seq(Nat)
        <5>1. << 255, 254 >> \in Seq(Nat)
          BY SMT
        <5>2. MarkOf["UTF16LE"] = << 255, 254 >>
          BY MarksAre
        <5> QED
          BY ONLY <5>1, <5>2
      <4>3. e = "UTF16BE" => MarkOf[e] \in Seq(Nat)
        <5>1. << 254, 255 >> \in Seq(Nat)
          BY SMT
        <5>2. MarkOf["UTF16BE"] = << 254, 255 >>
          BY MarksAre
        <5> QED
          BY ONLY <5>1, <5>2
      <4>4. e = "UTF32BE" => MarkOf[e] \in Seq(Nat)
        <5>1. << 0, 0, 254, 255 >> \in Seq(Nat)
          BY SMT
        <5>2. MarkOf["UTF32BE"] = << 0, 0, 254, 255 >>
          BY MarksAre
        <5> QED
          BY ONLY <5>1, <5>2
      <4>5. e = "UTF8" => MarkOf[e] \in Seq(Nat)
        <5>1. << 239, 187, 191 >> \in Seq(Nat)
          BY SMT
        <5>2. MarkOf["UTF8"] = << 239, 187, 191 >>
          BY MarksAre
        <5> QED
          BY ONLY <5>1, <5>2
      <4> QED
        BY ONLY <1>1, <4>1, <4>2, <4>3, <4>4, <4>5, e \in M
    <3>2. PICK n \in Nat : n = Len(MarkOf[e])
      BY ONLY <3>1, LenProperties
    <3> QED
      BY ONLY <3>2, SMT
  <2>2. \A x \in M : x = e
    BY ONLY <1>7
  <2>3. \A d \in M : Len(MarkOf[d]) <= Len(MarkOf[e])
    BY ONLY <2>1, <2>2
  <2>4. Longest(M) \in M
    BY ONLY <2>3, e \in M DEF Longest
  <2> QED
    BY ONLY <1>5, <2>2, <2>4
<1>8. CASE "UTF32LE" \in M
  <2>1. M = {"UTF16LE", "UTF32LE"}
    <3>1. \A x \in M : x = "UTF32LE" \/ x = "UTF16LE"
      BY ONLY <1>2, <1>8
    <3> QED
      BY ONLY <1>2, <1>8, <3>1
  <2>2. /\ \A d \in M : Len(MarkOf[d]) <= Len(MarkOf["UTF32LE"])
        /\ ~ (Len(MarkOf["UTF32LE"]) <= Len(MarkOf["UTF16LE"]))
    <3>1. \A d \in M : d = "UTF16LE" \/ d = "UTF32LE"
      BY ONLY <2>1
    <3>2. PICK a, b : a = Len(MarkOf["UTF16LE"]) /\ b = Len(MarkOf["UTF32LE"])
      OBVIOUS
    <3>3. a <= b /\ b <= b /\ ~ (b <= a)
      BY ONLY <1>6, <3>2, SMT
    <3> QED
      BY ONLY <3>1, <3>2, <3>3
  <2>3. E = "UTF32LE"
    <3>1. E \in M /\ \A d \in M : Len(MarkOf[d]) <= Len(MarkOf[E])
      BY ONLY <1>5, <1>8, <2>2 DEF Longest
    <3>2. E # "UTF16LE"
      BY ONLY <1>8, <2>2, <3>1
    <3> QED
      BY ONLY <2>1, <3>1, <3>2
  <2>4. Opens(t, << 255, 254, 0, 0 >>) /\ ~ Opens(t, << 254, 255 >>) /\ ~ Opens(t, << 0, 0, 254, 255 >>)
        /\ ~ Opens(t, << 239, 187, 191 >>)
    <3>1. "UTF16BE" \notin M /\ "UTF32BE" \notin M /\ "UTF8" \notin M
      BY ONLY <2>1
    <3> QED
      BY ONLY <1>4, <1>8, <3>1
  <2>5. c = UTF32LE
    BY ONLY <1>3, <2>4 DEF CheckBOM
  <2>6. BitsOf({E}) = UTF32LE /\ UTF32LE # Unspecified
    BY ONLY <2>3, BitsOfOne DEF UTF32LE, Unspecified
  <2> QED
    BY ONLY <1>3, <1>5, <1>8, <2>5, <2>6
<1>9. CASE "UTF16LE" \in M /\ "UTF32LE" \notin M
  <2>1. M = {"UTF16LE"}
    <3>1. \A x \in M : x = "UTF16LE"
      BY ONLY <1>2, <1>9
    <3> QED
      BY ONLY <1>9, <3>1
  <2>2. E = "UTF16LE"
    BY <1>7, <1>9, <2>1
  <2>3. Opens(t, << 255, 254 >>)
        /\ ~ Opens(t, << 255, 254, 0, 0 >>) /\ ~ Opens(t, << 254, 255 >>)
        /\ ~ Opens(t, << 0, 0, 254, 255 >>) /\ ~ Opens(t, << 239, 187, 191 >>)
    <3>1. "UTF32LE" \notin M /\ "UTF16BE" \notin M /\ "UTF32BE" \notin M /\ "UTF8" \notin M
      BY ONLY <2>1
    <3> QED
      BY ONLY <1>4, <1>9, <3>1
  <2>4. c = UTF16LE
    BY ONLY <1>3, <2>3 DEF CheckBOM
  <2>5. BitsOf({E}) = UTF16LE /\ UTF16LE # Unspecified
    BY ONLY <2>2, BitsOfOne DEF UTF16LE, Unspecified
  <2> QED
    BY ONLY <1>3, <1>5, <1>9, <2>4, <2>5
<1>10. CASE "UTF16BE" \in M /\ "UTF32LE" \notin M
  <2>1. M = {"UTF16BE"}
    <3>1. \A x \in M : x = "UTF16BE"
      BY ONLY <1>2, <1>10
    <3> QED
      BY ONLY <1>10, <3>1
  <2>2. E = "UTF16BE"
    BY <1>7, <1>10, <2>1
  <2>3. Opens(t, << 254, 255 >>)
        /\ ~ Opens(t, << 255, 254, 0, 0 >>) /\ ~ Opens(t, << 255, 254 >>)
        /\ ~ Opens(t, << 0, 0, 254, 255 >>) /\ ~ Opens(t, << 239, 187, 191 >>)
    <3>1. "UTF32LE" \notin M /\ "UTF16LE" \notin M /\ "UTF32BE" \notin M /\ "UTF8" \notin M
      BY ONLY <2>1
    <3> QED
      BY ONLY <1>4, <1>10, <3>1
  <2>4. c = UTF16BE
    BY ONLY <1>3, <2>3 DEF CheckBOM
  <2>5. BitsOf({E}) = UTF16BE /\ UTF16BE # Unspecified
    BY ONLY <2>2, BitsOfOne DEF UTF16BE, Unspecified
  <2> QED
    BY ONLY <1>3, <1>5, <1>10, <2>4, <2>5
<1>11. CASE "UTF32BE" \in M /\ "UTF32LE" \notin M
  <2>1. M = {"UTF32BE"}
    <3>1. \A x \in M : x = "UTF32BE"
      BY ONLY <1>2, <1>11
    <3> QED
      BY ONLY <1>11, <3>1
  <2>2. E = "UTF32BE"
    BY <1>7, <1>11, <2>1
  <2>3. Opens(t, << 0, 0, 254, 255 >>)
        /\ ~ Opens(t, << 255, 254, 0, 0 >>) /\ ~ Opens(t, << 255, 254 >>)
        /\ ~ Opens(t, << 254, 255 >>) /\ ~ Opens(t, << 239, 187, 191 >>)
    <3>1. "UTF32LE" \notin M /\ "UTF16LE" \notin M /\ "UTF16BE" \notin M /\ "UTF8" \notin M
      BY ONLY <2>1
    <3> QED
      BY ONLY <1>4, <1>11, <3>1
  <2>4. c = UTF32BE
    BY ONLY <1>3, <2>3 DEF CheckBOM
  <2>5. BitsOf({E}) = UTF32BE /\ UTF32BE # Unspecified
    BY ONLY <2>2, BitsOfOne DEF UTF32BE, Unspecified
  <2> QED
    BY ONLY <1>3, <1>5, <1>11, <2>4, <2>5
<1>12. CASE "UTF8" \in M /\ "UTF32LE" \notin M
  <2>1. M = {"UTF8"}
    <3>1. \A x \in M : x = "UTF8"
      BY ONLY <1>2, <1>12
    <3> QED
      BY ONLY <1>12, <3>1
  <2>2. E = "UTF8"
    BY <1>7, <1>12, <2>1
  <2>3. Opens(t, << 239, 187, 191 >>)
        /\ ~ Opens(t, << 255, 254, 0, 0 >>) /\ ~ Opens(t, << 255, 254 >>)
        /\ ~ Opens(t, << 254, 255 >>) /\ ~ Opens(t, << 0, 0, 254, 255 >>)
    <3>1. "UTF32LE" \notin M /\ "UTF16LE" \notin M /\ "UTF16BE" \notin M /\ "UTF32BE" \notin M
      BY ONLY <2>1
    <3> QED
      BY ONLY <1>4, <1>12, <3>1
  <2>4. c = UTF8
    BY ONLY <1>3, <2>3 DEF CheckBOM
  <2>5. BitsOf({E}) = UTF8 /\ UTF8 # Unspecified
    BY ONLY <2>2, BitsOfOne DEF UTF8, Unspecified
  <2> QED
    BY ONLY <1>3, <1>5, <1>12, <2>4, <2>5
<1>13. CASE M = {}
  <2>1. ~ Opens(t, << 255, 254, 0, 0 >>) /\ ~ Opens(t, << 255, 254 >>)
        /\ ~ Opens(t, << 254, 255 >>) /\ ~ Opens(t, << 0, 0, 254, 255 >>) /\ ~ Opens(t, << 239, 187, 191 >>)
    BY ONLY <1>4, <1>13
  <2>2. c = Unspecified
    BY ONLY <1>3, <2>1 DEF CheckBOM
  <2> QED
    BY ONLY <1>3, <1>13, <2>2
<1>14. M # {} => "UTF32LE" \in M \/ \E e \in {"UTF16LE", "UTF16BE", "UTF32BE", "UTF8"} : e \in M
  BY ONLY <1>1
<1> QED
  BY ONLY <1>8, <1>9, <1>10, <1>11, <1>12, <1>13, <1>14

(* The bits of the three encodings that are looked for without a mark.     *)
LEMMA BitsOfThree ==
  ASSUME NEW S, S \subseteq {"UTF8", "UTF16LE", "UTF32LE"}
  PROVE  BitsOf(S) = (IF "UTF8" \in S THEN UTF8 ELSE 0) + (IF "UTF16LE" \in S THEN UTF16LE ELSE 0)
                       + (IF "UTF32LE" \in S THEN UTF32LE ELSE 0)
<1>1. BitOf["UTF8"] = 1 /\ BitOf["UTF16LE"] = 2 /\ BitOf["UTF32LE"] = 8
  BY DEF BitOf
<1>2. "UTF16BE" \notin S /\ "UTF32BE" \notin S
  OBVIOUS
<1>3. BitsOf(S) = (IF "UTF8" \in S THEN 1 ELSE 0) + (IF "UTF16LE" \in S THEN 2 ELSE 0)
                       + (IF "UTF32LE" \in S THEN 8 ELSE 0)
  BY ONLY <1>1, <1>2, SMT DEF BitsOf
<1> QED
  BY ONLY <1>3 DEF UTF8, UTF16LE, UTF32LE

(* DetectEncodings answers the encodings the bytes can be read in.         *)
LEMMA Detected ==
  ASSUME NEW t, OctetText(t), NEW bigEndian \in BOOLEAN
  PROVE  detectEncodings(t, ~ bigEndian) = BitsOf(ReadableAs(t, bigEndian))
<1>1. t \in Seq(Nat) /\ (~ bigEndian) \in BOOLEAN /\ (~ ~ bigEndian) = bigEndian
  BY DEF OctetText
<1>2. CASE MarksOn(t) # {}
  <2>1. PICK E : E = Longest(MarksOn(t))
    OBVIOUS
  <2>2. ReadableAs(t, bigEndian) = {E}
    BY ONLY <1>2, <2>1 DEF ReadableAs, Longest
  <2>3. CheckBOM(t) = BitsOf({E}) /\ CheckBOM(t) # Unspecified
    BY ONLY <1>1, <1>2, <2>1, MarkFound
  <2>4. detectEncodings(t, ~ bigEndian) = CheckBOM(t)
    BY ONLY <2>3 DEF detectEncodings
  <2> QED
    BY ONLY <2>2, <2>3, <2>4
<1>3. CASE MarksOn(t) = {}
  <2>1. CheckBOM(t) = Unspecified
    BY ONLY <1>1, <1>3, MarkFound
  <2>2. PICK A : A = validateUTF8(t)
    OBVIOUS
  <2>3. PICK B : B = (Len(t) % 2 = 0 /\ validateUTF16LE(nativeUTF16Units(t, ~ bigEndian), ~ bigEndian))
    OBVIOUS
  <2>4. PICK C : C = (Len(t) % 4 = 0 /\ validateUTF32(nativeUTF32Units(t, ~ bigEndian)))
    OBVIOUS
  <2>5. detectEncodings(t, ~ bigEndian)
          = (IF A THEN UTF8 ELSE 0) + (IF B THEN UTF16LE ELSE 0) + (IF C THEN UTF32LE ELSE 0)
    BY ONLY <2>1, <2>2, <2>3, <2>4 DEF detectEncodings
  <2>6. A = Reading("utf8", "utf8", t).whole
    BY ONLY <1>1, <2>2, Validates8
  <2>7. B <=> Readable16(t)
    BY ONLY <2>3, OctetText(t), (~ bigEndian) \in BOOLEAN, Reads16
  <2>8. C <=> Readable32(t, bigEndian)
    <3>1. PICK l \in BOOLEAN : l = ~ bigEndian
      OBVIOUS
    <3>2. Len(t) % 4 = 0 /\ validateUTF32(nativeUTF32Units(t, l)) <=> Readable32(t, ~ l)
      BY ONLY OctetText(t), l \in BOOLEAN, Reads32
    <3>3. (~ l) = bigEndian
      BY ONLY <3>1, bigEndian \in BOOLEAN
    <3> QED
      BY ONLY <2>4, <3>1, <3>2, <3>3
  <2>9. PICK S : S = ReadableAs(t, bigEndian)
    OBVIOUS
  <2>10. S = {e \in {"UTF8", "UTF16LE", "UTF32LE"} :
                CASE e = "UTF8"    -> Reading("utf8", "utf8", t).whole
                  [] e = "UTF16LE" -> Readable16(t)
                  [] e = "UTF32LE" -> Readable32(t, bigEndian)}
    BY ONLY <1>3, <2>9 DEF ReadableAs
  <2>11. /\ S \subseteq {"UTF8", "UTF16LE", "UTF32LE"}
         /\ ("UTF8" \in S <=> A) /\ ("UTF16LE" \in S <=> B) /\ ("UTF32LE" \in S <=> C)
    BY ONLY <2>6, <2>7, <2>8, <2>10
  <2>12. BitsOf(S) = (IF "UTF8" \in S THEN UTF8 ELSE 0) + (IF "UTF16LE" \in S THEN UTF16LE ELSE 0)
                       + (IF "UTF32LE" \in S THEN UTF32LE ELSE 0)
    BY ONLY <2>11, BitsOfThree
  <2> QED
    BY ONLY <2>5, <2>9, <2>11, <2>12
<1> QED
  BY ONLY <1>2, <1>3

(* The one encoding AutodetectEncoding picks of the sums that occur.       *)
LEMMA AutodetectOf ==
  /\ autodetectEncoding(0) = 0
  /\ autodetectEncoding(1) = 1
  /\ autodetectEncoding(2) = 2
  /\ autodetectEncoding(3) = 1
  /\ autodetectEncoding(4) = 4
  /\ autodetectEncoding(8) = 8
  /\ autodetectEncoding(9) = 1
  /\ autodetectEncoding(10) = 2
  /\ autodetectEncoding(11) = 1
  /\ autodetectEncoding(16) = 16
<1>1. \A n \in Nat : n \div 1 = n
  BY SMT
<1>2. autodetectEncoding(0) = 0
  <2>1. ~ Has(0, UTF8) /\ ~ Has(0, UTF16LE) /\ ~ Has(0, UTF32LE)
    BY SMT DEF Has, UTF8, UTF16LE, UTF32LE
  <2> QED
    BY ONLY <2>1 DEF autodetectEncoding, UTF8, UTF16LE, UTF32LE
<1>3. autodetectEncoding(1) = 1
  <2>1. Has(1, UTF8) /\ ~ Has(1, UTF16LE) /\ ~ Has(1, UTF32LE)
    BY SMT DEF Has, UTF8, UTF16LE, UTF32LE
  <2> QED
    BY ONLY <2>1 DEF autodetectEncoding, UTF8, UTF16LE, UTF32LE
<1>4. autodetectEncoding(2) = 2
  <2>1. ~ Has(2, UTF8) /\ Has(2, UTF16LE) /\ ~ Has(2, UTF32LE)
    BY SMT DEF Has, UTF8, UTF16LE, UTF32LE
  <2> QED
    BY ONLY <2>1 DEF autodetectEncoding, UTF8, UTF16LE, UTF32LE
<1>5. autodetectEncoding(3) = 1
  <2>1. Has(3, UTF8) /\ Has(3, UTF16LE) /\ ~ Has(3, UTF32LE)
    BY SMT DEF Has, UTF8, UTF16LE, UTF32LE
  <2> QED
    BY ONLY <2>1 DEF autodetectEncoding, UTF8, UTF16LE, UTF32LE
<1>6. autodetectEncoding(4) = 4
  <2>1. ~ Has(4, UTF8) /\ ~ Has(4, UTF16LE) /\ ~ Has(4, UTF32LE)
    BY SMT DEF Has, UTF8, UTF16LE, UTF32LE
  <2> QED
    BY ONLY <2>1 DEF autodetectEncoding, UTF8, UTF16LE, UTF32LE
<1>7. autodetectEncoding(8) = 8
  <2>1. ~ Has(8, UTF8) /\ ~ Has(8, UTF16LE) /\ Has(8, UTF32LE)
    BY SMT DEF Has, UTF8, UTF16LE, UTF32LE
  <2> QED
    BY ONLY <2>1 DEF autodetectEncoding, UTF8, UTF16LE, UTF32LE
<1>8. autodetectEncoding(9) = 1
  <2>1. Has(9, UTF8) /\ ~ Has(9, UTF16LE) /\ Has(9, UTF32LE)
    BY SMT DEF Has, UTF8, UTF16LE, UTF32LE
  <2> QED
    BY ONLY <2>1 DEF autodetectEncoding, UTF8, UTF16LE, UTF32LE
<1>9. autodetectEncoding(10) = 2
  <2>1. ~ Has(10, UTF8) /\ Has(10, UTF16LE) /\ Has(10, UTF32LE)
    BY SMT DEF Has, UTF8, UTF16LE, UTF32LE
  <2> QED
    BY ONLY <2>1 DEF autodetectEncoding, UTF8, UTF16LE, UTF32LE
<1>10. autodetectEncoding(11) = 1
  <2>1. Has(11, UTF8) /\ Has(11, UTF16LE) /\ Has(11, UTF32LE)
    BY SMT DEF Has, UTF8, UTF16LE, UTF32LE
  <2> QED
    BY ONLY <2>1 DEF autodetectEncoding, UTF8, UTF16LE, UTF32LE
<1>11. autodetectEncoding(16) = 16
  <2>1. ~ Has(16, UTF8) /\ ~ Has(16, UTF16LE) /\ ~ Has(16, UTF32LE)
    BY SMT DEF Has, UTF8, UTF16LE, UTF32LE
  <2> QED
    BY ONLY <2>1 DEF autodetectEncoding, UTF8, UTF16LE, UTF32LE
<1> QED
  BY ONLY <1>2, <1>3, <1>4, <1>5, <1>6, <1>7, <1>8, <1>9, <1>10, <1>11

(* The encoding picked is one the bytes can be read in, and UTF-8 if they  *)
(* can be read so.                                                         *)
Guess(n, R) ==
  IF R = {} THEN n = 0
  ELSE /\ \E e \in R : n = BitsOf({e})
       /\ "UTF8" \in R => n = BitsOf({"UTF8"})

LEMMA Autodetected ==
  ASSUME NEW t, OctetText(t), NEW bigEndian
  PROVE  Guess(autodetectEncoding(BitsOf(ReadableAs(t, bigEndian))), ReadableAs(t, bigEndian))
<1> SUFFICES ASSUME NEW R, R = ReadableAs(t, bigEndian),
                    NEW n, n = autodetectEncoding(BitsOf(R))
             PROVE  Guess(n, R)
  OBVIOUS
<1>1. PICK m : m = BitsOf(R) /\ n = autodetectEncoding(m)
  OBVIOUS
<1>2. /\ BitsOf({"UTF8"}) = 1 /\ BitsOf({"UTF16LE"}) = 2 /\ BitsOf({"UTF16BE"}) = 4
      /\ BitsOf({"UTF32LE"}) = 8 /\ BitsOf({"UTF32BE"}) = 16
  BY ONLY BitsOfOne DEF UTF8, UTF16LE, UTF16BE, UTF32LE, UTF32BE
<1>3. CASE MarksOn(t) # {}
  <2>1. PICK E : E = Longest(MarksOn(t))
    OBVIOUS
  <2>2. R = {E}
    BY ONLY <1>3, <2>1, R = ReadableAs(t, bigEndian) DEF ReadableAs, Longest
  <2>3. CheckBOM(t) = BitsOf({E}) /\ CheckBOM(t) # Unspecified
    BY ONLY <1>3, <2>1, OctetText(t), MarkFound DEF OctetText
  <2>4. \/ CheckBOM(t) = 1 \/ CheckBOM(t) = 2 \/ CheckBOM(t) = 4 \/ CheckBOM(t) = 8 \/ CheckBOM(t) = 16
    <3>1. CheckBOM(t) \in {UTF8, UTF16LE, UTF16BE, UTF32LE, UTF32BE, Unspecified}
      BY ONLY TRUE DEF CheckBOM
    <3> QED
      BY ONLY <2>3, <3>1 DEF UTF8, UTF16LE, UTF16BE, UTF32LE, UTF32BE
  <2>5. m = BitsOf({E})
    BY ONLY <1>1, <2>2
  <2>6. n = m
    BY ONLY <1>1, <2>3, <2>4, <2>5, AutodetectOf
  <2> QED
    BY ONLY <2>2, <2>5, <2>6 DEF Guess
<1>4. CASE MarksOn(t) = {}
  <2>1. R \subseteq {"UTF8", "UTF16LE", "UTF32LE"}
    BY ONLY <1>4, R = ReadableAs(t, bigEndian) DEF ReadableAs
  <2>2. m = (IF "UTF8" \in R THEN 1 ELSE 0) + (IF "UTF16LE" \in R THEN 2 ELSE 0)
              + (IF "UTF32LE" \in R THEN 8 ELSE 0)
    BY ONLY <1>1, <2>1, BitsOfThree DEF UTF8, UTF16LE, UTF32LE
  <2>3. "UTF8" \in R /\ "UTF16LE" \in R /\ "UTF32LE" \in R => m = 11
    BY ONLY <2>2, SMT
  <2>4. "UTF8" \in R /\ "UTF16LE" \in R /\ "UTF32LE" \notin R => m = 3
    BY ONLY <2>2, SMT
  <2>5. "UTF8" \in R /\ "UTF16LE" \notin R /\ "UTF32LE" \in R => m = 9
    BY ONLY <2>2, SMT
  <2>6. "UTF8" \in R /\ "UTF16LE" \notin R /\ "UTF32LE" \notin R => m = 1
    BY ONLY <2>2, SMT
  <2>7. "UTF8" \notin R /\ "UTF16LE" \in R /\ "UTF32LE" \in R => m = 10
    BY ONLY <2>2, SMT
  <2>8. "UTF8" \notin R /\ "UTF16LE" \in R /\ "UTF32LE" \notin R => m = 2
    BY ONLY <2>2, SMT
  <2>9. "UTF8" \notin R /\ "UTF16LE" \notin R /\ "UTF32LE" \in R => m = 8
    BY ONLY <2>2, SMT
  <2>10. "UTF8" \notin R /\ "UTF16LE" \notin R /\ "UTF32LE" \notin R => m = 0
    BY ONLY <2>2, SMT
  <2>11. /\ "UTF8" \in R => n = 1
         /\ "UTF8" \notin R /\ "UTF16LE" \in R => n = 2
         /\ "UTF8" \notin R /\ "UTF16LE" \notin R /\ "UTF32LE" \in R => n = 8
         /\ "UTF8" \notin R /\ "UTF16LE" \notin R /\ "UTF32LE" \notin R => n = 0
    BY ONLY <1>1, <2>3, <2>4, <2>5, <2>6, <2>7, <2>8, <2>9, <2>10, AutodetectOf
  <2> QED
    BY ONLY <1>2, <2>1, <2>11 DEF Guess
<1> QED
  BY ONLY <1>3, <1>4
=============================================================================
