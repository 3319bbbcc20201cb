-------------------------- MODULE Base64EncodeProofs --------------------------
(***************************************************************************)
(* The theorems of Base64Encode, for every input, block size and line      *)
(* width.  What a layout is says Laid; the three ways of breaking lines    *)
(* continue one (SplitLaid for a quartet, CopyLaid for a buffer), texts    *)
(* are as long as announced (TextOfType, PlainType), a layout of what is   *)
(* announced fits (LinesFit).  Inv says that what is written is a layout   *)
(* of what is announced for the bytes consumed, its last line of col.      *)
(* Spelled adds which text it is: the start of the canonical encoding,     *)
(* newlines apart, so the decoder reads back what was encoded.             *)
(***************************************************************************)
EXTENDS Base64Encode, ReferenceProofs

-----------------------------------------------------------------------------
(* Quotients *)

(* A quotient and remainder by any width are the only ones.                *)
LEMMA DivideOnce ==
  ASSUME NEW w \in Nat \ {0}, NEW q \in Nat, NEW r \in 0..(w - 1)
  PROVE  (w * q + r) \div w = q /\ (w * q + r) % w = r
<1> DEFINE a == w * q + r
           Q == a \div w
           R == a % w
<1>1. a \in Nat
  OBVIOUS
<1>2. Q \in Int /\ R \in 0..(w - 1) /\ a = w * Q + R
  <2> HIDE DEF a
  <2> QED BY <1>1
<1>3. w * Q + R = w * q + r
  BY <1>2
<1> HIDE DEF Q, R
<1>4. Q = q
  <2>1. ASSUME NEW x \in Int, NEW y \in Int, x + 1 <= y PROVE w * x + w <= w * y
    <3>1. w * (y - (x + 1)) >= 0
      BY <2>1
    <3>2. w * (y - (x + 1)) = w * y - w * x - w
      OBVIOUS
    <3>3. w * x \in Int /\ w * y \in Int
      OBVIOUS
    <3> QED
      BY <3>1, <3>2, <3>3
  <2>2. w * Q \in Int /\ w * q \in Int
    BY <1>2
  <2>3. ~ (q + 1 <= Q)
    BY <1>2, <1>3, <2>1, <2>2
  <2>4. ~ (Q + 1 <= q)
    BY <1>2, <1>3, <2>1, <2>2
  <2> QED
    BY <1>2, <2>3, <2>4
<1>5. R = r
  BY <1>2, <1>3, <1>4
<1> QED
  BY <1>4, <1>5 DEF Q, R

LEMMA Divided ==
  ASSUME NEW w \in Nat \ {0}, NEW a \in Nat
  PROVE  a \div w \in Nat /\ a % w \in 0..(w - 1) /\ a = w * (a \div w) + (a % w)
OBVIOUS

LEMMA NextRemainder ==
  ASSUME NEW w \in Nat \ {0}, NEW a \in Nat
  PROVE  (a + 1) % w = IF (a % w) + 1 = w THEN 0 ELSE (a % w) + 1
<1> DEFINE q == a \div w
           r == a % w
<1>1. q \in Nat /\ r \in 0..(w - 1) /\ a = w * q + r
  BY Divided
<1> HIDE DEF q, r
<1>2. CASE r + 1 = w
  <2>1. a + 1 = w * (q + 1) + 0
    BY <1>1, <1>2
  <2>2. (w * (q + 1) + 0) % w = 0
    BY <1>1, DivideOnce
  <2> QED
    BY <1>2, <2>1, <2>2 DEF r
<1>3. CASE r + 1 # w
  <2>1. a + 1 = w * q + (r + 1) /\ r + 1 \in 0..(w - 1)
    BY <1>1, <1>3
  <2>2. (w * q + (r + 1)) % w = r + 1
    BY <1>1, <2>1, DivideOnce
  <2> QED
    BY <1>3, <2>1, <2>2 DEF r
<1> QED
  BY <1>2, <1>3

LEMMA QuotientAtLeast ==
  ASSUME NEW w \in Nat \ {0}, NEW a \in Nat, NEW q \in Nat, w * q <= a
  PROVE  q <= a \div w
<1> DEFINE Q == a \div w
<1>1. Q \in Nat /\ a % w \in 0..(w - 1) /\ a = w * Q + (a % w)
  BY Divided
<1> HIDE DEF Q
<1> SUFFICES ASSUME Q + 1 <= q PROVE FALSE
  BY <1>1 DEF Q
<1>2. w * (q - (Q + 1)) >= 0
  BY <1>1
<1>3. w * (q - (Q + 1)) = w * q - w * Q - w
  BY <1>1
<1>4. w * q \in Nat /\ w * Q \in Nat
  BY <1>1
<1> QED
  BY <1>1, <1>2, <1>3, <1>4

-----------------------------------------------------------------------------
(* Texts joined end to end *)

(* g[k] joins the first k of the sequences.                                *)
Joins(g, seqs, k) ==
  g = [j \in 1..k |-> IF j = 1 THEN seqs[j] ELSE g[j - 1] \o seqs[j]]

LEMMA JoinExists ==
  ASSUME NEW seqs, NEW n \in Nat \ {0}
  PROVE  \E g : Joins(g, seqs, n)
<1> DEFINE Missing == {k \in 1..n : ~ \E g : Joins(g, seqs, k)}
<1> SUFFICES ASSUME Missing # {} PROVE FALSE
  OBVIOUS
<1>1. PICK m \in Missing : \A k \in Missing : m <= k
  <2>1. Missing \in SUBSET Nat
    OBVIOUS
  <2> HIDE DEF Missing
  <2> QED
    BY <2>1, LeastOf
<1>2. m \in 1..n /\ ~ \E g : Joins(g, seqs, m)
  BY <1>1
<1>3. m # 1
  <2>1. Joins([j \in 1..1 |-> seqs[j]], seqs, 1)
    BY DEF Joins
  <2> QED
    BY <1>2, <2>1
<1>4. m - 1 \in 1..n /\ m - 1 \notin Missing
  BY <1>1, <1>2, <1>3
<1>5. PICK g : Joins(g, seqs, m - 1)
  BY <1>4
<1> HIDE DEF Missing
<1>6. g = [j \in 1..(m - 1) |-> IF j = 1 THEN seqs[j] ELSE g[j - 1] \o seqs[j]]
  BY <1>5 DEF Joins
<1> DEFINE h == [j \in 1..m |-> IF j = m THEN g[m - 1] \o seqs[m] ELSE g[j]]
<1>7. \A j \in 1..(m - 1) : h[j] = g[j]
  BY <1>2
<1>8. h = [j \in 1..m |-> IF j = 1 THEN seqs[j] ELSE h[j - 1] \o seqs[j]]
  <2>1. ASSUME NEW j \in 1..m
        PROVE  h[j] = IF j = 1 THEN seqs[j] ELSE h[j - 1] \o seqs[j]
    <3>1. CASE j = m
      <4>1. m - 1 \in 1..(m - 1)
        BY <1>2, <1>3
      <4>2. h[m - 1] = g[m - 1]
        BY <1>7, <4>1
      <4>3. h[j] = g[m - 1] \o seqs[m]
        BY <3>1
      <4> QED
        BY <1>3, <3>1, <4>2, <4>3
    <3>2. CASE j # m
      <4>1. j \in 1..(m - 1) /\ (j # 1 => j - 1 \in 1..(m - 1))
        BY <1>2, <3>2
      <4>2. h[j] = g[j] /\ (j # 1 => h[j - 1] = g[j - 1])
        BY <1>7, <4>1
      <4>3. g[j] = IF j = 1 THEN seqs[j] ELSE g[j - 1] \o seqs[j]
        BY <1>6, <4>1
      <4> QED
        BY <4>2, <4>3
    <3> QED
      BY <3>1, <3>2
  <2>2. DOMAIN h = 1..m /\ h = [j \in 1..m |-> h[j]]
    OBVIOUS
  <2> HIDE DEF h
  <2> QED
    BY <2>1, <2>2
<1>9. Joins(h, seqs, m)
  BY <1>8 DEF Joins
<1> QED
  BY <1>2, <1>9

(* FlattenSeq joins its sequences one after the other.                     *)
LEMMA FlattenJoins ==
  ASSUME NEW S, NEW seqs \in Seq(Seq(S)), seqs # << >>
  PROVE  \E g \in [1..Len(seqs) -> Seq(S)] :
           /\ FlattenSeq(seqs) = g[Len(seqs)]
           /\ \A j \in 1..Len(seqs) : g[j] = IF j = 1 THEN seqs[j] ELSE g[j - 1] \o seqs[j]
<1> DEFINE n == Len(seqs)
           g == CHOOSE g : Joins(g, seqs, n)
<1>1. n \in Nat \ {0}
  BY EmptySeq, LenProperties
<1>2. \A j \in 1..n : seqs[j] \in Seq(S)
  BY ElementOfSeq
<1>3. FlattenSeq(seqs) = g[n]
  BY <1>1 DEF FlattenSeq, Joins
<1>4. Joins(g, seqs, n)
  BY <1>1, JoinExists
<1> HIDE DEF g
<1>5. DOMAIN g = 1..n /\ g = [j \in 1..n |-> g[j]]
      /\ \A j \in 1..n : g[j] = IF j = 1 THEN seqs[j] ELSE g[j - 1] \o seqs[j]
  BY <1>4 DEF Joins
<1> HIDE DEF n
<1> DEFINE Missing == {k \in 1..n : g[k] \notin Seq(S)}
<1>6. Missing = {}
  <2> SUFFICES ASSUME Missing # {} PROVE FALSE
    OBVIOUS
  <2>1. PICK m \in Missing : \A k \in Missing : m <= k
    <3>1. Missing \in SUBSET Nat
      BY <1>1
    <3> HIDE DEF Missing
    <3> QED
      BY <3>1, LeastOf
  <2>2. m \in 1..n /\ g[m] \notin Seq(S)
    BY <2>1
  <2>3. m # 1
    BY <1>2, <1>5, <2>2
  <2>4. m - 1 \in 1..n /\ m - 1 \notin Missing
    BY <1>1, <2>1, <2>2, <2>3
  <2>5. g[m - 1] \in Seq(S)
    BY <2>4
  <2>6. g[m] = g[m - 1] \o seqs[m]
    BY <1>5, <2>2, <2>3
  <2> QED
    BY <1>2, <2>2, <2>5, <2>6, ConcatProperties
<1>7. g \in [1..n -> Seq(S)]
  BY <1>5, <1>6
<1> QED
  BY <1>3, <1>5, <1>7 DEF n

-----------------------------------------------------------------------------
(* Lines *)

Glyphs == Char \ {Space}

(* d is laid out in lines of w characters: q of them were broken off, and  *)
(* the last holds r.                                                       *)
Laid(d, w, q, r) ==
  /\ d \in Seq(Char) /\ q \in Nat /\ r \in 0..w /\ (r = 0 => q = 0)
  /\ Len(d) = (w + 1) * q + r
  /\ \A k \in 1..Len(d) : d[k] = Space <=> k % (w + 1) = 0

LEMMA AppendedAt ==
  ASSUME NEW S, NEW a \in Seq(S), NEW b \in Seq(S)
  PROVE  /\ a \o b \in Seq(S) /\ Len(a) \in Nat /\ Len(b) \in Nat
         /\ Len(a \o b) = Len(a) + Len(b)
         /\ \A k \in 1..Len(a) : (a \o b)[k] = a[k]
         /\ \A k \in 1..Len(b) : (a \o b)[Len(a) + k] = b[k]
<1>1. Len(a) \in Nat /\ Len(b) \in Nat
  BY LenProperties
<1>2. /\ a \o b \in Seq(S) /\ Len(a \o b) = Len(a) + Len(b)
      /\ \A k \in 1..(Len(a) + Len(b)) :
           (a \o b)[k] = IF k <= Len(a) THEN a[k] ELSE b[k - Len(a)]
  BY ONLY ConcatProperties
<1>3. \A k \in 1..Len(a) : k \in 1..(Len(a) + Len(b)) /\ k <= Len(a)
  BY <1>1
<1>4. \A k \in 1..Len(b) : /\ Len(a) + k \in 1..(Len(a) + Len(b))
                           /\ ~ (Len(a) + k <= Len(a)) /\ (Len(a) + k) - Len(a) = k
  BY <1>1
<1> QED
  BY <1>1, <1>2, <1>3, <1>4

LEMMA Widened ==
  ASSUME NEW S, NEW T, S \subseteq T, NEW t \in Seq(S)
  PROVE  t \in Seq(T)
<1>1. \E n \in Nat : t \in [1..n -> S]
  BY ONLY t \in Seq(S), SeqDef
<1>2. PICK n \in Nat : t \in [1..n -> S]
  BY <1>1
<1>3. t \in [1..n -> T]
  BY <1>2
<1> QED
  BY ONLY <1>3, n \in Nat, SeqDef

LEMMA AppendedText ==
  \A a, b \in Seq(Char) :
    /\ a \o b \in Seq(Char) /\ Len(a) \in Nat /\ Len(b) \in Nat
    /\ Len(a \o b) = Len(a) + Len(b)
    /\ \A k \in 1..Len(a) : (a \o b)[k] = a[k]
    /\ \A k \in 1..Len(b) : (a \o b)[Len(a) + k] = b[k]
<1> SUFFICES ASSUME NEW a \in Seq(Char), NEW b \in Seq(Char)
    PROVE  /\ a \o b \in Seq(Char) /\ Len(a) \in Nat /\ Len(b) \in Nat
           /\ Len(a \o b) = Len(a) + Len(b)
           /\ \A k \in 1..Len(a) : (a \o b)[k] = a[k]
           /\ \A k \in 1..Len(b) : (a \o b)[Len(a) + k] = b[k]
  OBVIOUS
<1> QED
  BY AppendedAt

LEMMA TextsAssociate ==
  \A a, b, c \in Seq(Char) : a \o (b \o c) = (a \o b) \o c
<1> SUFFICES ASSUME NEW a \in Seq(Char), NEW b \in Seq(Char), NEW c \in Seq(Char)
    PROVE  a \o (b \o c) = (a \o b) \o c
  OBVIOUS
<1> QED
  BY ConcatAssociative

LEMMA RunLaid ==
  ASSUME NEW w \in Nat \ {0}, NEW d, NEW q, NEW r, Laid(d, w, q, r),
         NEW t \in Seq(Glyphs), Len(t) >= 1, r + Len(t) <= w
  PROVE  Laid(d \o t, w, q, r + Len(t))
<1> DEFINE e == d \o t
           m == Len(t)
<1>1. /\ d \in Seq(Char) /\ q \in Nat /\ r \in 0..w /\ (r = 0 => q = 0)
      /\ Len(d) = (w + 1) * q + r
      /\ \A k \in 1..Len(d) : d[k] = Space <=> k % (w + 1) = 0
  BY DEF Laid
<1>2. t \in Seq(Char) /\ m \in Nat /\ \A k \in 1..m : t[k] \in Glyphs
  BY ElementOfSeq, LenProperties, Widened, Glyphs \subseteq Char DEF Glyphs
<1>3. /\ e \in Seq(Char) /\ Len(d) \in Nat /\ Len(e) = Len(d) + m
      /\ \A k \in 1..Len(d) : e[k] = d[k]
      /\ \A k \in 1..m : e[Len(d) + k] = t[k]
  <2>1. d \in Seq(Char) /\ t \in Seq(Char)
    BY <1>1, <1>2
  <2> QED
    BY ONLY <2>1, AppendedText
<1> HIDE DEF e, m
<1>4. m >= 1 /\ r + m <= w
  BY DEF m
<1>5. ASSUME NEW j \in 1..m PROVE e[Len(d) + j] # Space /\ (Len(d) + j) % (w + 1) # 0
  <2>1. Len(d) + j = (w + 1) * q + (r + j) /\ r + j \in 1..w
    BY <1>1, <1>2, <1>4
  <2>2. ((w + 1) * q + (r + j)) % (w + 1) = r + j
    <3>1. w + 1 \in Nat \ {0} /\ r + j \in 0..((w + 1) - 1) /\ q \in Nat
      BY <1>1, <2>1
    <3> QED
      BY ONLY <3>1, DivideOnce
  <2>3. e[Len(d) + j] = t[j] /\ t[j] # Space
    BY <1>2, <1>3 DEF Glyphs
  <2> QED
    BY <2>1, <2>2, <2>3
<1>6. ASSUME NEW k \in 1..Len(e) PROVE e[k] = Space <=> k % (w + 1) = 0
  <2>1. CASE k \in 1..Len(d)
    BY <1>1, <1>3, <2>1
  <2>2. CASE k \notin 1..Len(d)
    <3>1. k - Len(d) \in 1..m /\ Len(d) + (k - Len(d)) = k
      BY <1>2, <1>3, <2>2
    <3>2. e[Len(d) + (k - Len(d))] # Space /\ (Len(d) + (k - Len(d))) % (w + 1) # 0
      BY <1>5, <3>1
    <3> QED
      BY <3>1, <3>2
  <2> QED
    BY <2>1, <2>2
<1>7. Len(e) = (w + 1) * q + (r + m) /\ r + m \in 1..w
  <2>1. (w + 1) * q \in Nat
    BY <1>1
  <2> QED
    BY <1>1, <1>2, <1>3, <1>4, <2>1
<1>8. Laid(e, w, q, r + m)
  BY <1>1, <1>3, <1>6, <1>7 DEF Laid
<1> QED
  BY <1>8 DEF e, m

LEMMA BreakLaid ==
  ASSUME NEW w \in Nat \ {0}, NEW d, NEW q, Laid(d, w, q, w),
         NEW t \in Seq(Glyphs), Len(t) \in 1..w
  PROVE  Laid(d \o (<<Space>> \o t), w, q + 1, Len(t))
<1> DEFINE s == <<Space>> \o t
           e == d \o s
           m == Len(t)
<1>1. /\ d \in Seq(Char) /\ q \in Nat /\ Len(d) = (w + 1) * q + w
      /\ \A k \in 1..Len(d) : d[k] = Space <=> k % (w + 1) = 0
  BY DEF Laid
<1>2. t \in Seq(Char) /\ m \in Nat /\ \A k \in 1..m : t[k] \in Glyphs
  BY ElementOfSeq, LenProperties, Widened, Glyphs \subseteq Char DEF Glyphs
<1>3. <<Space>> \in Seq(Char) /\ Len(<<Space>>) = 1 /\ <<Space>>[1] = Space
  BY DEF Space, Char
<1>4. /\ s \in Seq(Char) /\ Len(s) = 1 + m /\ s[1] = Space
      /\ \A k \in 1..m : s[1 + k] = t[k]
  BY <1>2, <1>3, AppendedText
<1> HIDE DEF s
<1>5. /\ e \in Seq(Char) /\ Len(d) \in Nat /\ Len(e) = Len(d) + (1 + m)
      /\ \A k \in 1..Len(d) : e[k] = d[k]
      /\ \A k \in 1..(1 + m) : e[Len(d) + k] = s[k]
  <2>1. d \in Seq(Char) /\ s \in Seq(Char) /\ Len(s) = 1 + m
    BY <1>1, <1>4
  <2>2. e = d \o s
    OBVIOUS
  <2> HIDE DEF e
  <2>3. /\ d \o s \in Seq(Char) /\ Len(d) \in Nat /\ Len(d \o s) = Len(d) + Len(s)
        /\ \A k \in 1..Len(d) : (d \o s)[k] = d[k]
        /\ \A k \in 1..Len(s) : (d \o s)[Len(d) + k] = s[k]
    BY ONLY <2>1, AppendedText
  <2> QED
    BY ONLY <2>1, <2>2, <2>3
<1> HIDE DEF e, m
<1>6. m \in 1..w
  BY DEF m
<1>7. e[Len(d) + 1] = Space /\ (Len(d) + 1) % (w + 1) = 0
  <2>1. e[Len(d) + 1] = Space
    BY <1>2, <1>4, <1>5
  <2>2. Len(d) + 1 = (w + 1) * (q + 1) + 0
    BY <1>1
  <2>3. ((w + 1) * (q + 1) + 0) % (w + 1) = 0
    <3>1. w + 1 \in Nat \ {0} /\ 0 \in 0..((w + 1) - 1) /\ q + 1 \in Nat
      BY <1>1
    <3> QED
      BY ONLY <3>1, DivideOnce
  <2> QED
    BY <2>1, <2>2, <2>3
<1>8. ASSUME NEW j \in 1..m
      PROVE  e[Len(d) + (1 + j)] # Space /\ (Len(d) + (1 + j)) % (w + 1) # 0
  <2>1. Len(d) + (1 + j) = (w + 1) * (q + 1) + j /\ j \in 1..w
    BY <1>1, <1>2, <1>6
  <2>2. ((w + 1) * (q + 1) + j) % (w + 1) = j
    <3>1. w + 1 \in Nat \ {0} /\ j \in 0..((w + 1) - 1) /\ q + 1 \in Nat
      BY <1>1, <2>1
    <3> QED
      BY ONLY <3>1, DivideOnce
  <2>3. e[Len(d) + (1 + j)] = t[j] /\ t[j] # Space
    <3>1. 1 + j \in 1..(1 + m)
      BY <1>2
    <3> QED
      BY <1>2, <1>4, <1>5, <3>1 DEF Glyphs
  <2> QED
    BY <2>1, <2>2, <2>3
<1>9. ASSUME NEW k \in 1..Len(e) PROVE e[k] = Space <=> k % (w + 1) = 0
  <2>1. CASE k \in 1..Len(d)
    BY <1>1, <1>5, <2>1
  <2>2. CASE k = Len(d) + 1
    BY <1>7, <2>2
  <2>3. CASE k \notin 1..Len(d) /\ k # Len(d) + 1
    <3>1. k - Len(d) - 1 \in 1..m /\ Len(d) + (1 + (k - Len(d) - 1)) = k
      <4> DEFINE a == Len(d)
      <4>1. a \in Nat /\ m \in Nat /\ k \in 1..(a + (1 + m)) /\ k \notin 1..a /\ k # a + 1
        BY <1>2, <1>5, <2>3
      <4> HIDE DEF a
      <4>2. k - a - 1 \in 1..m /\ a + (1 + (k - a - 1)) = k
        BY ONLY <4>1
      <4> QED
        BY <4>2 DEF a
    <3>2. /\ e[Len(d) + (1 + (k - Len(d) - 1))] # Space
          /\ (Len(d) + (1 + (k - Len(d) - 1))) % (w + 1) # 0
      BY <1>8, <3>1
    <3> QED
      BY <3>1, <3>2
  <2> QED
    BY <2>1, <2>2, <2>3
<1>10. Len(e) = (w + 1) * (q + 1) + m
  <2>1. (w + 1) * q \in Nat /\ (w + 1) * (q + 1) = (w + 1) * q + w + 1
    BY <1>1
  <2> QED
    BY <1>1, <1>2, <1>5, <2>1
<1>11. Laid(e, w, q + 1, m)
  BY <1>1, <1>5, <1>6, <1>9, <1>10 DEF Laid
<1> QED
  BY <1>11 DEF e, s, m

(* One character more, on this line or on a new one.                       *)
LEMMA OneMoreLaid ==
  ASSUME NEW w \in Nat \ {0}, NEW d, NEW q, NEW r, Laid(d, w, q, r), NEW c \in Glyphs
  PROVE  /\ r # w => Laid(d \o <<c>>, w, q, r + 1)
         /\ r = w => Laid(d \o <<Space, c>>, w, q + 1, 1)
<1> DEFINE t == <<c>>
<1>1. t \in Seq(Glyphs) /\ Len(t) = 1
  OBVIOUS
<1>2. r \in 0..w
  BY DEF Laid
<1>3. <<Space>> \o t = <<Space, c>>
  <2> DEFINE a == <<Space>>
             b == <<Space, c>>
  <2>1. /\ a \in Seq(Char) /\ b \in Seq(Char) /\ t \in Seq(Char)
        /\ Len(a) = 1 /\ Len(b) = 2 /\ Len(t) = 1
        /\ a[1] = Space /\ b[1] = Space /\ b[2] = c /\ t[1] = c
    BY DEF Glyphs, Space, Char
  <2> HIDE DEF a, b, t
  <2>2. /\ a \o t \in Seq(Char) /\ Len(a \o t) = 2
        /\ (a \o t)[1] = a[1] /\ (a \o t)[2] = t[1]
    <3>1. /\ a \o t \in Seq(Char) /\ Len(a \o t) = Len(a) + Len(t)
          /\ \A k \in 1..Len(a) : (a \o t)[k] = a[k]
          /\ \A k \in 1..Len(t) : (a \o t)[Len(a) + k] = t[k]
      BY ONLY <2>1, AppendedText
    <3>2. 1 \in 1..Len(a) /\ 1 \in 1..Len(t) /\ Len(a) + 1 = 2 /\ Len(a) + Len(t) = 2
      BY <2>1
    <3> QED
      BY ONLY <3>1, <3>2
  <2>3. ASSUME NEW k \in 1..2 PROVE (a \o t)[k] = b[k]
    <3>1. k = 1 \/ k = 2
      OBVIOUS
    <3> QED
      BY <2>1, <2>2, <3>1
  <2>4. a \o t = b
    BY ONLY <2>1, <2>2, <2>3, SeqEqual
  <2> QED
    BY <2>4 DEF a, b
<1> HIDE DEF t
<1>4. CASE r # w
  <2>1. Len(t) >= 1 /\ r + Len(t) <= w
    BY <1>1, <1>2, <1>4
  <2> QED
    BY <1>1, <1>4, <2>1, RunLaid DEF t
<1>5. CASE r = w
  <2>1. Len(t) \in 1..w
    BY <1>1
  <2> QED
    BY <1>1, <1>3, <1>5, <2>1, BreakLaid DEF t
<1> QED
  BY <1>4, <1>5

(* A text copied out character after character, from column r: a newline   *)
(* before each character that finds its line full.                         *)
Spaced(t, w, r) ==
  [k \in DOMAIN t |-> IF r + k - 1 > 0 /\ (r + k - 1) % w = 0
                      THEN <<Space, t[k]>> ELSE <<t[k]>>]

LEMMA SpacedType ==
  ASSUME NEW w \in Nat \ {0}, NEW r \in Nat, NEW t \in Seq(Glyphs)
  PROVE  Spaced(t, w, r) \in Seq(Seq(Char)) /\ Len(Spaced(t, w, r)) = Len(t)
<1>1. Len(t) \in Nat /\ DOMAIN t = 1..Len(t) /\ \A k \in 1..Len(t) : t[k] \in Glyphs
  BY ElementOfSeq, LenProperties
<1>2. \A c \in Glyphs : <<c>> \in Seq(Char) /\ <<Space, c>> \in Seq(Char)
  BY DEF Glyphs, Space, Char
<1>3. Spaced(t, w, r) \in [1..Len(t) -> Seq(Char)]
  BY <1>1, <1>2 DEF Spaced
<1>4. Spaced(t, w, r) \in Seq(Seq(Char))
  BY ONLY <1>1, <1>3, SeqDef
<1>5. DOMAIN Spaced(t, w, r) = 1..Len(Spaced(t, w, r)) /\ Len(Spaced(t, w, r)) \in Nat
  BY ONLY <1>4, LenProperties
<1> QED
  BY <1>1, <1>3, <1>4, <1>5

(* What the copy loop writes continues the layout.                         *)
LEMMA CopyLaid ==
  ASSUME NEW w \in Nat \ {0}, NEW d, NEW q, NEW r, Laid(d, w, q, r),
         NEW t \in Seq(Glyphs), Len(t) >= 1
  PROVE  \E p \in Nat :
           /\ Laid(d \o FlattenSeq(Spaced(t, w, r)), w, p, ((r + Len(t) - 1) % w) + 1)
           /\ w * p + (((r + Len(t) - 1) % w) + 1) = w * q + r + Len(t)
<1> DEFINE n == Len(t)
           s == Spaced(t, w, r)
           after(k) == IF k = 0 THEN r ELSE ((r + k - 1) % w) + 1
<1>1. n \in Nat \ {0} /\ DOMAIN t = 1..n /\ \A k \in 1..n : t[k] \in Glyphs
  BY ElementOfSeq, LenProperties
<1>2. r \in 0..w /\ q \in Nat /\ d \in Seq(Char)
  BY DEF Laid
<1>3. s \in Seq(Seq(Char)) /\ Len(s) = n
  BY <1>2, SpacedType
<1>4. \A k \in 1..n : s[k] = IF r + k - 1 > 0 /\ (r + k - 1) % w = 0
                             THEN <<Space, t[k]>> ELSE <<t[k]>>
  BY <1>1 DEF Spaced
<1>5. ASSUME NEW k \in 1..n
      PROVE  /\ after(k - 1) \in 0..w
             /\ r + k - 1 > 0 /\ (r + k - 1) % w = 0 <=> after(k - 1) = w
             /\ after(k) = IF after(k - 1) = w THEN 1 ELSE after(k - 1) + 1
  <2>1. CASE k = 1
    <3>1. r % w = IF r = w THEN 0 ELSE r
      <4>1. r = w => w * 1 + 0 = r
        OBVIOUS
      <4>2. (w * 1 + 0) % w = 0
        BY ONLY DivideOnce, w \in Nat \ {0}, 1 \in Nat, 0 \in 0..(w - 1)
      <4>3. r # w => r % w = r
        BY <1>2
      <4> QED
        BY <4>1, <4>2, <4>3
    <3>2. after(k - 1) = r /\ r + k - 1 = r /\ after(k) = (r % w) + 1
      BY <1>2, <2>1
    <3> QED
      BY <1>2, <3>1, <3>2
  <2>2. CASE k # 1
    <3>1. r + k - 2 \in Nat /\ k - 1 # 0 /\ k # 0 /\ (r + k - 2) + 1 = r + k - 1
          /\ r + (k - 1) - 1 = r + k - 2
      BY <1>2, <2>2
    <3>2. (r + k - 1) % w = IF ((r + k - 2) % w) + 1 = w THEN 0 ELSE ((r + k - 2) % w) + 1
      BY <3>1, NextRemainder
    <3>3. (r + k - 2) % w \in 0..(w - 1)
      BY <3>1, Divided
    <3>4. after(k - 1) = ((r + k - 2) % w) + 1 /\ after(k) = ((r + k - 1) % w) + 1
      BY <3>1
    <3>5. r + k - 1 > 0
      BY <3>1
    <3> HIDE DEF after
    <3> DEFINE x == (r + k - 2) % w
               y == (r + k - 1) % w
    <3>6. /\ x \in 0..(w - 1) /\ y = IF x + 1 = w THEN 0 ELSE x + 1
          /\ after(k - 1) = x + 1 /\ after(k) = y + 1
      BY <3>2, <3>3, <3>4
    <3> HIDE DEF x, y
    <3>7. /\ after(k - 1) \in 0..w
          /\ y = 0 <=> after(k - 1) = w
          /\ after(k) = IF after(k - 1) = w THEN 1 ELSE after(k - 1) + 1
      BY <3>6
    <3> QED
      BY <3>5, <3>7 DEF y
  <2> QED
    BY <2>1, <2>2
<1>6. s # << >>
  BY <1>1, <1>3
<1>7. PICK g \in [1..Len(s) -> Seq(Char)] :
        /\ FlattenSeq(s) = g[Len(s)]
        /\ \A j \in 1..Len(s) : g[j] = IF j = 1 THEN s[j] ELSE g[j - 1] \o s[j]
  BY ONLY <1>3, <1>6, FlattenJoins
<1>8. \A k \in 1..n : g[k] \in Seq(Char) /\ s[k] \in Seq(Char)
  BY <1>3, <1>7, ElementOfSeq
<1> HIDE DEF after, s, n
<1> DEFINE Goes(k) == \E p \in Nat : /\ Laid(d \o g[k], w, p, after(k))
                                     /\ w * p + after(k) = w * q + r + k
           Missing == {k \in 1..n : ~ Goes(k)}
<1>9. Missing = {}
  <2> SUFFICES ASSUME Missing # {} PROVE FALSE
    OBVIOUS
  <2>1. PICK m \in Missing : \A k \in Missing : m <= k
    <3>1. Missing \in SUBSET Nat
      BY <1>1
    <3> HIDE DEF Missing
    <3> QED
      BY <3>1, LeastOf
  <2>2. m \in 1..n
    BY <2>1
  <2>3. ~ Goes(m)
    BY <2>1
  <2>4. m # 1 => m - 1 \in 1..n /\ Goes(m - 1)
    <3>1. m # 1 => m - 1 \in 1..n /\ ~ (m <= m - 1)
      BY <1>1, <2>2
    <3>2. m # 1 => m - 1 \notin Missing
      BY <2>1, <3>1
    <3> HIDE DEF Goes
    <3> QED
      BY <3>1, <3>2
  <2>5. \E e, p : /\ p \in Nat /\ Laid(e, w, p, after(m - 1)) /\ d \o g[m] = e \o s[m]
                  /\ w * p + after(m - 1) = w * q + r + (m - 1)
    <3>1. CASE m = 1
      <4>1. g[m] = s[m]
        BY <1>3, <1>7, <2>2, <3>1
      <4>2. after(m - 1) = r
        BY <3>1 DEF after
      <4>3. w * q + r = w * q + r + (m - 1)
        BY <1>2, <3>1
      <4> QED
        BY <1>2, <4>1, <4>2, <4>3
    <3>2. CASE m # 1
      <4>1. g[m] = g[m - 1] \o s[m]
        BY <1>3, <1>7, <2>2, <3>2
      <4>2. m - 1 \in 1..n
        BY <2>4, <3>2
      <4>3. d \o g[m] = (d \o g[m - 1]) \o s[m]
        <5>1. g[m - 1] \in Seq(Char) /\ s[m] \in Seq(Char) /\ d \in Seq(Char)
          BY <1>2, <1>8, <2>2, <4>2
        <5>2. d \o (g[m - 1] \o s[m]) = (d \o g[m - 1]) \o s[m]
          BY ONLY <5>1, TextsAssociate
        <5> QED
          BY ONLY <4>1, <5>2
      <4>4. PICK p \in Nat : /\ Laid(d \o g[m - 1], w, p, after(m - 1))
                             /\ w * p + after(m - 1) = w * q + r + (m - 1)
        BY <2>4, <3>2
      <4> QED
        BY <4>3, <4>4
    <3> QED
      BY <3>1, <3>2
  <2>6. PICK e, p : /\ p \in Nat /\ Laid(e, w, p, after(m - 1)) /\ d \o g[m] = e \o s[m]
                    /\ w * p + after(m - 1) = w * q + r + (m - 1)
    BY <2>5
  <2>7. /\ after(m - 1) \in 0..w
        /\ after(m) = IF after(m - 1) = w THEN 1 ELSE after(m - 1) + 1
        /\ s[m] = IF after(m - 1) = w THEN <<Space, t[m]>> ELSE <<t[m]>>
    BY <1>4, <1>5, <2>2
  <2>8. t[m] \in Glyphs
    BY <1>1, <2>2
  <2>9. CASE after(m - 1) = w
    <3>1. Laid(e \o s[m], w, p + 1, after(m))
      BY <2>6, <2>7, <2>8, <2>9, OneMoreLaid
    <3>2. w * (p + 1) + after(m) = w * q + r + m
      <4> DEFINE x == w * p
                 y == w * q
                 u == after(m - 1)
                 v == after(m)
      <4>1. x \in Nat /\ y \in Nat /\ u = w /\ v = 1 /\ x + u = y + r + (m - 1)
        BY <1>2, <2>6, <2>7, <2>9
      <4>2. m \in Int /\ r \in Int /\ w * (p + 1) = x + w
        BY <1>1, <1>2, <2>2, <2>6
      <4> HIDE DEF x, y, u, v
      <4>3. (x + w) + v = y + r + m
        BY ONLY <4>1, <4>2, w \in Nat
      <4> QED
        BY <4>2, <4>3 DEF y, v
    <3>3. p + 1 \in Nat /\ Laid(d \o g[m], w, p + 1, after(m))
      BY <2>6, <3>1
    <3>4. Goes(m)
      BY ONLY <3>2, <3>3
    <3> QED
      BY ONLY <2>3, <3>4
  <2>10. CASE after(m - 1) # w
    <3>1. Laid(e \o s[m], w, p, after(m))
      <4>1. after(m) = after(m - 1) + 1 /\ s[m] = <<t[m]>>
        BY <2>7, <2>10
      <4>2. Laid(e \o <<t[m]>>, w, p, after(m - 1) + 1)
        BY <2>6, <2>8, <2>10, OneMoreLaid
      <4> QED
        BY ONLY <4>1, <4>2
    <3>2. w * p + after(m) = w * q + r + m
      <4> DEFINE x == w * p
                 y == w * q
                 u == after(m - 1)
                 v == after(m)
      <4>1. x \in Nat /\ y \in Nat /\ u \in Nat /\ v = u + 1 /\ x + u = y + r + (m - 1)
        BY <1>2, <2>6, <2>7, <2>10
      <4>2. m \in Int /\ r \in Int
        BY <1>1, <1>2, <2>2
      <4> HIDE DEF x, y, u, v
      <4>3. x + v = y + r + m
        BY ONLY <4>1, <4>2
      <4> QED
        BY <4>3 DEF x, y, v
    <3>3. p \in Nat /\ Laid(d \o g[m], w, p, after(m))
      BY <2>6, <3>1
    <3>4. Goes(m)
      BY ONLY <3>2, <3>3
    <3> QED
      BY ONLY <2>3, <3>4
  <2> QED
    BY <2>9, <2>10
<1>10. Goes(n)
  BY <1>1, <1>9
<1>11. FlattenSeq(s) = g[n] /\ after(n) = ((r + n - 1) % w) + 1
  BY <1>1, <1>3, <1>7 DEF after
<1> QED
  BY <1>10, <1>11 DEF s, n

(* A text broken where its line is full, as the tail encoder writes it.    *)
SplitAt(t, left) ==
  IF left < Len(t)
  THEN SubSeq(t, 1, left) \o <<Space>> \o SubSeq(t, left + 1, Len(t))
  ELSE t

LEMMA SplitLaid ==
  ASSUME NEW w \in Nat \ {0}, NEW d, NEW q, NEW r, Laid(d, w, q, r),
         NEW t \in Seq(Glyphs), Len(t) \in 1..w
  PROVE  \E p \in Nat, c \in Nat :
           /\ c = IF w - r < Len(t) THEN Len(t) - (w - r) ELSE r + Len(t)
           /\ Laid(d \o SplitAt(t, w - r), w, p, c)
           /\ w * p + c = w * q + r + Len(t)
<1> DEFINE n == Len(t)
           left == w - r
<1>1. n \in 1..w /\ \A k \in 1..n : t[k] \in Glyphs
  BY ElementOfSeq, LenProperties
<1>2. r \in 0..w /\ q \in Nat /\ d \in Seq(Char) /\ left \in 0..w /\ w * q \in Nat
  BY DEF Laid
<1> HIDE DEF n, left
<1>3. CASE ~ (left < n)
  <2>1. n >= 1 /\ r + n <= w
    BY <1>1, <1>2, <1>3 DEF left
  <2>2. Laid(d \o t, w, q, r + n)
    BY <2>1, RunLaid DEF n
  <2>3. SplitAt(t, left) = t
    BY <1>3 DEF SplitAt, n
  <2>4. r + n \in Nat /\ w * q + (r + n) = w * q + r + n
    BY <1>1, <1>2
  <2>5. /\ r + n = IF left < n THEN n - left ELSE r + n
        /\ Laid(d \o SplitAt(t, left), w, q, r + n)
    BY <1>3, <2>2, <2>3
  <2> QED
    BY ONLY <1>2, <2>4, <2>5 DEF n, left
<1>4. CASE left < n
  <2> DEFINE a == SubSeq(t, 1, left)
             b == SubSeq(t, left + 1, n)
  <2>1. a \in Seq(Glyphs) /\ Len(a) = left
    <3>1. 1 \in Int /\ left \in Int /\ \A k \in 1..left : t[k] \in Glyphs
      BY <1>1, <1>2, <1>4
    <3>2. a \in Seq(Glyphs) /\ Len(a) = IF 1 <= left THEN left - 1 + 1 ELSE 0
      BY ONLY <3>1, SubSeqProperties
    <3> HIDE DEF a
    <3> QED
      BY <1>2, <3>2
  <2>2. b \in Seq(Glyphs) /\ Len(b) = n - left
    <3>1. left + 1 \in Int /\ n \in Int /\ left + 1 <= n /\ \A k \in (left + 1)..n : t[k] \in Glyphs
      BY <1>1, <1>2, <1>4
    <3>2. b \in Seq(Glyphs) /\ Len(b) = IF left + 1 <= n THEN n - (left + 1) + 1 ELSE 0
      BY ONLY <3>1, SubSeqProperties
    <3> HIDE DEF b
    <3> QED
      BY <1>2, <3>1, <3>2
  <2>3. SplitAt(t, left) = (a \o <<Space>>) \o b
    BY <1>4 DEF SplitAt, n
  <2>4. n - left \in 1..w
    BY <1>1, <1>2, <1>4
  <2> HIDE DEF a, b
  <2>5. /\ a \in Seq(Char) /\ b \in Seq(Char) /\ <<Space>> \in Seq(Char)
        /\ <<Space>> \o b \in Seq(Char)
    <3>1. Glyphs \subseteq Char
      BY DEF Glyphs
    <3>2. a \in Seq(Char) /\ b \in Seq(Char)
      BY ONLY <2>1, <2>2, <3>1, Widened
    <3>3. <<Space>> \in Seq(Char)
      BY DEF Space, Char
    <3> QED
      BY ONLY <3>2, <3>3, AppendedText
  <2>6. d \o SplitAt(t, left) = (d \o a) \o (<<Space>> \o b)
    <3>1. (a \o <<Space>>) \o b = a \o (<<Space>> \o b)
      BY ONLY <2>5, TextsAssociate
    <3>2. d \o (a \o (<<Space>> \o b)) = (d \o a) \o (<<Space>> \o b)
      BY ONLY <1>2, <2>5, TextsAssociate
    <3> QED
      BY ONLY <2>3, <3>1, <3>2
  <2>7. Laid(d \o a, w, q, w)
    <3>1. CASE left = 0
      <4>1. a = << >> /\ r = w
        BY <1>2, <2>1, <3>1, EmptySeq DEF left
      <4>2. d \o << >> = d
        BY ONLY <1>2, ConcatEmptySeq
      <4> QED
        BY <4>1, <4>2
    <3>2. CASE left # 0
      <4>1. Len(a) >= 1 /\ r + Len(a) = w
        BY <1>2, <2>1, <3>2 DEF left
      <4>2. Laid(d \o a, w, q, r + Len(a))
        BY <2>1, <4>1, RunLaid
      <4> QED
        BY <4>1, <4>2
    <3> QED
      BY <3>1, <3>2
  <2>8. Laid((d \o a) \o (<<Space>> \o b), w, q + 1, n - left)
    BY <2>2, <2>4, <2>7, BreakLaid
  <2>9. /\ q + 1 \in Nat /\ n - left \in Nat
        /\ w * (q + 1) + (n - left) = w * q + r + n
    <3>1. w * (q + 1) = w * q + w
      BY <1>2
    <3> QED
      BY <1>1, <1>2, <2>4, <3>1 DEF left
  <2>10. n - left = IF left < n THEN n - left ELSE r + n
    BY <1>4
  <2> QED
    BY ONLY <2>6, <2>8, <2>9, <2>10 DEF n, left
<1> QED
  BY <1>3, <1>4

-----------------------------------------------------------------------------
(* Quartets *)

LEMMA SpellType ==
  ASSUME NEW options, NEW v \in 0..63
  PROVE  Spell(options, v) \in Glyphs
BY DEF Spell, Glyphs, Char, Space

LEMMA OuterSextets == \A x \in 0..255 : x \div 4 \in 0..63 /\ x % 64 \in 0..63
OBVIOUS

LEMMA SecondSextet == \A x, y \in 0..255 : (x % 4) * 16 + (y \div 16) \in 0..63
<1> TAKE x, y \in 0..255
<1>1. x % 4 \in 0..3 /\ y \div 16 \in 0..15
  OBVIOUS
<1> QED
  BY <1>1

LEMMA ThirdSextet == \A x, y \in 0..255 : (x % 16) * 4 + (y \div 64) \in 0..63
<1> TAKE x, y \in 0..255
<1>1. x % 16 \in 0..15 /\ y \div 64 \in 0..3
  OBVIOUS
<1> QED
  BY <1>1

(* A quartet is as long as announced, and has no whitespace in it.         *)
LEMMA TextOfType ==
  ASSUME NEW b \in Seq(0..255), Len(b) \in 1..3, NEW options
  PROVE  /\ TextOf(b, options) \in Seq(Glyphs)
         /\ Len(TextOf(b, options)) = LengthFromBinary(Len(b), options)
         /\ Len(TextOf(b, options)) \in 1..4
<1> DEFINE n == Len(b)
           byte(k) == IF k <= Len(b) THEN b[k] ELSE 0
           values  == << byte(1) \div 4,
                         (byte(1) % 4) * 16 + (byte(2) \div 16),
                         (byte(2) % 16) * 4 + (byte(3) \div 64),
                         byte(3) % 64 >>
           text    == [k \in 1..(n + 1) |-> Spell(options, values[k])]
           pads    == [k \in 1..(3 - n) |-> Pad]
<1>1. n \in 1..3 /\ \A k \in 1..n : b[k] \in 0..255
  BY ElementOfSeq
<1>2. byte(1) \in 0..255 /\ byte(2) \in 0..255 /\ byte(3) \in 0..255
  BY <1>1
<1> HIDE DEF n, byte
<1>3. \A k \in 1..4 : values[k] \in 0..63
  <2>1. /\ byte(1) \div 4 \in 0..63 /\ byte(3) % 64 \in 0..63
        /\ (byte(1) % 4) * 16 + (byte(2) \div 16) \in 0..63
        /\ (byte(2) % 16) * 4 + (byte(3) \div 64) \in 0..63
    <3>1. byte(1) \in 0..255
      BY <1>2
    <3>2. byte(2) \in 0..255
      BY <1>2
    <3>3. byte(3) \in 0..255
      BY <1>2
    <3>4. byte(1) \div 4 \in 0..63
      BY ONLY <3>1, OuterSextets, Zenon
    <3>5. byte(3) % 64 \in 0..63
      BY ONLY <3>3, OuterSextets, Zenon
    <3>6. (byte(1) % 4) * 16 + (byte(2) \div 16) \in 0..63
      BY ONLY <3>1, <3>2, SecondSextet, Zenon
    <3>7. (byte(2) % 16) * 4 + (byte(3) \div 64) \in 0..63
      BY ONLY <3>2, <3>3, ThirdSextet, Zenon
    <3> QED
      BY ONLY <3>4, <3>5, <3>6, <3>7
  <2>2. /\ values[1] = byte(1) \div 4
        /\ values[2] = (byte(1) % 4) * 16 + (byte(2) \div 16)
        /\ values[3] = (byte(2) % 16) * 4 + (byte(3) \div 64)
        /\ values[4] = byte(3) % 64
    OBVIOUS
  <2> HIDE DEF values
  <2>3. /\ values[1] \in 0..63 /\ values[2] \in 0..63
        /\ values[3] \in 0..63 /\ values[4] \in 0..63
    BY ONLY <2>1, <2>2
  <2> SUFFICES ASSUME NEW k \in 1..4 PROVE values[k] \in 0..63
    OBVIOUS
  <2>4. k = 1 \/ k = 2 \/ k = 3 \/ k = 4
    OBVIOUS
  <2> QED
    BY ONLY <2>3, <2>4
<1> HIDE DEF values
<1>4. text \in Seq(Glyphs) /\ Len(text) = n + 1
  <2>1. n + 1 \in Nat /\ \A k \in 1..(n + 1) : k \in 1..4
    BY <1>1
  <2>2. text \in [1..(n + 1) -> Glyphs]
    BY <1>3, <2>1, SpellType
  <2>3. DOMAIN text = 1..(n + 1)
    OBVIOUS
  <2> HIDE DEF text
  <2>4. text \in Seq(Glyphs)
    BY ONLY <2>1, <2>2, SeqDef
  <2> QED
    BY <2>1, <2>3, <2>4, LenProperties
<1>5. pads \in Seq(Glyphs) /\ Len(pads) = 3 - n
  <2>1. 3 - n \in Nat /\ Pad \in Glyphs
    BY <1>1 DEF Pad, Glyphs, Space, Char
  <2>2. pads \in [1..(3 - n) -> Glyphs]
    BY <2>1
  <2>3. DOMAIN pads = 1..(3 - n)
    OBVIOUS
  <2> HIDE DEF pads
  <2>4. pads \in Seq(Glyphs)
    BY ONLY <2>1, <2>2, SeqDef
  <2> QED
    BY <2>1, <2>3, <2>4, LenProperties
<1>6. TextOf(b, options) = IF UsePadding(options) THEN text \o pads ELSE text
  BY DEF TextOf, n, byte, values
<1> HIDE DEF text, pads
<1>7. text \o pads \in Seq(Glyphs) /\ Len(text \o pads) = Len(text) + Len(pads)
  BY ONLY <1>4, <1>5, AppendedAt
<1>8. LengthFromBinary(n, options) = IF UsePadding(options) THEN 4 ELSE n + 1
  <2>1. n = 1 \/ n = 2 \/ n = 3
    BY <1>1
  <2> QED
    BY <2>1 DEF LengthFromBinary
<1>9. CASE UsePadding(options)
  <2>1. Len(text) + Len(pads) = 4
    BY <1>1, <1>4, <1>5
  <2> QED
    BY <1>6, <1>7, <1>8, <1>9, <2>1 DEF n
<1>10. CASE ~ UsePadding(options)
  <2>1. n + 1 \in 1..4
    BY <1>1
  <2> QED
    BY <1>4, <1>6, <1>8, <1>10, <2>1 DEF n
<1> QED
  BY <1>9, <1>10

-----------------------------------------------------------------------------
(* Lengths *)

(* Whole groups of three bytes add whole quartets.                         *)
LEMMA LengthSplits ==
  ASSUME NEW k \in Nat, NEW m \in Nat, NEW options
  PROVE  /\ LengthFromBinary(3 * k + m, options) = 4 * k + LengthFromBinary(m, options)
         /\ LengthFromBinary(m, options) \in Nat
         /\ LengthFromBinary(0, options) = 0
<1>1. (3 * k + m) \div 3 = k + (m \div 3) /\ (3 * k + m) % 3 = m % 3
  OBVIOUS
<1>2. ((3 * k + m) + 2) \div 3 = k + ((m + 2) \div 3)
  OBVIOUS
<1>3. m \div 3 \in Nat /\ (m + 2) \div 3 \in Nat /\ m % 3 \in 0..2
  OBVIOUS
<1>4. LengthFromBinary(0, options) = 0
  BY DEF LengthFromBinary
<1>5. CASE UsePadding(options)
  BY <1>2, <1>3, <1>4, <1>5 DEF LengthFromBinary
<1>6. CASE ~ UsePadding(options)
  <2> DEFINE e == IF m % 3 = 0 THEN 0 ELSE (m % 3) + 1
  <2>1. e \in Nat
    BY <1>3
  <2>2. LengthFromBinary(3 * k + m, options) = ((3 * k + m) \div 3) * 4 + e
    BY <1>1, <1>6 DEF LengthFromBinary
  <2>3. LengthFromBinary(m, options) = (m \div 3) * 4 + e
    BY <1>6 DEF LengthFromBinary
  <2> HIDE DEF e
  <2> QED
    BY <1>1, <1>3, <1>4, <2>1, <2>2, <2>3
<1> QED
  BY <1>5, <1>6

(* More bytes never need fewer characters, and 3 bytes never more than 4.  *)
LEMMA LengthBounds ==
  ASSUME NEW m \in Nat, NEW options
  PROVE  /\ 3 * LengthFromBinary(m, options) <= 4 * (m + 2)
         /\ m > 0 => LengthFromBinary(m, options) > 0
<1>1. m \div 3 \in Nat /\ (m + 2) \div 3 \in Nat /\ m % 3 \in 0..2
      /\ m = 3 * (m \div 3) + (m % 3) /\ 3 * ((m + 2) \div 3) <= m + 2
      /\ m <= 3 * ((m + 2) \div 3)
  OBVIOUS
<1>2. CASE UsePadding(options)
  BY <1>1, <1>2 DEF LengthFromBinary
<1>3. CASE ~ UsePadding(options)
  <2> DEFINE e == IF m % 3 = 0 THEN 0 ELSE (m % 3) + 1
             a == m \div 3
             b == m % 3
  <2>1. LengthFromBinary(m, options) = a * 4 + e
    BY <1>3 DEF LengthFromBinary
  <2>2. /\ e = IF b = 0 THEN 0 ELSE b + 1
        /\ a \in Nat /\ b \in 0..2 /\ m = 3 * a + b
    BY <1>1
  <2> HIDE DEF e, a, b
  <2> QED
    BY <2>1, <2>2
<1> QED
  BY <1>2, <1>3

(* The lengths of sequences joined end to end, all but the last of length 4. *)
LEMMA QuartetsAddUp ==
  ASSUME NEW c \in Nat \ {0}, NEW total \in [1..c -> Nat], NEW part \in [1..c -> Nat],
         total[1] = part[1],
         \A j \in 2..c : total[j] = total[j - 1] + part[j],
         \A j \in 1..(c - 1) : part[j] = 4
  PROVE  total[c] = 4 * (c - 1) + part[c]
<1> DEFINE Missing == {j \in 1..(c - 1) : total[j] # 4 * j}
<1>1. Missing = {}
  <2> SUFFICES ASSUME Missing # {} PROVE FALSE
    OBVIOUS
  <2>1. PICK m \in Missing : \A k \in Missing : m <= k
    <3>1. Missing \in SUBSET Nat
      OBVIOUS
    <3> HIDE DEF Missing
    <3> QED
      BY <3>1, LeastOf
  <2>2. m \in 1..(c - 1) /\ total[m] # 4 * m
    BY <2>1
  <2>3. m # 1
    BY <2>2
  <2>4. m \in 2..c /\ m - 1 \in 1..(c - 1) /\ m - 1 \notin Missing
    BY <2>1, <2>2, <2>3
  <2>5. total[m - 1] = 4 * (m - 1)
    BY <2>4
  <2>6. total[m] = total[m - 1] + part[m] /\ part[m] = 4
    BY <2>2, <2>4
  <2> QED
    BY <2>2, <2>5, <2>6
<1>2. CASE c = 1
  BY <1>2
<1>3. CASE c # 1
  <2>1. \A j \in 1..(c - 1) : total[j] = 4 * j
    BY <1>1
  <2>2. c - 1 \in 1..(c - 1) /\ c \in 2..c
    BY <1>3
  <2>3. total[c - 1] = 4 * (c - 1) /\ total[c] = total[c - 1] + part[c]
    BY <2>1, <2>2
  <2> QED
    BY <2>3
<1> QED
  BY <1>2, <1>3

(* The plain encoding of n bytes is as long as announced for n.            *)
LEMMA PlainType ==
  ASSUME call.input \in Seq(0..255), NEW from \in Nat, NEW n \in Nat,
         from + n <= Len(call.input)
  PROVE  /\ Plain(from, n) \in Seq(Glyphs)
         /\ Len(Plain(from, n)) = LengthFromBinary(n, call.options)
<1> DEFINE c == (n + 2) \div 3
           size(q) == IF 3 * q <= n THEN 3 ELSE n - 3 * (q - 1)
           s == [q \in 1..c |-> TextOf(Bytes(from + 3 * (q - 1), size(q)), call.options)]
           lfb(m) == LengthFromBinary(m, call.options)
<1>1. Plain(from, n) = FlattenSeq(s)
  BY DEF Plain
<1>2. c \in Nat /\ 3 * c <= n + 2 /\ n <= 3 * c
  OBVIOUS
<1> HIDE DEF c
<1>3. ASSUME NEW q \in 1..c
      PROVE  /\ size(q) \in 1..3 /\ 3 * (q - 1) \in Nat /\ 3 * (q - 1) + size(q) <= n
             /\ q # c => size(q) = 3
             /\ q = c => size(q) = n - 3 * (c - 1)
  BY <1>2
<1> HIDE DEF size
<1>4. ASSUME NEW q \in 1..c
      PROVE  s[q] \in Seq(Glyphs) /\ Len(s[q]) = lfb(size(q)) /\ Len(s[q]) \in Nat
  <2> DEFINE b == Bytes(from + 3 * (q - 1), size(q))
  <2>1. b \in Seq(0..255) /\ Len(b) = size(q)
    <3> DEFINE lo == from + 3 * (q - 1) + 1
               hi == from + 3 * (q - 1) + size(q)
    <3>1. lo \in Nat /\ hi \in Nat /\ lo >= 1 /\ lo <= hi /\ hi <= from + n
          /\ hi - lo + 1 = size(q)
      <4> DEFINE x == size(q)
                 y == 3 * (q - 1)
      <4>1. x \in 1..3 /\ y \in Nat /\ y + x <= n
        BY <1>3
      <4>2. lo = from + y + 1 /\ hi = from + y + x
        OBVIOUS
      <4> HIDE DEF x, y, lo, hi
      <4>3. /\ lo \in Nat /\ hi \in Nat /\ lo >= 1 /\ lo <= hi /\ hi <= from + n
            /\ hi - lo + 1 = x
        BY <4>1, <4>2
      <4> QED
        BY <4>3 DEF x
    <3>2. b = SubSeq(call.input, lo, hi)
      BY DEF Bytes
    <3> HIDE DEF lo, hi
    <3>3. \A k \in 1..Len(call.input) : call.input[k] \in 0..255
      BY ElementOfSeq
    <3>4. Len(call.input) \in Nat
      BY LenProperties
    <3>5. \A k \in lo..hi : k \in 1..Len(call.input)
      BY <3>1, <3>4
    <3>6. lo \in Int /\ hi \in Int /\ \A k \in lo..hi : call.input[k] \in 0..255
      BY <3>1, <3>3, <3>5
    <3>7. /\ SubSeq(call.input, lo, hi) \in Seq(0..255)
          /\ Len(SubSeq(call.input, lo, hi)) = IF lo <= hi THEN hi - lo + 1 ELSE 0
      BY ONLY <3>6, SubSeqProperties
    <3> QED
      BY ONLY <3>1, <3>2, <3>7
  <2>2. s[q] = TextOf(b, call.options)
    OBVIOUS
  <2> HIDE DEF b, s
  <2>3. Len(b) \in 1..3
    BY <1>3, <2>1
  <2>4. /\ TextOf(b, call.options) \in Seq(Glyphs)
        /\ Len(TextOf(b, call.options)) = LengthFromBinary(Len(b), call.options)
        /\ Len(TextOf(b, call.options)) \in 1..4
    BY ONLY <2>1, <2>3, TextOfType
  <2> QED
    BY <2>1, <2>2, <2>4
<1>5. DOMAIN s = 1..c
  OBVIOUS
<1>6. s \in Seq(Seq(Glyphs)) /\ Len(s) = c
  <2>1. s = [q \in 1..c |-> s[q]]
    OBVIOUS
  <2> HIDE DEF s, lfb
  <2>2. s \in [1..c -> Seq(Glyphs)]
    BY <1>4, <1>5, <2>1
  <2>3. s \in Seq(Seq(Glyphs))
    BY ONLY <1>2, <2>2, SeqDef
  <2> QED
    BY <1>2, <1>5, <2>3, LenProperties
<1> HIDE DEF s
<1>7. CASE n = 0
  <2>1. c = 0
    BY <1>2, <1>7
  <2>2. s = << >> /\ Len(s) = 0
    BY <1>6, <2>1, EmptySeq
  <2>3. FlattenSeq(s) = << >>
    BY <2>2 DEF FlattenSeq
  <2> QED
    BY <1>1, <1>7, <2>3, LengthSplits, EmptySeq
<1>8. CASE n # 0
  <2>1. c \in Nat \ {0} /\ s # << >>
    BY <1>2, <1>6, <1>8, EmptySeq
  <2>2. PICK g \in [1..c -> Seq(Glyphs)] :
          /\ FlattenSeq(s) = g[c]
          /\ \A j \in 1..c : g[j] = IF j = 1 THEN s[j] ELSE g[j - 1] \o s[j]
    <3>1. \E g \in [1..Len(s) -> Seq(Glyphs)] :
            /\ FlattenSeq(s) = g[Len(s)]
            /\ \A j \in 1..Len(s) : g[j] = IF j = 1 THEN s[j] ELSE g[j - 1] \o s[j]
      BY ONLY <1>6, <2>1, FlattenJoins
    <3>2. Len(s) = c
      BY <1>6
    <3> QED
      BY ONLY <3>1, <3>2
  <2>3. \A j \in 1..c : g[j] \in Seq(Glyphs) /\ Len(g[j]) \in Nat
    BY <2>2, LenProperties
  <2>4. \A j \in 1..c : Len(g[j]) = IF j = 1 THEN Len(s[j]) ELSE Len(g[j - 1]) + Len(s[j])
    <3> SUFFICES ASSUME NEW j \in 1..c
                 PROVE  Len(g[j]) = IF j = 1 THEN Len(s[j]) ELSE Len(g[j - 1]) + Len(s[j])
      OBVIOUS
    <3>1. CASE j = 1
      BY <2>2, <3>1
    <3>2. CASE j # 1
      <4>0. j - 1 \in 1..c
        BY <2>1, <3>2
      <4>1. j - 1 \in 1..c /\ g[j] = g[j - 1] \o s[j]
        BY <2>2, <3>2, <4>0
      <4>2. g[j - 1] \in Seq(Glyphs) /\ s[j] \in Seq(Glyphs)
        BY <1>4, <2>3, <4>1
      <4>3. Len(g[j - 1] \o s[j]) = Len(g[j - 1]) + Len(s[j])
        BY ONLY <4>2, AppendedAt
      <4> QED
        BY <3>2, <4>1, <4>3
    <3> QED
      BY <3>1, <3>2
  <2>5. lfb(3) = 4
    <3>1. (3 + 2) \div 3 = 1 /\ 3 \div 3 = 1 /\ 3 % 3 = 0
      OBVIOUS
    <3> QED
      BY <3>1 DEF LengthFromBinary
  <2> HIDE DEF lfb
  <2>6. \A j \in 1..c : j # c => Len(s[j]) = 4
    BY <1>3, <1>4, <2>5
  <2>7. Len(g[c]) = 4 * (c - 1) + Len(s[c])
    <3> DEFINE total == [j \in 1..c |-> Len(g[j])]
               part  == [j \in 1..c |-> Len(s[j])]
    <3>1. total \in [1..c -> Nat] /\ part \in [1..c -> Nat]
      BY <1>4, <2>3
    <3>2. 1 \in 1..c /\ c \in 1..c /\ \A j \in 1..(c - 1) : j \in 1..c /\ j # c
      BY <2>1
    <3>3. \A j \in 2..c : j \in 1..c /\ j # 1 /\ j - 1 \in 1..c
      BY <2>1
    <3>4. total[1] = part[1] /\ \A j \in 1..(c - 1) : part[j] = 4
      BY <2>4, <2>6, <3>2
    <3>5. \A j \in 2..c : total[j] = total[j - 1] + part[j]
      BY <2>4, <3>3
    <3>6. total[c] = Len(g[c]) /\ part[c] = Len(s[c])
      BY <3>2
    <3> HIDE DEF total, part
    <3>7. total[c] = 4 * (c - 1) + part[c]
      BY ONLY <2>1, <3>1, <3>4, <3>5, QuartetsAddUp
    <3> QED
      BY <3>6, <3>7
  <2>8. n = 3 * (c - 1) + size(c) /\ size(c) \in 1..3 /\ c - 1 \in Nat
    <3>1. c \in 1..c
      BY <2>1
    <3>2. size(c) = n - 3 * (c - 1) /\ size(c) \in 1..3
      BY <1>3, <3>1
    <3> QED
      BY <2>1, <3>2
  <2>9. lfb(n) = 4 * (c - 1) + lfb(size(c))
    <3>1. size(c) \in Nat
      BY <2>8
    <3>2. LengthFromBinary(3 * (c - 1) + size(c), call.options)
            = 4 * (c - 1) + LengthFromBinary(size(c), call.options)
      BY ONLY <2>8, <3>1, LengthSplits
    <3> QED
      BY <2>8, <3>2 DEF lfb
  <2>10. Len(s[c]) = lfb(size(c))
    BY <1>4, <2>1
  <2>11. Len(g[c]) = lfb(n)
    BY <2>7, <2>9, <2>10
  <2> QED
    BY <1>1, <2>1, <2>2, <2>3, <2>11 DEF lfb
<1> QED
  BY <1>7, <1>8

-----------------------------------------------------------------------------
(* Rounds of a kernel *)

(* A kernel takes whole groups of three bytes, no more than there are; the *)
(* first round that does not fit its buffer of 128 finds too few to load.  *)
LEMMA KernelRoundsType ==
  ASSUME NEW n \in Nat, NEW room \in Nat
  PROVE  /\ KernelRounds(n, room) \in 0..n
         /\ \E k \in Nat : KernelRounds(n, room) = 3 * k
         /\ KernelRounds(n, Buffer) = 0 => n < Load
<1> DEFINE m == n \div Group
           rounds(x) == {k \in 1..(n \div Group) :
                           /\ n - Group * (k - 1) >= Load
                           /\ x * 3 >= 4 * Group * k}
           c == Cardinality(rounds(room))
<1>1. Group \in Nat \ {0} /\ Group % 3 = 0 /\ Load \in Nat /\ Load >= Group
      /\ Buffer \in Nat /\ 3 * Buffer >= 4 * Group
  BY SizesAssumption
<1>2. m \in Nat /\ Group * m <= n
  BY <1>1, Divided
<1>3. IsFiniteSet(1..m) /\ Cardinality(1..m) = m
  BY <1>2, FS_Interval
<1>4. \A x : rounds(x) \in SUBSET (1..m)
  OBVIOUS
<1> HIDE DEF m
<1>5. \A x : /\ IsFiniteSet(rounds(x))
             /\ Cardinality(rounds(x)) \in Nat /\ Cardinality(rounds(x)) <= m
  BY <1>3, <1>4, FS_Subset, FS_CardinalityType
<1>6. KernelRounds(n, room) = Group * c
      /\ KernelRounds(n, Buffer) = Group * Cardinality(rounds(Buffer))
  BY DEF KernelRounds
<1>7. c \in Nat /\ c <= m
  BY <1>5
<1> HIDE DEF c
<1>8. Group * c \in 0..n
  <2>1. Group * (m - c) >= 0 /\ Group * (m - c) = Group * m - Group * c
    BY <1>1, <1>2, <1>7
  <2>2. Group * c \in Nat /\ Group * m \in Nat
    BY <1>1, <1>2, <1>7
  <2> QED
    BY <1>2, <2>1, <2>2
<1>9. \E k \in Nat : Group * c = 3 * k
  <2>1. Group = 3 * (Group \div 3) /\ Group \div 3 \in Nat
    BY <1>1
  <2>2. (Group \div 3) * c \in Nat /\ (3 * (Group \div 3)) * c = 3 * ((Group \div 3) * c)
    BY <1>7, <2>1
  <2> QED
    BY <2>1, <2>2
<1>10. ASSUME n >= Load PROVE Group * Cardinality(rounds(Buffer)) # 0
  <2>1. 1 \in 1..m
    <3>1. Group * 1 <= n
      BY <1>1, <1>10
    <3>2. 1 <= n \div Group
      BY <1>1, <3>1, QuotientAtLeast
    <3> QED
      BY <1>2, <3>2 DEF m
  <2>2. n - Group * (1 - 1) >= Load /\ Buffer * 3 >= 4 * Group * 1
    BY <1>1, <1>10
  <2>3. 1 \in rounds(Buffer)
    BY <2>1, <2>2 DEF m
  <2> HIDE DEF rounds
  <2>4. Cardinality(rounds(Buffer)) # 0
    BY <1>5, <2>3, FS_EmptySet
  <2>5. Cardinality(rounds(Buffer)) \in Nat \ {0}
    BY <1>5, <2>4
  <2> QED
    BY <1>1, <2>5
<1> HIDE DEF rounds
<1>11. Group * Cardinality(rounds(Buffer)) = 0 => n < Load
  BY <1>1, <1>10
<1> QED
  BY <1>6, <1>8, <1>9, <1>11

-----------------------------------------------------------------------------
(* Room for the lines *)

LEMMA CopyAny ==
  ASSUME NEW w \in Nat \ {0}, NEW d, NEW q, NEW r, Laid(d, w, q, r),
         NEW t \in Seq(Glyphs)
  PROVE  \E p \in Nat, c \in Nat :
           /\ c = IF t = << >> THEN r ELSE ((r + Len(t) - 1) % w) + 1
           /\ Laid(d \o FlattenSeq(Spaced(t, w, r)), w, p, c)
           /\ w * p + c = w * q + r + Len(t)
<1>1. r \in 0..w /\ q \in Nat /\ d \in Seq(Char) /\ w * q \in Nat
  BY DEF Laid
<1>2. CASE t = << >>
  <2>1. Len(t) = 0
    BY <1>2, EmptySeq
  <2>2. Len(Spaced(t, w, r)) = 0 /\ Spaced(t, w, r) \in Seq(Seq(Char))
    <3>1. r \in Nat
      BY <1>1
    <3>2. Len(Spaced(t, w, r)) = Len(t) /\ Spaced(t, w, r) \in Seq(Seq(Char))
      BY ONLY w \in Nat \ {0}, t \in Seq(Glyphs), <3>1, SpacedType
    <3> QED
      BY ONLY <2>1, <3>2
  <2>3. Spaced(t, w, r) = << >>
    BY ONLY <2>2, EmptySeq
  <2>4. FlattenSeq(Spaced(t, w, r)) = << >>
    BY <2>2, <2>3 DEF FlattenSeq
  <2>5. d \o << >> = d
    BY ONLY <1>1, ConcatEmptySeq
  <2>6. r \in Nat /\ w * q + r = w * q + r + Len(t)
    BY <1>1, <2>1
  <2> QED
    BY <1>1, <1>2, <2>4, <2>5, <2>6
<1>3. CASE t # << >>
  <2>1. Len(t) >= 1
    BY <1>3, EmptySeq
  <2>2. PICK p \in Nat :
          /\ Laid(d \o FlattenSeq(Spaced(t, w, r)), w, p, ((r + Len(t) - 1) % w) + 1)
          /\ w * p + (((r + Len(t) - 1) % w) + 1) = w * q + r + Len(t)
    BY <2>1, CopyLaid
  <2>3. ((r + Len(t) - 1) % w) + 1 \in Nat
    <3>1. r + Len(t) - 1 \in Nat
      BY <1>1, <2>1, LenProperties
    <3>2. (r + Len(t) - 1) % w \in 0..(w - 1)
      BY <3>1, Divided
    <3> QED
      BY <3>2
  <2> QED
    BY <1>3, <2>2, <2>3
<1> QED
  BY <1>2, <1>3

(* Lines of w for L characters need one newline less than there are lines. *)
LEMMA LineCount ==
  ASSUME NEW w \in Nat \ {0}, NEW L \in Nat, NEW p \in Nat, NEW c \in 0..w,
         c = 0 => p = 0, w * p + c <= L
  PROVE  LET R == IF L = 0 THEN 0 ELSE L + ((L + w - 1) \div w) - 1
         IN  /\ (w + 1) * p + c \in Nat
             /\ (w + 1) * p + c <= R
             /\ w * p + c = L => (w + 1) * p + c = R
<1> DEFINE y == w * p
           x == (L + w - 1) \div w
<1>1. y \in Nat /\ (w + 1) * p + c = y + p + c
  OBVIOUS
<1>2. CASE c = 0
  <2>1. p = 0
    BY <1>2
  <2>2. y = 0
    BY <2>1
  <2>3. L # 0 => L + x - 1 \in Nat
    <3>1. L # 0 => L + w - 1 \in Nat
      OBVIOUS
    <3>2. L # 0 => x \in Nat
      BY <3>1, Divided
    <3> HIDE DEF x
    <3> QED
      BY <3>2
  <2>4. w * p + c = y
    BY <1>2
  <2> HIDE DEF x, y
  <2> QED
    BY <1>1, <1>2, <2>1, <2>2, <2>3, <2>4 DEF x
<1>3. CASE c # 0
  <2>1. L \in Nat \ {0} /\ L + w - 1 \in Nat /\ y + c <= L
    BY <1>1, <1>3
  <2>2. w * (p + 1) = y + w
    OBVIOUS
  <2>3. w * (p + 1) <= L + w - 1
    <3> HIDE DEF y
    <3> QED
      BY <1>1, <1>3, <2>1, <2>2
  <2>4. p + 1 <= x
    <3>1. p + 1 \in Nat
      OBVIOUS
    <3> QED
      BY ONLY w \in Nat \ {0}, <2>1, <2>3, <3>1, QuotientAtLeast
  <2>5. x \in Nat
    BY <2>1, Divided
  <2>6. ASSUME y + c = L PROVE x = p + 1
    <3>1. c - 1 \in 0..(w - 1) /\ p + 1 \in Nat
      BY <1>3
    <3>2. w * (p + 1) + (c - 1) = L + w - 1
      <4> HIDE DEF y
      <4> QED
        BY <1>1, <2>2, <2>6
    <3>3. (w * (p + 1) + (c - 1)) \div w = p + 1
      BY ONLY w \in Nat \ {0}, <3>1, DivideOnce
    <3> QED
      BY <3>2, <3>3
  <2>7. w * p + c = y + c
    OBVIOUS
  <2> HIDE DEF x, y
  <2> QED
    BY <1>1, <2>1, <2>4, <2>5, <2>6, <2>7 DEF x
<1> QED
  BY <1>2, <1>3

(* A layout of the characters announced for n bytes has the length         *)
(* announced with lines; one of fewer is shorter.                          *)
LEMMA LinesFit ==
  ASSUME NEW n \in Nat, NEW options, NEW lineLength \in Nat,
         NEW d, NEW p, NEW c, Laid(d, AtLeastFour(lineLength), p, c),
         AtLeastFour(lineLength) * p + c <= LengthFromBinary(n, options)
  PROVE  /\ Len(d) \in Nat
         /\ Len(d) <= LengthWithLines(n, options, lineLength)
         /\ AtLeastFour(lineLength) * p + c = LengthFromBinary(n, options)
              => Len(d) = LengthWithLines(n, options, lineLength)
<1> DEFINE w == AtLeastFour(lineLength)
           L == LengthFromBinary(n, options)
           R == IF L = 0 THEN 0 ELSE L + ((L + w - 1) \div w) - 1
<1>1. w \in Nat \ {0}
  BY DEF AtLeastFour
<1>2. L \in Nat /\ (n = 0 <=> L = 0)
  BY LengthSplits, LengthBounds
<1>3. LengthWithLines(n, options, lineLength) = R
  BY <1>2 DEF LengthWithLines
<1>4. /\ p \in Nat /\ c \in 0..w /\ (c = 0 => p = 0)
      /\ Len(d) = (w + 1) * p + c /\ w * p + c <= L
  BY DEF Laid
<1> HIDE DEF w, L
<1>5. /\ (w + 1) * p + c \in Nat
      /\ (w + 1) * p + c <= R
      /\ w * p + c = L => (w + 1) * p + c = R
  BY ONLY <1>1, <1>2, <1>4, LineCount
<1> HIDE DEF R
<1> QED
  BY <1>3, <1>4, <1>5 DEF w, L

(* What is inserted between a text's characters leaves it a text.          *)
LEMMA InsertedType ==
  ASSUME NEW w \in Nat \ {0}, NEW r \in 0..w, NEW t \in Seq(Glyphs)
  PROVE  FlattenSeq(Spaced(t, w, r)) \in Seq(Char) /\ SplitAt(t, w - r) \in Seq(Char)
<1> DEFINE s == Spaced(t, w, r)
<1>1. s \in Seq(Seq(Char))
  BY SpacedType
<1> HIDE DEF s
<1>2. FlattenSeq(s) \in Seq(Char)
  <2>1. CASE s = << >>
    <3>1. Len(s) = 0
      BY <2>1, EmptySeq
    <3>2. FlattenSeq(s) = << >>
      BY <2>1, <3>1 DEF FlattenSeq
    <3> QED
      BY <3>2, EmptySeq
  <2>2. CASE s # << >>
    <3>1. PICK g \in [1..Len(s) -> Seq(Char)] : FlattenSeq(s) = g[Len(s)]
      BY ONLY <1>1, <2>2, FlattenJoins
    <3>2. Len(s) \in 1..Len(s)
      BY <1>1, <2>2, EmptySeq
    <3> QED
      BY <3>1, <3>2
  <2> QED
    BY <2>1, <2>2
<1>3. t \in Seq(Char) /\ Len(t) \in Nat /\ \A k \in 1..Len(t) : t[k] \in Char
  <2>1. Glyphs \subseteq Char
    BY DEF Glyphs
  <2>2. t \in Seq(Char)
    BY ONLY <2>1, t \in Seq(Glyphs), Widened
  <2> QED
    BY <2>2, ElementOfSeq, LenProperties
<1>4. SplitAt(t, w - r) \in Seq(Char)
  <2> DEFINE left == w - r
             a == SubSeq(t, 1, left)
             b == SubSeq(t, left + 1, Len(t))
  <2>1. left \in Nat
    OBVIOUS
  <2> HIDE DEF left
  <2>2. CASE left < Len(t)
    <3>1. \A k \in 1..left : t[k] \in Char
      BY <1>3, <2>1, <2>2
    <3>2. \A k \in (left + 1)..Len(t) : t[k] \in Char
      BY <1>3, <2>1, <2>2
    <3>3. 1 \in Int /\ left \in Int /\ left + 1 \in Int /\ Len(t) \in Int
      BY <1>3, <2>1
    <3>4. a \in Seq(Char)
      BY ONLY <3>1, <3>3, SubSeqProperties
    <3>5. b \in Seq(Char)
      BY ONLY <3>2, <3>3, SubSeqProperties
    <3>6. <<Space>> \in Seq(Char)
      BY DEF Space, Char
    <3> HIDE DEF a, b
    <3>7. a \o <<Space>> \in Seq(Char)
      BY ONLY <3>4, <3>6, AppendedText
    <3>8. (a \o <<Space>>) \o b \in Seq(Char)
      BY ONLY <3>5, <3>7, AppendedText
    <3> QED
      BY <2>2, <3>8 DEF SplitAt, a, b, left
  <2>3. CASE ~ (left < Len(t))
    BY <1>3, <2>3 DEF SplitAt, left
  <2> QED
    BY <2>2, <2>3
<1> QED
  BY <1>2, <1>4 DEF s

-----------------------------------------------------------------------------
(* The invariant *)

Announced(n) == LengthFromBinary(n, call.options)

(* Bytes are consumed in groups of three until the last ones.              *)
Whole(n) == n = Len(call.input) \/ \E k \in Nat : n = 3 * k

(* What is written is what is announced for the bytes consumed: without    *)
(* lines so many characters, with lines so many in rows of width, the last *)
(* of col; "positions" leaves col alone, in its only step.                 *)
Written ==
  IF call.lines
  THEN \E q \in Nat, r \in Nat :
         /\ Laid(dst, width, q, r)
         /\ width * q + r = Announced(i)
         /\ pc = "returned" \/ r = col
  ELSE dst \in Seq(Glyphs) /\ Len(dst) = Announced(i) /\ col = 0

Located ==
  /\ call \in CallType
  /\ pc \in {"call", "kernel", "tail", "columns", "positions", "returned", "panicked"}
  /\ i \in 0..Len(call.input)
  /\ col \in 0..width
  /\ pc \notin {"call", "panicked"} => call.cap >= Required
  /\ pc \in {"call", "kernel", "positions"} => i = 0
  /\ pc = "kernel" => ~ call.lines
  /\ pc \in {"columns", "positions"} => call.lines
  /\ pc = "returned" => i = Len(call.input)

Inv == Located /\ Whole(i) /\ Written

LEMMA CallFacts ==
  ASSUME call \in CallType
  PROVE  /\ call.input \in Seq(0..255) /\ Len(call.input) \in Nat
         /\ call.cap \in Nat /\ call.lineLength \in Nat /\ call.lines \in BOOLEAN
         /\ width \in Nat \ {0} /\ width >= 4
<1>1. /\ call.input \in Seq(0..255) /\ call.cap \in Nat
      /\ call.lineLength \in Nat /\ call.lines \in BOOLEAN
  BY DEF CallType
<1>2. Len(call.input) \in Nat
  BY <1>1, LenProperties
<1>3. width \in Nat \ {0} /\ width >= 4
  BY <1>1 DEF width, AtLeastFour
<1> QED
  BY <1>1, <1>2, <1>3

(* Announced lengths add up over groups of three.                          *)
LEMMA AnnouncedAdds ==
  ASSUME call \in CallType, i \in 0..Len(call.input), Whole(i), NEW n \in 0..Remaining
  PROVE  /\ i + n \in 0..Len(call.input)
         /\ Announced(i) \in Nat /\ Announced(n) \in Nat /\ Announced(i + n) \in Nat
         /\ Announced(i + n) = Announced(i) + Announced(n)
<1>1. Len(call.input) \in Nat /\ i \in Nat /\ n \in Nat /\ i + n \in Nat
      /\ n <= Len(call.input) - i
  BY CallFacts DEF Remaining
<1>2. \A m \in Nat : Announced(m) \in Nat
  BY LengthSplits DEF Announced
<1>3. CASE i = Len(call.input)
  <2>1. n = 0 /\ i + n = i
    BY <1>1, <1>3
  <2>2. Announced(0) = 0
    BY LengthSplits DEF Announced
  <2> QED
    BY <1>1, <1>2, <2>1, <2>2
<1>4. CASE \E k \in Nat : i = 3 * k
  <2>1. PICK k \in Nat : i = 3 * k
    BY <1>4
  <2>2. LengthFromBinary(3 * k + n, call.options)
          = 4 * k + LengthFromBinary(n, call.options)
    BY ONLY <1>1, k \in Nat, LengthSplits
  <2>3. LengthFromBinary(3 * k + 0, call.options)
          = 4 * k + LengthFromBinary(0, call.options)
        /\ LengthFromBinary(0, call.options) = 0
    <3>1. 0 \in Nat
      OBVIOUS
    <3> QED
      BY ONLY <3>1, k \in Nat, LengthSplits
  <2>4. Announced(i) = 4 * k
    BY <2>1, <2>3 DEF Announced
  <2>5. Announced(i + n) = 4 * k + Announced(n)
    BY <2>1, <2>2 DEF Announced
  <2> QED
    BY <1>1, <1>2, <2>4, <2>5
<1> QED
  BY <1>3, <1>4 DEF Whole

(* Nothing more is announced for the bytes so far than for all of them.    *)
LEMMA NeverAhead ==
  ASSUME call \in CallType, NEW n \in 0..Len(call.input), Whole(n)
  PROVE  /\ Announced(n) \in Nat /\ Announced(Len(call.input)) \in Nat
         /\ Announced(n) <= Announced(Len(call.input))
<1>1. Len(call.input) \in Nat
  BY CallFacts
<1>2. \A m \in Nat : Announced(m) \in Nat
  BY LengthSplits DEF Announced
<1>3. CASE n = Len(call.input)
  BY <1>1, <1>2, <1>3
<1>4. CASE \E k \in Nat : n = 3 * k
  <2>1. PICK k \in Nat : n = 3 * k
    BY <1>4
  <2> DEFINE m == Len(call.input) - n
  <2>2. m \in Nat /\ 3 * k + m = Len(call.input)
    BY <1>1, <2>1
  <2> HIDE DEF m
  <2>3. 0 \in Nat
    OBVIOUS
  <2>4. LengthFromBinary(3 * k + m, call.options)
          = 4 * k + LengthFromBinary(m, call.options)
    BY ONLY <2>2, k \in Nat, LengthSplits
  <2>5. LengthFromBinary(3 * k + 0, call.options)
          = 4 * k + LengthFromBinary(0, call.options)
        /\ LengthFromBinary(0, call.options) = 0
    BY ONLY <2>3, k \in Nat, LengthSplits
  <2>6. Announced(n) = 4 * k
    BY <2>1, <2>5 DEF Announced
  <2>7. Announced(Len(call.input)) = 4 * k + Announced(m)
    BY <2>2, <2>4 DEF Announced
  <2> QED
    <3> DEFINE x == Announced(m)
               y == Announced(n)
               z == Announced(Len(call.input))
    <3>1. x \in Nat /\ y = 4 * k /\ z = 4 * k + x
      BY <1>2, <2>2, <2>6, <2>7
    <3> HIDE DEF x, y, z
    <3>2. y \in Nat /\ z \in Nat /\ y <= z
      BY <3>1
    <3> QED
      BY <3>2 DEF y, z
<1> QED
  BY <1>3, <1>4 DEF Whole

(* A step without lines that writes what is announced for n more bytes.    *)
LEMMA PlainFits ==
  ASSUME Inv, ~ call.lines, pc \notin {"call", "panicked"},
         NEW n \in 0..Remaining, Whole(i + n),
         NEW t \in Seq(Glyphs), Len(t) = Announced(n)
  PROVE  /\ Len(dst) + Len(t) <= call.cap
         /\ dst \o t \in Seq(Glyphs) /\ Len(dst \o t) = Announced(i + n)
<1>1. call \in CallType /\ i \in 0..Len(call.input) /\ Whole(i) /\ call.cap >= Required
  BY DEF Inv, Located
<1>2. dst \in Seq(Glyphs) /\ Len(dst) = Announced(i)
  BY DEF Inv, Written
<1>3. /\ i + n \in 0..Len(call.input)
      /\ Announced(i) \in Nat /\ Announced(n) \in Nat
      /\ Announced(i + n) = Announced(i) + Announced(n)
  BY <1>1, AnnouncedAdds
<1>4. /\ Announced(i + n) \in Nat /\ Announced(Len(call.input)) \in Nat
      /\ Announced(i + n) <= Announced(Len(call.input))
  BY <1>1, <1>3, NeverAhead
<1>5. Required = Announced(Len(call.input))
  BY DEF Required, Announced
<1>6. dst \o t \in Seq(Glyphs) /\ Len(dst \o t) = Len(dst) + Len(t)
  BY ONLY <1>2, t \in Seq(Glyphs), AppendedAt
<1>7. call.cap \in Nat
  BY <1>1, CallFacts
<1> HIDE DEF Announced, Required
<1> QED
  BY <1>1, <1>2, <1>3, <1>4, <1>5, <1>6, <1>7

(* A step with lines that continues the layout by n more bytes.            *)
LEMMA LinesFitRoom ==
  ASSUME Inv, call.lines, pc \notin {"call", "panicked"},
         NEW n \in 0..Remaining, Whole(i + n),
         NEW t \in Seq(Char), NEW p \in Nat, NEW c \in Nat,
         Laid(dst \o t, width, p, c), width * p + c = Announced(i) + Announced(n)
  PROVE  /\ Len(dst) + Len(t) <= call.cap
         /\ width * p + c = Announced(i + n)
<1>1. call \in CallType /\ i \in 0..Len(call.input) /\ Whole(i) /\ call.cap >= Required
  BY DEF Inv, Located
<1>2. dst \in Seq(Char)
  BY DEF Inv, Written, Laid
<1>3. /\ i + n \in 0..Len(call.input)
      /\ Announced(i + n) = Announced(i) + Announced(n)
  BY <1>1, AnnouncedAdds
<1>4. /\ Announced(i + n) \in Nat /\ Announced(Len(call.input)) \in Nat
      /\ Announced(i + n) <= Announced(Len(call.input))
  BY <1>1, <1>3, NeverAhead
<1>5. Required = LengthWithLines(Len(call.input), call.options, call.lineLength)
  BY DEF Required
<1>6. Len(dst \o t) = Len(dst) + Len(t)
  BY ONLY <1>2, t \in Seq(Char), AppendedText
<1>7. call.cap \in Nat /\ Len(call.input) \in Nat /\ call.lineLength \in Nat
  BY <1>1, CallFacts
<1>8. /\ Laid(dst \o t, AtLeastFour(call.lineLength), p, c)
      /\ AtLeastFour(call.lineLength) * p + c
           <= LengthFromBinary(Len(call.input), call.options)
  BY <1>3, <1>4 DEF width, Announced
<1>9. Len(dst \o t) \in Nat
      /\ Len(dst \o t) <= LengthWithLines(Len(call.input), call.options, call.lineLength)
  BY ONLY <1>7, <1>8, LinesFit
<1>10. Required \in Int
  <2> DEFINE L == LengthFromBinary(Len(call.input), call.options)
             w == AtLeastFour(call.lineLength)
  <2>1. L \in Nat /\ w \in Nat \ {0}
    BY <1>1, <1>4, CallFacts DEF Announced, width
  <2> HIDE DEF L, w
  <2>2. (L + w - 1) \div w \in Int
    BY <2>1
  <2>3. Required = IF Len(call.input) = 0 THEN 0 ELSE L + ((L + w - 1) \div w) - 1
    BY <1>5 DEF LengthWithLines, L, w
  <2> HIDE DEF Required
  <2> QED
    BY <2>1, <2>2, <2>3
<1> HIDE DEF Announced, Required
<1> QED
  BY <1>1, <1>3, <1>5, <1>6, <1>7, <1>9, <1>10

-----------------------------------------------------------------------------
(* The invariant is kept *)

LEMMA Initially == Init => Inv
<1> SUFFICES ASSUME Init PROVE Inv
  OBVIOUS
<1>1. /\ call \in CallType /\ pc = "call" /\ i = 0 /\ col = 0 /\ dst = << >>
  BY CallsAssumption DEF Init
<1>2. Len(call.input) \in Nat /\ width \in Nat \ {0}
  BY <1>1, CallFacts
<1>3. Located
  BY <1>1, <1>2 DEF Located
<1>4. Whole(i)
  <2>1. 0 \in Nat /\ i = 3 * 0
    BY <1>1
  <2> QED
    BY <2>1 DEF Whole
<1>5. Announced(i) = 0
  BY <1>1, LengthSplits DEF Announced
<1>6. dst \in Seq(Glyphs) /\ dst \in Seq(Char) /\ Len(dst) = 0
  BY <1>1, EmptySeq
<1>7. Laid(dst, width, 0, 0)
  <2>1. (width + 1) * 0 + 0 = 0 /\ 0 \in 0..width
    BY <1>2
  <2> QED
    BY <1>6, <2>1 DEF Laid
<1>8. width * 0 + 0 = 0 /\ 0 \in Nat
  BY <1>2
<1>9. Written
  <2>1. CASE call.lines
    BY <1>1, <1>5, <1>7, <1>8, <2>1 DEF Written
  <2>2. CASE ~ call.lines
    BY <1>1, <1>5, <1>6, <2>2 DEF Written
  <2> QED
    BY <2>1, <2>2
<1> QED
  BY <1>3, <1>4, <1>9 DEF Inv

(* A step that writes n more bytes' worth, with lines or without, keeps    *)
(* the invariant.                                                          *)
LEMMA PlainKept ==
  ASSUME Inv, ~ call.lines, pc \notin {"call", "panicked"},
         NEW n \in 0..Remaining, Whole(i + n),
         NEW t \in Seq(Glyphs), Len(t) = Announced(n),
         NEW next \in {"tail", "returned"},
         next = "returned" => i + n = Len(call.input),
         Write(t, next), i' = i + n, call' = call, col' = col
  PROVE  Inv'
<1>1. Len(dst) + Len(t) <= call.cap
      /\ dst \o t \in Seq(Glyphs) /\ Len(dst \o t) = Announced(i + n)
  BY PlainFits
<1>2. dst' = dst \o t /\ pc' = next
  BY <1>1 DEF Write
<1>3. /\ Located /\ call \in CallType /\ i \in 0..Len(call.input) /\ Whole(i) /\ Written
      /\ call.cap >= Required
  BY DEF Inv, Located
<1>4. i + n \in 0..Len(call.input)
  BY <1>3, AnnouncedAdds
<1>5. width' = width /\ Required' = Required
  BY DEF width, Required
<1>6. Whole(i)'
  BY DEF Whole
<1>7. Announced(i)' = Announced(i + n)
  BY DEF Announced
<1>8. Located'
  <2> HIDE DEF Required, width
  <2> QED
    BY <1>2, <1>3, <1>4, <1>5 DEF Located
<1>9. Written'
  <2>1. ~ call'.lines
    OBVIOUS
  <2>2. col' = 0
    BY <1>3 DEF Written
  <2> QED
    BY <1>1, <1>2, <1>7, <2>1, <2>2 DEF Written
<1> QED
  BY <1>6, <1>8, <1>9 DEF Inv

LEMMA LinesKept ==
  ASSUME Inv, call.lines, pc \notin {"call", "panicked"},
         NEW n \in 0..Remaining, Whole(i + n),
         NEW t \in Seq(Char), NEW p \in Nat, NEW c \in Nat,
         Laid(dst \o t, width, p, c), width * p + c = Announced(i) + Announced(n),
         NEW next \in {"tail", "columns", "returned"},
         next = "returned" => i + n = Len(call.input),
         Write(t, next), i' = i + n, call' = call,
         col' \in 0..width, next = "returned" \/ col' = c
  PROVE  Inv'
<1>1. Len(dst) + Len(t) <= call.cap /\ width * p + c = Announced(i + n)
  BY LinesFitRoom
<1>2. dst' = dst \o t /\ pc' = next
  BY <1>1 DEF Write
<1>3. /\ Located /\ call \in CallType /\ i \in 0..Len(call.input) /\ Whole(i) /\ Written
      /\ call.cap >= Required
  BY DEF Inv, Located
<1>4. i + n \in 0..Len(call.input)
  BY <1>3, AnnouncedAdds
<1>5. width' = width /\ Required' = Required
  BY DEF width, Required
<1>6. Whole(i)'
  BY DEF Whole
<1>7. Announced(i)' = Announced(i + n)
  BY DEF Announced
<1>8. Located'
  <2> HIDE DEF Required, width
  <2> QED
    BY <1>2, <1>3, <1>4, <1>5 DEF Located
<1>9. Written'
  <2>1. call'.lines
    OBVIOUS
  <2>2. Laid(dst', width', p, c)
    BY <1>2, <1>5
  <2>3. width' * p + c = Announced(i)'
    BY <1>1, <1>5, <1>7
  <2>4. pc' = "returned" \/ c = col'
    BY <1>2
  <2> HIDE DEF width, Announced, Laid
  <2> QED
    BY <2>1, <2>2, <2>3, <2>4 DEF Written
<1> QED
  BY <1>6, <1>8, <1>9 DEF Inv

LEMMA WholeAdds ==
  ASSUME call \in CallType, i \in 0..Len(call.input), Whole(i), NEW n \in 0..Remaining,
         (\E k \in Nat : n = 3 * k) \/ i + n = Len(call.input)
  PROVE  Whole(i + n)
<1>1. Len(call.input) \in Nat /\ i \in Nat /\ n \in Nat /\ n <= Len(call.input) - i
  BY CallFacts DEF Remaining
<1>2. CASE i = Len(call.input)
  <2>1. i + n = Len(call.input)
    BY <1>1, <1>2
  <2> QED
    BY <2>1 DEF Whole
<1>3. CASE i + n = Len(call.input)
  BY <1>3 DEF Whole
<1>4. CASE (\E k \in Nat : i = 3 * k) /\ (\E k \in Nat : n = 3 * k)
  <2>1. PICK a \in Nat : i = 3 * a
    BY <1>4
  <2>2. PICK b \in Nat : n = 3 * b
    BY <1>4
  <2>3. a + b \in Nat /\ i + n = 3 * (a + b)
    BY <2>1, <2>2
  <2> QED
    BY <2>3 DEF Whole
<1> QED
  BY <1>2, <1>3, <1>4 DEF Whole

LEMMA StateFacts ==
  ASSUME Inv
  PROVE  /\ call \in CallType /\ call.input \in Seq(0..255) /\ Len(call.input) \in Nat
         /\ call.cap \in Nat /\ width \in Nat \ {0} /\ width >= 4
         /\ i \in 0..Len(call.input) /\ Whole(i)
         /\ Remaining \in Nat /\ i \in Nat /\ i + Remaining = Len(call.input)
         /\ call.lines \in BOOLEAN
<1>1. call \in CallType /\ i \in 0..Len(call.input) /\ Whole(i)
  BY DEF Inv, Located
<1>2. /\ call.input \in Seq(0..255) /\ Len(call.input) \in Nat
      /\ call.cap \in Nat /\ width \in Nat \ {0} /\ width >= 4 /\ call.lines \in BOOLEAN
  BY <1>1, CallFacts
<1>3. Remaining \in Nat /\ i \in Nat /\ i + Remaining = Len(call.input)
  BY <1>1, <1>2 DEF Remaining
<1> QED
  BY <1>1, <1>2, <1>3

(* The plain text of the next n bytes.                                     *)
LEMMA PlainText ==
  ASSUME Inv, NEW n \in 0..Remaining
  PROVE  Plain(i, n) \in Seq(Glyphs) /\ Len(Plain(i, n)) = Announced(n)
<1>1. call.input \in Seq(0..255) /\ i \in Nat /\ n \in Nat /\ i + n <= Len(call.input)
  <2> HIDE DEF Inv
  <2>1. /\ call.input \in Seq(0..255) /\ i \in Nat /\ Remaining \in Nat
        /\ Len(call.input) \in Nat /\ i + Remaining = Len(call.input)
    BY StateFacts
  <2> HIDE DEF Remaining
  <2> QED
    BY <2>1
<1>2. /\ Plain(i, n) \in Seq(Glyphs)
      /\ Len(Plain(i, n)) = LengthFromBinary(n, call.options)
  BY ONLY <1>1, PlainType
<1> QED
  BY <1>2 DEF Announced

LEMMA RefuseKept == Inv /\ Refuse => Inv'
<1> SUFFICES ASSUME Inv, Refuse PROVE Inv'
  OBVIOUS
<1>1. /\ pc = "call" /\ pc' = "panicked"
      /\ call' = call /\ i' = i /\ col' = col /\ dst' = dst
  BY DEF Refuse
<1>2. width' = width /\ Announced(i)' = Announced(i) /\ Whole(i)' = Whole(i)
  BY <1>1 DEF width, Announced, Whole
<1>3. Located'
  <2> HIDE DEF width
  <2> QED
    BY <1>1, <1>2 DEF Inv, Located
<1>4. Written'
  <2>1. Written
    BY DEF Inv
  <2> HIDE DEF width, Laid, Announced
  <2> QED
    BY <1>1, <1>2, <2>1 DEF Written
<1> QED
  BY <1>2, <1>3, <1>4 DEF Inv

LEMMA EnterKept == Inv /\ Enter => Inv'
<1> SUFFICES ASSUME Inv, Enter PROVE Inv'
  OBVIOUS
<1>1. /\ pc = "call" /\ call.cap >= Required
      /\ call' = call /\ i' = i /\ col' = col /\ dst' = dst
      /\ pc' = IF call.provider = "tail" THEN "tail"
               ELSE IF ~call.lines THEN "kernel" ELSE call.provider
  BY DEF Enter
<1>2. width' = width /\ Announced(i)' = Announced(i) /\ Whole(i)' = Whole(i)
      /\ Required' = Required
  BY <1>1 DEF width, Announced, Whole, Required
<1>3. call.provider \in {"tail", "columns", "positions"} /\ call.lines \in BOOLEAN
  BY DEF Inv, Located, CallType
<1>4. /\ pc' \in {"tail", "kernel", "columns", "positions"}
      /\ pc' = "kernel" => ~ call.lines
      /\ pc' \in {"columns", "positions"} => call.lines
  BY <1>1, <1>3
<1>5. Located'
  <2> HIDE DEF width, Required
  <2> QED
    BY <1>1, <1>2, <1>4 DEF Inv, Located
<1>6. Written'
  <2>1. Written
    BY DEF Inv
  <2> HIDE DEF width, Laid, Announced
  <2> QED
    BY <1>1, <1>2, <2>1 DEF Written
<1> QED
  BY <1>2, <1>5, <1>6 DEF Inv

LEMMA TailEndKept == Inv /\ TailEnd => Inv'
<1> SUFFICES ASSUME Inv, TailEnd PROVE Inv'
  OBVIOUS
<1>1. /\ pc = "tail" /\ pc' = "returned" /\ Remaining = 0
      /\ call' = call /\ i' = i /\ col' = col /\ dst' = dst
  BY DEF TailEnd
<1>2. width' = width /\ Announced(i)' = Announced(i) /\ Whole(i)' = Whole(i)
      /\ Required' = Required
  BY <1>1 DEF width, Announced, Whole, Required
<1>3. i = Len(call.input)
  <2>1. i \in Nat /\ i + Remaining = Len(call.input)
    BY StateFacts
  <2> QED
    BY <1>1, <2>1
<1>4. Located'
  <2> HIDE DEF width, Required
  <2> QED
    BY <1>1, <1>2, <1>3 DEF Inv, Located
<1>5. Written'
  <2>1. Written
    BY DEF Inv
  <2> HIDE DEF width, Laid, Announced
  <2> QED
    BY <1>1, <1>2, <2>1 DEF Written
<1> QED
  BY <1>2, <1>4, <1>5 DEF Inv

LEMMA KernelKept == Inv /\ Kernel => Inv'
<1> SUFFICES ASSUME Inv, Kernel PROVE Inv'
  OBVIOUS
<1> DEFINE n == KernelRounds(Remaining, call.cap)
           next == IF n = Remaining THEN "returned" ELSE "tail"
<1>1. /\ pc = "kernel" /\ Write(Plain(i, n), next)
      /\ i' = i + n /\ call' = call /\ col' = col
  BY DEF Kernel
<1>2. ~ call.lines /\ pc \notin {"call", "panicked"}
  BY <1>1 DEF Inv, Located
<1>3. Remaining \in Nat /\ call.cap \in Nat /\ call \in CallType
      /\ i \in 0..Len(call.input) /\ Whole(i) /\ i + Remaining = Len(call.input)
  BY StateFacts
<1>4. n \in 0..Remaining /\ \E k \in Nat : n = 3 * k
  BY <1>3, KernelRoundsType
<1> HIDE DEF n
<1>5. Whole(i + n)
  BY ONLY <1>3, <1>4, WholeAdds
<1>6. Plain(i, n) \in Seq(Glyphs) /\ Len(Plain(i, n)) = Announced(n)
  BY <1>4, PlainText
<1>7. next \in {"tail", "returned"} /\ (next = "returned" => i + n = Len(call.input))
  BY <1>3
<1> HIDE DEF next
<1> QED
  BY ONLY Inv, <1>1, <1>2, <1>4, <1>5, <1>6, <1>7, PlainKept

(* The layout so far, and what copying a plain text out adds to it.        *)
LEMMA CopyContinues ==
  ASSUME Inv, call.lines, pc # "returned", NEW n \in 0..Remaining,
         NEW t, t \in Seq(Glyphs), Len(t) = Announced(n)
  PROVE  \E p \in Nat, c \in Nat :
           /\ c = ColumnAfterCopy(t) /\ c \in 0..width
           /\ Copied(t) \in Seq(Char)
           /\ Laid(dst \o Copied(t), width, p, c)
           /\ width * p + c = Announced(i) + Announced(n)
<1>1. width \in Nat \ {0}
  BY StateFacts
<1>2. PICK q \in Nat : Laid(dst, width, q, col) /\ width * q + col = Announced(i)
  BY DEF Inv, Written
<1>3. Copied(t) = FlattenSeq(Spaced(t, width, col))
  BY DEF Copied, Spaced
<1>4. PICK p \in Nat, c \in Nat :
        /\ c = IF t = << >> THEN col ELSE ((col + Len(t) - 1) % width) + 1
        /\ Laid(dst \o FlattenSeq(Spaced(t, width, col)), width, p, c)
        /\ width * p + c = width * q + col + Len(t)
  BY ONLY t \in Seq(Glyphs), <1>1, <1>2, CopyAny
<1>5. c \in 0..width
  BY <1>4 DEF Laid
<1>6. col \in 0..width
  BY <1>2 DEF Laid
<1>7. FlattenSeq(Spaced(t, width, col)) \in Seq(Char)
  BY ONLY t \in Seq(Glyphs), <1>1, <1>6, InsertedType
<1>8. c = ColumnAfterCopy(t)
  BY <1>4 DEF ColumnAfterCopy
<1>9. width * p + c = Announced(i) + Announced(n)
  BY <1>2, <1>4
<1> HIDE DEF width, Announced, Copied, ColumnAfterCopy, Laid
<1> QED
  BY ONLY p \in Nat, c \in Nat, <1>3, <1>4, <1>5, <1>7, <1>8, <1>9

LEMMA ColumnsBufferKept == Inv /\ ColumnsBuffer => Inv'
<1> SUFFICES ASSUME Inv, ColumnsBuffer PROVE Inv'
  OBVIOUS
<1> DEFINE n == KernelRounds(Remaining, Buffer)
           t == Plain(i, n)
<1>1. /\ pc = "columns" /\ Write(Copied(t), "columns")
      /\ i' = i + n /\ call' = call /\ col' = ColumnAfterCopy(t)
  BY DEF ColumnsBuffer
<1>2. call.lines /\ pc \notin {"call", "panicked"} /\ pc # "returned"
  BY <1>1 DEF Inv, Located
<1>3. Remaining \in Nat /\ call \in CallType /\ i \in 0..Len(call.input) /\ Whole(i)
      /\ Buffer \in Nat
  BY StateFacts, SizesAssumption
<1>4. n \in 0..Remaining /\ \E k \in Nat : n = 3 * k
  BY <1>3, KernelRoundsType
<1> HIDE DEF n
<1>5. Whole(i + n)
  BY ONLY <1>3, <1>4, WholeAdds
<1>6. t \in Seq(Glyphs) /\ Len(t) = Announced(n)
  BY <1>4, PlainText
<1> HIDE DEF t
<1>7. PICK p \in Nat, c \in Nat :
        /\ c = ColumnAfterCopy(t) /\ c \in 0..width
        /\ Copied(t) \in Seq(Char)
        /\ Laid(dst \o Copied(t), width, p, c)
        /\ width * p + c = Announced(i) + Announced(n)
  BY ONLY Inv, <1>2, <1>4, <1>6, CopyContinues
<1>8. col' \in 0..width /\ col' = c
  BY <1>1, <1>7
<1> DEFINE next == "columns"
           text == Copied(t)
<1>9. /\ next \in {"tail", "columns", "returned"}
      /\ (next = "returned" => i + n = Len(call.input))
  OBVIOUS
<1>10. Write(text, next) /\ text \in Seq(Char) /\ Laid(dst \o text, width, p, c)
  BY <1>1, <1>7
<1> HIDE DEF next, text
<1> QED
  BY ONLY Inv, p \in Nat, c \in Nat, <1>1, <1>2, <1>4, <1>5, <1>7, <1>8, <1>9, <1>10, LinesKept

LEMMA ColumnsRestKept == Inv /\ ColumnsRest => Inv'
<1> SUFFICES ASSUME Inv, ColumnsRest PROVE Inv'
  OBVIOUS
<1> DEFINE n == Remaining
           t == Plain(i, n)
<1>1. /\ pc = "columns" /\ KernelRounds(n, Buffer) = 0
      /\ IF Len(t) > Rest THEN pc' = "crashed" /\ dst' = dst
                          ELSE Write(Copied(t), "returned")
      /\ i' = Len(call.input) /\ call' = call /\ col' = ColumnAfterCopy(t)
  BY DEF ColumnsRest
<1>2. call.lines /\ pc \notin {"call", "panicked"} /\ pc # "returned"
  BY <1>1 DEF Inv, Located
<1>3. n \in Nat /\ n \in 0..n /\ call \in CallType /\ i \in 0..Len(call.input) /\ Whole(i)
      /\ i + n = Len(call.input) /\ Buffer \in Nat /\ Rest \in Nat /\ Load \in Nat
      /\ 3 * Rest >= 4 * (Load + 1)
  BY StateFacts, SizesAssumption
<1>4. n < Load
  BY <1>1, <1>3, KernelRoundsType
<1>5. t \in Seq(Glyphs) /\ Len(t) = Announced(n)
  BY <1>3, PlainText
<1>6. ~ (Len(t) > Rest)
  <2> DEFINE x == Len(t)
  <2>1. 3 * LengthFromBinary(n, call.options) <= 4 * (n + 2)
    BY <1>3, LengthBounds
  <2>2. x \in Nat
    BY <1>5, LenProperties
  <2>3. 3 * x <= 4 * (n + 2)
    BY <1>5, <2>1 DEF Announced
  <2> HIDE DEF n, x
  <2>4. ~ (x > Rest)
    BY <1>3, <1>4, <2>2, <2>3
  <2> QED
    BY <2>4 DEF x
<1>7. Write(Copied(t), "returned")
  BY <1>1, <1>6
<1>8. Whole(i + n) /\ i' = i + n
  BY <1>1, <1>3 DEF Whole
<1> HIDE DEF t
<1>9. PICK p \in Nat, c \in Nat :
        /\ c = ColumnAfterCopy(t) /\ c \in 0..width
        /\ Copied(t) \in Seq(Char)
        /\ Laid(dst \o Copied(t), width, p, c)
        /\ width * p + c = Announced(i) + Announced(n)
  BY ONLY Inv, <1>2, <1>3, <1>5, CopyContinues
<1>10. col' \in 0..width /\ col' = c
  BY <1>1, <1>9
<1> DEFINE next == "returned"
           text == Copied(t)
<1>11. /\ next \in {"tail", "columns", "returned"}
       /\ (next = "returned" => i + n = Len(call.input))
  BY <1>3
<1>12. Write(text, next) /\ text \in Seq(Char) /\ Laid(dst \o text, width, p, c)
  BY <1>7, <1>9
<1> HIDE DEF next, text
<1> QED
  BY ONLY Inv, p \in Nat, c \in Nat, <1>1, <1>2, <1>3, <1>8, <1>9, <1>10, <1>11, <1>12, LinesKept

LEMMA PositionsKept == Inv /\ Positions => Inv'
<1> SUFFICES ASSUME Inv, Positions PROVE Inv'
  OBVIOUS
<1> DEFINE n == Remaining
           t == Plain(0, Len(call.input))
<1>1. /\ pc = "positions"
      /\ Write(FlattenSeq([k \in DOMAIN t |->
                 IF k > 1 /\ (k - 1) % width = 0
                 THEN <<Space, t[k]>> ELSE <<t[k]>>]), "returned")
      /\ i' = Len(call.input) /\ call' = call /\ col' = col
  BY DEF Positions
<1>2. call.lines /\ pc \notin {"call", "panicked"} /\ pc # "returned" /\ i = 0
  BY <1>1 DEF Inv, Located
<1>3. n \in Nat /\ n \in 0..n /\ call \in CallType /\ i \in 0..Len(call.input) /\ Whole(i)
      /\ i + n = Len(call.input) /\ width \in Nat \ {0}
  BY StateFacts
<1>4. t = Plain(i, n)
  BY <1>2, <1>3
<1>5. t \in Seq(Glyphs) /\ Len(t) = Announced(n)
  BY <1>3, <1>4, PlainText
<1>6. col = 0
  <2>1. PICK q \in Nat : Laid(dst, width, q, col) /\ width * q + col = Announced(i)
    BY <1>2 DEF Inv, Written
  <2>2. Announced(i) = 0
    BY <1>2, LengthSplits DEF Announced
  <2>3. col \in 0..width /\ width * q \in Nat
    BY <1>3, <2>1 DEF Laid
  <2> QED
    BY <2>1, <2>2, <2>3
<1>7. FlattenSeq([k \in DOMAIN t |->
         IF k > 1 /\ (k - 1) % width = 0 THEN <<Space, t[k]>> ELSE <<t[k]>>]) = Copied(t)
  <2>1. DOMAIN t = 1..Len(t) /\ Len(t) \in Nat
    BY <1>5, LenProperties
  <2> HIDE DEF t, width
  <2>2. \A k \in DOMAIN t : (k > 1 <=> col + k - 1 > 0) /\ col + k - 1 = k - 1
    BY <1>6, <2>1
  <2>3. [k \in DOMAIN t |-> IF k > 1 /\ (k - 1) % width = 0
                            THEN <<Space, t[k]>> ELSE <<t[k]>>]
          = [k \in DOMAIN t |-> IF col + k - 1 > 0 /\ (col + k - 1) % width = 0
                                THEN <<Space, t[k]>> ELSE <<t[k]>>]
    BY <2>2
  <2> QED
    BY <2>3 DEF Copied
<1>8. Whole(i + n) /\ i' = i + n
  BY <1>1, <1>3 DEF Whole
<1> HIDE DEF t, n
<1>9. PICK p \in Nat, c \in Nat :
        /\ c = ColumnAfterCopy(t) /\ c \in 0..width
        /\ Copied(t) \in Seq(Char)
        /\ Laid(dst \o Copied(t), width, p, c)
        /\ width * p + c = Announced(i) + Announced(n)
  <2>1. n \in 0..Remaining
    BY <1>3 DEF n
  <2> QED
    BY ONLY Inv, <1>2, <1>5, <2>1, CopyContinues
<1>10. col' \in 0..width
  BY <1>1, <1>3, <1>6
<1> DEFINE next == "returned"
           text == Copied(t)
<1>11. /\ next \in {"tail", "columns", "returned"} /\ next = "returned"
       /\ (next = "returned" => i + n = Len(call.input))
       /\ n \in 0..Remaining
  BY <1>3 DEF n
<1>12. Write(text, next) /\ text \in Seq(Char) /\ Laid(dst \o text, width, p, c)
  BY <1>1, <1>7, <1>9
<1> HIDE DEF next, text
<1> QED
  BY ONLY Inv, p \in Nat, c \in Nat, <1>1, <1>2, <1>3, <1>8, <1>9, <1>10, <1>11, <1>12, LinesKept

LEMMA TailQuartetKept == Inv /\ TailQuartet => Inv'
<1> SUFFICES ASSUME Inv, TailQuartet PROVE Inv'
  OBVIOUS
<1> DEFINE n == IF Remaining >= 3 THEN 3 ELSE Remaining
           t == TextOf(Bytes(i, n), call.options)
           next == "tail"
<1>1. /\ pc = "tail" /\ Remaining > 0
      /\ Write(IF call.lines THEN Folded(t) ELSE t, next)
      /\ i' = i + n /\ call' = call
      /\ col' = IF call.lines THEN ColumnAfter(t) ELSE col
  BY DEF TailQuartet
<1>2. pc \notin {"call", "panicked"} /\ pc # "returned"
  BY <1>1
<1>3. Remaining \in Nat /\ call \in CallType /\ i \in 0..Len(call.input) /\ Whole(i)
      /\ i + Remaining = Len(call.input) /\ width \in Nat \ {0} /\ width >= 4
      /\ i \in Nat /\ call.input \in Seq(0..255) /\ Len(call.input) \in Nat
  BY StateFacts
<1>4. n \in 0..Remaining /\ n \in 1..3 /\ (n = 3 * 1 \/ i + n = Len(call.input))
  <2> HIDE DEF Remaining
  <2> QED
    BY <1>1, <1>3
<1> HIDE DEF n
<1>5. Whole(i + n)
  <2>1. (\E k \in Nat : n = 3 * k) \/ i + n = Len(call.input)
    <3>1. 1 \in Nat
      OBVIOUS
    <3> QED
      BY ONLY <1>4, <3>1
  <2> QED
    BY ONLY <1>3, <1>4, <2>1, WholeAdds
<1>6. Bytes(i, n) \in Seq(0..255) /\ Len(Bytes(i, n)) = n
  <2> DEFINE lo == i + 1
             hi == i + n
  <2>1. lo \in Int /\ hi \in Int /\ lo <= hi /\ hi - lo + 1 = n
        /\ \A k \in lo..hi : k \in 1..Len(call.input)
    <3> HIDE DEF Remaining
    <3> QED
      BY <1>3, <1>4
  <2>2. \A k \in 1..Len(call.input) : call.input[k] \in 0..255
    BY <1>3, ElementOfSeq
  <2>3. Bytes(i, n) = SubSeq(call.input, lo, hi)
    BY DEF Bytes
  <2> HIDE DEF lo, hi
  <2>4. \A k \in lo..hi : call.input[k] \in 0..255
    BY ONLY <2>1, <2>2
  <2>5. /\ SubSeq(call.input, lo, hi) \in Seq(0..255)
        /\ Len(SubSeq(call.input, lo, hi)) = IF lo <= hi THEN hi - lo + 1 ELSE 0
    BY ONLY <2>1, <2>4, SubSeqProperties
  <2> QED
    BY ONLY <2>1, <2>3, <2>5
<1>7. t \in Seq(Glyphs) /\ Len(t) = Announced(n) /\ Len(t) \in 1..4
  <2>1. Len(Bytes(i, n)) \in 1..3
    BY <1>4, <1>6
  <2> DEFINE b == Bytes(i, n)
  <2> HIDE DEF b
  <2>2. b \in Seq(0..255) /\ Len(b) = n /\ Len(b) \in 1..3
    BY <1>6, <2>1 DEF b
  <2>3. /\ TextOf(b, call.options) \in Seq(Glyphs)
        /\ Len(TextOf(b, call.options)) = LengthFromBinary(Len(b), call.options)
        /\ Len(TextOf(b, call.options)) \in 1..4
    BY ONLY <2>2, TextOfType
  <2>4. t = TextOf(b, call.options)
    BY DEF b
  <2> HIDE DEF t
  <2> QED
    BY <2>2, <2>3, <2>4 DEF Announced
<1> HIDE DEF t
<1>8. CASE ~ call.lines
  <2>1. /\ Write(t, next) /\ next \in {"tail", "returned"} /\ col' = col
        /\ (next = "returned" => i + n = Len(call.input))
    BY <1>1, <1>8
  <2> HIDE DEF next
  <2> QED
    BY ONLY Inv, <1>1, <1>2, <1>4, <1>5, <1>7, <1>8, <2>1, PlainKept
<1>9. CASE call.lines
  <2>1. PICK q \in Nat : Laid(dst, width, q, col) /\ width * q + col = Announced(i)
    BY <1>2, <1>9 DEF Inv, Written
  <2>2. Len(t) \in 1..width
    BY <1>3, <1>7
  <2>3. PICK p \in Nat, c \in Nat :
          /\ c = IF width - col < Len(t) THEN Len(t) - (width - col) ELSE col + Len(t)
          /\ Laid(dst \o SplitAt(t, width - col), width, p, c)
          /\ width * p + c = width * q + col + Len(t)
    <3>1. width \in Nat \ {0} /\ t \in Seq(Glyphs) /\ Laid(dst, width, q, col)
      BY <1>3, <1>7, <2>1
    <3> QED
      BY ONLY <2>2, <3>1, SplitLaid
  <2>4. Folded(t) = SplitAt(t, width - col)
    BY DEF Folded, SplitAt
  <2>5. col \in 0..width
    BY <2>1 DEF Laid
  <2>6. SplitAt(t, width - col) \in Seq(Char)
    BY ONLY <1>3, <1>7, <2>5, InsertedType
  <2>7. c \in 0..width
    BY <2>3 DEF Laid
  <2>8. col' = c
    BY <1>1, <1>9, <2>3 DEF ColumnAfter
  <2>9. width * p + c = Announced(i) + Announced(n)
    BY <1>7, <2>1, <2>3
  <2> DEFINE text == Folded(t)
  <2>10. /\ Write(text, next) /\ text \in Seq(Char) /\ Laid(dst \o text, width, p, c)
         /\ next \in {"tail", "columns", "returned"}
         /\ (next = "returned" => i + n = Len(call.input))
         /\ col' \in 0..width
    BY <1>1, <1>9, <2>3, <2>4, <2>6, <2>7, <2>8
  <2> HIDE DEF next, text
  <2> QED
    BY ONLY Inv, p \in Nat, c \in Nat, <1>1, <1>2, <1>4, <1>5, <1>9, <2>8, <2>9, <2>10, LinesKept
<1> QED
  BY <1>8, <1>9

LEMMA StutterKept == Inv /\ UNCHANGED vars => Inv'
<1> SUFFICES ASSUME Inv, UNCHANGED vars PROVE Inv'
  OBVIOUS
<1>1. call' = call /\ pc' = pc /\ i' = i /\ col' = col /\ dst' = dst
  BY DEF vars
<1>2. width' = width /\ Announced(i)' = Announced(i) /\ Whole(i)' = Whole(i)
      /\ Required' = Required
  BY <1>1 DEF width, Announced, Whole, Required
<1>3. Located'
  <2> HIDE DEF width, Required
  <2> QED
    BY <1>1, <1>2 DEF Inv, Located
<1>4. Written'
  <2>1. Written
    BY DEF Inv
  <2> HIDE DEF width, Laid, Announced
  <2> QED
    BY <1>1, <1>2, <2>1 DEF Written
<1> QED
  BY <1>2, <1>3, <1>4 DEF Inv

LEMMA InvKept == Inv /\ [Next]_vars => Inv'
BY RefuseKept, EnterKept, KernelKept, TailQuartetKept, TailEndKept,
   ColumnsBufferKept, ColumnsRestKept, PositionsKept, StutterKept DEF Next

LEMMA AlwaysInv == Spec => []Inv
BY Initially, InvKept, PTL DEF Spec

-----------------------------------------------------------------------------
(* Theorems *)

LEMMA InvGivesType == Inv => TypeOK
<1> SUFFICES ASSUME Inv PROVE TypeOK
  OBVIOUS
<1>1. dst \in Seq(Char)
  <2>1. CASE call.lines
    BY <2>1 DEF Inv, Written, Laid
  <2>2. CASE ~ call.lines
    <3>1. dst \in Seq(Glyphs) /\ Glyphs \subseteq Char
      BY <2>2 DEF Inv, Written, Glyphs
    <3> QED
      BY ONLY <3>1, Widened
  <2> QED
    BY <2>1, <2>2
<1> QED
  BY <1>1 DEF Inv, Located, TypeOK

(* In every reachable state a line is no longer than its width and what is *)
(* written are characters of the text: no provider loses track of the      *)
(* column across its buffers and quartets.                                 *)
THEOREM TypeCorrect == Spec => []TypeOK
BY AlwaysInv, InvGivesType, PTL

LEMMA InvGivesLength == Inv => LengthExact
<1> SUFFICES ASSUME Inv PROVE LengthExact
  OBVIOUS
<1>1. pc # "crashed"
  BY DEF Inv, Located
<1> SUFFICES ASSUME pc = "returned" PROVE Len(dst) = Required
  BY <1>1 DEF LengthExact, Returned
<1>2. i = Len(call.input)
  BY DEF Inv, Located
<1>3. CASE call.lines
  <2>1. PICK q \in Nat, r \in Nat : /\ Laid(dst, width, q, r)
                                    /\ width * q + r = Announced(i)
    BY <1>3 DEF Inv, Written
  <2>2. /\ Laid(dst, AtLeastFour(call.lineLength), q, r)
        /\ AtLeastFour(call.lineLength) * q + r
             = LengthFromBinary(Len(call.input), call.options)
    BY <1>2, <2>1 DEF width, Announced
  <2>3. Len(call.input) \in Nat /\ call.lineLength \in Nat /\ call \in CallType
    BY StateFacts, CallFacts
  <2>4. LengthFromBinary(Len(call.input), call.options) \in Nat
    BY <2>3, LengthSplits
  <2> DEFINE x == AtLeastFour(call.lineLength) * q + r
             y == LengthFromBinary(Len(call.input), call.options)
  <2>5. x <= y
    <3>1. x = y /\ y \in Nat
      BY <2>2, <2>4
    <3> HIDE DEF x, y
    <3> QED
      BY <3>1
  <2>6. Len(dst) = LengthWithLines(Len(call.input), call.options, call.lineLength)
    BY ONLY <2>2, <2>3, <2>5, LinesFit DEF x, y
  <2> QED
    BY <1>3, <2>6 DEF Required
<1>4. CASE ~ call.lines
  <2>1. Len(dst) = Announced(i)
    BY <1>4 DEF Inv, Written
  <2> QED
    BY <1>2, <1>4, <2>1 DEF Required, Announced
<1> QED
  BY <1>3, <1>4

(* No provider writes past the length the caller sized dst with, and every *)
(* call returns exactly that length, newlines included, for every input,   *)
(* line length and block size.                                             *)
THEOREM WritesAnnounced == Spec => []LengthExact
BY AlwaysInv, InvGivesLength, PTL

(* Every (w + 1)st position of a layout is a newline: there are q of them. *)
LEMMA CountNewlines ==
  ASSUME NEW w \in Nat \ {0}, NEW q \in Nat, NEW r \in 0..w
  PROVE  Cardinality({k \in 1..((w + 1) * q + r) : k % (w + 1) = 0}) = q
<1> DEFINE n == (w + 1) * q + r
           S == {k \in 1..n : k % (w + 1) = 0}
           f == [j \in 1..q |-> (w + 1) * j]
<1>0. w + 1 \in Nat \ {0} /\ (w + 1) * q \in Nat /\ n \in Nat /\ n = (w + 1) * q + r
  OBVIOUS
<1> HIDE DEF n
<1>1. ASSUME NEW j \in 1..q PROVE (w + 1) * j \in S
  <2>1. ((w + 1) * j + 0) % (w + 1) = 0
    <3>1. j \in Nat /\ 0 \in 0..((w + 1) - 1)
      OBVIOUS
    <3> QED
      BY ONLY <1>0, <3>1, DivideOnce
  <2>2. (w + 1) * j + 0 = (w + 1) * j /\ (w + 1) * j \in Nat /\ (w + 1) * j >= 1
    OBVIOUS
  <2>3. (w + 1) * (q - j) >= 0 /\ (w + 1) * (q - j) = (w + 1) * q - (w + 1) * j
    OBVIOUS
  <2>4. (w + 1) * j <= n
    BY <1>0, <2>2, <2>3
  <2> QED
    BY <1>0, <2>1, <2>2, <2>4
<1>2. ASSUME NEW a \in 1..q, NEW b \in 1..q, (w + 1) * a = (w + 1) * b PROVE a = b
  <2>1. (w + 1) * (a - b) = 0
    BY <1>2
  <2> QED
    BY <2>1
<1>3. ASSUME NEW k \in S PROVE \E j \in 1..q : (w + 1) * j = k
  <2>1. k \in 1..n /\ k % (w + 1) = 0
    OBVIOUS
  <2> DEFINE j == k \div (w + 1)
  <2>2. j \in Nat /\ k = (w + 1) * j + (k % (w + 1))
    BY ONLY <1>0, <2>1, Divided, k \in Nat
  <2> HIDE DEF j
  <2>3. k = (w + 1) * j
    BY <2>1, <2>2
  <2>4. j # 0
    BY <2>1, <2>3
  <2>5. j <= q
    <3> SUFFICES ASSUME q + 1 <= j PROVE FALSE
      BY <2>2
    <3>1. (w + 1) * (j - (q + 1)) >= 0
      BY <2>2
    <3>2. (w + 1) * (j - (q + 1)) = (w + 1) * j - (w + 1) * q - (w + 1)
      BY <2>2
    <3>3. k <= (w + 1) * q + r
      BY <1>0, <2>1
    <3> QED
      BY <1>0, <2>1, <2>3, <3>1, <3>2, <3>3
  <2> QED
    BY <2>2, <2>3, <2>4, <2>5
<1> HIDE DEF S
<1>4. f \in Bijection(1..q, S)
  <2>1. f \in [1..q -> S]
    BY <1>1
  <2>2. \A a, b \in 1..q : f[a] = f[b] => a = b
    BY <1>2
  <2>3. \A k \in S : \E j \in 1..q : f[j] = k
    BY <1>3
  <2> HIDE DEF f
  <2> QED
    BY ONLY <2>1, <2>2, <2>3 DEF Bijection, Injection, Surjection, IsInjective
<1>5. ExistsBijection(1..q, S)
  BY <1>4 DEF ExistsBijection
<1>6. Cardinality(S) = q
  BY ONLY <1>5, q \in Nat, FS_CountingElements
<1> QED
  BY <1>6 DEF S, n

LEMMA InvGivesLayout == Inv => OneLayout
<1> SUFFICES ASSUME Inv, pc = "returned" PROVE OneLayout
  BY DEF OneLayout, Returned
<1> DEFINE newlines == {k \in DOMAIN dst : dst[k] = Space}
<1>1. i = Len(call.input)
  BY DEF Inv, Located
<1>2. CASE call.lines
  <2>1. PICK q \in Nat, r \in Nat : /\ Laid(dst, width, q, r)
                                    /\ width * q + r = Announced(i)
    BY <1>2 DEF Inv, Written
  <2>2. width \in Nat \ {0}
    BY StateFacts
  <2>3. /\ dst \in Seq(Char) /\ r \in 0..width /\ (r = 0 => q = 0)
        /\ Len(dst) = (width + 1) * q + r
        /\ \A k \in 1..Len(dst) : dst[k] = Space <=> k % (width + 1) = 0
    BY <2>1 DEF Laid
  <2>4. DOMAIN dst = 1..Len(dst) /\ Len(dst) \in Nat
    BY <2>3, LenProperties
  <2>5. newlines = {k \in DOMAIN dst : k % (width + 1) = 0}
    <3> HIDE DEF width
    <3> QED
      BY <2>3, <2>4
  <2>6. dst # << >> => dst[Len(dst)] # Space
    <3> SUFFICES ASSUME dst # << >> PROVE dst[Len(dst)] # Space
      OBVIOUS
    <3>1. Len(dst) \in Nat \ {0}
      BY <2>3, EmptySeq
    <3>2. r # 0
      <4> HIDE DEF width
      <4>1. r = 0 => (width + 1) * q + r = 0
        BY <2>2, <2>3
      <4> QED
        BY <2>3, <3>1, <4>1
    <3>3. width + 1 \in Nat \ {0} /\ r \in 0..((width + 1) - 1)
      <4> HIDE DEF width
      <4> QED
        BY <2>2, <2>3
    <3>4. ((width + 1) * q + r) % (width + 1) = r
      BY ONLY q \in Nat, <3>3, DivideOnce
    <3>5. Len(dst) \in 1..Len(dst) /\ Len(dst) % (width + 1) # 0
      BY <2>3, <3>1, <3>2, <3>4
    <3> QED
      BY <2>3, <3>5
  <2>7. Cardinality(newlines) = q
    <3>1. Cardinality({k \in 1..((width + 1) * q + r) : k % (width + 1) = 0}) = q
      BY ONLY q \in Nat, <2>2, <2>3, CountNewlines
    <3>2. newlines = {k \in 1..((width + 1) * q + r) : k % (width + 1) = 0}
      BY <2>3, <2>4, <2>5
    <3> QED
      BY ONLY <3>1, <3>2
  <2>8. Len(dst) - Cardinality(newlines) = Announced(Len(call.input))
    <3>1. (width + 1) * q = width * q + q /\ width * q \in Nat
      <4> HIDE DEF width
      <4> QED
        BY <2>2
    <3>2. Len(dst) = width * q + q + r
      BY <2>3, <3>1
    <3> DEFINE x == width * q
    <3>3. Len(dst) = x + q + r /\ x \in Nat /\ x + r = Announced(Len(call.input))
      BY <1>1, <2>1, <3>1, <3>2
    <3> HIDE DEF x, newlines
    <3> QED
      BY <2>7, <3>3
  <2> HIDE DEF newlines
  <2>9. /\ newlines = IF call.lines THEN {k \in DOMAIN dst : k % (width + 1) = 0} ELSE {}
        /\ dst # << >> => dst[Len(dst)] # Space
        /\ Len(dst) - Cardinality(newlines)
             = LengthFromBinary(Len(call.input), call.options)
    BY <1>2, <2>5, <2>6, <2>8 DEF Announced
  <2> QED
    BY <2>9 DEF OneLayout, newlines
<1>3. CASE ~ call.lines
  <2>1. dst \in Seq(Glyphs) /\ Len(dst) = Announced(i)
    BY <1>3 DEF Inv, Written
  <2>2. Len(dst) \in Nat /\ DOMAIN dst = 1..Len(dst)
        /\ \A k \in 1..Len(dst) : dst[k] # Space
    BY <2>1, ElementOfSeq, LenProperties DEF Glyphs
  <2>3. newlines = {}
    BY <2>2
  <2>4. dst # << >> => dst[Len(dst)] # Space
    <3>1. dst # << >> => Len(dst) \in 1..Len(dst)
      BY <2>1, EmptySeq
    <3> QED
      BY <2>2, <3>1
  <2>5. Cardinality(newlines) = 0
    BY <2>3, FS_EmptySet
  <2>6. Len(dst) - Cardinality(newlines)
          = LengthFromBinary(Len(call.input), call.options)
    <3>1. Len(dst) = LengthFromBinary(Len(call.input), call.options)
      BY <1>1, <2>1 DEF Announced
    <3> HIDE DEF newlines
    <3> QED
      BY <2>2, <2>5, <3>1
  <2> QED
    BY <1>3, <2>3, <2>4, <2>6 DEF OneLayout
<1> QED
  BY <1>2, <1>3

(* The three ways of breaking lines give one layout: every line but the    *)
(* last is full, none is empty, there is no newline at the end, and without *)
(* newlines the text is as long as the plain encoding.                     *)
THEOREM LaysOutLines == Spec => []OneLayout
BY AlwaysInv, InvGivesLayout, PTL

-----------------------------------------------------------------------------
(* Texts that are others with whitespace between their characters *)

(* The characters of t are at at[1] < at[2] < ... in d, the rest is space. *)
Places(d, t, at) ==
  /\ at \in [1..Len(t) -> 1..Len(d)]
  /\ \A j, k \in 1..Len(t) : j < k => at[j] < at[k]
  /\ \A j \in 1..Len(t) : d[at[j]] = t[j]
  /\ \A k \in 1..Len(d) : d[k] = Space \/ \E j \in 1..Len(t) : at[j] = k

Spells(d, t) == \E at : Places(d, t, at)

LEMMA SpellsSelf ==
  ASSUME NEW t \in Seq(Glyphs)
  PROVE  Spells(t, t)
<1> DEFINE at == [j \in 1..Len(t) |-> j]
<1>1. Len(t) \in Nat
  BY LenProperties
<1>2. Places(t, t, at)
  BY <1>1 DEF Places
<1> QED
  BY <1>2 DEF Spells

LEMMA SpellsSpace == Spells(<<Space>>, << >>) /\ Spells(<< >>, << >>)
<1> DEFINE at == [j \in 1..0 |-> j]
<1>1. Len(<<Space>>) = 1 /\ <<Space>>[1] = Space /\ Len(<< >>) = 0
  OBVIOUS
<1>2. /\ at \in [1..0 -> 1..1] /\ at \in [1..0 -> 1..0]
      /\ \A k \in 1..1 : k = 1
  OBVIOUS
<1>3. ~ (\E j \in 1..0 : TRUE)
  OBVIOUS
<1> HIDE DEF at
<1>4. Places(<<Space>>, << >>, at)
  BY <1>1, <1>2, <1>3 DEF Places
<1>5. Places(<< >>, << >>, at)
  BY <1>1, <1>2, <1>3 DEF Places
<1> QED
  BY <1>4, <1>5 DEF Spells

LEMMA SpellsJoin ==
  ASSUME NEW d \in Seq(Char), NEW e \in Seq(Char), NEW t \in Seq(Glyphs),
         NEW u \in Seq(Glyphs), Spells(d, t), Spells(e, u)
  PROVE  Spells(d \o e, t \o u)
<1> DEFINE D == Len(d)
           E == Len(e)
           m == Len(t)
           n == Len(u)
           f == d \o e
           x == t \o u
<1>1. PICK at : Places(d, t, at)
  BY DEF Spells
<1>2. PICK bt : Places(e, u, bt)
  BY DEF Spells
<1>3. /\ at \in [1..m -> 1..D]
      /\ \A j, k \in 1..m : j < k => at[j] < at[k]
      /\ \A j \in 1..m : d[at[j]] = t[j]
      /\ \A k \in 1..D : d[k] = Space \/ \E j \in 1..m : at[j] = k
  BY <1>1 DEF Places
<1>4. /\ bt \in [1..n -> 1..E]
      /\ \A j, k \in 1..n : j < k => bt[j] < bt[k]
      /\ \A j \in 1..n : e[bt[j]] = u[j]
      /\ \A k \in 1..E : e[k] = Space \/ \E j \in 1..n : bt[j] = k
  BY <1>2 DEF Places
<1>5. /\ D \in Nat /\ E \in Nat /\ Len(f) = D + E
      /\ \A k \in 1..D : f[k] = d[k]
      /\ \A k \in 1..E : f[D + k] = e[k]
  BY ONLY d \in Seq(Char), e \in Seq(Char), AppendedText
<1>6. /\ m \in Nat /\ n \in Nat /\ Len(x) = m + n
      /\ \A k \in 1..m : x[k] = t[k]
      /\ \A k \in 1..n : x[m + k] = u[k]
  <2>1. /\ t \o u \in Seq(Glyphs) /\ Len(t) \in Nat /\ Len(u) \in Nat
        /\ Len(t \o u) = Len(t) + Len(u)
        /\ \A k \in 1..Len(t) : (t \o u)[k] = t[k]
        /\ \A k \in 1..Len(u) : (t \o u)[Len(t) + k] = u[k]
    BY ONLY t \in Seq(Glyphs), u \in Seq(Glyphs), AppendedAt
  <2> QED
    BY ONLY <2>1
<1> DEFINE ct == [j \in 1..(m + n) |-> IF j <= m THEN at[j] ELSE D + bt[j - m]]
<1> HIDE DEF D, E, m, n, f, x
<1>7. ASSUME NEW j \in 1..(m + n)
      PROVE  \/ j \in 1..m /\ ct[j] = at[j] /\ at[j] \in 1..D
             \/ j - m \in 1..n /\ m < j /\ m + (j - m) = j
                /\ ct[j] = D + bt[j - m] /\ bt[j - m] \in 1..E
  <2>1. CASE j <= m
    <3>1. j \in 1..m
      BY <1>6, <2>1
    <3> QED
      BY <1>3, <2>1, <3>1
  <2>2. CASE ~ (j <= m)
    <3>1. j - m \in 1..n /\ m < j /\ m + (j - m) = j
      BY <1>6, <2>2
    <3> QED
      BY <1>4, <2>2, <3>1
  <2> QED
    BY <2>1, <2>2
<1>8. DOMAIN ct = 1..(m + n) /\ ct = [j \in 1..(m + n) |-> ct[j]]
  OBVIOUS
<1>9. \A j \in 1..m : j \in 1..(m + n) /\ ct[j] = at[j]
  <2>1. \A j \in 1..m : j \in 1..(m + n) /\ j <= m
    BY <1>6
  <2> QED
    BY <2>1
<1>10. \A j \in 1..n : m + j \in 1..(m + n) /\ ct[m + j] = D + bt[j]
  <2>1. \A j \in 1..n : m + j \in 1..(m + n) /\ ~ (m + j <= m) /\ (m + j) - m = j
    BY <1>6
  <2> QED
    BY <2>1
<1> HIDE DEF ct
<1>11. ct \in [1..(m + n) -> 1..(D + E)]
  <2>1. ASSUME NEW j \in 1..(m + n) PROVE ct[j] \in 1..(D + E)
    BY <1>5, <1>7
  <2> QED
    BY <1>8, <2>1
<1>12. ASSUME NEW j \in 1..(m + n), NEW k \in 1..(m + n), j < k PROVE ct[j] < ct[k]
  <2>1. CASE j \in 1..m /\ k \in 1..m
    BY <1>3, <1>9, <1>12, <2>1
  <2>2. CASE j \in 1..m /\ k \notin 1..m
    <3>1. ct[j] \in 1..D
      BY <1>3, <1>9, <2>2
    <3>2. ct[k] = D + bt[k - m] /\ bt[k - m] \in 1..E
      BY <1>7, <2>2
    <3> QED
      BY <1>5, <3>1, <3>2
  <2>3. CASE j \notin 1..m
    <3>1. j - m \in 1..n /\ ct[j] = D + bt[j - m] /\ bt[j - m] \in 1..E
      BY <1>7, <2>3
    <3>2. k \notin 1..m
      BY <1>6, <1>12, <2>3
    <3>3. k - m \in 1..n /\ ct[k] = D + bt[k - m] /\ bt[k - m] \in 1..E
      BY <1>7, <3>2
    <3>4. j - m < k - m
      BY <1>6, <1>12
    <3>5. bt[j - m] < bt[k - m]
      BY <1>4, <3>1, <3>3, <3>4
    <3> QED
      BY <1>5, <3>1, <3>3, <3>5
  <2> QED
    BY <2>1, <2>2, <2>3
<1>13. ASSUME NEW j \in 1..(m + n) PROVE f[ct[j]] = x[j]
  <2>1. CASE j \in 1..m
    <3>1. ct[j] = at[j] /\ at[j] \in 1..D /\ d[at[j]] = t[j] /\ x[j] = t[j]
      BY ONLY <1>3, <1>6, <1>9, <2>1
    <3>2. f[at[j]] = d[at[j]]
      BY ONLY <1>5, <3>1
    <3> QED
      BY ONLY <3>1, <3>2
  <2>2. CASE j \notin 1..m
    <3>1. j - m \in 1..n /\ m + (j - m) = j /\ ct[j] = D + bt[j - m] /\ bt[j - m] \in 1..E
      BY <1>7, <2>2
    <3>2. f[D + bt[j - m]] = e[bt[j - m]] /\ x[m + (j - m)] = u[j - m]
      BY <1>5, <1>6, <3>1
    <3> QED
      BY <1>4, <3>1, <3>2
  <2> QED
    BY <2>1, <2>2
<1>14. ASSUME NEW k \in 1..(D + E) PROVE f[k] = Space \/ \E j \in 1..(m + n) : ct[j] = k
  <2>1. CASE k \in 1..D
    <3>1. f[k] = d[k]
      BY <1>5, <2>1
    <3> QED
      BY <1>3, <1>9, <2>1, <3>1
  <2>2. CASE k \notin 1..D
    <3>1. k - D \in 1..E /\ D + (k - D) = k
      BY <1>5, <2>2
    <3>2. f[k] = e[k - D]
      BY <1>5, <3>1
    <3> QED
      BY <1>4, <1>10, <3>1, <3>2
  <2> QED
    BY <2>1, <2>2
<1>15. Places(f, x, ct)
  BY <1>5, <1>6, <1>11, <1>12, <1>13, <1>14 DEF Places
<1> QED
  BY <1>15 DEF Spells, f, x

(* A quartet broken where its line is full still spells itself.            *)
LEMMA SplitSpells ==
  ASSUME NEW t \in Seq(Glyphs), NEW left \in Nat
  PROVE  Spells(SplitAt(t, left), t)
<1> DEFINE a == SubSeq(t, 1, left)
           b == SubSeq(t, left + 1, Len(t))
<1>1. CASE ~ (left < Len(t))
  <2>1. SplitAt(t, left) = t
    BY <1>1 DEF SplitAt
  <2> QED
    BY <2>1, SpellsSelf
<1>2. CASE left < Len(t)
  <2>1. Len(t) \in Nat /\ \A k \in 1..Len(t) : t[k] \in Glyphs
    BY ElementOfSeq, LenProperties
  <2>2. a \in Seq(Glyphs)
    <3>1. 1 \in Int /\ left \in Int /\ \A k \in 1..left : t[k] \in Glyphs
      BY <1>2, <2>1
    <3> QED
      BY ONLY <3>1, SubSeqProperties
  <2>3. b \in Seq(Glyphs)
    <3>1. left + 1 \in Int /\ Len(t) \in Int /\ \A k \in (left + 1)..Len(t) : t[k] \in Glyphs
      BY <2>1
    <3> QED
      BY ONLY <3>1, SubSeqProperties
  <2>4. a \o b = t
    <3>1. 1 \in 1..(Len(t) + 1) /\ left \in (1 - 1)..Len(t) /\ Len(t) \in left..Len(t)
      BY <1>2, <2>1
    <3>2. a \o b = SubSeq(t, 1, Len(t))
      BY ONLY t \in Seq(Glyphs), <3>1, ConcatAdjacentSubSeq
    <3>3. SubSeq(t, 1, Len(t)) = t
      BY ONLY t \in Seq(Glyphs), SubSeqFull
    <3> QED
      BY ONLY <3>2, <3>3
  <2>5. SplitAt(t, left) = (a \o <<Space>>) \o b
    BY <1>2 DEF SplitAt
  <2> HIDE DEF a, b
  <2>6. a \in Seq(Char) /\ b \in Seq(Char) /\ <<Space>> \in Seq(Char) /\ << >> \in Seq(Glyphs)
    <3>1. Glyphs \subseteq Char
      BY DEF Glyphs
    <3>2. a \in Seq(Char) /\ b \in Seq(Char)
      BY ONLY <2>2, <2>3, <3>1, Widened
    <3>3. <<Space>> \in Seq(Char)
      BY DEF Space, Char
    <3> QED
      BY ONLY <3>2, <3>3, EmptySeq
  <2>7. Spells(a \o <<Space>>, a)
    <3>1. Spells(a, a) /\ Spells(<<Space>>, << >>)
      BY ONLY <2>2, SpellsSelf, SpellsSpace
    <3>2. Spells(a \o <<Space>>, a \o << >>)
      BY ONLY <2>2, <2>6, <3>1, SpellsJoin
    <3>3. a \o << >> = a
      BY ONLY <2>2, ConcatEmptySeq
    <3> QED
      BY ONLY <3>2, <3>3
  <2>8. a \o <<Space>> \in Seq(Char)
    BY ONLY <2>6, AppendedText
  <2>9. Spells(b, b)
    BY ONLY <2>3, SpellsSelf
  <2>10. Spells((a \o <<Space>>) \o b, a \o b)
    BY ONLY <2>2, <2>3, <2>6, <2>7, <2>8, <2>9, SpellsJoin
  <2> QED
    BY ONLY <2>4, <2>5, <2>10
<1> QED
  BY <1>1, <1>2

LEMMA SpellsOne ==
  ASSUME NEW c
  PROVE  Spells(<<c>>, <<c>>) /\ Spells(<<Space, c>>, <<c>>)
<1> DEFINE one == [j \in 1..1 |-> 1]
           two == [j \in 1..1 |-> 2]
<1>1. /\ Len(<<c>>) = 1 /\ <<c>>[1] = c
      /\ Len(<<Space, c>>) = 2 /\ <<Space, c>>[1] = Space /\ <<Space, c>>[2] = c
  OBVIOUS
<1>2. /\ one \in [1..1 -> 1..1] /\ two \in [1..1 -> 1..2] /\ one[1] = 1 /\ two[1] = 2
      /\ \A k \in 1..1 : k = 1
      /\ \A k \in 1..2 : k = 1 \/ k = 2
      /\ \A j, k \in 1..1 : ~ (j < k)
      /\ 1 \in 1..1
  OBVIOUS
<1> HIDE DEF one, two
<1>3. Places(<<c>>, <<c>>, one)
  BY <1>1, <1>2 DEF Places
<1>4. Places(<<Space, c>>, <<c>>, two)
  <2> DEFINE d == <<Space, c>>
             t == <<c>>
  <2>1. /\ Len(d) = 2 /\ d[1] = Space /\ d[2] = c /\ Len(t) = 1 /\ t[1] = c
    BY <1>1
  <2> HIDE DEF d, t
  <2>2. \A k \in 1..2 : d[k] = Space \/ \E j \in 1..1 : two[j] = k
    BY ONLY <1>2, <2>1
  <2>3. \A j \in 1..1 : d[two[j]] = t[j]
    BY ONLY <1>2, <2>1
  <2>4. Places(d, t, two)
    BY ONLY <1>2, <2>1, <2>2, <2>3 DEF Places
  <2> QED
    BY <2>4 DEF d, t
<1> QED
  BY <1>3, <1>4 DEF Spells

(* What the copy loop writes spells what it copies.                        *)
LEMMA CopySpells ==
  ASSUME NEW w \in Nat \ {0}, NEW r \in Nat, NEW t \in Seq(Glyphs)
  PROVE  Spells(FlattenSeq(Spaced(t, w, r)), t)
<1> DEFINE n == Len(t)
           s == Spaced(t, w, r)
<1>1. n \in Nat /\ DOMAIN t = 1..n /\ \A k \in 1..n : t[k] \in Glyphs
  BY ElementOfSeq, LenProperties
<1>2. s \in Seq(Seq(Char)) /\ Len(s) = n
  BY SpacedType
<1>3. \A k \in 1..n : s[k] = <<Space, t[k]>> \/ s[k] = <<t[k]>>
  BY <1>1 DEF Spaced
<1>4. \A k \in 1..n : s[k] \in Seq(Char) /\ Spells(s[k], <<t[k]>>)
                      /\ <<t[k]>> \in Seq(Glyphs)
  <2> SUFFICES ASSUME NEW k \in 1..n
               PROVE  s[k] \in Seq(Char) /\ Spells(s[k], <<t[k]>>) /\ <<t[k]>> \in Seq(Glyphs)
    OBVIOUS
  <2>1. s[k] \in Seq(Char)
    BY <1>2, ElementOfSeq
  <2>2. Spells(<<t[k]>>, <<t[k]>>) /\ Spells(<<Space, t[k]>>, <<t[k]>>)
    BY SpellsOne
  <2>3. <<t[k]>> \in Seq(Glyphs)
    BY <1>1
  <2> QED
    BY ONLY <1>3, <2>1, <2>2, <2>3, k \in 1..n
<1> HIDE DEF s
<1>5. CASE n = 0
  <2>1. t = << >> /\ s = << >>
    <3>1. Len(t) = 0 /\ Len(s) = 0
      BY <1>2, <1>5
    <3> QED
      BY ONLY <1>2, <3>1, t \in Seq(Glyphs), EmptySeq
  <2>2. FlattenSeq(s) = << >>
    <3>1. Len(s) = 0
      BY <1>2, <1>5
    <3> QED
      BY <2>1, <3>1 DEF FlattenSeq
  <2> QED
    BY <2>1, <2>2, SpellsSpace DEF s
<1>6. CASE n # 0
  <2>1. s # << >> /\ n \in 1..n
    BY <1>1, <1>2, <1>6
  <2>2. PICK g \in [1..Len(s) -> Seq(Char)] :
          /\ FlattenSeq(s) = g[Len(s)]
          /\ \A j \in 1..Len(s) : g[j] = IF j = 1 THEN s[j] ELSE g[j - 1] \o s[j]
    BY ONLY <1>2, <2>1, FlattenJoins
  <2>3. /\ FlattenSeq(s) = g[n] /\ \A j \in 1..n : g[j] \in Seq(Char)
        /\ \A j \in 1..n : g[j] = IF j = 1 THEN s[j] ELSE g[j - 1] \o s[j]
    BY <1>2, <2>2
  <2> DEFINE Goes(k) == Spells(g[k], SubSeq(t, 1, k))
             Missing == {k \in 1..n : ~ Goes(k)}
  <2>4. \A k \in 1..n : /\ SubSeq(t, 1, k) \in Seq(Glyphs)
                        /\ k = 1 => SubSeq(t, 1, k) = <<t[k]>>
                        /\ k # 1 => SubSeq(t, 1, k) = SubSeq(t, 1, k - 1) \o <<t[k]>>
    <3> SUFFICES ASSUME NEW k \in 1..n
                 PROVE  /\ SubSeq(t, 1, k) \in Seq(Glyphs)
                        /\ k = 1 => SubSeq(t, 1, k) = <<t[k]>>
                        /\ k # 1 => SubSeq(t, 1, k) = SubSeq(t, 1, k - 1) \o <<t[k]>>
      OBVIOUS
    <3>1. SubSeq(t, 1, k) \in Seq(Glyphs)
      <4>1. 1 \in Int /\ k \in Int /\ \A j \in 1..k : t[j] \in Glyphs
        BY <1>1
      <4> QED
        BY ONLY <4>1, SubSeqProperties
    <3>2. SubSeq(t, 1, k) = SubSeq(t, 1, k - 1) \o <<t[k]>>
      <4>1. 1 \in 1..Len(t) /\ k \in 1..Len(t)
        BY <1>1
      <4> QED
        BY ONLY t \in Seq(Glyphs), <4>1, SubSeqRecursiveSecond
    <3>3. k = 1 => SubSeq(t, 1, k) = <<t[k]>>
      <4>1. 1 \in Int /\ 0 \in Int /\ 0 < 1 /\ (k = 1 => k - 1 = 0)
        OBVIOUS
      <4>2. SubSeq(t, 1, 0) = << >>
        BY ONLY <4>1, SubSeqEmpty
      <4>3. << >> \o <<t[k]>> = <<t[k]>>
        BY ONLY <1>4, k \in 1..n, ConcatEmptySeq
      <4> QED
        BY ONLY <3>2, <4>1, <4>2, <4>3
    <3> QED
      BY <3>1, <3>2, <3>3
  <2>5. Missing = {}
    <3> SUFFICES ASSUME Missing # {} PROVE FALSE
      OBVIOUS
    <3>1. PICK m \in Missing : \A k \in Missing : m <= k
      <4>1. Missing \in SUBSET Nat
        BY <1>1
      <4> HIDE DEF Missing
      <4> QED
        BY <4>1, LeastOf
    <3>2. m \in 1..n /\ ~ Goes(m)
      BY <3>1
    <3>3. CASE m = 1
      <4>1. g[m] = s[m] /\ SubSeq(t, 1, m) = <<t[m]>>
        BY <2>3, <2>4, <3>2, <3>3
      <4> QED
        BY <1>4, <3>2, <4>1
    <3>4. CASE m # 1
      <4>1. m - 1 \in 1..n /\ ~ (m <= m - 1)
        BY <1>1, <3>2, <3>4
      <4>2. Goes(m - 1)
        <5>1. m - 1 \notin Missing
          BY <3>1, <4>1
        <5> HIDE DEF Goes
        <5> QED
          BY <4>1, <5>1
      <4>3. g[m] = g[m - 1] \o s[m] /\ SubSeq(t, 1, m) = SubSeq(t, 1, m - 1) \o <<t[m]>>
        BY <2>3, <2>4, <3>2, <3>4
      <4>4. /\ g[m - 1] \in Seq(Char) /\ s[m] \in Seq(Char)
            /\ SubSeq(t, 1, m - 1) \in Seq(Glyphs) /\ <<t[m]>> \in Seq(Glyphs)
            /\ Spells(g[m - 1], SubSeq(t, 1, m - 1)) /\ Spells(s[m], <<t[m]>>)
        BY <1>4, <2>3, <2>4, <3>2, <4>1, <4>2
      <4>5. Spells(g[m - 1] \o s[m], SubSeq(t, 1, m - 1) \o <<t[m]>>)
        BY ONLY <4>4, SpellsJoin
      <4> QED
        BY <3>2, <4>3, <4>5
    <3> QED
      BY <3>3, <3>4
  <2>6. Goes(n)
    BY <2>1, <2>5
  <2>7. SubSeq(t, 1, n) = t
    BY SubSeqFull
  <2> QED
    BY <2>3, <2>6, <2>7 DEF s
<1> QED
  BY <1>5, <1>6

-----------------------------------------------------------------------------
(* The characters of the encoding *)

(* How many characters of the encoding of n bytes spell values.            *)
ValueCount(n) == (n \div 3) * 4 + (IF n % 3 = 0 THEN 0 ELSE (n % 3) + 1)

GlyphOf(k) == IF k <= ValueCount(Len(call.input))
              THEN Spell(call.options, Canonical(call.input, k)) ELSE Pad

(* m characters of the encoding of the input, after lo of them.            *)
Run(lo, m) == [k \in 1..m |-> GlyphOf(lo + k)]

LEMMA ByteOfType ==
  ASSUME NEW b \in Seq(0..255), NEW k \in Nat, k >= 1
  PROVE  ByteOf(b, k) \in 0..255
<1>1. CASE k <= Len(b)
  <2>1. k \in 1..Len(b)
    BY <1>1, LenProperties
  <2> QED
    BY <1>1, <2>1, ElementOfSeq DEF ByteOf
<1>2. CASE ~ (k <= Len(b))
  BY <1>2 DEF ByteOf
<1> QED
  BY <1>1, <1>2

LEMMA CanonicalType ==
  ASSUME NEW b \in Seq(0..255), NEW k \in Nat, k >= 1
  PROVE  Canonical(b, k) \in 0..63
<1> DEFINE q == (k - 1) \div 4
           x == ByteOf(b, 3 * q + 1)
           y == ByteOf(b, 3 * q + 2)
           z == ByteOf(b, 3 * q + 3)
<1>1. q \in Nat /\ (k = 4 * q + 1 \/ k = 4 * q + 2 \/ k = 4 * q + 3 \/ k = 4 * q + 4)
  OBVIOUS
<1> HIDE DEF q
<1>2. x \in 0..255 /\ y \in 0..255 /\ z \in 0..255
  <2>1. /\ 3 * q + 1 \in Nat /\ 3 * q + 1 >= 1 /\ 3 * q + 2 \in Nat /\ 3 * q + 2 >= 1
        /\ 3 * q + 3 \in Nat /\ 3 * q + 3 >= 1
    BY <1>1
  <2> QED
    BY ONLY b \in Seq(0..255), <2>1, ByteOfType
<1>3. Splits(Canonical(b, 4 * q + 1), Canonical(b, 4 * q + 2),
             Canonical(b, 4 * q + 3), Canonical(b, 4 * q + 4), x, y, z)
  BY <1>1, CanonicalAt
<1> HIDE DEF x, y, z
<1>4. /\ x \div 4 \in 0..63 /\ z % 64 \in 0..63
      /\ (x % 4) * 16 + (y \div 16) \in 0..63 /\ (y % 16) * 4 + (z \div 64) \in 0..63
  <2>1. x \div 4 \in 0..63
    BY ONLY <1>2, OuterSextets, Zenon
  <2>2. z % 64 \in 0..63
    BY ONLY <1>2, OuterSextets, Zenon
  <2>3. (x % 4) * 16 + (y \div 16) \in 0..63
    BY ONLY <1>2, SecondSextet, Zenon
  <2>4. (y % 16) * 4 + (z \div 64) \in 0..63
    BY ONLY <1>2, ThirdSextet, Zenon
  <2> QED
    BY ONLY <2>1, <2>2, <2>3, <2>4
<1>5. /\ Canonical(b, 4 * q + 1) \in 0..63 /\ Canonical(b, 4 * q + 2) \in 0..63
      /\ Canonical(b, 4 * q + 3) \in 0..63 /\ Canonical(b, 4 * q + 4) \in 0..63
  BY ONLY <1>3, <1>4 DEF Splits
<1> QED
  BY ONLY <1>1, <1>5

LEMMA RunType ==
  ASSUME call.input \in Seq(0..255), NEW lo \in Nat, NEW m \in Nat
  PROVE  /\ Run(lo, m) \in Seq(Glyphs) /\ Len(Run(lo, m)) = m
         /\ \A k \in 1..m : Run(lo, m)[k] = GlyphOf(lo + k)
<1> DEFINE x == Run(lo, m)
<1>1. ASSUME NEW k \in 1..m PROVE GlyphOf(lo + k) \in Glyphs
  <2>1. lo + k \in Nat /\ lo + k >= 1
    OBVIOUS
  <2>2. Canonical(call.input, lo + k) \in 0..63
    BY ONLY call.input \in Seq(0..255), <2>1, CanonicalType
  <2>3. Spell(call.options, Canonical(call.input, lo + k)) \in Glyphs
    BY ONLY <2>2, SpellType
  <2>4. Pad \in Glyphs
    BY DEF Pad, Glyphs, Space, Char
  <2> QED
    BY ONLY <2>3, <2>4 DEF GlyphOf
<1>2. DOMAIN x = 1..m /\ \A k \in 1..m : x[k] = GlyphOf(lo + k)
  BY DEF Run
<1>3. x \in [1..m -> Glyphs]
  BY <1>1 DEF Run
<1> HIDE DEF x
<1>4. x \in Seq(Glyphs)
  BY ONLY m \in Nat, <1>3, SeqDef
<1>5. Len(x) = m
  BY ONLY m \in Nat, <1>2, <1>4, LenProperties
<1> QED
  BY <1>2, <1>4, <1>5 DEF x

LEMMA RunJoin ==
  ASSUME call.input \in Seq(0..255), NEW lo \in Nat, NEW a \in Nat, NEW b \in Nat
  PROVE  Run(lo, a) \o Run(lo + a, b) = Run(lo, a + b)
<1> DEFINE x == Run(lo, a)
           y == Run(lo + a, b)
           z == Run(lo, a + b)
<1>1. x \in Seq(Glyphs) /\ Len(x) = a /\ \A k \in 1..a : x[k] = GlyphOf(lo + k)
  BY RunType
<1>2. y \in Seq(Glyphs) /\ Len(y) = b /\ \A k \in 1..b : y[k] = GlyphOf((lo + a) + k)
  <2>1. lo + a \in Nat
    OBVIOUS
  <2> QED
    BY <2>1, RunType
<1>3. z \in Seq(Glyphs) /\ Len(z) = a + b /\ \A k \in 1..(a + b) : z[k] = GlyphOf(lo + k)
  <2>1. a + b \in Nat
    OBVIOUS
  <2> QED
    BY <2>1, RunType
<1> HIDE DEF x, y, z
<1>4. /\ x \o y \in Seq(Glyphs) /\ Len(x \o y) = Len(x) + Len(y)
      /\ \A k \in 1..Len(x) : (x \o y)[k] = x[k]
      /\ \A k \in 1..Len(y) : (x \o y)[Len(x) + k] = y[k]
  <2>1. x \in Seq(Glyphs) /\ y \in Seq(Glyphs)
    BY <1>1, <1>2
  <2> QED
    BY ONLY <2>1, AppendedAt
<1>5. ASSUME NEW k \in 1..(a + b) PROVE (x \o y)[k] = z[k]
  <2>1. CASE k \in 1..a
    BY ONLY <1>1, <1>3, <1>4, k \in 1..(a + b), <2>1
  <2>2. CASE k \notin 1..a
    <3>1. k - a \in 1..b /\ a + (k - a) = k /\ (lo + a) + (k - a) = lo + k
      BY <2>2
    <3>2. (x \o y)[a + (k - a)] = y[k - a]
      BY ONLY <1>1, <1>2, <1>4, <3>1
    <3>3. y[k - a] = GlyphOf((lo + a) + (k - a))
      BY ONLY <1>2, <3>1
    <3> QED
      BY ONLY <1>3, k \in 1..(a + b), <3>1, <3>2, <3>3
  <2> QED
    BY <2>1, <2>2
<1>6. x \o y = z
  <2>1. Len(x \o y) = Len(z) /\ \A k \in 1..Len(x \o y) : (x \o y)[k] = z[k]
    BY ONLY <1>1, <1>2, <1>3, <1>4, <1>5
  <2> QED
    BY ONLY <1>3, <1>4, <2>1, SeqEqual
<1> QED
  BY <1>6 DEF x, y, z

(* Of the q-th quartet, what spells values and what pads.                  *)
LEMMA ValuesOfQuartet ==
  ASSUME NEW N \in Nat, NEW q \in Nat, NEW n \in 1..3, 3 * q + n <= N,
         n = 3 \/ 3 * q + n = N, NEW k \in 1..4
  PROVE  4 * q + k <= ValueCount(N) <=> k <= n + 1
<1> DEFINE a == N \div 3
           r == N % 3
           e == IF r = 0 THEN 0 ELSE r + 1
<1>1. a \in Nat /\ r \in 0..2 /\ N = 3 * a + r
  OBVIOUS
<1>2. ValueCount(N) = a * 4 + e
  BY DEF ValueCount
<1> HIDE DEF a, r
<1>3. CASE n = 3
  <2>1. a >= q + 1
    BY <1>1, <1>3
  <2>2. e >= 0 /\ e \in Nat
    BY <1>1
  <2> HIDE DEF e
  <2> QED
    BY <1>1, <1>2, <1>3, <2>1, <2>2
<1>4. CASE n # 3
  <2>1. 3 * q + n = 3 * a + r /\ n \in 1..2
    BY <1>1, <1>4
  <2>2. a = q /\ r = n
    BY <1>1, <2>1
  <2>3. ValueCount(N) = q * 4 + (n + 1)
    BY <1>2, <2>1, <2>2
  <2> QED
    BY <2>1, <2>3
<1> QED
  BY <1>3, <1>4
(* A quartet is the next run of characters of the encoding.                *)
LEMMA TextIsRun ==
  ASSUME call.input \in Seq(0..255), NEW q \in Nat, NEW n \in 1..3,
         3 * q + n <= Len(call.input), n = 3 \/ 3 * q + n = Len(call.input)
  PROVE  TextOf(Bytes(3 * q, n), call.options)
           = Run(4 * q, LengthFromBinary(n, call.options))
<1> DEFINE b == Bytes(3 * q, n)
           in == call.input
           o == call.options
           byte(k) == IF k <= Len(b) THEN b[k] ELSE 0
           values  == << byte(1) \div 4,
                         (byte(1) % 4) * 16 + (byte(2) \div 16),
                         (byte(2) % 16) * 4 + (byte(3) \div 64),
                         byte(3) % 64 >>
           text    == [k \in 1..(n + 1) |-> Spell(o, values[k])]
           pads    == [k \in 1..(3 - n) |-> Pad]
           m       == LengthFromBinary(n, o)
           run     == Run(4 * q, m)
<1>1. /\ Len(in) \in Nat /\ \A k \in 1..Len(in) : in[k] \in 0..255
      /\ 3 * q + n <= Len(in)
  BY ElementOfSeq, LenProperties
<1>2. /\ b \in Seq(0..255) /\ Len(b) = n
      /\ \A k \in 1..n : b[k] = in[3 * q + k] /\ 3 * q + k \in 1..Len(in)
  <2> DEFINE lo == 3 * q + 1
             hi == 3 * q + n
  <2>1. /\ lo \in Int /\ hi \in Int /\ lo <= hi /\ hi - lo + 1 = n
        /\ \A k \in lo..hi : k \in 1..Len(in)
        /\ \A k \in 1..n : lo + k - 1 = 3 * q + k /\ 3 * q + k \in 1..Len(in)
    <3> HIDE DEF in
    <3> QED
      BY <1>1
  <2>2. b = SubSeq(in, lo, hi)
    BY DEF Bytes
  <2> HIDE DEF lo, hi, b, in
  <2>3. \A k \in lo..hi : in[k] \in 0..255
    BY ONLY <1>1, <2>1
  <2>4. /\ SubSeq(in, lo, hi) \in Seq(0..255)
        /\ Len(SubSeq(in, lo, hi)) = IF lo <= hi THEN hi - lo + 1 ELSE 0
        /\ \A k \in 1..(hi - lo + 1) : SubSeq(in, lo, hi)[k] = in[lo + k - 1]
    BY ONLY <2>1, <2>3, SubSeqProperties
  <2>5. Len(b) = n
    BY ONLY <2>1, <2>2, <2>4
  <2>6. \A k \in 1..n : b[k] = in[3 * q + k]
    BY ONLY <2>1, <2>2, <2>4
  <2> QED
    BY ONLY <2>1, <2>2, <2>4, <2>5, <2>6
<1>3. \A k \in 1..3 : byte(k) = ByteOf(in, 3 * q + k)
  <2> HIDE DEF b, in
  <2> SUFFICES ASSUME NEW k \in 1..3 PROVE byte(k) = ByteOf(in, 3 * q + k)
    OBVIOUS
  <2>1. CASE k <= n
    <3>1. k \in 1..n /\ k <= Len(b)
      BY <1>2, <2>1
    <3>2. b[k] = in[3 * q + k] /\ 3 * q + k <= Len(in)
      BY <1>1, <1>2, <3>1
    <3> QED
      BY <3>1, <3>2 DEF ByteOf
  <2>2. CASE ~ (k <= n)
    <3>1. ~ (k <= Len(b)) /\ n # 3
      BY <1>2, <2>2
    <3>2. ~ (3 * q + k <= Len(in))
      BY <1>1, <2>2, <3>1 DEF in
    <3> QED
      BY <3>1, <3>2 DEF ByteOf
  <2> QED
    BY <2>1, <2>2
<1>4. \A k \in 1..4 : values[k] = Canonical(in, 4 * q + k)
  <2>1. Splits(Canonical(in, 4 * q + 1), Canonical(in, 4 * q + 2),
               Canonical(in, 4 * q + 3), Canonical(in, 4 * q + 4),
               ByteOf(in, 3 * q + 1), ByteOf(in, 3 * q + 2), ByteOf(in, 3 * q + 3))
    BY ONLY q \in Nat, CanonicalAt
  <2>2. /\ byte(1) = ByteOf(in, 3 * q + 1) /\ byte(2) = ByteOf(in, 3 * q + 2)
        /\ byte(3) = ByteOf(in, 3 * q + 3)
    <3>1. 1 \in 1..3 /\ 2 \in 1..3 /\ 3 \in 1..3
      OBVIOUS
    <3> HIDE DEF byte
    <3> QED
      BY ONLY <1>3, <3>1
  <2> HIDE DEF byte, in
  <2>3. /\ values[1] = Canonical(in, 4 * q + 1) /\ values[2] = Canonical(in, 4 * q + 2)
        /\ values[3] = Canonical(in, 4 * q + 3) /\ values[4] = Canonical(in, 4 * q + 4)
    <3>1. /\ values[1] = byte(1) \div 4
          /\ values[2] = (byte(1) % 4) * 16 + (byte(2) \div 16)
          /\ values[3] = (byte(2) % 16) * 4 + (byte(3) \div 64)
          /\ values[4] = byte(3) % 64
      OBVIOUS
    <3> HIDE DEF values
    <3> QED
      BY ONLY <2>1, <2>2, <3>1 DEF Splits
  <2> HIDE DEF values
  <2>4. \A k \in 1..4 : k = 1 \/ k = 2 \/ k = 3 \/ k = 4
    OBVIOUS
  <2> QED
    BY ONLY <2>3, <2>4
<1>5. TextOf(b, o) = IF UsePadding(o) THEN text \o pads ELSE text
  <2> HIDE DEF b, o
  <2> QED
    BY ONLY <1>2 DEF TextOf, byte, values, text, pads
<1>6. \A k \in 1..4 : GlyphOf(4 * q + k) = IF k <= n + 1 THEN Spell(o, values[k]) ELSE Pad
  <2> SUFFICES ASSUME NEW k \in 1..4
               PROVE  GlyphOf(4 * q + k) = IF k <= n + 1 THEN Spell(o, values[k]) ELSE Pad
    OBVIOUS
  <2>1. 4 * q + k <= ValueCount(Len(in)) <=> k <= n + 1
    BY ONLY <1>1, q \in Nat, n \in 1..3, k \in 1..4, 3 * q + n <= Len(call.input),
            n = 3 \/ 3 * q + n = Len(call.input), ValuesOfQuartet
  <2> HIDE DEF values
  <2> QED
    BY <1>4, <2>1 DEF GlyphOf
<1> HIDE DEF values
<1>7. m = (IF UsePadding(o) THEN 4 ELSE n + 1) /\ m \in 1..4 /\ n + 1 <= m
  <2>1. n = 1 \/ n = 2 \/ n = 3
    OBVIOUS
  <2>2. m = IF UsePadding(o) THEN 4 ELSE n + 1
    BY <2>1 DEF LengthFromBinary
  <2> HIDE DEF m
  <2> QED
    BY <2>2
<1>8. run \in Seq(Glyphs) /\ Len(run) = m /\ \A k \in 1..m : run[k] = GlyphOf(4 * q + k)
  <2>1. 4 * q \in Nat /\ m \in Nat
    BY <1>7
  <2> QED
    BY ONLY call.input \in Seq(0..255), <2>1, RunType
<1>9. /\ TextOf(b, o) \in Seq(Glyphs) /\ Len(TextOf(b, o)) = m
  <2>1. Len(b) \in 1..3
    BY <1>2
  <2>2. /\ TextOf(b, o) \in Seq(Glyphs)
        /\ Len(TextOf(b, o)) = LengthFromBinary(Len(b), o)
    BY ONLY <1>2, <2>1, TextOfType
  <2> QED
    BY <1>2, <2>2
<1> HIDE DEF b, o, in, run, m
<1>10. \A k \in 1..m : TextOf(b, o)[k] = IF k <= n + 1 THEN Spell(o, values[k]) ELSE Pad
  <2>1. \A k \in 1..(n + 1) : text[k] = Spell(o, values[k])
    OBVIOUS
  <2>2. \A k \in 1..(3 - n) : pads[k] = Pad
    OBVIOUS
  <2>3. text = [k \in 1..(n + 1) |-> text[k]] /\ DOMAIN text = 1..(n + 1)
    OBVIOUS
  <2>4. text \in Seq(Glyphs) /\ Len(text) = n + 1
    <3>1. ASSUME NEW k \in 1..(n + 1) PROVE text[k] \in Glyphs
      <4>1. k \in 1..4 /\ k \in 1..m
        BY <1>7
      <4>2. text[k] = run[k]
        BY <1>6, <1>8, <2>1, <4>1
      <4> QED
        BY <1>8, <4>1, <4>2, ElementOfSeq
    <3> HIDE DEF text
    <3>2. text \in [1..(n + 1) -> Glyphs] /\ n + 1 \in Nat
      BY <2>3, <3>1
    <3>3. text \in Seq(Glyphs)
      BY ONLY <3>2, SeqDef
    <3> QED
      BY <2>3, <3>2, <3>3, LenProperties
  <2>5. pads \in Seq(Glyphs) /\ Len(pads) = 3 - n
    <3>1. 3 - n \in Nat /\ Pad \in Glyphs /\ DOMAIN pads = 1..(3 - n)
      BY DEF Pad, Glyphs, Space, Char
    <3>2. pads \in [1..(3 - n) -> Glyphs]
      BY <3>1
    <3> HIDE DEF pads
    <3>3. pads \in Seq(Glyphs)
      BY ONLY <3>1, <3>2, SeqDef
    <3> QED
      BY <3>1, <3>3, LenProperties
  <2> HIDE DEF text, pads
  <2>6. CASE ~ UsePadding(o)
    <3>1. m = n + 1 /\ TextOf(b, o) = text
      BY <1>5, <1>7, <2>6
    <3> QED
      BY <2>1, <3>1
  <2>7. CASE UsePadding(o)
    <3>1. m = 4 /\ TextOf(b, o) = text \o pads
      BY <1>5, <1>7, <2>7
    <3>2. text \in Seq(Glyphs) /\ pads \in Seq(Glyphs)
      BY <2>4, <2>5
    <3>3. /\ \A k \in 1..Len(text) : (text \o pads)[k] = text[k]
          /\ \A k \in 1..Len(pads) : (text \o pads)[Len(text) + k] = pads[k]
      BY ONLY <3>2, AppendedAt
    <3> SUFFICES ASSUME NEW k \in 1..4
                 PROVE  (text \o pads)[k] = IF k <= n + 1 THEN Spell(o, values[k]) ELSE Pad
      BY <3>1
    <3>4. CASE k <= n + 1
      <4>1. k \in 1..(n + 1)
        BY <3>4
      <4> QED
        BY <2>1, <2>4, <3>3, <3>4, <4>1
    <3>5. CASE ~ (k <= n + 1)
      <4>1. k - (n + 1) \in 1..(3 - n) /\ (n + 1) + (k - (n + 1)) = k
        BY <3>5
      <4>2. (text \o pads)[(n + 1) + (k - (n + 1))] = pads[k - (n + 1)]
        BY ONLY <2>4, <2>5, <3>3, <4>1
      <4> QED
        BY <2>2, <3>5, <4>1, <4>2
    <3> QED
      BY <3>4, <3>5
  <2> QED
    BY <2>6, <2>7
<1>11. \A k \in 1..m : TextOf(b, o)[k] = run[k]
  <2>1. \A k \in 1..m : k \in 1..4
    BY <1>7
  <2> QED
    BY ONLY <1>6, <1>8, <1>10, <2>1
<1>12. TextOf(b, o) = run
  <2>1. Len(TextOf(b, o)) = Len(run)
        /\ \A k \in 1..Len(TextOf(b, o)) : TextOf(b, o)[k] = run[k]
    BY ONLY <1>8, <1>9, <1>11
  <2> QED
    BY ONLY <1>8, <1>9, <2>1, SeqEqual
<1> QED
  BY <1>12 DEF b, o, run, m

LEMMA SizeOfChunk ==
  ASSUME NEW n \in Nat \ {0}, NEW j \in 1..((n + 2) \div 3)
  PROVE  LET c    == (n + 2) \div 3
             size == IF 3 * j <= n THEN 3 ELSE n - 3 * (j - 1)
         IN  /\ c \in Nat \ {0} /\ size \in 1..3 /\ 3 * (j - 1) + size <= n
             /\ j # c => size = 3
             /\ j = c => 3 * (j - 1) + size = n
             /\ n % 3 = 0 => size = 3
<1> DEFINE c == (n + 2) \div 3
           k == n \div 3
           r == n % 3
<1>1. c \in Nat /\ 3 * c <= n + 2 /\ n <= 3 * c /\ j \in 1..c
  OBVIOUS
<1>2. k \in Nat /\ r \in 0..2 /\ n = 3 * k + r
  OBVIOUS
<1> HIDE DEF c, k, r
<1>3. r = 0 => 3 * j <= n
  BY <1>1, <1>2
<1> QED
  BY <1>1, <1>2, <1>3 DEF c, r

(* The plain encoding of whole groups, or of the rest, is the next run.    *)
LEMMA PlainIsRun ==
  ASSUME call.input \in Seq(0..255), NEW q \in Nat, NEW n \in Nat \ {0},
         3 * q + n <= Len(call.input), n % 3 = 0 \/ 3 * q + n = Len(call.input)
  PROVE  Plain(3 * q, n) = Run(4 * q, LengthFromBinary(n, call.options))
<1> DEFINE c == (n + 2) \div 3
           size(j) == IF 3 * j <= n THEN 3 ELSE n - 3 * (j - 1)
           lfb(m) == LengthFromBinary(m, call.options)
           s == [j \in 1..c |-> TextOf(Bytes(3 * q + 3 * (j - 1), size(j)), call.options)]
<1>1. Plain(3 * q, n) = FlattenSeq(s)
  BY DEF Plain
<1>2. Len(call.input) \in Nat
  BY LenProperties
<1>3. ASSUME NEW j \in 1..c
      PROVE  /\ c \in Nat \ {0} /\ size(j) \in 1..3 /\ 3 * (j - 1) + size(j) <= n
             /\ j # c => size(j) = 3
             /\ j = c => 3 * (j - 1) + size(j) = n
             /\ n % 3 = 0 => size(j) = 3
  BY SizeOfChunk
<1>4. c \in Nat \ {0}
  OBVIOUS
<1> HIDE DEF c, size
<1>5. ASSUME NEW j \in 1..c
      PROVE  s[j] = Run(4 * q + 4 * (j - 1), lfb(size(j))) /\ lfb(size(j)) \in Nat
  <2> DEFINE p == q + (j - 1)
             z == size(j)
             y == 3 * (j - 1)
  <2>1. /\ p \in Nat /\ 3 * p = 3 * q + y /\ 4 * p = 4 * q + 4 * (j - 1)
        /\ z \in 1..3 /\ y \in Nat /\ y + z <= n
        /\ (j # c \/ n % 3 = 0 => z = 3) /\ (j = c => y + z = n)
    BY <1>3, <1>4
  <2>2. s[j] = TextOf(Bytes(3 * p, z), call.options)
    BY <2>1
  <2> HIDE DEF p, z, y, s
  <2>3. 3 * p + z <= Len(call.input) /\ (z = 3 \/ 3 * p + z = Len(call.input))
    BY <1>2, <2>1
  <2>4. TextOf(Bytes(3 * p, z), call.options) = Run(4 * p, LengthFromBinary(z, call.options))
    BY ONLY call.input \in Seq(0..255), <2>1, <2>3, TextIsRun
  <2>5. lfb(z) \in Nat
    <3>1. z \in Nat /\ 0 \in Nat
      BY <2>1
    <3> QED
      BY ONLY <3>1, LengthSplits
  <2> QED
    BY <2>1, <2>2, <2>4, <2>5 DEF z
<1>6. DOMAIN s = 1..c
  OBVIOUS
<1>7. s \in Seq(Seq(Glyphs)) /\ Len(s) = c /\ s # << >>
  <2>1. s = [j \in 1..c |-> s[j]]
    OBVIOUS
  <2> HIDE DEF s, lfb
  <2>2. ASSUME NEW j \in 1..c PROVE s[j] \in Seq(Glyphs)
    <3>1. 4 * q + 4 * (j - 1) \in Nat /\ lfb(size(j)) \in Nat
      BY <1>5
    <3>2. Run(4 * q + 4 * (j - 1), lfb(size(j))) \in Seq(Glyphs)
      BY ONLY call.input \in Seq(0..255), <3>1, RunType
    <3> QED
      BY <1>5, <3>2
  <2>3. s \in [1..c -> Seq(Glyphs)]
    BY <1>6, <2>1, <2>2
  <2>4. s \in Seq(Seq(Glyphs))
    BY ONLY <1>4, <2>3, SeqDef
  <2>5. Len(s) = c
    BY <1>4, <1>6, <2>4, LenProperties
  <2>6. s # << >>
    BY <1>4, <2>5, EmptySeq
  <2> QED
    BY <2>4, <2>5, <2>6
<1> HIDE DEF s
<1>8. PICK g \in [1..c -> Seq(Glyphs)] :
        /\ FlattenSeq(s) = g[c]
        /\ \A j \in 1..c : g[j] = IF j = 1 THEN s[j] ELSE g[j - 1] \o s[j]
  <2>1. \E g \in [1..Len(s) -> Seq(Glyphs)] :
          /\ FlattenSeq(s) = g[Len(s)]
          /\ \A j \in 1..Len(s) : g[j] = IF j = 1 THEN s[j] ELSE g[j - 1] \o s[j]
    BY ONLY <1>7, FlattenJoins
  <2>2. Len(s) = c
    BY <1>7
  <2> QED
    BY ONLY <2>1, <2>2
<1>9. lfb(3) = 4
  <2>1. (3 + 2) \div 3 = 1 /\ 3 \div 3 = 1 /\ 3 % 3 = 0
    OBVIOUS
  <2> QED
    BY <2>1 DEF LengthFromBinary
<1> HIDE DEF lfb
<1> DEFINE Goes(k) == g[k] = Run(4 * q, 4 * (k - 1) + lfb(size(k)))
           Missing == {k \in 1..c : ~ Goes(k)}
<1>10. Missing = {}
  <2> SUFFICES ASSUME Missing # {} PROVE FALSE
    OBVIOUS
  <2>1. PICK m \in Missing : \A k \in Missing : m <= k
    <3>1. Missing \in SUBSET Nat
      BY <1>4
    <3> HIDE DEF Missing
    <3> QED
      BY <3>1, LeastOf
  <2>2. m \in 1..c /\ ~ Goes(m)
    BY <2>1
  <2> DEFINE u == lfb(size(m))
  <2>3. s[m] = Run(4 * q + 4 * (m - 1), u) /\ u \in Nat
    BY <1>5, <2>2
  <2> HIDE DEF u
  <2>4. CASE m = 1
    <3>1. g[m] = s[m]
      BY <1>8, <2>2, <2>4
    <3>2. 4 * q + 4 * (m - 1) = 4 * q /\ 4 * (m - 1) + u = u
      BY <2>3, <2>4
    <3> QED
      BY <2>2, <2>3, <3>1, <3>2 DEF u
  <2>5. CASE m # 1
    <3>1. m - 1 \in 1..c /\ ~ (m <= m - 1) /\ m - 1 # c
      BY <1>4, <2>2, <2>5
    <3>2. Goes(m - 1)
      <4>1. m - 1 \notin Missing
        BY <2>1, <3>1
      <4> HIDE DEF Goes
      <4> QED
        BY <3>1, <4>1
    <3>3. size(m - 1) = 3
      BY <1>3, <3>1
    <3>4. 4 * ((m - 1) - 1) + 4 = 4 * (m - 1) /\ 4 * (m - 1) \in Nat /\ 4 * q \in Nat
      BY <2>2, <3>1
    <3>5. g[m - 1] = Run(4 * q, 4 * (m - 1))
      BY <1>9, <3>2, <3>3, <3>4
    <3>6. g[m] = g[m - 1] \o s[m]
      BY <1>8, <2>2, <2>5
    <3> DEFINE lo == 4 * q
               a  == 4 * (m - 1)
    <3>7. lo \in Nat /\ a \in Nat
      BY <3>4
    <3> HIDE DEF lo, a
    <3>8. Run(lo, a) \o Run(lo + a, u) = Run(lo, a + u)
      BY ONLY call.input \in Seq(0..255), <2>3, <3>7, RunJoin
    <3>9. g[m] = Run(lo, a + u)
      BY <2>3, <3>5, <3>6, <3>8 DEF lo, a
    <3> QED
      BY <2>2, <3>9 DEF lo, a, u
  <2> QED
    BY <2>4, <2>5
<1>11. c \in 1..c
  BY <1>4
<1>12. g[c] = Run(4 * q, 4 * (c - 1) + lfb(size(c)))
  BY <1>10, <1>11
<1>13. lfb(n) = 4 * (c - 1) + lfb(size(c))
  <2> DEFINE k == c - 1
             m == size(c)
  <2>1. k \in Nat /\ m \in Nat /\ 3 * k + m = n
    <3>1. m \in 1..3 /\ 3 * (c - 1) + m = n
      BY <1>3, <1>11
    <3> HIDE DEF m
    <3> QED
      BY <1>4, <3>1
  <2> HIDE DEF k, m
  <2>2. LengthFromBinary(3 * k + m, call.options) = 4 * k + LengthFromBinary(m, call.options)
    BY ONLY <2>1, LengthSplits
  <2> QED
    BY <2>1, <2>2 DEF lfb, k, m
<1>14. Plain(3 * q, n) = Run(4 * q, lfb(n))
  BY ONLY <1>1, <1>8, <1>12, <1>13
<1> QED
  BY <1>14 DEF lfb

(* What is announced for the bytes consumed is the run written so far.     *)
LEMMA AnnouncedWhole ==
  ASSUME Inv, Remaining > 0
  PROVE  \E q \in Nat : i = 3 * q /\ Announced(i) = 4 * q
<1>1. Whole(i) /\ Remaining \in Nat /\ i \in Nat /\ Len(call.input) \in Nat
      /\ i + Remaining = Len(call.input)
  BY StateFacts
<1>2. i # Len(call.input)
  <2> HIDE DEF Remaining
  <2> QED
    BY <1>1
<1>3. PICK q \in Nat : i = 3 * q
  BY <1>1, <1>2 DEF Whole
<1>4. Announced(3 * q) = 4 * q
  <2>1. 0 \in Nat
    OBVIOUS
  <2>2. LengthFromBinary(3 * q + 0, call.options) = 4 * q + LengthFromBinary(0, call.options)
        /\ LengthFromBinary(0, call.options) = 0
    BY ONLY q \in Nat, <2>1, LengthSplits
  <2> QED
    BY <2>2 DEF Announced
<1> QED
  BY <1>3, <1>4

LEMMA PlainRuns ==
  ASSUME Inv, NEW n \in 0..Remaining, n % 3 = 0 \/ i + n = Len(call.input)
  PROVE  Plain(i, n) = Run(Announced(i), Announced(n))
<1>1. /\ call.input \in Seq(0..255) /\ Remaining \in Nat /\ i \in Nat
      /\ Len(call.input) \in Nat /\ i + Remaining = Len(call.input)
  BY StateFacts
<1>2. CASE n = 0
  <2>1. Announced(n) = 0
    <3>1. 0 \in Nat
      OBVIOUS
    <3>2. LengthFromBinary(0, call.options) = 0
      BY ONLY <3>1, LengthSplits
    <3> QED
      BY <1>2, <3>2 DEF Announced
  <2>2. Plain(i, n) \in Seq(Glyphs) /\ Len(Plain(i, n)) = 0
    BY <2>1, PlainText
  <2>3. Announced(i) \in Nat /\ 0 \in Nat
    BY <1>1, LengthSplits DEF Announced
  <2>4. Run(Announced(i), 0) \in Seq(Glyphs) /\ Len(Run(Announced(i), 0)) = 0
    BY ONLY <1>1, <2>3, RunType
  <2>5. Plain(i, n) = << >>
    BY ONLY <2>2, EmptySeq
  <2>6. Run(Announced(i), 0) = << >>
    BY ONLY <2>4, EmptySeq
  <2> QED
    BY ONLY <2>1, <2>5, <2>6
<1>3. CASE n # 0
  <2> HIDE DEF Remaining
  <2>1. n \in Nat \ {0} /\ Remaining > 0 /\ i + n <= Len(call.input)
    BY <1>1, <1>3
  <2>2. PICK q \in Nat : i = 3 * q /\ Announced(i) = 4 * q
    BY <2>1, AnnouncedWhole
  <2>3. 3 * q + n <= Len(call.input) /\ (n % 3 = 0 \/ 3 * q + n = Len(call.input))
    BY <2>1, <2>2
  <2>4. Plain(3 * q, n) = Run(4 * q, LengthFromBinary(n, call.options))
    BY ONLY q \in Nat, <1>1, <2>1, <2>3, PlainIsRun
  <2> QED
    BY <2>2, <2>4 DEF Announced
<1> QED
  BY <1>2, <1>3

-----------------------------------------------------------------------------
(* What is written *)

(* What is written spells the encoding of the bytes consumed.              *)
Spelled == Spells(dst, Run(0, Announced(i)))

(* A step that writes text for n more bytes, and what it spells.           *)
LEMMA SpelledAdds ==
  ASSUME Inv, Spelled, NEW n \in 0..Remaining, NEW text \in Seq(Char),
         Spells(text, Run(Announced(i), Announced(n))),
         dst' = dst \o text, i' = i + n, call' = call
  PROVE  Spelled'
<1>1. /\ call \in CallType /\ i \in 0..Len(call.input) /\ Whole(i)
      /\ call.input \in Seq(0..255)
  BY StateFacts
<1>2. /\ Announced(i) \in Nat /\ Announced(n) \in Nat
      /\ Announced(i + n) = Announced(i) + Announced(n)
  BY ONLY n \in 0..Remaining, <1>1, AnnouncedAdds
<1>3. dst \in Seq(Char)
  BY InvGivesType DEF TypeOK
<1> DEFINE a == Announced(i)
           b == Announced(n)
           x == Run(0, a)
           y == Run(a, b)
<1> HIDE DEF a, b
<1>4. a \in Nat /\ b \in Nat /\ 0 \in Nat
  BY <1>2 DEF a, b
<1>5. x \in Seq(Glyphs) /\ y \in Seq(Glyphs)
  BY ONLY <1>1, <1>4, RunType
<1>6. Run(0, a) \o Run(0 + a, b) = Run(0, a + b) /\ 0 + a = a
  <2>1. Run(0, a) \o Run(0 + a, b) = Run(0, a + b)
    BY ONLY <1>1, <1>4, RunJoin
  <2>2. 0 + a = a
    BY <1>4
  <2> QED
    BY ONLY <2>1, <2>2
<1>7. Spells(dst, x) /\ Spells(text, y)
  BY DEF Spelled, a, b
<1> HIDE DEF x, y
<1>8. Spells(dst \o text, x \o y)
  BY ONLY text \in Seq(Char), <1>3, <1>5, <1>7, SpellsJoin
<1>9. Spells(dst', Run(0, a + b))
  BY <1>6, <1>8 DEF x, y
<1>10. (Run(0, Announced(i)))' = Run(0, a + b)
  <2>1. Announced(i)' = a + b
    BY <1>2 DEF Announced, a, b
  <2> QED
    BY <2>1 DEF Run, GlyphOf
<1> QED
  BY <1>9, <1>10 DEF Spelled

(* A step that does not crash has written what it was to write.            *)
LEMMA Appended ==
  ASSUME Inv', NEW text, NEW next, Write(text, next)
  PROVE  dst' = dst \o text
<1>1. pc' # "crashed"
  BY DEF Inv, Located
<1> QED
  BY <1>1 DEF Write

LEMMA SpelledStays ==
  ASSUME Spelled, dst' = dst, i' = i, call' = call
  PROVE  Spelled'
<1>1. (Run(0, Announced(i)))' = Run(0, Announced(i))
  BY DEF Run, GlyphOf, Announced
<1> QED
  BY <1>1 DEF Spelled

(* The plain text of the next n bytes, written as it is.                   *)
LEMMA KernelSpells ==
  ASSUME Inv, Spelled, Inv', Kernel
  PROVE  Spelled'
<1> DEFINE n == KernelRounds(Remaining, call.cap)
           t == Plain(i, n)
           next == IF n = Remaining THEN "returned" ELSE "tail"
<1>1. Write(t, next) /\ i' = i + n /\ call' = call
  BY DEF Kernel
<1>2. Remaining \in Nat /\ call.cap \in Nat
  BY StateFacts
<1>3. n \in 0..Remaining /\ n % 3 = 0
  <2>1. n \in 0..Remaining /\ \E k \in Nat : n = 3 * k
    BY <1>2, KernelRoundsType
  <2>2. \A k \in Nat : (3 * k) % 3 = 0
    OBVIOUS
  <2> HIDE DEF n
  <2> QED
    BY ONLY <2>1, <2>2
<1> HIDE DEF n
<1>4. t \in Seq(Glyphs) /\ t = Run(Announced(i), Announced(n))
  BY <1>3, PlainText, PlainRuns
<1> HIDE DEF t, next
<1>5. t \in Seq(Char)
  <2>1. Glyphs \subseteq Char /\ t \in Seq(Glyphs)
    BY <1>4 DEF Glyphs
  <2> QED
    BY ONLY <2>1, Widened
<1>6. Spells(t, Run(Announced(i), Announced(n)))
  <2>1. Spells(t, t)
    BY <1>4, SpellsSelf
  <2> QED
    BY ONLY <1>4, <2>1
<1>7. dst' = dst \o t
  BY ONLY Inv', <1>1, Appended
<1> QED
  BY ONLY Inv, Spelled, <1>1, <1>3, <1>5, <1>6, <1>7, SpelledAdds

LEMMA TailSpells ==
  ASSUME Inv, Spelled, Inv', TailQuartet
  PROVE  Spelled'
<1> DEFINE n == IF Remaining >= 3 THEN 3 ELSE Remaining
           t == TextOf(Bytes(i, n), call.options)
           text == IF call.lines THEN Folded(t) ELSE t
           next == "tail"
<1>1. Remaining > 0 /\ Write(text, next) /\ i' = i + n /\ call' = call
  BY DEF TailQuartet
<1>2. /\ Remaining \in Nat /\ i \in Nat /\ Len(call.input) \in Nat
      /\ i + Remaining = Len(call.input) /\ call.input \in Seq(0..255)
      /\ width \in Nat \ {0}
  BY StateFacts
<1>3. PICK q \in Nat : i = 3 * q /\ Announced(i) = 4 * q
  BY <1>1, AnnouncedWhole
<1>4. n \in 0..Remaining /\ n \in 1..3
      /\ 3 * q + n <= Len(call.input) /\ (n = 3 \/ 3 * q + n = Len(call.input))
  <2> HIDE DEF Remaining
  <2> QED
    BY <1>1, <1>2, <1>3
<1> HIDE DEF n
<1>5. t = Run(Announced(i), Announced(n))
  <2>1. TextOf(Bytes(3 * q, n), call.options) = Run(4 * q, LengthFromBinary(n, call.options))
    BY ONLY q \in Nat, <1>2, <1>4, TextIsRun
  <2> QED
    BY <1>3, <2>1 DEF Announced
<1>6. t \in Seq(Glyphs)
  <2>1. Announced(i) \in Nat /\ Announced(n) \in Nat
    <3>1. i \in Nat /\ n \in Nat
      BY <1>2, <1>4
    <3> QED
      BY <3>1, LengthSplits DEF Announced
  <2> HIDE DEF t
  <2> QED
    BY <1>2, <1>5, <2>1, RunType
<1> HIDE DEF t
<1>7. text \in Seq(Char) /\ Spells(text, t)
  <2>1. t \in Seq(Char)
    <3>1. Glyphs \subseteq Char
      BY DEF Glyphs
    <3> QED
      BY ONLY <1>6, <3>1, Widened
  <2>2. Spells(t, t)
    BY ONLY <1>6, SpellsSelf
  <2>3. col \in 0..width
    BY DEF Inv, Located
  <2>4. width - col \in Nat
    <3> HIDE DEF width
    <3> QED
      BY <1>2, <2>3
  <2>5. SplitAt(t, width - col) \in Seq(Char)
    BY ONLY <1>2, <1>6, <2>3, InsertedType
  <2>6. Spells(SplitAt(t, width - col), t)
    BY ONLY <1>6, <2>4, SplitSpells
  <2>7. Folded(t) = SplitAt(t, width - col)
    BY DEF Folded, SplitAt
  <2> QED
    BY ONLY <2>1, <2>2, <2>5, <2>6, <2>7
<1> HIDE DEF text, next
<1>8. dst' = dst \o text
  BY ONLY Inv', <1>1, Appended
<1> QED
  BY ONLY Inv, Spelled, <1>1, <1>4, <1>5, <1>7, <1>8, SpelledAdds

(* What a buffer copies out for n more bytes spells them.                  *)
LEMMA CopiedSpells ==
  ASSUME Inv, NEW n \in 0..Remaining, n % 3 = 0 \/ i + n = Len(call.input)
  PROVE  /\ Copied(Plain(i, n)) \in Seq(Char)
         /\ Spells(Copied(Plain(i, n)), Run(Announced(i), Announced(n)))
<1> DEFINE t == Plain(i, n)
<1>1. t \in Seq(Glyphs) /\ t = Run(Announced(i), Announced(n))
  BY PlainText, PlainRuns
<1>2. width \in Nat \ {0} /\ col \in 0..width
  BY StateFacts DEF Inv, Located
<1>3. Copied(t) = FlattenSeq(Spaced(t, width, col))
  BY DEF Copied, Spaced
<1> HIDE DEF t
<1>4. FlattenSeq(Spaced(t, width, col)) \in Seq(Char)
  BY ONLY <1>1, <1>2, InsertedType
<1>5. Spells(FlattenSeq(Spaced(t, width, col)), t)
  <2>1. col \in Nat
    <3> HIDE DEF width
    <3> QED
      BY <1>2
  <2> QED
    BY ONLY <1>1, <1>2, <2>1, CopySpells
<1>6. Copied(t) \in Seq(Char) /\ Spells(Copied(t), Run(Announced(i), Announced(n)))
  BY ONLY <1>1, <1>3, <1>4, <1>5
<1> QED
  BY <1>6 DEF t

LEMMA BufferSpells ==
  ASSUME Inv, Spelled, Inv', ColumnsBuffer
  PROVE  Spelled'
<1> DEFINE n == KernelRounds(Remaining, Buffer)
           text == Copied(Plain(i, n))
           next == "columns"
<1>1. Write(text, next) /\ i' = i + n /\ call' = call
  BY DEF ColumnsBuffer
<1>2. Remaining \in Nat /\ Buffer \in Nat
  BY StateFacts, SizesAssumption
<1>3. n \in 0..Remaining /\ n % 3 = 0
  <2>1. n \in 0..Remaining /\ \E k \in Nat : n = 3 * k
    BY <1>2, KernelRoundsType
  <2>2. \A k \in Nat : (3 * k) % 3 = 0
    OBVIOUS
  <2> HIDE DEF n
  <2> QED
    BY ONLY <2>1, <2>2
<1> HIDE DEF n
<1>4. text \in Seq(Char) /\ Spells(text, Run(Announced(i), Announced(n)))
  BY ONLY Inv, <1>3, CopiedSpells
<1> HIDE DEF text, next
<1>5. dst' = dst \o text
  BY ONLY Inv', <1>1, Appended
<1> QED
  BY ONLY Inv, Spelled, <1>1, <1>3, <1>4, <1>5, SpelledAdds

LEMMA RestSpells ==
  ASSUME Inv, Spelled, Inv', ColumnsRest
  PROVE  Spelled'
<1> DEFINE n == Remaining
           text == Copied(Plain(i, n))
           next == "returned"
<1>1. Remaining \in Nat /\ i + Remaining = Len(call.input)
  BY StateFacts
<1>2. Write(text, next) /\ i' = i + n /\ call' = call
  <2>1. pc' # "crashed"
    BY DEF Inv, Located
  <2>2. i' = Len(call.input) /\ call' = call
    BY DEF ColumnsRest
  <2>3. Write(text, next)
    BY <2>1 DEF ColumnsRest
  <2> QED
    BY ONLY <1>1, <2>2, <2>3 DEF n
<1>3. n \in 0..Remaining /\ i + n = Len(call.input)
  BY <1>1
<1> HIDE DEF n
<1>4. text \in Seq(Char) /\ Spells(text, Run(Announced(i), Announced(n)))
  BY ONLY Inv, <1>3, CopiedSpells
<1> HIDE DEF text, next
<1>5. dst' = dst \o text
  BY ONLY Inv', <1>2, Appended
<1> QED
  BY ONLY Inv, Spelled, <1>2, <1>3, <1>4, <1>5, SpelledAdds

LEMMA PositionsSpells ==
  ASSUME Inv, Spelled, Inv', Positions
  PROVE  Spelled'
<1> DEFINE n == Remaining
           t == Plain(i, n)
           text == FlattenSeq(Spaced(t, width, 0))
           next == "returned"
<1>1. /\ Remaining \in Nat /\ i + Remaining = Len(call.input) /\ i = 0
      /\ width \in Nat \ {0} /\ Len(call.input) \in Nat
  BY StateFacts DEF Positions, Inv, Located
<1>2. n \in 0..Remaining /\ i + n = Len(call.input) /\ Len(call.input) = n
  BY <1>1
<1>3. t \in Seq(Glyphs) /\ t = Run(Announced(i), Announced(n))
  BY <1>2, PlainText, PlainRuns
<1>4. /\ Write(FlattenSeq([k \in DOMAIN t |->
                 IF k > 1 /\ (k - 1) % width = 0
                 THEN <<Space, t[k]>> ELSE <<t[k]>>]), next)
      /\ i' = i + n /\ call' = call
  <2>1. t = Plain(0, Len(call.input)) /\ i' = Len(call.input) /\ call' = call
    BY <1>1, <1>2 DEF Positions
  <2> HIDE DEF t
  <2> QED
    BY <1>2, <2>1 DEF Positions
<1> HIDE DEF t
<1>5. [k \in DOMAIN t |-> IF k > 1 /\ (k - 1) % width = 0
                          THEN <<Space, t[k]>> ELSE <<t[k]>>] = Spaced(t, width, 0)
  <2>1. DOMAIN t = 1..Len(t) /\ Len(t) \in Nat
    BY <1>3, LenProperties
  <2> HIDE DEF width
  <2>2. \A k \in DOMAIN t : (k > 1 <=> 0 + k - 1 > 0) /\ 0 + k - 1 = k - 1
    BY <2>1
  <2>3. [k \in DOMAIN t |-> IF k > 1 /\ (k - 1) % width = 0
                            THEN <<Space, t[k]>> ELSE <<t[k]>>]
          = [k \in DOMAIN t |-> IF 0 + k - 1 > 0 /\ (0 + k - 1) % width = 0
                                THEN <<Space, t[k]>> ELSE <<t[k]>>]
    BY <2>2
  <2> QED
    BY <2>3 DEF Spaced
<1>6. Write(text, next)
  BY <1>4, <1>5
<1>7. text \in Seq(Char) /\ Spells(text, Run(Announced(i), Announced(n)))
  <2>1. 0 \in Nat /\ 0 \in 0..width
    <3> HIDE DEF width
    <3> QED
      BY <1>1
  <2>2. text \in Seq(Char)
    BY ONLY <1>1, <1>3, <2>1, InsertedType
  <2>3. Spells(text, t)
    BY ONLY <1>1, <1>3, <2>1, CopySpells
  <2> QED
    BY ONLY <1>3, <2>2, <2>3
<1> HIDE DEF text, next, n
<1>8. dst' = dst \o text
  BY ONLY Inv', <1>6, Appended
<1> QED
  BY ONLY Inv, Spelled, <1>2, <1>4, <1>7, <1>8, SpelledAdds

LEMMA AlwaysSpelled == Spec => [](Inv /\ Spelled)
<1>1. Init => Inv /\ Spelled
  <2> SUFFICES ASSUME Init PROVE Spelled
    BY Initially
  <2>1. dst = << >> /\ i = 0 /\ call \in CallType
    BY CallsAssumption DEF Init
  <2>2. Announced(i) = 0
    BY <2>1, LengthSplits DEF Announced
  <2>3. call.input \in Seq(0..255) /\ 0 \in Nat
    BY <2>1, CallFacts
  <2>4. Run(0, 0) \in Seq(Glyphs) /\ Len(Run(0, 0)) = 0
    BY ONLY <2>3, RunType
  <2>5. Run(0, 0) = << >>
    BY ONLY <2>4, EmptySeq
  <2> QED
    BY <2>1, <2>2, <2>5, SpellsSpace DEF Spelled
<1>2. Inv /\ Spelled /\ [Next]_vars => Inv' /\ Spelled'
  <2> SUFFICES ASSUME Inv, Spelled, [Next]_vars PROVE Inv' /\ Spelled'
    OBVIOUS
  <2>1. Inv'
    BY InvKept
  <2>2. CASE Refuse \/ Enter \/ TailEnd \/ UNCHANGED vars
    <3>1. dst' = dst /\ i' = i /\ call' = call
      BY <2>2 DEF Refuse, Enter, TailEnd, vars
    <3> QED
      BY ONLY Spelled, <2>1, <3>1, SpelledStays
  <2>3. CASE Kernel
    BY ONLY Inv, Spelled, <2>1, <2>3, KernelSpells
  <2>4. CASE TailQuartet
    BY ONLY Inv, Spelled, <2>1, <2>4, TailSpells
  <2>5. CASE ColumnsBuffer
    BY ONLY Inv, Spelled, <2>1, <2>5, BufferSpells
  <2>6. CASE ColumnsRest
    BY ONLY Inv, Spelled, <2>1, <2>6, RestSpells
  <2>7. CASE Positions
    BY ONLY Inv, Spelled, <2>1, <2>7, PositionsSpells
  <2> QED
    BY <2>2, <2>3, <2>4, <2>5, <2>6, <2>7 DEF Next
<1> QED
  BY <1>1, <1>2, PTL DEF Spec

-----------------------------------------------------------------------------
(* Decoding what is written *)

(* Both tables read back what the encoder spells.                          *)
LEMMA SpellsBack ==
  ASSUME NEW options \in Options, NEW x \in 0..63
  PROVE  ToValue(options, Spell(options, x)) = x
<1> DEFINE url == HasBit(options, 1)
<1>1. CASE x \in {62, 63} /\ url
  <2>1. Spell(options, x) = x + 5
    BY <1>1 DEF Spell
  <2>2. \A c \in {Dash, Underscore} : url => ToValue(options, c) = c - 5
    BY DEF ToValue, Dash, Underscore, Space
  <2>3. x + 5 \in {Dash, Underscore} /\ (x + 5) - 5 = x
    BY <1>1 DEF Dash, Underscore
  <2> QED
    BY <1>1, <2>1, <2>2, <2>3
<1>2. CASE x \in {62, 63} /\ ~ url
  <2>1. Spell(options, x) = x
    BY <1>2 DEF Spell
  <2>2. ToValue(options, x) = x
    BY <1>2 DEF ToValue, Dash, Underscore, Space
  <2> QED
    BY <2>1, <2>2
<1>3. CASE x \notin {62, 63}
  <2>1. Spell(options, x) = x
    BY <1>3 DEF Spell
  <2>2. x \in 0..61
    BY <1>3
  <2>3. ToValue(options, x) = x
    BY <2>2 DEF ToValue, Dash, Underscore, Space
  <2> QED
    BY <2>1, <2>3
<1> QED
  BY <1>1, <1>2, <1>3

(* What is announced: the characters that spell values, and padding.       *)
LEMMA AnnouncedParts ==
  ASSUME NEW n \in Nat, NEW options
  PROVE  LET c == n \div 3
             r == n % 3
             v == ValueCount(n)
             p == LengthFromBinary(n, options) - v
         IN  /\ c \in Nat /\ r \in 0..2 /\ n = 3 * c + r
             /\ v = 4 * c + (IF r = 0 THEN 0 ELSE r + 1)
             /\ v \in Nat /\ p \in 0..2 /\ v + p = LengthFromBinary(n, options)
             /\ n >= 1 => v >= 1
             /\ p = 0 \/ (v + p) % 4 = 0
             /\ UsePadding(options) \/ r = 0 => (v + p) % 4 = 0
<1> DEFINE c == n \div 3
           r == n % 3
           e == IF r = 0 THEN 0 ELSE r + 1
           m == LengthFromBinary(n, options)
           v == ValueCount(n)
<1>1. c \in Nat /\ r \in 0..2 /\ n = 3 * c + r
  OBVIOUS
<1>2. (n + 2) \div 3 = IF r = 0 THEN c ELSE c + 1
  OBVIOUS
<1>3. v = 4 * c + e /\ v = c * 4 + e
  BY <1>1 DEF ValueCount
<1>4. m = IF UsePadding(options) THEN (IF r = 0 THEN 4 * c ELSE 4 * c + 4) ELSE v
  <2>1. UsePadding(options) => m = ((n + 2) \div 3) * 4
    BY DEF LengthFromBinary
  <2>2. ~ UsePadding(options) => m = c * 4 + e
    BY DEF LengthFromBinary
  <2> HIDE DEF m, v, c, r, e
  <2> QED
    BY <1>1, <1>2, <1>3, <2>1, <2>2
<1>5. \A k \in Nat : (4 * k) % 4 = 0 /\ (4 * k + 4) % 4 = 0
  OBVIOUS
<1>6. e \in 0..3 /\ (r # 0 => e = r + 1) /\ (r = 0 => e = 0)
  BY <1>1
<1> HIDE DEF c, r, e, m, v
<1> DEFINE p == m - v
<1>7. v \in Nat /\ p \in 0..2 /\ v + p = m /\ (n >= 1 => v >= 1)
  BY <1>1, <1>3, <1>4, <1>6
<1>8. /\ p = 0 \/ (v + p) % 4 = 0
      /\ UsePadding(options) \/ r = 0 => (v + p) % 4 = 0
  <2>1. UsePadding(options) => m % 4 = 0
    BY <1>1, <1>4, <1>5
  <2>2. ~ UsePadding(options) => p = 0
    BY <1>4, <1>7
  <2>3. r = 0 => m % 4 = 0
    <3>1. r = 0 => m = 4 * c
      BY <1>1, <1>3, <1>4, <1>6
    <3> QED
      BY <1>1, <1>5, <3>1
  <2> HIDE DEF p
  <2> QED
    BY <1>7, <2>1, <2>2, <2>3
<1>9. v = 4 * c + (IF r = 0 THEN 0 ELSE r + 1)
  BY <1>3, <1>6
<1> QED
  BY <1>1, <1>7, <1>8, <1>9 DEF c, r, m, v

(* The values of the encoding of the input.                                *)
Values == [k \in 1..ValueCount(Len(call.input)) |-> Canonical(call.input, k)]

LEMMA ValuesType ==
  ASSUME call.input \in Seq(0..255), NEW n, n = ValueCount(Len(call.input)), n \in Nat
  PROVE  /\ Values \in Seq(0..63) /\ Len(Values) = n
         /\ \A k \in 1..n : Values[k] = Canonical(call.input, k)
<1> DEFINE v == Values
<1>1. v = [k \in 1..n |-> Canonical(call.input, k)]
  BY DEF Values
<1>2. ASSUME NEW k \in 1..n PROVE Canonical(call.input, k) \in 0..63
  <2>1. k \in Nat /\ k >= 1
    OBVIOUS
  <2> QED
    BY ONLY call.input \in Seq(0..255), <2>1, CanonicalType
<1> HIDE DEF v
<1>3. v \in [1..n -> 0..63] /\ DOMAIN v = 1..n /\ \A k \in 1..n : v[k] = Canonical(call.input, k)
  BY <1>1, <1>2
<1>4. v \in Seq(0..63)
  BY ONLY n \in Nat, <1>3, SeqDef
<1>5. Len(v) = n
  BY ONLY n \in Nat, <1>3, <1>4, LenProperties
<1> QED
  BY <1>3, <1>4, <1>5 DEF v

(* What is returned shows the values of the input, and then its padding.   *)
LEMMA ReturnedShows ==
  ASSUME Inv, Spelled, pc = "returned", Len(call.input) >= 1,
         NEW p, p = Announced(Len(call.input)) - ValueCount(Len(call.input))
  PROVE  \E at : Shows(dst, call.options, Values, p, at)
<1> DEFINE N == Len(call.input)
           m == Announced(N)
           n == ValueCount(N)
           o == call.options
           run == Run(0, m)
<1>1. /\ call.input \in Seq(0..255) /\ N \in Nat /\ i = N /\ o \in Options
      /\ call \in CallType
  BY StateFacts DEF Inv, Located, CallType
<1>2. n \in Nat /\ p \in 0..2 /\ n + p = m /\ n >= 1 /\ m \in Nat
  <2>1. /\ ValueCount(N) \in Nat /\ LengthFromBinary(N, o) - ValueCount(N) \in 0..2
        /\ ValueCount(N) + (LengthFromBinary(N, o) - ValueCount(N)) = LengthFromBinary(N, o)
        /\ N >= 1 => ValueCount(N) >= 1
    BY ONLY <1>1, AnnouncedParts
  <2>2. m = LengthFromBinary(N, o) /\ p = m - n
    BY DEF Announced
  <2> HIDE DEF m, n, N
  <2>3. n \in Nat /\ p \in 0..2 /\ n + p = m /\ n >= 1
    BY <2>1, <2>2 DEF n, N
  <2>4. m \in Nat
    BY <2>3
  <2> QED
    BY <2>3, <2>4
<1>3. /\ Values \in Seq(0..63) /\ Len(Values) = n
      /\ \A k \in 1..n : Values[k] = Canonical(call.input, k)
  BY <1>1, <1>2, ValuesType
<1>4. run \in Seq(Glyphs) /\ Len(run) = m /\ \A k \in 1..m : run[k] = GlyphOf(0 + k)
  <2>1. 0 \in Nat /\ m \in Nat
    BY <1>2
  <2> QED
    BY ONLY <1>1, <2>1, RunType
<1>5. PICK at : Places(dst, run, at)
  <2>1. Spells(dst, run)
    BY <1>1 DEF Spelled
  <2> QED
    BY <2>1 DEF Spells
<1> HIDE DEF run
<1>6. \A k \in 1..m : run[k] = IF k <= n THEN Spell(o, Canonical(call.input, k)) ELSE Pad
  <2>1. \A k \in 1..m : 0 + k = k
    OBVIOUS
  <2> QED
    BY ONLY <1>4, <2>1 DEF GlyphOf, n, N, o
<1> HIDE DEF n, m, o
<1>7. /\ at \in [1..(n + p) -> 1..Len(dst)]
      /\ \A j, k \in 1..(n + p) : j < k => at[j] < at[k]
      /\ \A j \in 1..(n + p) : dst[at[j]] = run[j]
      /\ \A k \in 1..Len(dst) : dst[k] = Space \/ \E j \in 1..(n + p) : at[j] = k
  BY ONLY <1>2, <1>4, <1>5 DEF Places
<1>8. ASSUME NEW j \in 1..n PROVE ToValue(o, dst[at[j]]) = Values[j]
  <2>1. j \in 1..(n + p) /\ j \in 1..m /\ j <= n /\ j \in Nat /\ j >= 1
    BY <1>2
  <2>2. dst[at[j]] = Spell(o, Canonical(call.input, j))
    BY ONLY <1>6, <1>7, <2>1
  <2>3. Canonical(call.input, j) \in 0..63
    BY ONLY <1>1, <2>1, CanonicalType
  <2>4. ToValue(o, Spell(o, Canonical(call.input, j))) = Canonical(call.input, j)
    BY ONLY <1>1, <2>3, SpellsBack
  <2> QED
    BY ONLY <1>3, j \in 1..n, <2>2, <2>4
<1>9. ASSUME NEW j \in (n + 1)..(n + p) PROVE dst[at[j]] = Pad
  <2>1. j \in 1..(n + p) /\ j \in 1..m /\ ~ (j <= n)
    BY <1>2
  <2> QED
    BY ONLY <1>6, <1>7, <2>1
<1>10. at[n + p] = Len(dst)
  <2>1. n + p \in 1..(n + p) /\ dst \in Seq(Char)
    BY <1>2, InvGivesType DEF TypeOK
  <2>2. Len(dst) \in Nat /\ at[n + p] \in 1..Len(dst)
    BY <1>7, <2>1, LenProperties
  <2>3. Len(dst) \in 1..Len(dst) /\ dst # << >>
    BY <2>2
  <2>4. dst[Len(dst)] # Space
    BY <2>3, InvGivesLayout DEF OneLayout, Returned
  <2>5. PICK j \in 1..(n + p) : at[j] = Len(dst)
    BY <1>7, <2>3, <2>4
  <2>6. j = n + p \/ j < n + p
    BY <1>2
  <2>7. ~ (j < n + p)
    <3>1. j < n + p => at[j] < at[n + p]
      BY <1>7, <2>1
    <3> QED
      BY <2>2, <2>5, <3>1
  <2> QED
    BY <2>5, <2>6, <2>7
<1>11. Shows(dst, o, Values, p, at)
  BY ONLY <1>3, <1>7, <1>8, <1>9, <1>10 DEF Shows
<1> QED
  BY <1>11 DEF o
(* Nothing decodes to nothing.                                             *)
LEMMA EmptyDecodes ==
  ASSUME NEW c, c.input = << >>, c.entry = "safe"
  PROVE  /\ Decode(c).bytes = << >> /\ Decode(c).result.error = "Success"
         /\ Decode(c).result.inputCount = 0
<1> DEFINE d   == c.input
           o   == c.options
           n0  == LastNotIn(d, 0, {Space})
           first == FirstNotIn(d, 0, 0, Char \ {Pad})
           end == FindEnd(d, o)
<1>1. d \in CharTexts /\ Len(d) = 0
  BY EmptySeq DEF CharTexts
<1>2. n0 = 0 /\ first = 0
  <2>1. 0 \in 0..Len(d) /\ 0 \in 0..0 /\ \A k \in 0..0 : k = 0
    BY <1>1
  <2>2. n0 \in 0..0
    BY ONLY <1>1, <2>1, LastNotInProperties
  <2>3. first \in 0..0
    BY ONLY <1>1, <2>1, FirstNotInProperties
  <2> QED
    BY ONLY <2>1, <2>2, <2>3
<1>3. end.equalSigns = 0 /\ end.srcLen = 0 /\ end.fullInputLength = 0
  <2>1. ~ (0 < 0)
    OBVIOUS
  <2> QED
    BY <1>1, <1>2, <2>1 DEF FindEnd
<1>4. Decode(c) = [result |-> EmptyPayload(c, end), bytes |-> << >>]
  <2>1. end = FindEnd(c.input, c.options)
    OBVIOUS
  <2> HIDE DEF end
  <2> QED
    BY ONLY <1>3, <2>1 DEF Decode
<1> HIDE DEF end
<1>5. EmptyPayload(c, end).error = "Success" /\ EmptyPayload(c, end).inputCount = 0
  BY <1>3 DEF EmptyPayload
<1> QED
  BY <1>4, <1>5

LEMMA InvGivesRoundTrip == Inv /\ Spelled => RoundTrip
<1> SUFFICES ASSUME Inv, Spelled, pc = "returned" PROVE RoundTrip
  BY DEF RoundTrip, Returned
<1> DEFINE b == call.input
           N == Len(b)
           o == call.options
           m == LengthFromBinary(N, o)
           n == ValueCount(N)
           p == m - n
           r == N % 3
           q == N \div 3
           Allowed == {"Loose"} \cup
                        (IF UsePadding(o) \/ r = 0 THEN {"Strict"} ELSE {})
           again(lastChunk) == [input |-> dst, cap |-> N, options |-> o,
                                lastChunk |-> lastChunk, entry |-> "safe",
                                provider |-> "scalar"]
           back(lastChunk) == Decode(again(lastChunk))
           Good(x) == /\ x.bytes = b
                      /\ x.result.error = "Success"
                      /\ IF IgnoreGarbage(o)
                         THEN \A k \in (x.result.inputCount + 1)..Len(dst) :
                                dst[k] \in {Pad, Space}
                         ELSE x.result.inputCount = Len(dst)
<1>1. b \in Seq(0..255) /\ N \in Nat /\ i = N /\ dst \in CharTexts
  BY StateFacts, InvGivesType DEF Inv, Located, TypeOK, CharTexts
<1>2. ASSUME NEW lastChunk \in Allowed PROVE Good(back(lastChunk))
  <2> DEFINE a == again(lastChunk)
  <2>1. /\ a.input = dst /\ a.cap = N /\ a.options = o /\ a.lastChunk = lastChunk
        /\ a.entry = "safe"
    OBVIOUS
  <2> HIDE DEF a
  <2>2. CASE N = 0
    <3>1. b = << >>
      BY <1>1, <2>2, EmptySeq
    <3>2. dst = << >> /\ Len(dst) = 0
      <4>1. Len(dst) = Required
        BY InvGivesLength DEF LengthExact, Returned
      <4>2. Required = 0
        <5>1. LengthFromBinary(0, o) = 0
          BY LengthSplits
        <5> QED
          BY <2>2, <5>1 DEF Required, LengthWithLines
      <4> QED
        BY ONLY <1>1, <4>1, <4>2, EmptySeq DEF CharTexts
    <3>3. /\ Decode(a).bytes = << >> /\ Decode(a).result.error = "Success"
          /\ Decode(a).result.inputCount = 0
      BY ONLY <2>1, <3>2, EmptyDecodes
    <3>4. \A k \in (0 + 1)..0 : FALSE
      OBVIOUS
    <3>5. Good(Decode(a))
      BY ONLY <3>1, <3>2, <3>3, <3>4
    <3> QED
      BY <3>5 DEF a
  <2>3. CASE N # 0
    <3>1. N >= 1
      BY <1>1, <2>3
    <3>2. /\ q \in Nat /\ r \in 0..2 /\ N = 3 * q + r
          /\ n = 4 * q + (IF r = 0 THEN 0 ELSE r + 1)
          /\ n \in Nat /\ p \in 0..2 /\ n + p = m
          /\ n >= 1
          /\ p = 0 \/ (n + p) % 4 = 0
          /\ UsePadding(o) \/ r = 0 => (n + p) % 4 = 0
      BY ONLY <1>1, <3>1, AnnouncedParts
    <3>3. /\ Values \in Seq(0..63) /\ Len(Values) = n
          /\ \A k \in 1..n : Values[k] = Canonical(b, k)
      BY <1>1, <3>2, ValuesType
    <3>4. PICK at : Shows(dst, o, Values, p, at)
      <4>1. p = Announced(Len(call.input)) - ValueCount(Len(call.input))
        BY DEF Announced
      <4> HIDE DEF p
      <4> QED
        BY <3>1, <4>1, ReturnedShows
    <3> DEFINE v   == Values
               end == FindEnd(a.input, a.options)
    <3> HIDE DEF b, N, o, m, n, p, r, q, v, end
    <3>5. v \in Seq(0..63) /\ Len(v) = n /\ \A k \in 1..n : v[k] = Canonical(b, k)
      BY <3>3 DEF v
    <3>6. Shows(a.input, a.options, v, p, at)
      BY <2>1, <3>4 DEF v
    <3>7. Encodes(v, b, q, r)
      BY ONLY <3>2, <3>5 DEF Encodes, N
    <3>8. Padded(v, p)
      BY ONLY <3>2, <3>5 DEF Padded
    <3>9. a.lastChunk = "Loose" \/ (a.lastChunk = "Strict" /\ (Len(v) + p) % 4 = 0)
      BY <2>1, <3>2, <3>5
    <3>10. /\ Decode(a).bytes = b /\ Decode(a).result.error = "Success"
           /\ Decode(a).result.inputCount = end.fullInputLength
      <4>1. /\ a.input \in CharTexts /\ b \in Seq(0..255) /\ Len(b) >= 1 /\ a.cap = Len(b)
            /\ q \in Nat /\ r \in 0..2 /\ v \in Seq(0..63) /\ p \in 0..2
        BY <1>1, <2>1, <3>1, <3>2, <3>5 DEF N
      <4>2. end = FindEnd(a.input, a.options) /\ a.entry = "safe"
        BY <2>1 DEF end
      <4> QED
        BY ONLY <3>6, <3>7, <3>8, <3>9, <4>1, <4>2, ShownDecodes
    <3>11. EndShown(dst, o, v, p, at, end)
      <4>1. Len(v) >= 1 /\ v \in Seq(0..63) /\ p \in 0..2 /\ dst \in CharTexts
        BY <1>1, <3>2, <3>5
      <4>2. end = FindEnd(dst, o) /\ Shows(dst, o, v, p, at)
        BY <2>1, <3>6 DEF end
      <4> QED
        BY ONLY <4>1, <4>2, ShownEnd
    <3>12. Good(Decode(a))
      <4>1. /\ ~ IgnoreGarbage(o) => end.fullInputLength = Len(dst)
            /\ IgnoreGarbage(o) =>
                 \A k \in (end.fullInputLength + 1)..Len(dst) : dst[k] \in {Pad, Space}
        BY ONLY <3>11, Zenon DEF EndShown
      <4> QED
        BY ONLY <3>10, <4>1
    <3> QED
      BY <3>12 DEF a
  <2> QED
    BY <2>2, <2>3
<1> HIDE DEF Allowed, Good
<1>3. \A lastChunk \in Allowed : Good(back(lastChunk))
  BY <1>2
<1> QED
  BY <1>3 DEF RoundTrip, Returned, Allowed, Good

(* Whatever a call returns, for every input, line length, padding and      *)
(* provider, decodes to its input, all of it consumed: loosely always, and *)
(* strictly when the text is padded or needs no padding.                   *)
THEOREM DecodesBack == Spec => []RoundTrip
BY AlwaysSpelled, InvGivesRoundTrip, PTL
=============================================================================
