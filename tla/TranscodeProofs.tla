-------------------------- MODULE TranscodeProofs ---------------------------
(***************************************************************************)
(* Proofs about Transcode, for every set of calls, of any texts, and every *)
(* size of groups and blocks.                                              *)
(*                                                                         *)
(* The judgements of the code are right about every unit (Right):          *)
(* "Success" where a character starts, of the width and the code point the *)
(* code computes, and the fault elsewhere.                                 *)
(*                                                                         *)
(* Each property has an invariant of the loop.  What is written and what   *)
(* is left to read are, together, what the text reads as (LinkInv); what   *)
(* is written and what the length function counts of the units not yet     *)
(* read are, together, no more than what it counted of the whole           *)
(* (BudgetInv); the answer is about the text (ToldInv); a safe converter   *)
(* stopped where there was no more room (HaltInv); what was written and    *)
(* what is left of the repaired text make that text (RepairInv); what was  *)
(* trimmed is what was cut off (TrimInv); what was detected is what the    *)
(* validators and marks say (DetectInv).                                   *)
(***************************************************************************)
EXTENDS Transcode, ReferenceProofs


(* The judgements on the character at p are right.                         *)
Right(t, p) ==
  /\ Verdict(t, p) = "Success" =>
       StartsAt(call.from, call.to, t, p, Width(t, p), CodePoint(t, p))
  /\ Verdict(t, p) # "Success" =>
       /\ CharactersAt(call.from, call.to, t, p) = {}
       /\ Verdict(t, p) = Fault(call.from, call.to, t, p)
       /\ Verdict(t, p) \in Faults
  /\ \A w, c : StartsAt(call.from, call.to, t, p, w, c) =>
       w = Width(t, p) /\ c = CodePoint(t, p) /\ Trusted(t, p) = "Success"

LEMMA VerdictOf ==
  ASSUME NEW t, NEW p, call.mode \in Readers
  PROVE  /\ call.from = "latin1" => Verdict(t, p) = "Success"
         /\ call.from \in {"ascii", "ascii16"} =>
              Verdict(t, p) = (IF t[p] > 127 THEN "TooLarge" ELSE "Success")
         /\ call.from = "utf8" /\ call.to = "latin1" => Verdict(t, p) = UTF8ToLatin1Verdict(t, p)
         /\ call.from = "utf8" /\ call.to # "latin1" => Verdict(t, p) = UTF8Verdict(t, p)
         /\ call.from \in {"utf16", "utf32"} /\ call.to = "latin1" => Verdict(t, p) = Latin1Verdict(t[p])
         /\ call.from = "utf16" /\ call.to # "latin1" => Verdict(t, p) = UTF16Verdict(t, p)
         /\ call.from = "utf32" /\ call.to # "latin1" => Verdict(t, p) = UTF32Verdict(t[p])
<1>1. call.mode # "swap"
  BY DEF Readers
<1> QED
  BY <1>1, SMT DEF Verdict

LEMMA StepOf ==
  ASSUME NEW t, NEW p, call.mode \in Readers
  PROVE  /\ call.from = "utf8" => /\ Width(t, p) = LeadWidth(t[p])
                                  /\ CodePoint(t, p) = Assembled(t, p)
         /\ call.from = "utf16" /\ call.to # "latin1" /\ Pair(t, p) =>
              Width(t, p) = 2 /\ CodePoint(t, p) = FromPair(t[p], t[p + 1])
         /\ call.from = "utf16" /\ call.to # "latin1" /\ ~ Pair(t, p) /\ ~ Surrogate(t[p]) =>
              Width(t, p) = 1 /\ CodePoint(t, p) = t[p]
         /\ call.from = "utf16" /\ call.to = "latin1" => Width(t, p) = 1 /\ CodePoint(t, p) = t[p]
         /\ call.from \notin {"utf8", "utf16"} => Width(t, p) = 1 /\ CodePoint(t, p) = t[p]
<1>1. call.mode # "swap"
  BY DEF Readers
<1> QED
  BY <1>1, SMT DEF Width, CodePoint

LEMMA TrustedOf ==
  ASSUME NEW t, NEW p
  PROVE  /\ call.from = "utf8" => Trusted(t, p) = TrustedUTF8(t, p)
         /\ call.from = "utf16" /\ call.to # "latin1" /\ ~ (Surrogate(t[p]) /\ p = Len(t)) =>
              Trusted(t, p) = "Success"
         /\ call.from = "utf32" /\ call.to = "latin1" /\ ~ (t[p] > 255) => Trusted(t, p) = "Success"
         /\ call.from = "utf16" /\ call.to = "latin1" => Trusted(t, p) = "Success"
         /\ call.from = "utf32" /\ call.to # "latin1" => Trusted(t, p) = "Success"
         /\ call.from \in {"latin1", "ascii", "ascii16"} => Trusted(t, p) = "Success"
BY SMT DEF Trusted

LEMMA TrustedUTF8Of ==
  ASSUME NEW t, NEW p, NEW w, w = LeadWidth(t[p]), w # 0, ~ (call.to = "latin1" /\ w > 2),
         ~ (p + w - 1 > Len(t)), ~ Broken(t, p)
  PROVE  TrustedUTF8(t, p) = "Success"
<1>1. ~ TooWide(w)
  BY DEF TooWide
<1> QED
  BY ONLY <1>1, w = LeadWidth(t[p]), ~ (p + w - 1 > Len(t)), ~ Broken(t, p), SMT DEF TrustedUTF8

(* One unit, or nothing.                                                   *)
LEMMA RightSingle ==
  ASSUME NEW t \in Seq(Nat), NEW p \in 1 .. Len(t), call.from \in Texts,
         Width(t, p) = 1, CodePoint(t, p) = t[p],
         \A w, c : StartsAt(call.from, call.to, t, p, w, c) => w = 1,
         Verdict(t, p) = "Success" <=> Single(call.from, t[p]) /\ Holds(call.to, t[p]),
         Verdict(t, p) = "Success" => Trusted(t, p) = "Success",
         Verdict(t, p) # "Success" =>
           Verdict(t, p) = Fault(call.from, call.to, t, p) /\ Verdict(t, p) \in Faults
  PROVE  Right(t, p)
<1>1. /\ Single(call.from, t[p]) /\ Holds(call.to, t[p]) => StartsAt(call.from, call.to, t, p, 1, t[p])
      /\ \A c : StartsAt(call.from, call.to, t, p, 1, c)
                  => c = t[p] /\ Single(call.from, t[p]) /\ Holds(call.to, t[p])
  BY SingleStarts
<1>2. ASSUME NEW w, NEW c, StartsAt(call.from, call.to, t, p, w, c)
      PROVE  w = Width(t, p) /\ c = CodePoint(t, p) /\ Verdict(t, p) = "Success"
  BY <1>1, <1>2
<1>3. Verdict(t, p) # "Success" => CharactersAt(call.from, call.to, t, p) = {}
  BY ONLY <1>2, NothingStarts
<1> QED
  BY <1>1, <1>2, <1>3 DEF Right

LEMMA RightLatin1 ==
  ASSUME NEW t \in Seq(Nat), NEW p \in 1 .. Len(t), call.mode \in Readers,
         call.from = "latin1", t[p] <= 255
  PROVE  Right(t, p)
<1>1. Verdict(t, p) = "Success" /\ Width(t, p) = 1 /\ CodePoint(t, p) = t[p] /\ Trusted(t, p) = "Success"
  BY VerdictOf, StepOf, TrustedOf
<1>2. Single(call.from, t[p]) /\ Holds(call.to, t[p])
  BY DEF Single, Holds
<1>3. call.from \in Texts
  BY DEF Texts
<1>4. \A w, c : StartsAt(call.from, call.to, t, p, w, c) => w = 1
  BY WidthOne DEF Texts
<1> QED
  BY <1>1, <1>2, <1>3, <1>4, RightSingle

LEMMA RightAscii ==
  ASSUME NEW t \in Seq(Nat), NEW p \in 1 .. Len(t), call.mode \in Readers,
         call.from \in {"ascii", "ascii16"}, call.to # "latin1"
  PROVE  Right(t, p)
<1>1. /\ Verdict(t, p) = (IF t[p] > 127 THEN "TooLarge" ELSE "Success")
      /\ Width(t, p) = 1 /\ CodePoint(t, p) = t[p] /\ Trusted(t, p) = "Success"
  BY VerdictOf, StepOf, TrustedOf
<1>2. t[p] \in Nat
  BY UnitAt
<1>3. Single(call.from, t[p]) <=> ~ (t[p] > 127)
  BY ONLY <1>2, call.from \in {"ascii", "ascii16"}, SMT DEF Single
<1>4. call.from \in Texts /\ Holds(call.to, t[p])
  BY DEF Texts, Holds
<1>5. \A w, c : StartsAt(call.from, call.to, t, p, w, c) => w = 1
  BY WidthOne DEF Texts
<1>6. Fault(call.from, call.to, t, p) = "TooLarge"
  BY ONLY call.from \in {"ascii", "ascii16"}, SMT DEF Fault
<1>7. "TooLarge" \in Faults
  BY DEF Faults
<1> QED
  BY ONLY <1>1, <1>3, <1>4, <1>5, <1>6, <1>7, t \in Seq(Nat), p \in 1 .. Len(t), RightSingle

LEMMA RightUTF32 ==
  ASSUME NEW t \in Seq(Nat), NEW p \in 1 .. Len(t), call.mode \in Readers,
         call.from = "utf32", call.to # "latin1"
  PROVE  Right(t, p)
<1>1. /\ Verdict(t, p) = UTF32Verdict(t[p])
      /\ Width(t, p) = 1 /\ CodePoint(t, p) = t[p] /\ Trusted(t, p) = "Success"
  BY VerdictOf, StepOf, TrustedOf
<1>2. PICK u : u = t[p]
  OBVIOUS
<1>3. u \in Nat
  BY <1>2, UnitAt
<1>4. UTF32Verdict(u) = "Success" <=> Scalar(u)
  BY ONLY <1>3, SMT DEF UTF32Verdict, Scalar, Surrogate
<1>5. Single(call.from, u) <=> Scalar(u)
  BY ONLY call.from = "utf32", SMT DEF Single
<1>6. call.from \in Texts /\ Holds(call.to, u)
  BY DEF Texts, Holds
<1>7. \A w, c : StartsAt(call.from, call.to, t, p, w, c) => w = 1
  BY WidthOne DEF Texts
<1>8. UTF32Verdict(u) # "Success" =>
        UTF32Verdict(u) = Fault(call.from, call.to, t, p) /\ UTF32Verdict(u) \in Faults
  <2>1. Fault(call.from, call.to, t, p) =
          IF u <= 1114111 /\ ~ Scalar(u) THEN "Surrogate" ELSE "TooLarge"
    BY ONLY <1>2, call.from = "utf32", call.to # "latin1", SMT DEF Fault
  <2>2. UTF32Verdict(u) # "Success" =>
          UTF32Verdict(u) = IF u <= 1114111 /\ ~ Scalar(u) THEN "Surrogate" ELSE "TooLarge"
    BY ONLY <1>3, SMT DEF UTF32Verdict, Scalar, Surrogate
  <2> QED
    BY ONLY <2>1, <2>2, SMT DEF Faults
<1> QED
  BY ONLY <1>1, <1>2, <1>4, <1>5, <1>6, <1>7, <1>8, t \in Seq(Nat), p \in 1 .. Len(t), RightSingle

LEMMA RightToLatin1 ==
  ASSUME NEW t \in Seq(Nat), NEW p \in 1 .. Len(t), call.mode \in Readers,
         call.from \in {"utf16", "utf32"}, call.to = "latin1"
  PROVE  Right(t, p)
<1>1. /\ Verdict(t, p) = Latin1Verdict(t[p])
      /\ Width(t, p) = 1 /\ CodePoint(t, p) = t[p]
  BY VerdictOf, StepOf
<1>2. PICK u : u = t[p]
  OBVIOUS
<1>3. u \in Nat
  BY <1>2, UnitAt
<1>4. Latin1Verdict(u) = "Success" <=> ~ (u > 255)
  BY ONLY SMT DEF Latin1Verdict
<1>5. Single(call.from, u) /\ Holds(call.to, u) <=> ~ (u > 255)
  BY ONLY <1>3, call.from \in {"utf16", "utf32"}, call.to = "latin1", SMT DEF Single, Holds, Scalar
<1>6. call.from \in Texts
  BY DEF Texts
<1>7. \A w, c : StartsAt(call.from, call.to, t, p, w, c) => w = 1
  <2>1. CASE call.from = "utf32"
    BY <2>1, WidthOne DEF Texts
  <2>2. CASE call.from = "utf16"
    <3> SUFFICES ASSUME NEW w, NEW c, StartsAt("utf16", "latin1", t, p, w, c) PROVE w = 1
      BY <2>2
    <3>1. PieceFacts("utf16", "latin1", t, p, w, c)
      BY StartsPiece DEF Texts
    <3>2. PICK s : s = Piece(t, p, w)
      OBVIOUS
    <3>3. /\ c = Meaning("utf16", s) /\ IsCharacter("utf16", s) /\ Holds("latin1", c)
          /\ Units(s) /\ Len(s) = w /\ c \in Nat
      BY ONLY <3>1, <3>2 DEF PieceFacts
    <3>4. "utf16" \in Texts /\ "utf16" # "utf8"
      BY DEF Texts
    <3>5. Len(s) = 1 \/ (Len(s) = 2 /\ "utf16" = "utf8")
      BY ONLY <3>3, <3>4, SmallPoints
    <3> QED
      BY ONLY <3>3, <3>4, <3>5
  <2> QED
    BY <2>1, <2>2
<1>8. Latin1Verdict(u) # "Success" =>
        Latin1Verdict(u) = Fault(call.from, call.to, t, p) /\ Latin1Verdict(u) \in Faults
  <2>1. Fault(call.from, call.to, t, p) = "TooLarge"
    BY ONLY call.from \in {"utf16", "utf32"}, call.to = "latin1", SMT DEF Fault
  <2> QED
    BY ONLY <2>1, SMT DEF Latin1Verdict, Faults
<1>9. Latin1Verdict(u) = "Success" => Trusted(t, p) = "Success"
  BY ONLY <1>2, <1>4, call.from \in {"utf16", "utf32"}, call.to = "latin1", TrustedOf, SMT
<1> QED
  BY ONLY <1>1, <1>2, <1>4, <1>5, <1>6, <1>7, <1>8, <1>9, t \in Seq(Nat), p \in 1 .. Len(t),
       RightSingle

LEMMA RightUTF16 ==
  ASSUME NEW t \in Seq(Nat), NEW p \in 1 .. Len(t), call.mode \in Readers,
         call.from = "utf16", call.to # "latin1", t[p] <= 65535
  PROVE  Right(t, p)
<1>1. t[p] \in Nat /\ Len(t) \in Nat /\ p \in Nat
  BY UnitAt
<1>2. /\ Single("utf16", t[p]) <=> ~ Surrogate(t[p])
      /\ High(t[p]) => Surrogate(t[p])
  BY ONLY <1>1, t[p] <= 65535, WordIs, SMT
<1>3. Verdict(t, p) = (IF Surrogate(t[p]) /\ ~ Pair(t, p) THEN "Surrogate" ELSE "Success")
  BY VerdictOf DEF UTF16Verdict
<1>4. Pair(t, p) => Surrogate(t[p]) /\ p # Len(t)
  BY ONLY <1>1, <1>2 DEF Pair
<1>5. /\ Pair(t, p) => StartsAt("utf16", call.to, t, p, 2, FromPair(t[p], t[p + 1]))
      /\ \A c : StartsAt("utf16", call.to, t, p, 2, c) => Pair(t, p) /\ c = FromPair(t[p], t[p + 1])
  BY PairStarts
<1>6. /\ ~ Surrogate(t[p]) => StartsAt("utf16", call.to, t, p, 1, t[p])
      /\ \A c : StartsAt("utf16", call.to, t, p, 1, c) => c = t[p] /\ ~ Surrogate(t[p])
  <2>1. Holds(call.to, t[p]) /\ "utf16" \in Texts
    BY DEF Holds, Texts
  <2> QED
    BY <1>2, <2>1, SingleStarts
<1>7. \A w, c : StartsAt("utf16", call.to, t, p, w, c) => w \in {1, 2}
  <2> SUFFICES ASSUME NEW w, NEW c, StartsAt("utf16", call.to, t, p, w, c) PROVE w \in {1, 2}
    OBVIOUS
  <2>1. PieceFacts("utf16", call.to, t, p, w, c)
    BY StartsPiece DEF Texts
  <2>2. IsCharacter("utf16", Piece(t, p, w)) /\ Len(Piece(t, p, w)) = w
    BY ONLY <2>1 DEF PieceFacts
  <2> QED
    BY ONLY <2>2 DEF IsCharacter
<1>8. /\ Pair(t, p) => Width(t, p) = 2 /\ CodePoint(t, p) = FromPair(t[p], t[p + 1])
      /\ ~ Pair(t, p) /\ ~ Surrogate(t[p]) => Width(t, p) = 1 /\ CodePoint(t, p) = t[p]
      /\ ~ (Surrogate(t[p]) /\ p = Len(t)) => Trusted(t, p) = "Success"
  BY StepOf, TrustedOf
<1>9. Verdict(t, p) = "Success" => StartsAt("utf16", call.to, t, p, Width(t, p), CodePoint(t, p))
  <2>1. Verdict(t, p) = "Success" => Pair(t, p) \/ (~ Pair(t, p) /\ ~ Surrogate(t[p]))
    BY ONLY <1>3, SMT
  <2> QED
    BY ONLY <1>5, <1>6, <1>8, <2>1
<1>10. ASSUME NEW w, NEW c, StartsAt("utf16", call.to, t, p, w, c)
       PROVE  w = Width(t, p) /\ c = CodePoint(t, p) /\ Trusted(t, p) = "Success" /\ Verdict(t, p) = "Success"
  <2>1. CASE w = 1
    <3>1. c = t[p] /\ ~ Surrogate(t[p])
      BY ONLY <1>6, <1>10, <2>1
    <3> QED
      BY ONLY <1>3, <1>4, <1>8, <2>1, <3>1
  <2>2. CASE w = 2
    <3>1. Pair(t, p) /\ c = FromPair(t[p], t[p + 1])
      BY ONLY <1>5, <1>10, <2>2
    <3> QED
      BY ONLY <1>3, <1>4, <1>8, <2>2, <3>1
  <2> QED
    BY ONLY <1>7, <1>10, <2>1, <2>2
<1>11. Verdict(t, p) # "Success" =>
         /\ CharactersAt("utf16", call.to, t, p) = {}
         /\ Verdict(t, p) = Fault("utf16", call.to, t, p) /\ Verdict(t, p) \in Faults
  <2>1. Verdict(t, p) # "Success" => CharactersAt("utf16", call.to, t, p) = {}
    BY ONLY <1>10, NothingStarts
  <2>2. Fault("utf16", call.to, t, p) = "Surrogate" /\ "Surrogate" \in Faults
    BY ONLY call.to # "latin1", SMT DEF Fault, Faults
  <2> QED
    BY ONLY <1>3, <2>1, <2>2
<1> QED
  BY ONLY <1>9, <1>10, <1>11, call.from = "utf16" DEF Right

LEMMA RightUTF8 ==
  ASSUME NEW t \in Seq(Nat), NEW p \in 1 .. Len(t), call.mode \in Readers,
         call.from = "utf8", call.to # "latin1"
  PROVE  Right(t, p)
<1>1. /\ Verdict(t, p) = UTF8Verdict(t, p)
      /\ Width(t, p) = LeadWidth(t[p]) /\ CodePoint(t, p) = Assembled(t, p)
      /\ Trusted(t, p) = TrustedUTF8(t, p)
  BY VerdictOf, StepOf, TrustedOf
<1>2. UTF8Verdict(t, p) = "Success" =>
        StartsAt("utf8", call.to, t, p, LeadWidth(t[p]), Assembled(t, p))
  <2>1. Holds(call.to, Assembled(t, p))
    BY DEF Holds
  <2> QED
    BY <2>1, UTF8Accepted
<1>3. ASSUME NEW w, NEW c, StartsAt("utf8", call.to, t, p, w, c)
      PROVE  w = LeadWidth(t[p]) /\ c = Assembled(t, p) /\ TrustedUTF8(t, p) = "Success"
  <2>1. /\ w = LeadWidth(t[p]) /\ w \in 1 .. 4 /\ p + w - 1 <= Len(t)
        /\ c = Assembled(t, p) /\ ~ Broken(t, p)
    BY <1>3, UTF8Recognised
  <2>2. w # 0 /\ ~ (p + w - 1 > Len(t))
    <3>1. p \in Nat /\ Len(t) \in Nat /\ p + w - 1 <= Len(t) /\ w \in 1 .. 4
      BY <2>1, UnitAt
    <3> QED
      BY ONLY <3>1, SMT
  <2> QED
    BY ONLY <2>1, <2>2, call.to # "latin1", TrustedUTF8Of
<1>4. UTF8Verdict(t, p) # "Success" =>
         /\ CharactersAt("utf8", call.to, t, p) = {}
         /\ UTF8Verdict(t, p) = Fault("utf8", call.to, t, p) /\ UTF8Verdict(t, p) \in Faults
  <2>1. UTF8Verdict(t, p) # "Success" => CharactersAt("utf8", call.to, t, p) = {}
    BY UTF8Refused
  <2>2. UTF8Verdict(t, p) # "Success" =>
          /\ Fault("utf8", call.to, t, p) = UTF8Verdict(t, p)
          /\ UTF8Verdict(t, p) \in {"TooLong", "HeaderBits", "TooShort", "Overlong", "Surrogate", "TooLarge"}
    BY ONLY call.to # "latin1", t \in Seq(Nat), p \in 1 .. Len(t), UTF8FaultIs
  <2> QED
    BY ONLY <2>1, <2>2 DEF Faults
<1> QED
  BY ONLY <1>1, <1>2, <1>3, <1>4, call.from = "utf8" DEF Right

LEMMA RightUTF8ToLatin1 ==
  ASSUME NEW t \in Seq(Nat), NEW p \in 1 .. Len(t), call.mode \in Readers,
         call.from = "utf8", call.to = "latin1"
  PROVE  Right(t, p)
<1>0. t[p] \in Nat /\ Len(t) \in Nat /\ p \in Nat
  BY UnitAt
<1>1. /\ Verdict(t, p) = UTF8ToLatin1Verdict(t, p)
      /\ Width(t, p) = LeadWidth(t[p]) /\ CodePoint(t, p) = Assembled(t, p)
      /\ Trusted(t, p) = TrustedUTF8(t, p)
  BY VerdictOf, StepOf, TrustedOf
<1>2. ASSUME UTF8ToLatin1Verdict(t, p) = "Success"
      PROVE  StartsAt("utf8", "latin1", t, p, LeadWidth(t[p]), Assembled(t, p))
  <2>1. UTF8Verdict(t, p) = "Success" /\ ~ (Assembled(t, p) > 255)
    BY ONLY <1>2, SMT DEF UTF8ToLatin1Verdict
  <2>2. StartsAt("utf8", "utf8", t, p, LeadWidth(t[p]), Assembled(t, p))
    BY <2>1, UTF8Accepted DEF Holds
  <2>3. Assembled(t, p) \in Nat
    BY <2>2, UTF8Recognised
  <2>4. Assembled(t, p) <= 255
    BY ONLY <2>1, <2>3, SMT
  <2>5. Holds("latin1", Assembled(t, p))
    BY ONLY <2>4 DEF Holds
  <2> QED
    BY <2>1, <2>5, UTF8Accepted
<1>3. ASSUME NEW w, NEW c, StartsAt("utf8", "latin1", t, p, w, c)
      PROVE  /\ w = LeadWidth(t[p]) /\ c = Assembled(t, p) /\ TrustedUTF8(t, p) = "Success"
             /\ UTF8ToLatin1Verdict(t, p) = "Success"
  <2>1. /\ w = LeadWidth(t[p]) /\ w \in 1 .. 4 /\ p + w - 1 <= Len(t)
        /\ c = Assembled(t, p) /\ c \in Nat /\ Holds("latin1", c) /\ ~ Broken(t, p)
        /\ UTF8Verdict(t, p) = "Success"
    BY <1>3, UTF8Recognised
  <2>2. c <= 255
    BY ONLY <2>1 DEF Holds
  <2>3. w \notin {3, 4}
    BY <1>3, <2>1, LongForms
  <2>4. w # 0 /\ ~ (p + w - 1 > Len(t)) /\ ~ (w > 2)
    <3>1. p \in Nat /\ Len(t) \in Nat /\ p + w - 1 <= Len(t) /\ w \in 1 .. 4
      BY <1>0, <2>1
    <3> QED
      BY ONLY <2>3, <3>1, SMT
  <2>5. TrustedUTF8(t, p) = "Success"
    BY ONLY <2>1, <2>4, TrustedUTF8Of
  <2>6. ~ (c > 255)
    BY ONLY <2>1, <2>2, SMT
  <2>7. UTF8ToLatin1Verdict(t, p) = "Success"
    BY ONLY <2>1, <2>3, <2>6 DEF UTF8ToLatin1Verdict
  <2> QED
    BY ONLY <2>1, <2>5, <2>7
<1>4. ASSUME UTF8ToLatin1Verdict(t, p) # "Success"
      PROVE  /\ CharactersAt("utf8", "latin1", t, p) = {}
             /\ UTF8ToLatin1Verdict(t, p) = Fault("utf8", "latin1", t, p)
             /\ UTF8ToLatin1Verdict(t, p) \in Faults
  <2>1. CharactersAt("utf8", "latin1", t, p) = {}
    BY ONLY <1>3, <1>4, NothingStarts
  <2>2. LeadWidth(t[p]) \in {3, 4} <=> 224 <= t[p] /\ t[p] < 248
    BY ONLY <1>0, LongLead
  <2>3. CASE LeadWidth(t[p]) \in {3, 4}
    <3>1. UTF8ToLatin1Verdict(t, p) = "TooLarge"
      BY ONLY <2>3 DEF UTF8ToLatin1Verdict
    <3>2. Fault("utf8", "latin1", t, p) = "TooLarge"
      <4>1. 192 <= t[p] /\ t[p] < 248 /\ t[p] >= 224
        BY ONLY <1>0, <2>2, <2>3, SMT
      <4> QED
        BY ONLY <1>0, <4>1, FaultUTF8, SMT
    <3> QED
      BY ONLY <2>1, <3>1, <3>2 DEF Faults
  <2>4. CASE LeadWidth(t[p]) \notin {3, 4} /\ UTF8Verdict(t, p) # "Success"
    <3>1. UTF8ToLatin1Verdict(t, p) = UTF8Verdict(t, p)
      BY ONLY <2>4 DEF UTF8ToLatin1Verdict
    <3>2. /\ Fault("utf8", "latin1", t, p) = UTF8Verdict(t, p)
          /\ UTF8Verdict(t, p) \in {"TooLong", "HeaderBits", "TooShort", "Overlong", "Surrogate", "TooLarge"}
      BY ONLY <2>2, <2>4, t \in Seq(Nat), p \in 1 .. Len(t), UTF8FaultIs
    <3> QED
      BY ONLY <2>1, <3>1, <3>2 DEF Faults
  <2>5. CASE LeadWidth(t[p]) \notin {3, 4} /\ UTF8Verdict(t, p) = "Success"
    <3>1. Assembled(t, p) > 255 /\ UTF8ToLatin1Verdict(t, p) = "TooLarge"
      BY ONLY <1>4, <2>5, SMT DEF UTF8ToLatin1Verdict
    <3>2. StartsAt("utf8", "utf8", t, p, LeadWidth(t[p]), Assembled(t, p))
      BY <2>5, UTF8Accepted DEF Holds
    <3>3. ~ Broken(t, p) /\ LeadWidth(t[p]) \in {1, 2}
      <4>1. ~ Broken(t, p) /\ LeadWidth(t[p]) \in 1 .. 4
        BY <3>2, UTF8Recognised
      <4> QED
        BY ONLY <2>5, <4>1, SMT
    <3>4. 194 <= t[p] /\ t[p] < 224
      <4>1. PieceFacts("utf8", "utf8", t, p, LeadWidth(t[p]), Assembled(t, p))
        BY <3>2, StartsPiece DEF Texts
      <4>2. PICK s : s = Piece(t, p, LeadWidth(t[p]))
        OBVIOUS
      <4>3. UTF8Character(s) /\ CopyOf(s, t, p) /\ Len(s) \in {1, 2}
            /\ Assembled(t, p) = Meaning("utf8", s)
        <5>1. /\ IsCharacter("utf8", s) /\ CopyOf(s, t, p) /\ Len(s) = LeadWidth(t[p])
              /\ Assembled(t, p) = Meaning("utf8", s)
          BY ONLY <4>1, <4>2, Zenon DEF PieceFacts
        <5>2. UTF8Character(s)
          BY ONLY <5>1 DEF IsCharacter
        <5>3. LeadWidth(t[p]) \in {1, 2}
          BY ONLY <3>3
        <5> QED
          BY ONLY <5>1, <5>2, <5>3, Zenon
      <4>4. s[1] = t[p]
        BY ONLY <4>3 DEF CopyOf
      <4>5. Len(s) # 1
        <5>1. Len(s) = 1 => Assembled(t, p) = t[p] /\ t[p] < 128
          BY ONLY <4>3, <4>4, SMT DEF Meaning, UTF8Character
        <5> QED
          BY ONLY <1>0, <3>1, <5>1, SMT
      <4> QED
        <5>1. Len(s) = 2
          BY ONLY <4>3, <4>5
        <5>2. Within(s[1], 194, 223)
          BY ONLY <4>3, <5>1, SMT DEF UTF8Character
        <5>3. \A x \in Nat : Within(x, 194, 223) => 194 <= x /\ x < 224
          BY SMT DEF Within
        <5> QED
          BY ONLY <1>0, <4>4, <5>2, <5>3
    <3>5. ~ CutOff(t, p)
      <4>1. 192 <= t[p] /\ t[p] < 248
        BY ONLY <1>0, <3>4, SMT
      <4> QED
        BY <3>3, <4>1, CutOffIsBroken
    <3>6. ~ OverlongAt(t, p) /\ ~ OpensSurrogateAt(t, p)
      BY ONLY <1>0, <3>4, SMT DEF OverlongAt, OpensSurrogateAt
    <3>7. Fault("utf8", "latin1", t, p) = "TooLarge"
      <4>1. 192 <= t[p] /\ t[p] < 248 /\ ~ (t[p] >= 224)
        BY ONLY <1>0, <3>4, SMT
      <4> QED
        BY ONLY <1>0, <3>5, <3>6, <4>1, FaultUTF8, SMT
    <3> QED
      BY ONLY <2>1, <3>1, <3>7 DEF Faults
  <2> QED
    BY ONLY <2>3, <2>4, <2>5
<1> QED
  BY ONLY <1>1, <1>2, <1>3, <1>4, call.from = "utf8", call.to = "latin1" DEF Right

(* Units as wide as the encoding has them.                                 *)
UnitsOf(e, s) == s \in Seq(Nat) /\ \A i \in DOMAIN s : IsUnit(e, s[i])

LEMMA NarrowUnits ==
  ASSUME NEW e, NEW s, NEW bound, UnitsUpTo(s, bound),
         \A u \in Nat : u <= bound => IsUnit(e, u)
  PROVE  UnitsOf(e, s)
BY SeqDef DEF UnitsUpTo, UnitsOf

LEMMA IsUnitIs ==
  /\ \A u \in Nat : u <= 255 => IsUnit("latin1", u) /\ IsUnit("utf8", u)
  /\ \A u \in Nat : u <= 65535 <=> IsUnit("utf16", u)
  /\ \A u \in Nat : IsUnit("utf32", u)
BY SMT DEF IsUnit

LEMMA SpellingIs ==
  ASSUME NEW e \in Targets, NEW c \in Nat, NEW s, s = Spelling(e, c)
  PROVE  /\ UnitsOf(e, s) /\ Len(s) = SpellSize(e, c) /\ Len(s) \in 1 .. 4
         /\ Scalar(c) /\ Holds(e, c) => IsCharacter(e, s) /\ Meaning(e, s) = c
<1>1. CASE e = "utf8"
  <2>1. s = UTF8Units(c) /\ SpellSize(e, c) = Size8(c)
    BY ONLY <1>1, s = Spelling(e, c) DEF Spelling, SpellSize
  <2>2. /\ UnitsUpTo(s, 255) /\ Len(s) = Size8(c)
        /\ Scalar(c) => UTF8Character(s) /\ Meaning("utf8", s) = c
    BY ONLY <2>1, c \in Nat, UTF8Spelled
  <2>3. UnitsOf(e, s)
    <3>1. \A u \in Nat : u <= 255 => IsUnit("utf8", u)
      BY ONLY IsUnitIs, SMT
    <3>2. PICK b : b = 255
      OBVIOUS
    <3>3. UnitsUpTo(s, b) /\ \A u \in Nat : u <= b => IsUnit("utf8", u)
      BY ONLY <2>2, <3>1, <3>2, SMT
    <3> QED
      BY ONLY <1>1, <3>3, NarrowUnits
  <2>4. Scalar(c) => IsCharacter(e, s) /\ Meaning(e, s) = c
    <3>1. UTF8Character(s) => IsCharacter("utf8", s)
      BY SMT DEF IsCharacter
    <3> QED
      BY ONLY <1>1, <2>2, <3>1
  <2> QED
    BY ONLY <2>1, <2>2, <2>3, <2>4, SizesFew, e \in Targets, c \in Nat
<1>2. CASE e = "utf16"
  <2>1. s = UTF16Units(c) /\ SpellSize(e, c) = Size16(c)
    BY ONLY <1>2, s = Spelling(e, c) DEF Spelling, SpellSize
  <2>2. PICK b : b = 65535
    OBVIOUS
  <2>3. /\ UnitsUpTo(s, b) /\ Len(s) = Size16(c)
        /\ Scalar(c) => IsCharacter("utf16", s) /\ Meaning("utf16", s) = c
    BY ONLY <2>1, <2>2, c \in Nat, UTF16Spelled, SMT
  <2>4. UnitsOf(e, s)
    <3>1. \A u \in Nat : u <= b => IsUnit("utf16", u)
      BY ONLY IsUnitIs, <2>2, SMT
    <3> QED
      BY ONLY <1>2, <2>3, <3>1, NarrowUnits
  <2> QED
    BY ONLY <1>2, <2>1, <2>3, <2>4, SizesFew, e \in Targets, c \in Nat
<1>3. CASE e = "utf32"
  <2>1. s = << c >> /\ SpellSize(e, c) = 1
    BY ONLY <1>3, s = Spelling(e, c) DEF Spelling, SpellSize
  <2>2. s \in Seq(Nat) /\ Len(s) = 1 /\ s[1] = c /\ DOMAIN s = 1 .. 1
    BY ONLY <2>1, c \in Nat, SMT
  <2>3. UnitsOf(e, s)
    BY ONLY <1>3, <2>2, SMT DEF UnitsOf, IsUnit
  <2>4. Scalar(c) => IsCharacter(e, s) /\ Meaning(e, s) = c
    <3>1. IsCharacter(e, s) <=> Single(e, c)
      BY ONLY <2>2, SingleIs
    <3>2. Meaning(e, s) = c
      BY ONLY <2>2, SingleIs
    <3> QED
      BY ONLY <1>3, <3>1, <3>2, SMT DEF Single
  <2> QED
    BY ONLY <2>1, <2>2, <2>3, <2>4, SMT
<1>4. CASE e = "latin1"
  <2>1. s = << c % 256 >> /\ SpellSize(e, c) = 1
    BY ONLY <1>4, s = Spelling(e, c) DEF Spelling, SpellSize
  <2>2. PICK d \in Nat : d = c % 256 /\ d <= 255 /\ (c <= 255 => d = c)
    BY ONLY c \in Nat, SMT
  <2>3. s \in Seq(Nat) /\ Len(s) = 1 /\ s[1] = d /\ DOMAIN s = 1 .. 1
    BY ONLY <2>1, <2>2, d \in Nat, SMT
  <2>4. UnitsOf(e, s)
    BY ONLY <1>4, <2>2, <2>3, SMT DEF UnitsOf, IsUnit
  <2>5. Holds(e, c) => IsCharacter(e, s) /\ Meaning(e, s) = c
    <3>1. IsCharacter(e, s) <=> Single(e, d)
      BY ONLY <2>3, SingleIs
    <3>2. Meaning(e, s) = d
      BY ONLY <2>3, SingleIs
    <3> QED
      BY ONLY <1>4, <2>2, <3>1, <3>2, SMT DEF Single, Holds
  <2> QED
    BY ONLY <2>1, <2>3, <2>4, <2>5, SMT
<1> QED
  BY ONLY <1>1, <1>2, <1>3, <1>4, e \in Targets DEF Targets

(* What a call writes for a code point is its spelling, in the order asked. *)
LEMMA SpelledIs ==
  ASSUME call.to \in Targets, call.mode # "swap", call.swapped \in BOOLEAN, NEW c \in Nat
  PROVE  /\ UnitsOf(call.to, Spelled(c)) /\ Len(Spelled(c)) = SpellSize(call.to, c)
         /\ Len(Spelled(c)) \in 1 .. 4
         /\ Native(call, Spelled(c)) = Spelling(call.to, c)
<1> DEFINE s == Spelling(call.to, c)
<1>1. UnitsOf(call.to, s) /\ Len(s) = SpellSize(call.to, c) /\ Len(s) \in 1 .. 4
  BY SpellingIs
<1>2. s \in Seq(Nat) /\ DOMAIN s = 1 .. Len(s)
  BY <1>1, LenProperties DEF UnitsOf
<1>3. CASE call.to # "utf16" \/ ~ call.swapped
  <2>1. Spelled(c) = s
    <3>1. CASE call.to # "utf16"
      BY ONLY <3>1, call.to \in Targets, call.mode # "swap" DEF Targets, Spelled, Spelling
    <3>2. CASE call.to = "utf16"
      <4>1. s = UTF16Units(c)
        BY ONLY <3>2 DEF Spelling
      <4>2. Spelled(c) = [i \in DOMAIN UTF16Units(c) |-> UTF16Units(c)[i]]
        BY ONLY <3>2, <1>3, call.mode # "swap", Zenon DEF Spelled, Swap
      <4> HIDE DEF s
      <4> QED
        BY ONLY <4>1, <4>2, <1>2, SeqDef, LenProperties
    <3> QED
      BY <3>1, <3>2
  <2>2. Native(call, s) = s
    <3> HIDE DEF s
    <3>1. Native(call, s) = [i \in DOMAIN s |-> s[i]]
      BY ONLY <1>3, Zenon DEF Native
    <3> QED
      BY ONLY <3>1, <1>2, SeqDef, LenProperties
  <2> QED
    BY ONLY <1>1, <2>1, <2>2
<1>4. CASE call.to = "utf16" /\ call.swapped
  <2>1. Spelled(c) = [i \in DOMAIN s |-> ReverseBytes16(s[i])]
    BY ONLY <1>4, call.mode # "swap" DEF Spelled, Spelling, Swap
  <2> HIDE DEF s
  <2>2. \A i \in 1 .. Len(s) : /\ ReverseBytes16(s[i]) \in Nat /\ IsUnit("utf16", ReverseBytes16(s[i]))
                               /\ ReverseBytes16(ReverseBytes16(s[i])) = s[i]
    <3> TAKE i \in 1 .. Len(s)
    <3>1. PICK u \in Nat : u = s[i] /\ IsUnit("utf16", u)
      BY ONLY <1>1, <1>2, <1>4, i \in 1 .. Len(s) DEF UnitsOf
    <3>2. u <= 65535
      BY ONLY <3>1, IsUnitIs, u \in Nat, SMT
    <3>3. PICK v \in Nat : v = ReverseBytes16(u) /\ v <= 65535 /\ ReverseBytes16(v) = u
      BY ONLY <3>2, u \in Nat, SwapTwice, SMT
    <3>4. IsUnit("utf16", v)
      BY ONLY <3>3, v \in Nat, IsUnitIs, SMT
    <3>5. v = ReverseBytes16(u) /\ ReverseBytes16(v) = u
      BY ONLY <3>3, SMT
    <3> QED
      BY ONLY <3>1, <3>4, <3>5, v \in Nat
  <2> DEFINE r == [i \in 1 .. Len(s) |-> ReverseBytes16(s[i])]
  <2>3. Spelled(c) = r
    BY ONLY <2>1, <1>2
  <2>4. DOMAIN r = 1 .. Len(s) /\ \A i \in 1 .. Len(s) : r[i] = ReverseBytes16(s[i])
    OBVIOUS
  <2> HIDE DEF r
  <2>5. \A i \in 1 .. Len(s) : r[i] \in Nat /\ IsUnit("utf16", r[i]) /\ ReverseBytes16(r[i]) = s[i]
    BY ONLY <2>2, <2>4
  <2>6. r \in Seq(Nat) /\ Len(r) = Len(s)
    <3>1. r \in [1 .. Len(s) -> Nat]
      <4>1. r = [i \in 1 .. Len(s) |-> ReverseBytes16(s[i])]
        BY DEF r
      <4>2. \A i \in 1 .. Len(s) : ReverseBytes16(s[i]) \in Nat
        BY ONLY <2>2
      <4> QED
        BY ONLY <4>1, <4>2
    <3>2. Len(s) \in Nat
      BY ONLY <1>2, LenProperties
    <3> QED
      BY ONLY <3>1, <3>2, SeqDef, LenProperties
  <2>7. UnitsOf(call.to, r)
    BY ONLY <1>4, <2>4, <2>5, <2>6 DEF UnitsOf
  <2>8. Native(call, r) = [i \in DOMAIN r |-> ReverseBytes16(r[i])]
    BY ONLY <1>4 DEF Native
  <2>9. [i \in DOMAIN r |-> ReverseBytes16(r[i])] = [i \in 1 .. Len(s) |-> s[i]]
    BY ONLY <2>4, <2>5
  <2>10. [i \in 1 .. Len(s) |-> s[i]] = s
    BY ONLY <1>2, SeqDef, LenProperties
  <2> QED
    BY ONLY <1>1, <2>3, <2>6, <2>7, <2>8, <2>9, <2>10 DEF s
<1> QED
  BY <1>3, <1>4

-----------------------------------------------------------------------------
(* Calls and their input *)

LEMMA CallFacts ==
  ASSUME call \in Calls
  PROVE  /\ Offered(call)
         /\ call.provider \in {"scalar", "kernel"} /\ call.mode \in Modes /\ call.from \in Sources
         /\ call.to \in Encodings \cup {"none"} /\ call.swapped \in BOOLEAN
         /\ call.inPlace \in BOOLEAN /\ call.text \in Seq(Nat) /\ call.room \in Nat
         /\ UnitsOf(call.from, call.text) /\ Size \in Nat
<1>1. call \in CallType /\ Offered(call) /\ \A i \in DOMAIN call.text : IsUnit(call.from, call.text[i])
  BY CallsAssumption
<1>2. call.text \in Seq(Nat)
  BY <1>1 DEF CallType
<1> QED
  BY <1>1, <1>2, LenProperties DEF CallType, UnitsOf, Size

LEMMA OfferedIs ==
  ASSUME call \in Calls
  PROVE  /\ call.to \in Targets \cup {"none"}
         /\ call.mode \in Readers => call.from \in Texts
         /\ call.mode \notin Inspections => call.mode \in Readers \cup {"swap"}
         /\ call.mode \in {"wellFormed", "swap"} => call.from = "utf16" /\ call.to = "utf16"
         /\ call.from \in {"ascii", "ascii16"} => call.to = "none"
         /\ call.inPlace => call.mode \in {"wellFormed", "swap"}
         /\ call.mode = "replacement" => call.from = "utf16" /\ call.to = "utf8"
         /\ call.mode = "safe" => call.from \in {"latin1", "utf16"} /\ call.to = "utf8"
         /\ call.mode = "safe" => call.provider = "scalar"
         /\ call.from = "latin1" => call.to # "none" /\ call.mode \in {"plain", "safe"}
         /\ call.to = "none" => call.mode \in {"plain", "errors"} \cup Inspections
         /\ call.to = call.from => call.mode \in {"wellFormed", "swap"}
         /\ call.mode \in Inspections => call.to = "none"
         /\ call.from = "ascii16" => call.mode = "plain"
<1>1. Offered(call) /\ call.mode \in Modes /\ call.from \in Sources /\ call.to \in Encodings \cup {"none"}
  BY CallFacts
<1>2. /\ call.to # "ascii"
      /\ call.from = "bytes" <=> call.mode \in {"detect", "autodetect"}
      /\ call.mode \in {"wellFormed", "swap"} => call.from = "utf16" /\ call.to = "utf16"
      /\ call.from \in {"ascii", "ascii16"} => call.to = "none"
      /\ call.inPlace => call.mode \in {"wellFormed", "swap"}
      /\ call.mode = "replacement" => call.from = "utf16" /\ call.to = "utf8"
      /\ call.mode = "safe" => call.from \in {"latin1", "utf16"} /\ call.to = "utf8"
      /\ call.mode = "safe" => call.provider = "scalar"
      /\ call.from = "latin1" => call.to # "none" /\ call.mode \in {"plain", "safe"}
      /\ call.to = "none" => call.mode \in {"plain", "errors"} \cup Inspections
      /\ call.to = call.from => call.mode \in {"wellFormed", "swap"}
      /\ call.mode \in Inspections => call.to = "none"
      /\ call.from = "ascii16" => call.mode = "plain"
  BY <1>1, Zenon DEF Offered
<1>3. call.to \in Targets \cup {"none"}
  BY ONLY <1>1, <1>2 DEF Encodings, Targets
<1>4. call.mode \in Readers => call.from \in Texts
  BY ONLY <1>1, <1>2 DEF Sources, Encodings, Texts, Readers
<1>5. call.mode \notin Inspections => call.mode \in Readers \cup {"swap"}
  BY ONLY <1>1 DEF Modes, Readers
<1> QED
  BY ONLY <1>2, <1>3, <1>4, <1>5

(* In every mode the judgements on a text of the call are right.           *)
LEMMA RightAny ==
  ASSUME call \in Calls, call.mode \in Readers, NEW t, UnitsOf(call.from, t), NEW p \in 1 .. Len(t)
  PROVE  Right(t, p)
<1>1. t \in Seq(Nat) /\ t[p] \in Nat /\ IsUnit(call.from, t[p])
  <2>1. t \in Seq(Nat) /\ DOMAIN t = 1 .. Len(t)
    BY LenProperties DEF UnitsOf
  <2> QED
    BY <2>1, ElementOfSeq DEF UnitsOf
<1>2. call.from \in Texts /\ (call.from \in {"ascii", "ascii16"} => call.to = "none")
  BY OfferedIs
<1>3. CASE call.from = "latin1"
  <2>1. t[p] <= 255
    BY ONLY <1>1, <1>3, SMT DEF IsUnit
  <2> QED
    BY <1>1, <1>3, <2>1, RightLatin1
<1>4. CASE call.from \in {"ascii", "ascii16"}
  BY <1>1, <1>2, <1>4, RightAscii
<1>5. CASE call.from = "utf8"
  BY <1>1, <1>5, RightUTF8, RightUTF8ToLatin1
<1>6. CASE call.from = "utf16"
  <2>1. t[p] <= 65535
    BY ONLY <1>1, <1>6, SMT DEF IsUnit
  <2>2. CASE call.to = "latin1"
    BY <1>1, <1>6, <2>2, RightToLatin1
  <2>3. CASE call.to # "latin1"
    BY <1>1, <1>6, <2>1, <2>3, RightUTF16
  <2> QED
    BY <2>2, <2>3
<1>7. CASE call.from = "utf32"
  BY <1>1, <1>7, RightUTF32, RightToLatin1
<1> QED
  BY <1>2, <1>3, <1>4, <1>5, <1>6, <1>7 DEF Texts

LEMMA UnitsIn ==
  ASSUME NEW e, NEW t, UnitsOf(e, t)
  PROVE  /\ t \in Seq(Nat) /\ Len(t) \in Nat /\ DOMAIN t = 1 .. Len(t)
         /\ \A i \in 1 .. Len(t) : t[i] \in Nat /\ IsUnit(e, t[i])
<1>1. t \in Seq(Nat) /\ Len(t) \in Nat /\ DOMAIN t = 1 .. Len(t)
  BY LenProperties DEF UnitsOf
<1> QED
  BY <1>1, ElementOfSeq DEF UnitsOf

LEMMA UnitsBy ==
  ASSUME NEW e, NEW n \in Nat, NEW f, f = [i \in 1 .. n |-> f[i]],
         \A i \in 1 .. n : f[i] \in Nat /\ IsUnit(e, f[i])
  PROVE  UnitsOf(e, f) /\ Len(f) = n
<1>1. f \in [1 .. n -> Nat]
  OBVIOUS
<1>2. f \in Seq(Nat) /\ Len(f) = n /\ DOMAIN f = 1 .. n
  BY ONLY <1>1, n \in Nat, SeqDef, LenProperties
<1> QED
  BY <1>2 DEF UnitsOf

LEMMA SwappedUnit ==
  ASSUME NEW u \in Nat, IsUnit("utf16", u)
  PROVE  /\ ReverseBytes16(u) \in Nat /\ IsUnit("utf16", ReverseBytes16(u))
         /\ ReverseBytes16(ReverseBytes16(u)) = u
<1>1. u <= 65535
  BY ONLY u \in Nat, IsUnit("utf16", u), IsUnitIs, SMT
<1>2. PICK v \in Nat : v = ReverseBytes16(u) /\ v <= 65535 /\ ReverseBytes16(v) = u
  BY ONLY <1>1, u \in Nat, SwapTwice, SMT
<1>3. IsUnit("utf16", v)
  BY ONLY <1>2, v \in Nat, IsUnitIs, SMT
<1>4. v = ReverseBytes16(u) /\ ReverseBytes16(v) = u
  BY ONLY <1>2, SMT
<1> QED
  BY ONLY <1>3, <1>4, v \in Nat

LEMMA WordsFacts ==
  ASSUME call \in Calls, NEW t, UnitsOf(call.from, t)
  PROVE  UnitsOf(call.from, Words(t)) /\ Len(Words(t)) = Len(t)
<1>1. /\ t \in Seq(Nat) /\ Len(t) \in Nat /\ DOMAIN t = 1 .. Len(t)
      /\ \A i \in 1 .. Len(t) : t[i] \in Nat /\ IsUnit(call.from, t[i])
  BY UnitsIn
<1>2. CASE call.from \in {"utf16", "ascii16"}
  <2> DEFINE f == [i \in 1 .. Len(t) |-> Swap(t[i])]
  <2>1. Words(t) = f
    BY ONLY <1>1, <1>2 DEF Words
  <2>2. \A i \in 1 .. Len(t) : f[i] = Swap(t[i])
    OBVIOUS
  <2>3. \A i \in 1 .. Len(t) : Swap(t[i]) \in Nat /\ IsUnit(call.from, Swap(t[i]))
    <3> TAKE i \in 1 .. Len(t)
    <3>1. t[i] \in Nat /\ IsUnit("utf16", t[i])
      <4>1. t[i] \in Nat /\ IsUnit(call.from, t[i])
        BY ONLY <1>1, i \in 1 .. Len(t)
      <4> QED
        BY ONLY <4>1, <1>2, SMT DEF IsUnit
    <3>2. Swap(t[i]) \in Nat /\ IsUnit("utf16", Swap(t[i]))
      BY ONLY <3>1, SwappedUnit DEF Swap
    <3>3. IsUnit("utf16", Swap(t[i])) => IsUnit(call.from, Swap(t[i]))
      BY ONLY <1>2, SMT DEF IsUnit
    <3> QED
      BY ONLY <3>2, <3>3
  <2>4. f = [i \in 1 .. Len(t) |-> f[i]]
    OBVIOUS
  <2> HIDE DEF f
  <2>5. \A i \in 1 .. Len(t) : f[i] \in Nat /\ IsUnit(call.from, f[i])
    BY ONLY <2>2, <2>3
  <2>6. UnitsOf(call.from, f) /\ Len(f) = Len(t)
    BY ONLY <1>1, <2>4, <2>5, UnitsBy
  <2> QED
    BY ONLY <2>1, <2>6
<1>3. CASE call.from \notin {"utf16", "ascii16"}
  BY <1>1, <1>3 DEF Words
<1> QED
  BY <1>2, <1>3

LEMMA WordsInFacts ==
  ASSUME call \in Calls
  PROVE  /\ UnitsOf(call.from, WordsIn) /\ Len(WordsIn) = Size /\ Size \in Nat /\ WordsIn \in Seq(Nat)
<1>1. UnitsOf(call.from, call.text)
  BY CallFacts
<1> QED
  BY <1>1, WordsFacts, UnitsIn, CallFacts DEF WordsIn, Size

(* What the loop reads: the text, or what it has put in its place.         *)
LEMMA InputIs ==
  ASSUME call \in Calls, UnitsOf(call.to, out)
  PROVE  /\ UnitsOf(call.from, Input) /\ Len(Input) = Size /\ Input \in Seq(Nat)
         /\ ~ call.inPlace => Input = WordsIn
         /\ \A i \in 1 .. Size : i > Len(out) => Input[i] = WordsIn[i]
<1> DEFINE f == [i \in 1 .. Size |-> IF call.inPlace /\ i <= Len(out) THEN out[i] ELSE call.text[i]]
<1>1. /\ call.text \in Seq(Nat) /\ Size \in Nat /\ UnitsOf(call.from, call.text)
      /\ call.inPlace \in BOOLEAN
  BY CallFacts
<1>2. /\ Len(call.text) = Size /\ DOMAIN call.text = 1 .. Size
      /\ \A i \in 1 .. Size : call.text[i] \in Nat /\ IsUnit(call.from, call.text[i])
  BY <1>1, UnitsIn DEF Size
<1>3. Len(out) \in Nat /\ \A i \in 1 .. Len(out) : out[i] \in Nat /\ IsUnit(call.to, out[i])
  BY UnitsIn
<1>4. call.inPlace => call.from = call.to
  BY OfferedIs
<1>5. Input = Words(f)
  BY ONLY <1>2, Zenon DEF Input
<1>6. \A i \in 1 .. Size : f[i] = IF call.inPlace /\ i <= Len(out) THEN out[i] ELSE call.text[i]
  OBVIOUS
<1>7. f = [i \in 1 .. Size |-> f[i]]
  OBVIOUS
<1> HIDE DEF f
<1>8. \A i \in 1 .. Size : f[i] \in Nat /\ IsUnit(call.from, f[i])
  BY ONLY <1>1, <1>2, <1>3, <1>4, <1>6
<1>9. UnitsOf(call.from, f) /\ Len(f) = Size
  BY ONLY <1>1, <1>7, <1>8, UnitsBy
<1>10. UnitsOf(call.from, Input) /\ Len(Input) = Size
  BY ONLY <1>5, <1>9, WordsFacts, call \in Calls
<1>11. DOMAIN f = 1 .. Size
  BY ONLY <1>9, UnitsIn
<1>12. ~ call.inPlace => Input = WordsIn
  <2> SUFFICES ASSUME ~ call.inPlace PROVE Input = WordsIn
    OBVIOUS
  <2>1. \A i \in 1 .. Size : f[i] = call.text[i]
    BY <1>6
  <2>2. f = call.text
    <3>1. f = [i \in 1 .. Size |-> call.text[i]]
      BY <1>7, <2>1
    <3>2. call.text = [i \in 1 .. Size |-> call.text[i]]
      BY <1>1, <1>2, SeqDef
    <3> QED
      BY ONLY <3>1, <3>2
  <2> QED
    BY ONLY <1>5, <2>2 DEF WordsIn
<1>13. \A i \in 1 .. Size : i > Len(out) => Input[i] = WordsIn[i]
  <2> SUFFICES ASSUME NEW i \in 1 .. Size, i > Len(out) PROVE Input[i] = WordsIn[i]
    OBVIOUS
  <2>1. f[i] = call.text[i]
    BY <1>3, <1>6
  <2>2. CASE call.from \in {"utf16", "ascii16"}
    BY ONLY <2>1, <2>2, <1>2, <1>5, <1>11, i \in 1 .. Size DEF WordsIn, Words
  <2>3. CASE call.from \notin {"utf16", "ascii16"}
    BY ONLY <2>1, <2>3, <1>5 DEF WordsIn, Words
  <2> QED
    BY <2>2, <2>3
<1> QED
  BY <1>10, <1>12, <1>13, UnitsIn

(* A character the loop steps over lies inside the text.                   *)
StepInside(t, p) ==
  /\ Width(t, p) \in 1 .. 4 /\ p + Width(t, p) - 1 <= Len(t) /\ CodePoint(t, p) \in Nat
  /\ call.mode = "swap" => IsUnit("utf16", CodePoint(t, p))

LEMMA OneInside ==
  ASSUME NEW t, NEW p \in 1 .. Len(t), Len(t) \in Nat, t[p] \in Nat, Width(t, p) = 1, CodePoint(t, p) = t[p],
         call.mode # "swap"
  PROVE  StepInside(t, p)
BY SMT DEF StepInside

LEMMA StepType ==
  ASSUME call \in Calls, call.mode \notin Inspections, NEW t, UnitsOf(call.from, t),
         NEW p \in 1 .. Len(t), Judgement(t, p) = "Success"
  PROVE  StepInside(t, p)
<1>1. /\ t \in Seq(Nat) /\ Len(t) \in Nat
      /\ \A i \in 1 .. Len(t) : t[i] \in Nat /\ IsUnit(call.from, t[i])
  BY UnitsIn
<1>2. t[p] \in Nat /\ IsUnit(call.from, t[p])
  BY <1>1
<1>3. CASE call.mode = "swap"
  <2>1. call.from = "utf16" /\ call.to = "utf16"
    BY <1>3, OfferedIs
  <2>2. Width(t, p) = 1
    BY ONLY <1>3, <2>1 DEF Width
  <2>3. CodePoint(t, p) = t[p]
    BY ONLY <2>1, <2>2 DEF CodePoint
  <2> QED
    BY ONLY <1>1, <1>2, <2>1, <2>2, <2>3, p \in 1 .. Len(t), SMT DEF StepInside
<1>4. CASE call.mode \in Readers /\ call.mode # "valid" /\ ~ JudgedAtEnd
  <2>1. Verdict(t, p) = "Success"
    BY ONLY <1>4, Judgement(t, p) = "Success" DEF Judgement
  <2>2. StartsAt(call.from, call.to, t, p, Width(t, p), CodePoint(t, p))
    BY ONLY <1>4, <2>1, RightAny, call \in Calls, UnitsOf(call.from, t), p \in 1 .. Len(t),
         Zenon DEF Right
  <2>3. PieceFacts(call.from, call.to, t, p, Width(t, p), CodePoint(t, p))
    BY ONLY <1>1, <1>4, <2>2, StartsPiece, OfferedIs, call \in Calls, p \in 1 .. Len(t), Zenon
  <2>4. Width(t, p) \in 1 .. 4 /\ p + Width(t, p) - 1 <= Len(t) /\ CodePoint(t, p) \in Nat
    BY ONLY <2>3, Zenon DEF PieceFacts
  <2>5. call.mode # "swap"
    BY ONLY <1>4 DEF Readers
  <2> QED
    BY ONLY <2>4, <2>5 DEF StepInside
<1>5. CASE JudgedAtEnd
  <2>1. call.mode = "plain" /\ call.from \in {"utf16", "utf32"} /\ call.to = "latin1"
    BY ONLY <1>5 DEF JudgedAtEnd
  <2>2. Width(t, p) = 1 /\ CodePoint(t, p) = t[p]
    BY ONLY <2>1, StepOf DEF Readers
  <2> QED
    BY ONLY <2>1, <2>2, <1>1, <1>2, p \in 1 .. Len(t), OneInside
<1>6. CASE call.mode = "valid"
  <2>1. Trusted(t, p) = "Success"
    BY ONLY <1>6, Judgement(t, p) = "Success" DEF Judgement, JudgedAtEnd
  <2>2. call.from \in {"utf8", "utf16", "utf32"} /\ call.mode \in Readers
    <3>1. call.from \in Texts /\ call.from # "latin1" /\ call.from \notin {"ascii", "ascii16"}
      BY <1>6, OfferedIs DEF Readers, Inspections
    <3> QED
      BY ONLY <1>6, <3>1 DEF Texts, Readers
  <2>3. CASE call.from = "utf8"
    <3>1. TrustedUTF8(t, p) = "Success"
      BY ONLY <2>1, <2>3 DEF Trusted
    <3>2. PICK w : w = LeadWidth(t[p])
      OBVIOUS
    <3>3. w # 0 /\ ~ (p + w - 1 > Len(t))
      BY ONLY <3>1, <3>2, Zenon DEF TrustedUTF8, TooWide
    <3>4. w \in 1 .. 4
      BY ONLY <1>2, <3>2, <3>3, LeadWidthRange, SMT
    <3>5. p + w - 1 <= Len(t)
      BY ONLY <1>1, <3>3, <3>4, p \in 1 .. Len(t), SMT
    <3>6. Width(t, p) = w /\ CodePoint(t, p) = Assembled(t, p)
      BY ONLY <2>3, <2>2, <3>2, StepOf
    <3>7. Assembled(t, p) \in Nat
      BY ONLY <1>1, <3>2, <3>4, <3>5, p \in 1 .. Len(t), AssembledNat
    <3> QED
      BY ONLY <1>6, <3>4, <3>5, <3>6, <3>7 DEF StepInside
  <2>4. CASE call.from = "utf16" /\ call.to # "latin1"
    <3>1. CASE Surrogate(t[p])
      <4>1. p # Len(t)
        BY ONLY <2>1, <2>4, <3>1 DEF Trusted
      <4>2. Width(t, p) = 2
        BY ONLY <1>6, <2>4, <3>1 DEF Width
      <4>3. CodePoint(t, p) = FromPair(t[p], t[p + 1])
        BY ONLY <2>4, <4>2 DEF CodePoint
      <4>4. p + 1 \in 1 .. Len(t) /\ p + 2 - 1 <= Len(t)
        BY ONLY <1>1, <4>1, p \in 1 .. Len(t), SMT
      <4>5. t[p + 1] \in Nat
        BY ONLY <1>1, <4>4
      <4>6. FromPair(t[p], t[p + 1]) \in Nat
        BY ONLY <1>2, <4>5, FromPairNat
      <4>7. 2 \in 1 .. 4
        OBVIOUS
      <4> QED
        BY ONLY <1>6, <4>2, <4>3, <4>4, <4>6, <4>7 DEF StepInside
    <3>2. CASE ~ Surrogate(t[p])
      <4>1. ~ Pair(t, p)
        <5>1. PICK u \in Nat : u = t[p]
          BY <1>2
        <5>2. ~ High(u)
          BY ONLY <3>2, <5>1, u \in Nat, SMT DEF Surrogate, High
        <5> QED
          BY ONLY <5>1, <5>2 DEF Pair
      <4>2. Width(t, p) = 1 /\ CodePoint(t, p) = t[p]
        BY ONLY <2>2, <2>4, <3>2, <4>1, StepOf
      <4> QED
        BY ONLY <1>1, <1>2, <1>6, <4>2, p \in 1 .. Len(t), OneInside
    <3> QED
      BY <3>1, <3>2
  <2>5. CASE (call.from = "utf16" /\ call.to = "latin1") \/ call.from = "utf32"
    <3>1. Width(t, p) = 1 /\ CodePoint(t, p) = t[p]
      BY ONLY <2>2, <2>5, StepOf
    <3> QED
      BY ONLY <1>1, <1>2, <1>6, <3>1, p \in 1 .. Len(t), OneInside
  <2> QED
    BY ONLY <2>2, <2>3, <2>4, <2>5
<1>7. call.mode \in Readers \cup {"swap"}
  BY OfferedIs
<1> QED
  BY ONLY <1>3, <1>4, <1>5, <1>6, <1>7

LEMMA NoUnits ==
  ASSUME NEW e
  PROVE  UnitsOf(e, << >>)
<1>1. << >> \in Seq(Nat) /\ Len(<< >>) = 0
  OBVIOUS
<1>2. DOMAIN << >> = 1 .. 0
  BY ONLY <1>1, LenProperties
<1>3. \A i \in 1 .. 0 : FALSE
  OBVIOUS
<1> QED
  BY ONLY <1>1, <1>2, <1>3 DEF UnitsOf

(* Whatever is written is made of units of the destination's encoding.     *)
LEMMA SpelledType ==
  ASSUME call \in Calls, NEW c \in Nat, call.mode = "swap" => IsUnit("utf16", c)
  PROVE  /\ UnitsOf(call.to, Spelled(c))
         /\ call.to # "none" => Len(Spelled(c)) \in 1 .. 4
         /\ call.to = "none" => Spelled(c) = << >>
<1>1. call.to \in Targets \cup {"none"} /\ call.swapped \in BOOLEAN
  BY OfferedIs, CallFacts
<1>2. CASE call.to = "none"
  <2>0. call.mode # "swap"
    BY <1>2, OfferedIs
  <2>1. Spelled(c) = << >>
    BY ONLY <1>2, <2>0 DEF Spelled
  <2>2. UnitsOf(call.to, << >>)
    BY ONLY NoUnits
  <2> QED
    BY <1>2, <2>1, <2>2
<1>3. CASE call.to # "none" /\ call.mode # "swap"
  BY ONLY <1>1, <1>3, c \in Nat, SpelledIs
<1>4. CASE call.mode = "swap"
  <2>1. call.to = "utf16"
    BY <1>4, OfferedIs
  <2>2. Spelled(c) = << ReverseBytes16(c) >>
    BY ONLY <1>4, <2>1 DEF Spelled
  <2>3. PICK v \in Nat : v = ReverseBytes16(c) /\ IsUnit("utf16", v)
    BY <1>4, SwappedUnit
  <2>4. UnitsOf("utf16", << v >>) /\ Len(<< v >>) \in 1 .. 4
    BY ONLY <2>3, v \in Nat DEF UnitsOf
  <2>5. Spelled(c) = << v >>
    BY ONLY <2>2, <2>3
  <2> QED
    BY ONLY <2>1, <2>4, <2>5, Zenon
<1> QED
  BY ONLY <1>2, <1>3, <1>4

(* The two words of a pair, whatever the code point.                       *)
LEMMA PairType ==
  ASSUME NEW c \in Nat, NEW s, s = UTF16Pair(c)
  PROVE  UnitsOf("utf16", s) /\ Len(s) = 2
<1>1. PICK h \in Int, l \in Int : h = (c - 65536) \div 1024 /\ l = (c - 65536) % 1024 /\ l \in 0 .. 1023
  BY ONLY c \in Nat, SMT
<1>2. PICK m \in Nat : m = (55296 + h) % 65536 /\ m <= 65535
  BY ONLY h \in Int, SMT
<1>3. PICK n \in Nat : n = 56320 + l /\ n <= 65535
  BY ONLY <1>1, SMT
<1>4. s = << m, n >>
  BY ONLY s = UTF16Pair(c), <1>1, <1>2, <1>3 DEF UTF16Pair
<1>5. IsUnit("utf16", m) /\ IsUnit("utf16", n)
  BY ONLY <1>2, <1>3, IsUnitIs, m \in Nat, n \in Nat
<1>6. s \in Seq(Nat) /\ Len(s) = 2 /\ s[1] = m /\ s[2] = n
  BY ONLY <1>4, m \in Nat, n \in Nat
<1>7. \A i \in 1 .. 2 : IsUnit("utf16", s[i])
  <2>1. \A i \in 1 .. 2 : i = 1 \/ i = 2
    BY ONLY SMT
  <2> QED
    BY ONLY <1>5, <1>6, <2>1
<1> QED
  BY ONLY <1>6, <1>7 DEF UnitsOf

LEMMA SwappedType ==
  ASSUME NEW s, UnitsOf("utf16", s), NEW r, r = [i \in DOMAIN s |-> Swap(s[i])]
  PROVE  UnitsOf("utf16", r) /\ Len(r) = Len(s)
<1>1. /\ s \in Seq(Nat) /\ Len(s) \in Nat /\ DOMAIN s = 1 .. Len(s)
      /\ \A i \in 1 .. Len(s) : s[i] \in Nat /\ IsUnit("utf16", s[i])
  BY UnitsIn, LenProperties
<1>2. \A i \in 1 .. Len(s) : Swap(s[i]) \in Nat /\ IsUnit("utf16", Swap(s[i]))
  <2> TAKE i \in 1 .. Len(s)
  <2>1. PICK u \in Nat : u = s[i] /\ IsUnit("utf16", u)
    BY ONLY <1>1, i \in 1 .. Len(s)
  <2>2. PICK v \in Nat : v = ReverseBytes16(u) /\ IsUnit("utf16", v)
    BY ONLY <2>1, u \in Nat, SwappedUnit
  <2>3. Swap(s[i]) = u \/ Swap(s[i]) = v
    BY ONLY <2>1, <2>2 DEF Swap
  <2> QED
    BY ONLY <2>1, <2>2, <2>3
<1>3. r = [i \in 1 .. Len(s) |-> Swap(s[i])]
  BY ONLY <1>1, r = [i \in DOMAIN s |-> Swap(s[i])]
<1>4. r \in [1 .. Len(s) -> Nat] /\ \A i \in 1 .. Len(s) : r[i] = Swap(s[i])
  BY ONLY <1>2, <1>3
<1>5. r \in Seq(Nat) /\ Len(r) = Len(s)
  BY ONLY <1>1, <1>4, SeqDef, LenProperties
<1> QED
  BY ONLY <1>2, <1>4, <1>5 DEF UnitsOf

(* A four-byte form of UTF-8 becomes two words, everything else its        *)
(* spelling.                                                               *)
LongForm(t, p) == call.from = "utf8" /\ call.to = "utf16" /\ Width(t, p) = 4

LEMMA ConvertedPair ==
  ASSUME NEW t, NEW p, LongForm(t, p), CodePoint(t, p) \in Nat
  PROVE  UnitsOf("utf16", Converted(t, p)) /\ Len(Converted(t, p)) = 2
<1>1. PICK s : s = UTF16Pair(CodePoint(t, p))
  OBVIOUS
<1>2. Converted(t, p) = [i \in DOMAIN s |-> Swap(s[i])]
  BY ONLY LongForm(t, p), <1>1 DEF Converted, LongForm
<1>3. UnitsOf("utf16", s) /\ Len(s) = 2
  BY ONLY <1>1, CodePoint(t, p) \in Nat, PairType
<1> QED
  BY ONLY <1>2, <1>3, SwappedType

LEMMA ConvertedType ==
  ASSUME call \in Calls, NEW t, NEW p, CodePoint(t, p) \in Nat,
         call.mode = "swap" => IsUnit("utf16", CodePoint(t, p))
  PROVE  /\ UnitsOf(call.to, Converted(t, p))
         /\ call.to # "none" => Len(Converted(t, p)) \in 1 .. 4
         /\ call.to = "none" => Converted(t, p) = << >>
<1>1. CASE LongForm(t, p)
  BY ONLY <1>1, CodePoint(t, p) \in Nat, ConvertedPair, SMT DEF LongForm
<1>2. CASE ~ LongForm(t, p)
  <2>1. Converted(t, p) = Spelled(CodePoint(t, p))
    BY ONLY <1>2 DEF Converted, LongForm
  <2> QED
    BY <2>1, SpelledType
<1> QED
  BY <1>1, <1>2

(* A character is converted to its spelling: one of four bytes is beyond   *)
(* the first plane.                                                        *)
LEMMA ConvertedStarted ==
  ASSUME call \in Calls, call.mode \in Readers, NEW t, UnitsOf(call.from, t), NEW p \in 1 .. Len(t),
         StartsAt(call.from, call.to, t, p, Width(t, p), CodePoint(t, p))
  PROVE  Converted(t, p) = Spelled(CodePoint(t, p))
<1>1. PICK c, w : c = CodePoint(t, p) /\ w = Width(t, p)
  OBVIOUS
<1>2. CASE ~ LongForm(t, p)
  BY ONLY <1>2 DEF Converted, LongForm
<1>3. CASE LongForm(t, p)
  <2>1. t \in Seq(Nat) /\ "utf8" \in Texts /\ call.from = "utf8" /\ call.to = "utf16" /\ w = 4
    BY ONLY <1>1, <1>3, UnitsOf(call.from, t), UnitsIn DEF LongForm, Texts
  <2>2. PieceFacts("utf8", "utf16", t, p, w, c)
    BY ONLY <1>1, <2>1, p \in 1 .. Len(t), StartsPiece,
            StartsAt(call.from, call.to, t, p, Width(t, p), CodePoint(t, p))
  <2>3. PICK s : s = Piece(t, p, w)
    OBVIOUS
  <2>4. Units(s) /\ Len(s) = w /\ IsCharacter("utf8", s) /\ c = Meaning("utf8", s)
    BY ONLY <2>2, <2>3 DEF PieceFacts
  <2>5. UTF8Character(s)
    BY ONLY <2>4 DEF IsCharacter
  <2>6. c \in Nat /\ 65536 <= c
    BY ONLY <2>1, <2>4, <2>5, MeaningUTF8
  <2>7. ~ (c < 65536)
    BY ONLY <2>6, SMT
  <2>8. UTF16Units(c) = UTF16Pair(c)
    BY ONLY <2>7 DEF UTF16Units
  <2>9. call.mode # "swap"
    BY DEF Readers
  <2>10. Spelled(c) = [i \in DOMAIN UTF16Pair(c) |-> Swap(UTF16Pair(c)[i])]
    BY ONLY <2>1, <2>8, <2>9 DEF Spelled
  <2> QED
    BY ONLY <1>1, <1>3, <2>10 DEF Converted, LongForm
<1> QED
  BY ONLY <1>2, <1>3

LEMMA ConvertedOthers ==
  ASSUME call.from # "utf8", NEW t, NEW p
  PROVE  Converted(t, p) = Spelled(CodePoint(t, p))
BY DEF Converted

LEMMA UnitsJoin ==
  ASSUME NEW e, NEW s, NEW u, UnitsOf(e, s), UnitsOf(e, u)
  PROVE  UnitsOf(e, s \o u) /\ Len(s \o u) = Len(s) + Len(u)
<1>1. /\ s \in Seq(Nat) /\ u \in Seq(Nat) /\ Len(s) \in Nat /\ Len(u) \in Nat
      /\ \A i \in 1 .. Len(s) : IsUnit(e, s[i])
      /\ \A i \in 1 .. Len(u) : IsUnit(e, u[i])
  BY UnitsIn
<1>2. PICK v : v = s \o u
  OBVIOUS
<1>3. v \in Seq(Nat) /\ Len(v) = Len(s) + Len(u) /\ DOMAIN v = 1 .. Len(v)
  BY <1>1, <1>2, ConcatProperties, LenProperties
<1>4. /\ \A i \in 1 .. Len(s) : v[i] = s[i]
      /\ \A i \in 1 .. Len(u) : v[Len(s) + i] = u[i]
  BY <1>1, <1>2, JoinIs
<1>5. \A i \in 1 .. Len(v) : IsUnit(e, v[i])
  <2> TAKE i \in 1 .. Len(v)
  <2>1. CASE i <= Len(s)
    BY <1>1, <1>3, <1>4, <2>1
  <2>2. CASE ~ (i <= Len(s))
    <3>1. PICK j \in 1 .. Len(u) : i = Len(s) + j
      <4>1. i - Len(s) \in 1 .. Len(u) /\ i = Len(s) + (i - Len(s))
        BY ONLY <1>1, <1>3, <2>2, i \in 1 .. Len(v), SMT
      <4> QED
        BY <4>1
    <3> QED
      BY ONLY <1>1, <1>4, <3>1, j \in 1 .. Len(u)
  <2> QED
    BY <2>1, <2>2
<1> QED
  BY ONLY <1>2, <1>3, <1>5 DEF UnitsOf

-----------------------------------------------------------------------------
(* Where the UTF-8 validator starts again *)

RewindsTo(t, n, s) ==
  /\ s < n \/ n = 0
  /\ s + 1 + MaxRewind >= n
  /\ n > 0 => \/ s = 0 \/ s + 1 + MaxRewind = n
              \/ ~ Continuation(t[s + 1])
  /\ \A r \in s + 1 .. n - 1 : Continuation(t[r + 1])

LEMMA RewindExists ==
  ASSUME NEW t, NEW n \in Nat
  PROVE  \E s \in 0 .. n : RewindsTo(t, n, s)
<1>1. CASE n = 0
  BY <1>1 DEF RewindsTo, MaxRewind
<1>2. CASE n > 0
  <2> DEFINE S == {s \in 0 .. n - 1 : s + 6 >= n /\ \A r \in s + 1 .. n - 1 : Continuation(t[r + 1])}
  <2>1. n - 1 \in S
    BY <1>2
  <2>2. S \in SUBSET Nat
    OBVIOUS
  <2>3. PICK s \in S : \A k \in S : s <= k
    <3> HIDE DEF S
    <3> QED BY <2>1, <2>2, LeastOf
  <2>4. s \in 0 .. n - 1 /\ s + 6 >= n /\ \A r \in s + 1 .. n - 1 : Continuation(t[r + 1])
    OBVIOUS
  <2>5. s = 0 \/ s + 6 = n \/ ~ Continuation(t[s + 1])
    <3> SUFFICES ASSUME s # 0, s + 6 # n, Continuation(t[s + 1]) PROVE FALSE
      OBVIOUS
    <3>1. s - 1 \in 0 .. n - 1 /\ s - 1 + 6 >= n /\ ~ (s <= s - 1)
      BY ONLY <2>4, s # 0, s + 6 # n, n \in Nat, SMT
    <3>2. \A r \in s - 1 + 1 .. n - 1 : Continuation(t[r + 1])
      <4> TAKE r \in s - 1 + 1 .. n - 1
      <4>1. r = s \/ r \in s + 1 .. n - 1
        BY <2>4
      <4> QED
        BY <2>4, <4>1
    <3>3. s - 1 \in S
      BY ONLY <3>1, <3>2 DEF S
    <3> QED
      BY ONLY <2>3, <3>1, <3>3
  <2>6. RewindsTo(t, n, s)
    BY ONLY <2>4, <2>5, <1>2, n \in Nat, SMT DEF RewindsTo, MaxRewind
  <2>7. s \in 0 .. n
    BY ONLY <2>4, n \in Nat, SMT
  <2> QED
    BY ONLY <2>6, <2>7
<1> QED
  BY <1>1, <1>2

LEMMA RewoundIs ==
  ASSUME NEW n \in Nat
  PROVE  Rewound(n) \in 0 .. n /\ RewindsTo(Input, n, Rewound(n))
<1>1. Rewound(n) = CHOOSE s \in 0 .. n : RewindsTo(Input, n, s)
  BY ONLY Zenon DEF Rewound, RewindsTo
<1>2. \E s \in 0 .. n : RewindsTo(Input, n, s)
  BY ONLY RewindExists, n \in Nat
<1> QED
  BY ONLY <1>1, <1>2, Zenon

Answers == [error : Faults \cup {"Unsaid"}, count : Nat]

(* The types, and what the control says of the counters: nothing is done   *)
(* when the call begins, and a kernel is entered once, at the beginning,   *)
(* but for the one that is resumed.                                        *)
TypeInv ==
  /\ call \in Calls /\ pc \in Pcs
  /\ base \in Nat /\ pos \in base .. Size
  /\ UnitsOf(call.to, out)
  /\ res \in Answers
  /\ pc = "call" => base = 0 /\ pos = 0 /\ out = << >>
  /\ pc \in {"kernel", "scalar"} => call.mode \notin Inspections
  /\ pc = "kernel" => base = 0 /\ (Resumes \/ (pos = 0 /\ out = << >>))

LEMMA PutType ==
  ASSUME NEW u, NEW next, UnitsOf(call.to, out), UnitsOf(call.to, u), Put(u, next)
  PROVE  UnitsOf(call.to, out') /\ (pc' = next \/ pc' = "overrun")
BY UnitsJoin DEF Put

LEMMA AnswerType ==
  ASSUME NEW e \in Faults \cup {"Unsaid"}, NEW n \in Nat, Answer(e, n)
  PROVE  pc' = "returned" /\ res' \in Answers
<1>1. Said(e) \in Faults \cup {"Unsaid"}
  BY ONLY e \in Faults \cup {"Unsaid"} DEF Said
<1>2. pc' = "returned" /\ res' = [error |-> Said(e), count |-> n]
  BY DEF Answer
<1> QED
  BY ONLY <1>1, <1>2, n \in Nat DEF Answers

LEMMA SucceedType ==
  ASSUME UnitsOf(call.to, out), Size \in Nat, Succeed
  PROVE  pc' = "returned" /\ res' \in Answers
<1>1. Len(out) \in Nat
  BY UnitsIn
<1>2. Written \in Nat
  BY ONLY <1>1, SMT DEF Written
<1>3. PICK n : n = CASE call.to # "none" -> Written
                     [] call.to = "none" /\ call.mode = "errors" -> Size
                     [] OTHER -> 0
  OBVIOUS
<1>4. n \in Nat
  BY ONLY <1>2, <1>3, Size \in Nat, SMT
<1>5. Answer("Success", n)
  BY ONLY <1>3, Succeed DEF Succeed
<1>6. "Success" \in Faults \cup {"Unsaid"}
  BY DEF Faults
<1> QED
  BY ONLY <1>4, <1>5, <1>6, AnswerType

LEMMA FailType ==
  ASSUME NEW e \in Faults \cup {"Unsaid"}, pos \in Nat, Fail(e)
  PROVE  pc' = "returned" /\ res' \in Answers
<1>1. PICK n : n = IF call.mode = "errors" THEN pos ELSE 0
  OBVIOUS
<1>2. n \in Nat
  BY ONLY <1>1, pos \in Nat
<1>3. Answer(e, n)
  BY ONLY <1>1, Fail(e) DEF Fail
<1> QED
  BY ONLY <1>2, <1>3, e \in Faults \cup {"Unsaid"}, AnswerType

(* The first units of k code points from the position on.                  *)
FirstUnits(p, k) == [i \in 1 .. k |-> Spelled(Input[p + i])[1]]

LEMMA InputUnit ==
  ASSUME call \in Calls, UnitsOf(call.to, out), NEW i \in 1 .. Size
  PROVE  /\ Input[i] \in Nat /\ IsUnit(call.from, Input[i])
         /\ UnitsOf(call.to, Spelled(Input[i]))
         /\ call.to # "none" => Len(Spelled(Input[i])) \in 1 .. 4
<1>1. UnitsOf(call.from, Input) /\ Len(Input) = Size
  BY InputIs
<1>2. Input[i] \in Nat /\ IsUnit(call.from, Input[i])
  BY <1>1, UnitsIn
<1>3. call.mode = "swap" => IsUnit("utf16", Input[i])
  BY <1>2, OfferedIs
<1> QED
  BY <1>2, <1>3, SpelledType

LEMMA FirstUnitsType ==
  ASSUME call \in Calls, call.to # "none", UnitsOf(call.to, out), NEW p \in Nat, NEW k \in Nat,
         p + k <= Size
  PROVE  UnitsOf(call.to, FirstUnits(p, k)) /\ Len(FirstUnits(p, k)) = k
<1> DEFINE f == [i \in 1 .. k |-> Spelled(Input[p + i])[1]]
<1>0. Size \in Nat
  BY CallFacts
<1>1. \A i \in 1 .. k : Spelled(Input[p + i])[1] \in Nat /\ IsUnit(call.to, Spelled(Input[p + i])[1])
  <2> TAKE i \in 1 .. k
  <2>1. PICK j \in 1 .. Size : j = p + i
    <3>1. p + i \in 1 .. Size
      BY ONLY <1>0, p \in Nat, k \in Nat, p + k <= Size, i \in 1 .. k, SMT
    <3> QED
      BY <3>1
  <2>2. UnitsOf(call.to, Spelled(Input[j])) /\ Len(Spelled(Input[j])) \in 1 .. 4
    BY InputUnit
  <2>6. 1 \in 1 .. Len(Spelled(Input[j]))
    <3>1. PICK l : l = Len(Spelled(Input[j]))
      OBVIOUS
    <3>2. l \in 1 .. 4
      BY ONLY <2>2, <3>1
    <3>3. 1 \in 1 .. l
      BY ONLY <3>2
    <3> QED
      BY ONLY <3>1, <3>3
  <2>3. PICK s : s = Spelled(Input[j])
    OBVIOUS
  <2>4. UnitsOf(call.to, s) /\ 1 \in 1 .. Len(s)
    BY ONLY <2>2, <2>3, <2>6, Zenon
  <2>5. s[1] \in Nat /\ IsUnit(call.to, s[1])
    <3>1. \A e \in 1 .. Len(s) : s[e] \in Nat /\ IsUnit(call.to, s[e])
      BY ONLY <2>4, UnitsIn
    <3> QED
      BY ONLY <2>4, <3>1
  <2> QED
    BY ONLY <2>1, <2>3, <2>5
<1>2. \A i \in 1 .. k : f[i] = Spelled(Input[p + i])[1]
  OBVIOUS
<1>3. f = [i \in 1 .. k |-> f[i]]
  OBVIOUS
<1>4. FirstUnits(p, k) = f
  BY DEF FirstUnits
<1> HIDE DEF f
<1>5. \A i \in 1 .. k : f[i] \in Nat /\ IsUnit(call.to, f[i])
  BY ONLY <1>1, <1>2
<1>6. UnitsOf(call.to, f) /\ Len(f) = k
  BY ONLY <1>3, <1>5, k \in Nat, UnitsBy
<1> QED
  BY ONLY <1>4, <1>6

LEMMA FirstUnitsFrom0 ==
  ASSUME call \in Calls, UnitsOf(call.to, out), NEW n \in Nat
  PROVE  FirstUnits(0, n) = [i \in 1 .. n |-> Spelled(Input[i])[1]]
<1>1. \A i \in 1 .. n : 0 + i = i
  OBVIOUS
<1> QED
  BY ONLY <1>1 DEF FirstUnits

LEMMA BlockSizeIs ==
  BlockSize \in Nat /\ BlockSize >= 1
<1>1. PICK b \in Nat : b = Block /\ b >= 2
  BY SizesAssumption
<1>2. b \div 2 \in Nat /\ b \div 2 >= 1
  BY ONLY <1>1, SMT
<1> QED
  BY ONLY <1>1, <1>2 DEF BlockSize

LEMMA TypeOfKernel ==
  ASSUME TypeInv, Kernel
  PROVE  TypeInv'
<1>0. /\ call \in Calls /\ UnitsOf(call.to, out) /\ res \in Answers
      /\ base \in Nat /\ pos \in base .. Size /\ Size \in Nat
      /\ call.mode \notin Inspections /\ base = 0 /\ pos = 0 /\ out = << >>
      /\ call' = call
  BY CallFacts DEF TypeInv, Kernel
<1>1. PICK n \in KernelStops :
        /\ base' = n /\ pos' = n
        /\ IF n > call.room /\ call.to # "none" THEN pc' = "overrun" /\ UNCHANGED << out, res >>
           ELSE LET units == IF call.to = "none" THEN << >> ELSE [i \in 1 .. n |-> Spelled(Input[i])[1]]
                IN  /\ out' = units
                    /\ IF n = Size /\ call.to # "none"
                       THEN Answer("Success", n)
                       ELSE /\ pc' = IF call.room - Len(units) < Required(RestAfter(n))
                                     THEN "panicked" ELSE "scalar"
                            /\ UNCHANGED res
  BY Zenon DEF Kernel
<1>2. n \in 0 .. Size /\ n \in Nat
  BY <1>0 DEF KernelStops
<1>3. PICK units : units = IF call.to = "none" THEN << >> ELSE [i \in 1 .. n |-> Spelled(Input[i])[1]]
  OBVIOUS
<1>4. UnitsOf(call.to, units)
  <2>1. CASE call.to = "none"
    BY ONLY <1>3, <2>1, NoUnits
  <2>2. CASE call.to # "none"
    <3>1. units = FirstUnits(0, n)
      BY ONLY <1>0, <1>2, <1>3, <2>2, FirstUnitsFrom0
    <3>2. 0 \in Nat /\ 0 + n <= Size
      BY ONLY <1>0, <1>2, SMT
    <3> QED
      BY ONLY <1>0, <1>2, <2>2, <3>1, <3>2, FirstUnitsType
  <2> QED
    BY <2>1, <2>2
<1>5. "Success" \in Faults \cup {"Unsaid"}
  BY DEF Faults
<1>6. UnitsOf(call.to, out') /\ res' \in Answers /\ pc' \in Pcs \ {"call", "kernel"}
  <2>1. CASE n > call.room /\ call.to # "none"
    BY ONLY <1>0, <1>1, <2>1 DEF Pcs
  <2>2. CASE ~ (n > call.room /\ call.to # "none")
    <3>1. out' = units
      BY ONLY <1>1, <1>3, <2>2
    <3>2. CASE n = Size /\ call.to # "none"
      <4>1. Answer("Success", n)
        BY ONLY <1>1, <2>2, <3>2
      <4> QED
        BY ONLY <1>2, <1>4, <1>5, <3>1, <4>1, AnswerType DEF Pcs
    <3>3. CASE ~ (n = Size /\ call.to # "none")
      <4>1. res' = res /\ pc' \in {"panicked", "scalar"}
        BY ONLY <1>1, <2>2, <3>3
      <4> QED
        BY ONLY <1>0, <1>4, <3>1, <4>1 DEF Pcs
    <3> QED
      BY <3>2, <3>3
  <2> QED
    BY <2>1, <2>2
<1>7. Size' = Size
  BY <1>0 DEF Size
<1>8. pos' \in base' .. Size'
  BY ONLY <1>0, <1>1, <1>2, <1>7
<1> QED
  BY ONLY <1>0, <1>1, <1>2, <1>6, <1>8 DEF TypeInv, Pcs

LEMMA TypeOfResumed ==
  ASSUME TypeInv, ResumedKernel
  PROVE  TypeInv'
<1>0. /\ call \in Calls /\ UnitsOf(call.to, out) /\ res \in Answers
      /\ base \in Nat /\ pos \in base .. Size /\ Size \in Nat /\ base = 0
      /\ call.mode \notin Inspections /\ Resumes
      /\ call' = call /\ base' = base /\ res' = res
  BY CallFacts DEF TypeInv, ResumedKernel
<1>1. PICK n \in KernelStops :
        LET last == IF n < Size THEN n + 1 ELSE n
            units == SubSeq(Input, pos + 1, n) \o (IF n < Size THEN Spelled(Input[last]) ELSE << >>)
        IN  Put(units, IF last = Size THEN "scalar" ELSE "kernel") /\ pos' = last
  BY Zenon DEF ResumedKernel
<1>2. n \in pos .. Size /\ n \in Nat
  BY <1>0 DEF KernelStops
<1>3. PICK last : last = IF n < Size THEN n + 1 ELSE n
  OBVIOUS
<1>4. PICK rest : rest = IF n < Size THEN Spelled(Input[last]) ELSE << >>
  OBVIOUS
<1>5. PICK part : part = SubSeq(Input, pos + 1, n)
  OBVIOUS
<1>6. Put(part \o rest, IF last = Size THEN "scalar" ELSE "kernel") /\ pos' = last
  BY ONLY <1>1, <1>3, <1>4, <1>5, Zenon
<1>7. last \in pos .. Size /\ last \in Nat
  BY ONLY <1>0, <1>2, <1>3, SMT
<1>8. call.from = "latin1" /\ call.to = "utf8"
  BY <1>0 DEF Resumes
<1>9. UnitsOf(call.to, rest)
  <2>1. CASE n < Size
    <3>1. last \in 1 .. Size
      BY ONLY <1>0, <1>2, <1>3, <2>1, SMT
    <3> QED
      BY ONLY <1>0, <1>4, <2>1, <3>1, InputUnit
  <2>2. CASE ~ (n < Size)
    BY ONLY <1>4, <2>2, NoUnits
  <2> QED
    BY <2>1, <2>2
<1>10. UnitsOf(call.to, part)
  <2>1. UnitsOf(call.from, Input) /\ Len(Input) = Size /\ Input \in Seq(Nat)
    BY ONLY <1>0, InputIs
  <2>2. PICK t : t = Input
    OBVIOUS
  <2>3. PICK k \in Nat : k = n - pos
    BY ONLY <1>0, <1>2, SMT
  <2>4. part \in Seq(Nat) /\ Len(part) = k /\ \A i \in 1 .. k : part[i] = t[pos + i]
    <3>0. t \in Seq(Nat) /\ Len(t) = Size
      BY ONLY <2>1, <2>2
    <3>1. pos + 1 \in 1 .. Size + 1 /\ n \in pos + 1 - 1 .. Size /\ n - (pos + 1) + 1 = k
          /\ \A i \in 1 .. k : pos + 1 + i - 1 = pos + i
      BY ONLY <1>0, <1>2, <2>3, SMT
    <3>2. part = SubSeq(t, pos + 1, n)
      BY ONLY <1>5, <2>2
    <3> QED
      BY ONLY <1>0, <3>0, <3>1, <3>2, k \in Nat, SMT
  <2>5. \A i \in 1 .. k : part[i] \in Nat /\ IsUnit("utf8", part[i])
    <3> TAKE i \in 1 .. k
    <3>1. PICK j \in 1 .. Size : j = pos + i
      <4>1. pos + i \in 1 .. Size
        BY ONLY <1>0, <1>2, <2>3, k \in Nat, i \in 1 .. k, SMT
      <4> QED
        BY <4>1
    <3>2. t[j] \in Nat /\ IsUnit(call.from, t[j])
      BY ONLY <1>0, <2>2, InputUnit, j \in 1 .. Size
    <3>3. IsUnit("utf8", t[j])
      BY ONLY <1>8, <3>2, SMT DEF IsUnit
    <3> QED
      BY ONLY <2>4, <3>1, <3>2, <3>3, i \in 1 .. k
  <2>6. DOMAIN part = 1 .. k
    BY ONLY <2>4, LenProperties
  <2> QED
    BY ONLY <1>8, <2>4, <2>5, <2>6 DEF UnitsOf
<1>11. UnitsOf(call.to, part \o rest)
  BY ONLY <1>9, <1>10, UnitsJoin
<1>12. PICK next : next = IF last = Size THEN "scalar" ELSE "kernel"
  OBVIOUS
<1>13. UnitsOf(call.to, out') /\ (pc' = next \/ pc' = "overrun")
  BY ONLY <1>0, <1>6, <1>11, <1>12, PutType
<1>14. pc' \in Pcs \ {"call"}
  BY ONLY <1>12, <1>13 DEF Pcs
<1>15. Size' = Size /\ Resumes'
  BY ONLY <1>0 DEF Size, Resumes
<1> QED
  BY ONLY <1>0, <1>6, <1>7, <1>13, <1>14, <1>15 DEF TypeInv

LEMMA TypeOfOthers ==
  ASSUME TypeInv,
         Refuse \/ Enter \/ Inspect \/ UTF8Kernel \/ Full \/ Reject \/ GiveUp \/ CutShort \/ Conclude
           \/ UNCHANGED vars
  PROVE  TypeInv'
<1>0. /\ call \in Calls /\ UnitsOf(call.to, out) /\ res \in Answers /\ pc \in Pcs
      /\ base \in Nat /\ pos \in base .. Size /\ Size \in Nat /\ pos \in Nat
  BY CallFacts DEF TypeInv
<1>1. call' = call
  BY Zenon DEF Refuse, Enter, Inspect, UTF8Kernel, Full, Reject, GiveUp, CutShort, Conclude, vars
<1>2. Size' = Size /\ (Resumes' <=> Resumes)
  BY ONLY <1>1 DEF Size, Resumes
<1>3. CASE Refuse
  BY ONLY TypeInv, <1>1, <1>2, <1>3 DEF TypeInv, Refuse, Pcs
<1>4. CASE Enter
  BY ONLY TypeInv, <1>1, <1>2, <1>4 DEF TypeInv, Enter, Pcs
<1>5. CASE UNCHANGED vars
  BY ONLY TypeInv, <1>1, <1>2, <1>5 DEF TypeInv, vars
<1>6. CASE UTF8Kernel
  <2>1. PICK n \in CleanRuns : base' = Rewound(n) /\ pos' = Rewound(n)
    BY ONLY <1>6 DEF UTF8Kernel
  <2>2. n \in 0 .. Size /\ n \in Nat
    BY <1>0 DEF CleanRuns
  <2>3. Rewound(n) \in 0 .. n
    BY <2>2, RewoundIs
  <2>4. base' \in Nat /\ pos' \in base' .. Size'
    BY ONLY <1>0, <1>2, <2>1, <2>2, <2>3, SMT
  <2>5. pc = "kernel" /\ pc' = "scalar" /\ out' = out /\ res' = res
    BY ONLY <1>6 DEF UTF8Kernel
  <2> QED
    BY ONLY TypeInv, <1>1, <2>4, <2>5 DEF TypeInv, Pcs
<1>7. base' = base /\ pos' = pos /\ out' = out /\ pc' = "returned" /\ res' \in Answers => TypeInv'
  BY ONLY <1>0, <1>1, <1>2 DEF TypeInv, Pcs
<1>8. CASE Inspect
  <2>1. UNCHANGED << base, pos, out >> /\ \E n \in Nat : Answer("Success", n)
    <3>1. /\ UnitsOf(call.from, call.text) /\ UnitsOf(call.from, Words(call.text))
      BY ONLY <1>0, CallFacts, WordsFacts
    <3>2. call.text \in Seq(Nat) /\ Words(call.text) \in Seq(Nat)
      BY ONLY <3>1, UnitsIn
    <3>3. /\ trimPartialUTF8(call.text) \in Nat /\ trimPartialUTF16(Words(call.text)) \in Nat
          /\ detectEncodings(call.text, ~ call.swapped) \in Nat
          /\ autodetectEncoding(detectEncodings(call.text, ~ call.swapped)) \in Nat
      BY ONLY <3>2, TrimUTF8Nat, TrimUTF16Nat, DetectNat, AutodetectNat
    <3>4. UNCHANGED << base, pos, out >>
      BY ONLY <1>8 DEF Inspect
    <3>5. \/ Answer("Success", trimPartialUTF8(call.text))
          \/ Answer("Success", trimPartialUTF16(Words(call.text)))
          \/ Answer("Success", detectEncodings(call.text, ~ call.swapped))
          \/ Answer("Success", autodetectEncoding(detectEncodings(call.text, ~ call.swapped)))
      BY ONLY <1>8, Zenon DEF Inspect
    <3> QED
      BY ONLY <3>3, <3>4, <3>5, Zenon
  <2>2. PICK n \in Nat : Answer("Success", n)
    BY ONLY <2>1
  <2>3. "Success" \in Faults \cup {"Unsaid"}
    BY DEF Faults
  <2> QED
    BY ONLY <1>7, <2>1, <2>2, <2>3, AnswerType
<1>9. CASE Full
  BY ONLY <1>0, <1>7, <1>9, SucceedType DEF Full
<1>10. CASE CutShort
  BY ONLY <1>0, <1>7, <1>10, SucceedType DEF CutShort
<1>11. CASE GiveUp
  <2>1. "Unsaid" \in Faults \cup {"Unsaid"}
    OBVIOUS
  <2> QED
    BY ONLY <1>0, <1>7, <1>11, <2>1, FailType DEF GiveUp
<1>12. CASE Reject
  <2>1. PICK e \in Faults \ {"Success"} : Fail(e)
    BY ONLY <1>12 DEF Reject
  <2>2. UNCHANGED << call, base, pos, out >>
    BY ONLY <1>12 DEF Reject
  <2> QED
    BY ONLY <1>0, <1>7, <2>1, <2>2, FailType
<1>13. CASE Conclude
  <2>1. UNCHANGED << call, base, pos, out >> /\ (Fail("TooLarge") \/ Succeed)
    BY ONLY <1>13 DEF Conclude
  <2>2. "TooLarge" \in Faults \cup {"Unsaid"}
    BY DEF Faults
  <2>3. CASE Fail("TooLarge")
    BY ONLY <1>0, <1>7, <2>1, <2>2, <2>3, FailType
  <2>4. CASE Succeed
    BY ONLY <1>0, <1>7, <2>1, <2>4, SucceedType
  <2> QED
    BY <2>1, <2>3, <2>4
<1> QED
  BY <1>3, <1>4, <1>5, <1>6, <1>8, <1>9, <1>10, <1>11, <1>12, <1>13

LEMMA TypeOfPut ==
  ASSUME TypeInv, NEW u, UnitsOf(call.to, u), Put(u, "scalar"), pc = "scalar",
         call' = call, base' = base, res' = res, pos' \in pos .. Size
  PROVE  TypeInv'
<1>0. /\ call \in Calls /\ UnitsOf(call.to, out) /\ res \in Answers
      /\ base \in Nat /\ pos \in base .. Size /\ Size \in Nat /\ call.mode \notin Inspections
  BY CallFacts DEF TypeInv
<1>1. UnitsOf(call.to, out') /\ (pc' = "scalar" \/ pc' = "overrun")
  BY ONLY <1>0, PutType, UnitsOf(call.to, u), Put(u, "scalar")
<1>2. Size' = Size
  BY DEF Size
<1>3. pos' \in base' .. Size'
  BY <1>0, <1>2
<1> QED
  BY ONLY <1>0, <1>1, <1>3, call' = call, base' = base, res' = res DEF TypeInv, Pcs

LEMMA ReplacementNat == Replacement \in Nat /\ IsUnit("utf16", Replacement)
BY SMT DEF Replacement, IsUnit

LEMMA TypeOfLoop ==
  ASSUME TypeInv, AsciiBlock \/ Character \/ Substitute
  PROVE  TypeInv'
<1>0. /\ call \in Calls /\ UnitsOf(call.to, out) /\ res \in Answers
      /\ base \in Nat /\ pos \in base .. Size /\ Size \in Nat /\ pos \in Nat
  BY CallFacts DEF TypeInv
<1>1. pc = "scalar" /\ pos < Size /\ call' = call /\ base' = base /\ res' = res
  BY DEF AsciiBlock, Character, Substitute, Judged, Looping
<1>2. call.mode \notin Inspections
  BY ONLY TypeInv, <1>1 DEF TypeInv
<1>3. Here \in 1 .. Size /\ Here = pos + 1
  BY ONLY <1>0, <1>1, SMT DEF Here
<1>4. UnitsOf(call.from, Input) /\ Len(Input) = Size
  BY ONLY <1>0, InputIs
<1>5. CASE AsciiBlock
  <2>1. PICK b : b = BlockSize
    OBVIOUS
  <2>2. b \in Nat /\ pos + b <= Size
    BY ONLY <1>5, <2>1, BlockSizeIs DEF AsciiBlock, BlockAhead
  <2>3. PICK u : u = IF call.to = "none" THEN << >> ELSE [i \in 1 .. b |-> Spelled(Input[pos + i])[1]]
    OBVIOUS
  <2>4. Put(u, "scalar") /\ pos' = pos + b
    BY ONLY <1>5, <2>1, <2>3 DEF AsciiBlock
  <2>5. UnitsOf(call.to, u)
    <3>1. CASE call.to = "none"
      BY ONLY <2>3, <3>1, NoUnits
    <3>2. CASE call.to # "none"
      BY ONLY <1>0, <2>2, <2>3, <3>2, FirstUnitsType DEF FirstUnits
    <3> QED
      BY <3>1, <3>2
  <2>6. pos' \in pos .. Size
    BY ONLY <1>0, <2>2, <2>4, SMT
  <2> QED
    BY ONLY TypeInv, <1>1, <2>4, <2>5, <2>6, TypeOfPut
<1>6. CASE Character
  <2>1. /\ Judgement(Input, Here) = "Success"
        /\ Put(Converted(Input, Here), "scalar")
        /\ pos' = pos + Width(Input, Here)
    BY ONLY <1>6 DEF Character, Judged
  <2>2. StepInside(Input, Here)
    BY ONLY <1>0, <1>2, <1>3, <1>4, <2>1, StepType
  <2>3. PICK w : w = Width(Input, Here)
    OBVIOUS
  <2>4. PICK c : c = CodePoint(Input, Here)
    OBVIOUS
  <2>5. w \in 1 .. 4 /\ Here + w - 1 <= Size /\ c \in Nat /\ (call.mode = "swap" => IsUnit("utf16", c))
    BY ONLY <1>4, <2>2, <2>3, <2>4 DEF StepInside
  <2>6. UnitsOf(call.to, Converted(Input, Here))
    BY ONLY <1>0, <2>4, <2>5, ConvertedType
  <2>7. Put(Converted(Input, Here), "scalar")
    BY ONLY <2>1
  <2>8. pos' \in pos .. Size
    <3>1. pos' = pos + w
      BY ONLY <2>1, <2>3
    <3> QED
      BY ONLY <1>0, <1>3, <2>5, <3>1, SMT
  <2> QED
    BY ONLY TypeInv, <1>1, <2>6, <2>7, <2>8, TypeOfPut
<1>7. CASE Substitute
  <2>1. Put(Spelled(Replacement), "scalar") /\ pos' = pos + 1
    BY ONLY <1>7 DEF Substitute
  <2>2. UnitsOf(call.to, Spelled(Replacement))
    BY ONLY <1>0, ReplacementNat, SpelledType
  <2>3. pos' \in pos .. Size
    BY ONLY <1>0, <1>1, <2>1, SMT
  <2> QED
    BY ONLY TypeInv, <1>1, <2>1, <2>2, <2>3, TypeOfPut
<1> QED
  BY <1>5, <1>6, <1>7

LEMMA TypeInvInit ==
  ASSUME Init
  PROVE  TypeInv
<1>1. call \in Calls /\ pc = "call" /\ base = 0 /\ pos = 0 /\ out = << >> /\ res = Unanswered
  BY DEF Init
<1>2. Size \in Nat
  BY <1>1, CallFacts
<1>3. UnitsOf(call.to, out)
  BY <1>1, NoUnits
<1>4. res \in Answers
  BY <1>1 DEF Answers, Unanswered
<1> QED
  BY ONLY <1>1, <1>2, <1>3, <1>4 DEF TypeInv, Pcs

LEMMA TypeInvNext ==
  ASSUME TypeInv, [Next]_vars
  PROVE  TypeInv'
BY TypeOfKernel, TypeOfResumed, TypeOfOthers, TypeOfLoop, Zenon DEF Next

LEMMA TypeInvAlways == Spec => []TypeInv
BY TypeInvInit, TypeInvNext, PTL DEF Spec

(* Every call, every text: the counters stay inside the text and no unit   *)
(* is wider than its encoding.                                             *)
THEOREM TypeCorrect == Spec => []TypeOK
<1>1. TypeInv => TypeOK
  <2> SUFFICES ASSUME TypeInv PROVE TypeOK
    OBVIOUS
  <2>1. call \in CallType
    BY CallsAssumption DEF TypeInv
  <2> QED
    BY <2>1 DEF TypeInv, TypeOK, UnitsOf, Pcs, Answers
<1> QED
  BY <1>1, TypeInvAlways, PTL

LEMMA NativeType ==
  ASSUME NEW c, NEW o, UnitsOf(c.to, o)
  PROVE  /\ Native(c, o) \in Seq(Nat) /\ Len(Native(c, o)) = Len(o) /\ Len(o) \in Nat
         /\ \A i \in 1 .. Len(o) :
              Native(c, o)[i] = IF c.to = "utf16" /\ c.swapped THEN ReverseBytes16(o[i]) ELSE o[i]
<1> DEFINE f == [i \in 1 .. Len(o) |-> IF c.to = "utf16" /\ c.swapped THEN ReverseBytes16(o[i]) ELSE o[i]]
<1>1. /\ o \in Seq(Nat) /\ Len(o) \in Nat /\ DOMAIN o = 1 .. Len(o)
      /\ \A i \in 1 .. Len(o) : o[i] \in Nat /\ IsUnit(c.to, o[i])
  BY UnitsIn
<1>2. \A i \in 1 .. Len(o) : f[i] = IF c.to = "utf16" /\ c.swapped THEN ReverseBytes16(o[i]) ELSE o[i]
  OBVIOUS
<1>3. f = [i \in 1 .. Len(o) |-> f[i]]
  OBVIOUS
<1>4. Native(c, o) = f
  BY ONLY <1>1 DEF Native
<1> HIDE DEF f
<1>5. \A i \in 1 .. Len(o) : f[i] \in Nat
  <2> TAKE i \in 1 .. Len(o)
  <2>1. CASE c.to = "utf16" /\ c.swapped
    <3>1. o[i] \in Nat /\ IsUnit("utf16", o[i])
      BY ONLY <1>1, <2>1, i \in 1 .. Len(o)
    <3>2. ReverseBytes16(o[i]) \in Nat
      BY ONLY <3>1, SwappedUnit
    <3> QED
      BY ONLY <1>2, <2>1, <3>2, i \in 1 .. Len(o)
  <2>2. CASE ~ (c.to = "utf16" /\ c.swapped)
    BY ONLY <1>1, <1>2, <2>2, i \in 1 .. Len(o)
  <2> QED
    BY <2>1, <2>2
<1>6. f \in [1 .. Len(o) -> Nat]
  BY ONLY <1>3, <1>5
<1>7. f \in Seq(Nat) /\ Len(f) = Len(o)
  BY ONLY <1>1, <1>6, SeqDef, LenProperties
<1> QED
  BY ONLY <1>1, <1>2, <1>4, <1>7

LEMMA NativeJoin ==
  ASSUME NEW c, NEW o, NEW u, UnitsOf(c.to, o), UnitsOf(c.to, u)
  PROVE  Native(c, o \o u) = Native(c, o) \o Native(c, u)
<1>1. o \in Seq(Nat) /\ u \in Seq(Nat) /\ Len(o) \in Nat /\ Len(u) \in Nat
  BY UnitsIn
<1>2. PICK v : v = o \o u
  OBVIOUS
<1>3. UnitsOf(c.to, v) /\ Len(v) = Len(o) + Len(u)
  BY ONLY <1>2, UnitsJoin, UnitsOf(c.to, o), UnitsOf(c.to, u)
<1>4. /\ \A i \in 1 .. Len(o) : v[i] = o[i]
      /\ \A i \in 1 .. Len(u) : v[Len(o) + i] = u[i]
  BY ONLY <1>1, <1>2, JoinIs
<1>6. PICK a : a = Native(c, o)
  OBVIOUS
<1>7. PICK b : b = Native(c, u)
  OBVIOUS
<1>8. PICK d : d = Native(c, v)
  OBVIOUS
<1>9. /\ a \in Seq(Nat) /\ Len(a) = Len(o)
      /\ \A i \in 1 .. Len(o) : a[i] = IF c.to = "utf16" /\ c.swapped THEN ReverseBytes16(o[i]) ELSE o[i]
  BY ONLY <1>6, NativeType, UnitsOf(c.to, o)
<1>10. /\ b \in Seq(Nat) /\ Len(b) = Len(u)
       /\ \A i \in 1 .. Len(u) : b[i] = IF c.to = "utf16" /\ c.swapped THEN ReverseBytes16(u[i]) ELSE u[i]
  BY ONLY <1>7, NativeType, UnitsOf(c.to, u)
<1>11. /\ d \in Seq(Nat) /\ Len(d) = Len(v)
       /\ \A i \in 1 .. Len(v) : d[i] = IF c.to = "utf16" /\ c.swapped THEN ReverseBytes16(v[i]) ELSE v[i]
  BY ONLY <1>3, <1>8, NativeType
<1>12. PICK e : e = a \o b
  OBVIOUS
<1>13. /\ e \in Seq(Nat) /\ Len(e) = Len(o) + Len(u)
       /\ \A i \in 1 .. Len(o) : e[i] = a[i]
       /\ \A i \in 1 .. Len(u) : e[Len(o) + i] = b[i]
  <2>1. e \in Seq(Nat) /\ Len(e) = Len(a) + Len(b)
    BY ONLY <1>9, <1>10, <1>12, JoinType
  <2>2. /\ \A i \in 1 .. Len(a) : e[i] = a[i]
        /\ \A i \in 1 .. Len(b) : e[Len(a) + i] = b[i]
    <3>1. a \in Seq(Nat) /\ b \in Seq(Nat)
      BY ONLY <1>9, <1>10
    <3> QED
      BY ONLY <3>1, <1>12, JoinIs
  <2>3. Len(a) = Len(o) /\ Len(b) = Len(u)
    BY ONLY <1>9, <1>10
  <2> QED
    BY ONLY <2>1, <2>2, <2>3, Zenon
<1>14. \A i \in 1 .. Len(v) : d[i] = e[i]
  <2> TAKE i \in 1 .. Len(v)
  <2>1. CASE i <= Len(o)
    <3>1. i \in 1 .. Len(o)
      BY ONLY <1>1, <1>3, <2>1, i \in 1 .. Len(v), SMT
    <3>2. v[i] = o[i] /\ e[i] = a[i]
      BY ONLY <1>4, <1>13, <3>1
    <3>3. d[i] = IF c.to = "utf16" /\ c.swapped THEN ReverseBytes16(v[i]) ELSE v[i]
      BY ONLY <1>11, i \in 1 .. Len(v)
    <3>4. a[i] = IF c.to = "utf16" /\ c.swapped THEN ReverseBytes16(o[i]) ELSE o[i]
      BY ONLY <1>9, <3>1
    <3> QED
      BY ONLY <3>2, <3>3, <3>4, Zenon
  <2>2. CASE ~ (i <= Len(o))
    <3>1. PICK j \in 1 .. Len(u) : i = Len(o) + j
      <4>1. i - Len(o) \in 1 .. Len(u) /\ i = Len(o) + (i - Len(o))
        BY ONLY <1>1, <1>3, <2>2, i \in 1 .. Len(v), SMT
      <4> QED
        BY <4>1
    <3>2. v[i] = u[j] /\ e[i] = b[j]
      BY ONLY <1>4, <1>13, <3>1, j \in 1 .. Len(u)
    <3>3. d[i] = IF c.to = "utf16" /\ c.swapped THEN ReverseBytes16(v[i]) ELSE v[i]
      BY ONLY <1>11, i \in 1 .. Len(v)
    <3>4. b[j] = IF c.to = "utf16" /\ c.swapped THEN ReverseBytes16(u[j]) ELSE u[j]
      BY ONLY <1>10, j \in 1 .. Len(u)
    <3> QED
      BY ONLY <3>2, <3>3, <3>4, Zenon
  <2> QED
    BY <2>1, <2>2
<1>15. d = e
  BY ONLY <1>3, <1>11, <1>13, <1>14, SameSequence
<1> QED
  BY ONLY <1>2, <1>6, <1>7, <1>8, <1>12, <1>15

LEMMA OutStart ==
  ASSUME NEW c, c.to \in Targets, NEW r \in Seq(Nat)
  PROVE  OutLink(c, << >>, r, r)
<1>1. UnitsOf(c.to, << >>)
  BY NoUnits
<1>2. Native(c, << >>) \in Seq(Nat) /\ Len(Native(c, << >>)) = 0
  BY ONLY <1>1, NativeType
<1>3. c.to \in Texts
  BY DEF Targets, Texts
<1>4. PICK t : t = Native(c, << >>)
  OBVIOUS
<1>5. After(c.to, c.to, t, Len(t)).points = << >> /\ After(c.to, c.to, t, Len(t)).whole
  BY ONLY <1>2, <1>3, <1>4, AfterLast
<1>6. Reading(c.to, c.to, t).points = << >> /\ Reading(c.to, c.to, t).whole
  BY ONLY <1>2, <1>4, <1>5, ReadingIsAfter
<1>7. Both(<< >>, r) = r
  BY ONLY BothIs, r \in Seq(Nat)
<1> QED
  BY ONLY <1>4, <1>6, <1>7 DEF OutLink

LEMMA OutMore ==
  ASSUME call \in Calls, call.to \in Targets, call.mode # "swap",
         NEW o, UnitsOf(call.to, o), NEW c \in Nat, Scalar(c), Holds(call.to, c),
         NEW r \in Seq(Nat), NEW r0, OutLink(call, o, InFront(c, r), r0)
  PROVE  OutLink(call, o \o Spelled(c), r, r0)
<1>1. call.swapped \in BOOLEAN
  BY CallFacts
<1>2. /\ UnitsOf(call.to, Spelled(c)) /\ Len(Spelled(c)) \in 1 .. 4
      /\ Native(call, Spelled(c)) = Spelling(call.to, c)
  BY <1>1, SpelledIs
<1>3. PICK u : u = Spelling(call.to, c)
  OBVIOUS
<1>4. UnitsOf(call.to, u) /\ Len(u) \in 1 .. 4 /\ IsCharacter(call.to, u) /\ Meaning(call.to, u) = c
  BY ONLY <1>3, SpellingIs, call.to \in Targets, c \in Nat, Scalar(c), Holds(call.to, c)
<1>5. PICK t : t = Native(call, o)
  OBVIOUS
<1>6. t \in Seq(Nat)
  BY ONLY <1>5, NativeType, UnitsOf(call.to, o)
<1>7. Native(call, o \o Spelled(c)) = t \o u
  <2>1. UnitsOf(call.to, Spelled(c))
    BY ONLY <1>2
  <2>2. Native(call, o \o Spelled(c)) = Native(call, o) \o Native(call, Spelled(c))
    BY ONLY <2>1, NativeJoin, UnitsOf(call.to, o)
  <2> QED
    BY ONLY <1>2, <1>3, <1>5, <2>2
<1>8. call.to \in Texts
  BY DEF Targets, Texts
<1>9. u \in Seq(Nat)
  BY ONLY <1>4, UnitsIn
<1>10. Reading(call.to, call.to, t).whole /\ Both(Reading(call.to, call.to, t).points, InFront(c, r)) = r0
  BY ONLY <1>5, OutLink(call, o, InFront(c, r), r0) DEF OutLink
<1>11. /\ Reading(call.to, call.to, t \o u).points = AtEnd(Reading(call.to, call.to, t).points, Meaning(call.to, u))
       /\ Reading(call.to, call.to, t \o u).whole
  <2>1. Holds(call.to, Meaning(call.to, u))
    BY ONLY <1>4, Holds(call.to, c)
  <2> QED
    BY ONLY <1>4, <1>6, <1>8, <1>9, <1>10, <2>1, ReadingAppend
<1>12. Reading(call.to, call.to, t).points \in Seq(Nat)
  BY ONLY <1>6, <1>8, ReadingType, ReadingFields
<1>13. Both(Reading(call.to, call.to, t \o u).points, r) = r0
  BY ONLY <1>4, <1>10, <1>11, <1>12, BothIs, c \in Nat, r \in Seq(Nat)
<1> QED
  BY ONLY <1>7, <1>11, <1>13 DEF OutLink

LEMMA LinkStart ==
  ASSUME call \in Calls, call.mode \in Readers, NEW t, UnitsOf(call.from, t)
  PROVE  Linked(call, t, 0, << >>)
<1>1. t \in Seq(Nat) /\ 0 \in 0 .. Len(t)
  BY UnitsIn
<1>2. call.from \in Texts /\ call.to \in Targets \cup {"none"}
  BY OfferedIs
<1>3. PICK r : r = After(call.from, call.to, t, 0)
  OBVIOUS
<1>4. r.points \in Seq(Nat)
  BY ONLY <1>1, <1>2, <1>3, AfterType, ReadingFields
<1>5. call.to # "none" => OutLink(call, << >>, r.points, r.points)
  BY ONLY <1>2, <1>4, OutStart
<1> QED
  BY ONLY <1>3, <1>5 DEF Linked

LEMMA LinkMore ==
  ASSUME call \in Calls, call.mode \in Readers, NEW t, UnitsOf(call.from, t),
         NEW p \in 0 .. Len(t), p < Len(t), NEW w, NEW c,
         StartsAt(call.from, call.to, t, p + 1, w, c),
         NEW o, UnitsOf(call.to, o), Linked(call, t, p, o)
  PROVE  Linked(call, t, p + w, o \o Spelled(c)) /\ p + w \in p + 1 .. Len(t)
<1>1. t \in Seq(Nat) /\ Len(t) \in Nat
  BY UnitsIn
<1>2. call.from \in Texts /\ call.to \in Targets \cup {"none"} /\ call.mode # "swap"
  BY OfferedIs DEF Readers
<1>3. PICK a : a = After(call.from, call.to, t, p)
  OBVIOUS
<1>4. PICK b : b = After(call.from, call.to, t, p + w)
  OBVIOUS
<1>5. /\ p + w \in p + 1 .. Len(t) /\ c \in Nat /\ Scalar(c)
      /\ a.points = InFront(c, b.points) /\ a.stop = b.stop /\ (a.whole <=> b.whole)
  BY ONLY <1>1, <1>2, <1>3, <1>4, p \in 0 .. Len(t), p < Len(t),
          StartsAt(call.from, call.to, t, p + 1, w, c), AfterOne
<1>6. p + w \in 0 .. Len(t)
  BY ONLY <1>5, p \in 0 .. Len(t), <1>1, SMT
<1>7. b.points \in Seq(Nat)
  BY ONLY <1>1, <1>2, <1>4, <1>6, AfterType, ReadingFields
<1>8. p + 1 \in 1 .. Len(t)
  BY ONLY <1>1, p \in 0 .. Len(t), p < Len(t), SMT
<1>9. Holds(call.to, c)
  BY ONLY <1>1, <1>2, <1>8, StartsAt(call.from, call.to, t, p + 1, w, c), StartsPiece,
       Zenon DEF PieceFacts
<1>10. PICK r0 : r0 = After(call.from, call.to, t, 0)
  OBVIOUS
<1>11. /\ a.stop = r0.stop /\ (a.whole <=> r0.whole)
       /\ call.to # "none" => OutLink(call, o, a.points, r0.points)
  BY ONLY <1>3, <1>10, Linked(call, t, p, o) DEF Linked
<1>12. call.to # "none" => OutLink(call, o \o Spelled(c), b.points, r0.points)
  <2> SUFFICES ASSUME call.to # "none" PROVE OutLink(call, o \o Spelled(c), b.points, r0.points)
    OBVIOUS
  <2>1. OutLink(call, o, InFront(c, b.points), r0.points)
    BY ONLY <1>5, <1>11, call.to # "none"
  <2>2. call.to \in Targets
    BY ONLY <1>2, call.to # "none"
  <2> QED
    BY ONLY <1>2, <1>5, <1>7, <1>9, <2>1, <2>2, call \in Calls, UnitsOf(call.to, o), OutMore
<1>13. Linked(call, t, p + w, o \o Spelled(c))
  BY ONLY <1>4, <1>5, <1>10, <1>11, <1>12 DEF Linked
<1> QED
  BY ONLY <1>5, <1>13

-----------------------------------------------------------------------------
(* A run of characters of one unit each *)

Firsts(t, p, k) == [i \in 1 .. k |-> Spelled(t[p + i])[1]]

RunOut(o, t, p, k) == IF call.to = "none" THEN o ELSE o \o Firsts(t, p, k)

(* The character of one unit is written as one unit.                       *)
Alone(t, i) == call.to # "none" => Len(Spelled(t[i])) = 1

FirstsKnown(t, p, k, s) ==
  /\ \A i \in 1 .. k : Spelled(t[p + i])[1] \in Nat
  /\ s = Spelled(t[p + (k + 1)]) /\ s \in Seq(Nat) /\ Len(s) = 1

FirstsThen(t, p, k, s) ==
  /\ Firsts(t, p, k) \in Seq(Nat) /\ Len(Firsts(t, p, k)) = k
  /\ Firsts(t, p, k + 1) = Firsts(t, p, k) \o s

LEMMA FirstsMore ==
  ASSUME NEW t, NEW p \in Nat, NEW k \in Nat, NEW s, FirstsKnown(t, p, k, s)
  PROVE  FirstsThen(t, p, k, s)
<1> DEFINE f == Firsts(t, p, k)
           g == Firsts(t, p, k + 1)
<1>0. /\ \A i \in 1 .. k : Spelled(t[p + i])[1] \in Nat
      /\ s = Spelled(t[p + (k + 1)]) /\ s \in Seq(Nat) /\ Len(s) = 1
  BY ONLY FirstsKnown(t, p, k, s) DEF FirstsKnown
<1>1. s = << s[1] >> /\ s[1] \in Nat
  BY <1>0, OneUnit
<1>2. f = [i \in 1 .. k |-> Spelled(t[p + i])[1]] /\ g = [i \in 1 .. k + 1 |-> Spelled(t[p + i])[1]]
  BY DEF Firsts
<1>3. \A i \in 1 .. k + 1 : Spelled(t[p + i])[1] \in Nat
  <2> TAKE i \in 1 .. k + 1
  <2>1. i \in 1 .. k \/ i = k + 1
    OBVIOUS
  <2> QED
    BY <1>0, <1>1, <2>1
<1>4. /\ \A i \in 1 .. k : f[i] = Spelled(t[p + i])[1]
      /\ \A i \in 1 .. k + 1 : g[i] = Spelled(t[p + i])[1]
  BY ONLY <1>2
<1>5. f \in [1 .. k -> Nat] /\ g \in [1 .. k + 1 -> Nat]
  <2>1. \A i \in 1 .. k : Spelled(t[p + i])[1] \in Nat
    BY <1>0
  <2>2. f \in [1 .. k -> Nat]
    BY ONLY <1>2, <2>1, Zenon
  <2>3. g \in [1 .. k + 1 -> Nat]
    BY ONLY <1>2, <1>3, Zenon
  <2> QED
    BY ONLY <2>2, <2>3
<1> HIDE DEF f, g
<1>6. f \in Seq(Nat) /\ Len(f) = k /\ g \in Seq(Nat) /\ Len(g) = k + 1
  <2>1. k + 1 \in Nat
    OBVIOUS
  <2> QED
    BY ONLY <1>5, <2>1, k \in Nat, SeqDef, LenProperties
<1>7. Append(f, s[1]) \in Seq(Nat) /\ Len(Append(f, s[1])) = k + 1
      /\ \A i \in 1 .. k : Append(f, s[1])[i] = f[i]
      /\ Append(f, s[1])[k + 1] = s[1]
  BY ONLY <1>1, <1>6, AppendProperties, k \in Nat
<1>8. PICK h : h = Append(f, s[1])
  OBVIOUS
<1>9. \A i \in 1 .. k + 1 : g[i] = h[i]
  <2> TAKE i \in 1 .. k + 1
  <2>1. CASE i \in 1 .. k
    BY ONLY <1>4, <1>7, <1>8, <2>1, i \in 1 .. k + 1
  <2>2. CASE i = k + 1
    <3>1. g[i] = Spelled(t[p + (k + 1)])[1]
      BY ONLY <1>4, <2>2, i \in 1 .. k + 1
    <3> QED
      BY ONLY <1>0, <1>7, <1>8, <2>2, <3>1
  <2> QED
    BY <2>1, <2>2
<1>10. g = h
  BY ONLY <1>6, <1>7, <1>8, <1>9, SameSequence
<1>11. Append(f, s[1]) = f \o << s[1] >>
  BY ONLY <1>1, <1>6, AppendIsConcat
<1>12. f \o << s[1] >> = f \o s
  BY ONLY <1>1
<1> QED
  BY ONLY <1>6, <1>8, <1>10, <1>11, <1>12 DEF f, g, FirstsThen

AllAlone(t, p, k) ==
  \A i \in 1 .. k : /\ UnitsOf(call.to, Spelled(t[p + i])) /\ Alone(t, p + i)
                    /\ call.to = "none" => Spelled(t[p + i]) = << >>

LEMMA RunOutMore ==
  ASSUME NEW o, UnitsOf(call.to, o), NEW t, NEW p \in Nat, NEW k \in Nat, AllAlone(t, p, k + 1)
  PROVE  RunOut(o, t, p, k + 1) = RunOut(o, t, p, k) \o Spelled(t[p + (k + 1)])
<1>0. o \in Seq(Nat)
  BY UnitsIn
<1>1. CASE call.to = "none"
  <2>1. PICK j \in 1 .. k + 1 : j = k + 1
    OBVIOUS
  <2>00. Spelled(t[p + j]) = << >>
    <3>1. call.to = "none" => Spelled(t[p + j]) = << >>
      BY ONLY AllAlone(t, p, k + 1), j \in 1 .. k + 1, Zenon DEF AllAlone
    <3> QED
      BY ONLY <1>1, <3>1
  <2>2. Spelled(t[p + (k + 1)]) = << >>
    BY ONLY <2>00, <2>1, Zenon
  <2>3. o \o << >> = o
    BY ONLY <1>0, ConcatEmptySeq
  <2> QED
    BY ONLY <1>1, <2>2, <2>3, Zenon DEF RunOut
<1>2. CASE call.to # "none"
  <2>1. \A i \in 1 .. k + 1 : Spelled(t[p + i]) \in Seq(Nat) /\ Len(Spelled(t[p + i])) = 1
    <3>1. \A i \in 1 .. k + 1 : UnitsOf(call.to, Spelled(t[p + i])) /\ Len(Spelled(t[p + i])) = 1
      <4> TAKE i \in 1 .. k + 1
      <4>1. UnitsOf(call.to, Spelled(t[p + i])) /\ Alone(t, p + i)
        BY ONLY AllAlone(t, p, k + 1), i \in 1 .. k + 1, Zenon DEF AllAlone
      <4> QED
        BY ONLY <1>2, <4>1, Zenon DEF Alone
    <3>2. \A s : UnitsOf(call.to, s) => s \in Seq(Nat)
      BY ONLY UnitsIn
    <3> QED
      BY ONLY <3>1, <3>2, Zenon
  <2>2. \A i \in 1 .. k + 1 : Spelled(t[p + i])[1] \in Nat
    BY ONLY <2>1, OneUnit
  <2>3. (\A i \in 1 .. k : i \in 1 .. k + 1) /\ k + 1 \in 1 .. k + 1
    OBVIOUS
  <2>4. PICK s : s = Spelled(t[p + (k + 1)])
    OBVIOUS
  <2>5. s \in Seq(Nat) /\ Len(s) = 1
    BY ONLY <2>1, <2>3, <2>4
  <2>6. \A i \in 1 .. k : Spelled(t[p + i])[1] \in Nat
    BY ONLY <2>2, <2>3
  <2>7. Firsts(t, p, k) \in Seq(Nat) /\ Firsts(t, p, k + 1) = Firsts(t, p, k) \o s
    <3>1. FirstsKnown(t, p, k, s)
      BY ONLY <2>4, <2>5, <2>6 DEF FirstsKnown
    <3>2. FirstsThen(t, p, k, s)
      BY ONLY <3>1, p \in Nat, k \in Nat, FirstsMore
    <3> QED
      BY ONLY <3>2 DEF FirstsThen
  <2>8. PICK f : f = Firsts(t, p, k)
    OBVIOUS
  <2>9. o \o (f \o s) = (o \o f) \o s
    <3>1. f \in Seq(Nat) /\ s \in Seq(Nat)
      BY ONLY <2>5, <2>7, <2>8
    <3> QED
      BY ONLY <1>0, <3>1, JoinAssociative
  <2> QED
    BY ONLY <1>2, <2>4, <2>7, <2>8, <2>9 DEF RunOut
<1> QED
  BY <1>1, <1>2

LEMMA RunOutNone ==
  ASSUME NEW o, UnitsOf(call.to, o), NEW t, NEW p
  PROVE  RunOut(o, t, p, 0) = o
<1>0. o \in Seq(Nat)
  BY UnitsIn
<1>1. Firsts(t, p, 0) \in Seq(Nat) /\ Len(Firsts(t, p, 0)) = 0
  <2>1. PICK f : f = Firsts(t, p, 0)
    OBVIOUS
  <2>2. f \in [1 .. 0 -> Nat]
    BY ONLY <2>1 DEF Firsts
  <2>3. f \in Seq(Nat) /\ Len(f) = 0
    BY ONLY <2>2, SeqDef, LenProperties
  <2> QED
    BY ONLY <2>1, <2>3
<1>2. Firsts(t, p, 0) = << >>
  BY ONLY <1>1, EmptySeq
<1>3. o \o << >> = o
  BY ONLY <1>0, ConcatEmptySeq
<1> QED
  BY ONLY <1>2, <1>3 DEF RunOut

LEMMA LinkRun ==
  ASSUME call \in Calls, call.mode \in Readers, NEW t, UnitsOf(call.from, t),
         NEW p \in Nat, NEW k \in Nat, p + k <= Len(t),
         \A i \in 1 .. k : /\ StartsAt(call.from, call.to, t, p + i, 1, t[p + i])
                           /\ Alone(t, p + i),
         NEW o, UnitsOf(call.to, o), Linked(call, t, p, o)
  PROVE  Linked(call, t, p + k, RunOut(o, t, p, k)) /\ UnitsOf(call.to, RunOut(o, t, p, k))
<1>1. /\ t \in Seq(Nat) /\ Len(t) \in Nat
      /\ \A i \in 1 .. Len(t) : t[i] \in Nat /\ IsUnit(call.from, t[i])
  BY UnitsIn
<1>2. \A i \in 1 .. k : p + i \in 1 .. Len(t)
  BY ONLY <1>1, p \in Nat, k \in Nat, p + k <= Len(t), SMT
<1>3. \A i \in 1 .. k : /\ UnitsOf(call.to, Spelled(t[p + i]))
                        /\ call.to = "none" => Spelled(t[p + i]) = << >>
  <2> TAKE i \in 1 .. k
  <2>1. PICK u : u = t[p + i]
    OBVIOUS
  <2>2. u \in Nat
    BY ONLY <1>1, <1>2, <2>1, i \in 1 .. k
  <2>3. call.mode # "swap"
    BY DEF Readers
  <2> QED
    BY ONLY <2>1, <2>2, <2>3, SpelledType, call \in Calls
<1> DEFINE Good(j) == Linked(call, t, p + j, RunOut(o, t, p, j)) /\ UnitsOf(call.to, RunOut(o, t, p, j))
           G == {j \in 0 .. k : Good(j)}
<1>4. 0 \in G
  <2>1. RunOut(o, t, p, 0) = o /\ p + 0 = p
    BY RunOutNone
  <2> QED
    BY <2>1
<1>5. \A j \in 0 .. k - 1 : j \in G => j + 1 \in G
  <2> SUFFICES ASSUME NEW j \in 0 .. k - 1, Good(j) PROVE j + 1 \in 0 .. k /\ Good(j + 1)
    OBVIOUS
  <2>1. /\ j \in Nat /\ j + 1 \in 0 .. k /\ j + 1 \in 1 .. k /\ (\A i \in 1 .. j + 1 : i \in 1 .. k)
        /\ p + j \in 0 .. Len(t) /\ p + j < Len(t) /\ p + j + 1 = p + (j + 1)
    BY ONLY <1>1, p \in Nat, k \in Nat, p + k <= Len(t), j \in 0 .. k - 1, SMT
  <2>2. PICK q : q = RunOut(o, t, p, j)
    OBVIOUS
  <2>3. PICK u : u = t[p + (j + 1)]
    OBVIOUS
  <2>4. StartsAt(call.from, call.to, t, p + j + 1, 1, u)
    BY ONLY <2>1, <2>3,
         \A i \in 1 .. k : StartsAt(call.from, call.to, t, p + i, 1, t[p + i]) /\ Alone(t, p + i)
  <2>5. Linked(call, t, p + j + 1, q \o Spelled(u))
    BY ONLY <2>1, <2>2, <2>4, Good(j), LinkMore, call \in Calls, call.mode \in Readers,
         UnitsOf(call.from, t)
  <2>6. UnitsOf(call.to, q \o Spelled(u))
    <3>1. UnitsOf(call.to, q) /\ UnitsOf(call.to, Spelled(u))
      BY ONLY <1>3, <2>1, <2>2, <2>3, Good(j)
    <3> QED
      BY ONLY <3>1, UnitsJoin
  <2>7. RunOut(o, t, p, j + 1) = q \o Spelled(u)
    <3>1. \A i \in 1 .. k : Alone(t, p + i)
      OBVIOUS
    <3>2. \A i \in 1 .. j + 1 : /\ UnitsOf(call.to, Spelled(t[p + i])) /\ Alone(t, p + i)
                                /\ call.to = "none" => Spelled(t[p + i]) = << >>
      <4> TAKE i \in 1 .. j + 1
      <4>1. i \in 1 .. k
        BY ONLY <2>1, i \in 1 .. j + 1
      <4> QED
        BY ONLY <1>3, <3>1, <4>1, Zenon
    <3>3. AllAlone(t, p, j + 1)
      BY ONLY <3>2, Zenon DEF AllAlone
    <3>4. RunOut(o, t, p, j + 1) = RunOut(o, t, p, j) \o Spelled(t[p + (j + 1)])
      BY ONLY <2>1, <3>3, RunOutMore, UnitsOf(call.to, o), p \in Nat
    <3> QED
      BY ONLY <2>2, <2>3, <3>4
  <2> QED
    BY ONLY <2>1, <2>5, <2>6, <2>7
<1>6. 0 .. k \subseteq G
  <2> HIDE DEF G
  <2> QED BY ONLY <1>4, <1>5, k \in Nat, Upward
<1>7. k \in 0 .. k
  OBVIOUS
<1> QED
  BY ONLY <1>6, <1>7

Plainly(u) ==
  /\ Single(call.from, u) /\ Holds(call.to, u)
  /\ call.to # "none" => Len(Spelled(u)) = 1

LEMMA OneUnitEach ==
  ASSUME call \in Calls, call.mode # "swap", NEW u \in Nat, call.to = "utf8" => u < 128,
         call.to = "utf16" => u < 65536
  PROVE  call.to # "none" => Len(Spelled(u)) = 1
<1> SUFFICES ASSUME call.to # "none" PROVE Len(Spelled(u)) = 1
  OBVIOUS
<1>1. call.to \in Targets /\ call.swapped \in BOOLEAN
  BY CallFacts, OfferedIs
<1>2. Len(Spelled(u)) = SpellSize(call.to, u)
  BY ONLY <1>1, call.mode # "swap", u \in Nat, SpelledIs
<1>3. SpellSize(call.to, u) = 1
  BY ONLY <1>1, call.to = "utf8" => u < 128, call.to = "utf16" => u < 65536
     DEF SpellSize, Size8, Size16, Targets
<1> QED
  BY ONLY <1>2, <1>3

LEMMA AsciiPlainly ==
  ASSUME call \in Calls, call.mode \in Readers, call.from \in Texts, NEW u \in Nat, u < 128
  PROVE  Plainly(u)
<1>1. u < 65536 /\ u <= 65535 /\ u <= 127 /\ u <= 255 /\ Scalar(u)
  BY ONLY u \in Nat, u < 128 DEF Scalar
<1>2. Single(call.from, u) /\ Holds(call.to, u)
  BY ONLY <1>1, u < 128, call.from \in Texts DEF Single, Holds, Texts
<1>3. call.mode # "swap"
  BY DEF Readers
<1>4. call.to # "none" => Len(Spelled(u)) = 1
  BY ONLY <1>1, <1>3, call \in Calls, u \in Nat, u < 128, OneUnitEach
<1> QED
  BY ONLY <1>2, <1>4 DEF Plainly

LEMMA EasyPlainly ==
  ASSUME call \in Calls, call.mode \in Checking, NEW u \in Nat, IsUnit(call.from, u), Easy(u)
  PROVE  Plainly(u)
<1>1. /\ call.to \in Targets \cup {"none"} /\ call.from \in Texts /\ call.mode # "swap"
      /\ call.from \in {"ascii", "ascii16"} => call.to = "none"
      /\ call.from = "latin1" => call.to # "none"
      /\ call.to # call.from /\ call.mode \in Readers
  BY OfferedIs DEF Readers, Checking
<1>2. CASE call.from = "latin1"
  <2>1. u <= 255 /\ u < 65536
    BY <1>2 DEF IsUnit
  <2>2. call.to # "utf8" \/ u < 128
    BY ONLY <1>1, <1>2, Easy(u) DEF Easy
  <2>3. Single(call.from, u) /\ Holds(call.to, u)
    BY ONLY <1>2, <2>1 DEF Single, Holds
  <2>4. call.to # "none" => Len(Spelled(u)) = 1
    BY ONLY <1>1, <2>1, <2>2, call \in Calls, u \in Nat, OneUnitEach
  <2> QED
    BY ONLY <2>3, <2>4 DEF Plainly
<1>3. CASE call.from \in {"ascii", "ascii16", "utf8"}
  <2>1. u < 128
    <3>1. CASE call.from = "utf8"
      BY ONLY <1>1, <3>1, Easy(u), u \in Nat DEF Easy
    <3>2. CASE call.from = "ascii"
      BY ONLY <1>1, <3>2, Easy(u), u \in Nat DEF Easy
    <3>3. CASE call.from = "ascii16"
      BY ONLY <1>1, <3>3, Easy(u), u \in Nat DEF Easy
    <3> QED
      BY ONLY <1>3, <3>1, <3>2, <3>3
  <2> QED
    BY ONLY <1>1, <2>1, call \in Calls, u \in Nat, AsciiPlainly
<1>4. CASE call.from \in {"utf16", "utf32"} /\ call.to = "latin1"
  <2>1. u <= 255
    BY ONLY <1>1, <1>4, Easy(u) DEF Easy
  <2>2. u <= 65535 /\ Scalar(u)
    BY ONLY <2>1, u \in Nat DEF Scalar
  <2>3. Single(call.from, u) /\ Holds(call.to, u)
    BY ONLY <1>4, <2>1, <2>2 DEF Single, Holds
  <2>4. call.to # "none" => Len(Spelled(u)) = 1
    BY ONLY <1>1, <1>4, call \in Calls, u \in Nat, OneUnitEach
  <2> QED
    BY ONLY <2>3, <2>4 DEF Plainly
<1>5. CASE call.from \in {"utf16", "utf32"} /\ call.to = "utf8"
  <2>1. u < 128
    BY ONLY <1>1, <1>5, Easy(u) DEF Easy
  <2> QED
    BY ONLY <1>1, <2>1, call \in Calls, u \in Nat, AsciiPlainly
<1>6. CASE call.from = "utf16" /\ call.to \notin {"latin1", "utf8"}
  <2>1. ~ Surrogate(u)
    BY ONLY <1>1, <1>6, Easy(u) DEF Easy
  <2>2. u <= 65535
    BY ONLY <1>6, IsUnit(call.from, u) DEF IsUnit
  <2>3. Single(call.from, u)
    BY ONLY <1>6, <2>1, <2>2, u \in Nat, WordIs
  <2>4. Holds(call.to, u)
    BY ONLY <1>6 DEF Holds
  <2>5. call.to # "none" => Len(Spelled(u)) = 1
    BY ONLY <1>1, <1>6, call \in Calls, u \in Nat, OneUnitEach
  <2> QED
    BY ONLY <2>3, <2>4, <2>5 DEF Plainly
<1>7. CASE call.from = "utf32" /\ call.to = "utf16"
  <2>1. u < 65536 /\ ~ Surrogate(u)
    BY ONLY <1>1, <1>7, Easy(u) DEF Easy
  <2>2. Single(call.from, u) /\ Holds(call.to, u)
    BY ONLY <1>7, <2>1, u \in Nat DEF Single, Holds, Scalar, Surrogate
  <2>3. call.to # "none" => Len(Spelled(u)) = 1
    BY ONLY <1>1, <1>7, <2>1, call \in Calls, u \in Nat, OneUnitEach
  <2> QED
    BY ONLY <2>2, <2>3 DEF Plainly
<1>8. CASE call.from = "utf32" /\ call.to = "none"
  <2>1. u < 128
    BY ONLY <1>1, <1>8, Easy(u) DEF Easy
  <2> QED
    BY ONLY <1>1, <2>1, call \in Calls, u \in Nat, AsciiPlainly
<1> QED
  BY ONLY <1>1, <1>2, <1>3, <1>4, <1>5, <1>6, <1>7, <1>8 DEF Texts, Targets

(* A run of units each of which is a character.                            *)
LEMMA PlainlyRun ==
  ASSUME call \in Calls, call.mode \in Readers, NEW t, UnitsOf(call.from, t),
         NEW p \in Nat, NEW k \in Nat, p + k <= Len(t),
         \A i \in p + 1 .. p + k : Plainly(t[i]),
         NEW o, UnitsOf(call.to, o), Linked(call, t, p, o)
  PROVE  Linked(call, t, p + k, RunOut(o, t, p, k)) /\ UnitsOf(call.to, RunOut(o, t, p, k))
<1>1. t \in Seq(Nat) /\ Len(t) \in Nat
  BY UnitsIn
<1>2. ASSUME NEW i \in 1 .. k
      PROVE  StartsAt(call.from, call.to, t, p + i, 1, t[p + i]) /\ Alone(t, p + i)
  <2>1. PICK q : q = p + i
    OBVIOUS
  <2>2. q \in p + 1 .. p + k /\ q \in 1 .. Len(t)
    BY ONLY <1>1, <2>1, i \in 1 .. k, p \in Nat, k \in Nat, p + k <= Len(t), SMT
  <2>3. Plainly(t[q])
    BY ONLY <2>2, \A j \in p + 1 .. p + k : Plainly(t[j])
  <2>4. StartsAt(call.from, call.to, t, q, 1, t[q])
    BY ONLY <1>1, <2>2, <2>3, SingleStarts DEF Plainly
  <2>5. Alone(t, q)
    BY ONLY <2>3 DEF Plainly, Alone
  <2> QED
    BY ONLY <2>1, <2>4, <2>5
<1> QED
  BY ONLY <1>2, LinkRun, call \in Calls, call.mode \in Readers, UnitsOf(call.from, t), p \in Nat,
       k \in Nat,
          p + k <= Len(t), UnitsOf(call.to, o), Linked(call, t, p, o)

-----------------------------------------------------------------------------
(* Nothing is lost between the units read and the units written            *)

(* What a converter that does not look needs of its input.                 *)
Sure == call.mode = "valid" \/ JudgedAtEnd => Source.whole

LinkInv ==
  pc # "overrun" /\ call.mode \in Checking /\ Sure => Linked(call, WordsIn, pos, out)

LEMMA SameText ==
  ASSUME call' = call
  PROVE  /\ WordsIn' = WordsIn /\ Source' = Source /\ Size' = Size
         /\ JudgedAtEnd' <=> JudgedAtEnd
         /\ Sure' <=> Sure
<1>1. WordsIn' = WordsIn
  BY DEF WordsIn, Words, Swap
<1>2. Source' = Source
  BY <1>1 DEF Source
<1>3. JudgedAtEnd' <=> JudgedAtEnd
  BY DEF JudgedAtEnd
<1>4. Size' = Size
  BY DEF Size
<1> QED
  BY ONLY <1>1, <1>2, <1>3, <1>4, call' = call DEF Sure

LEMMA LinkedThen ==
  ASSUME call' = call, call.mode \in Checking /\ Sure => Linked(call, WordsIn, pos', out')
  PROVE  LinkInv'
<1>1. WordsIn' = WordsIn /\ (Sure' <=> Sure)
  BY SameText
<1> QED
  BY ONLY <1>1, call' = call,
       call.mode \in Checking /\ Sure => Linked(call, WordsIn, pos', out') DEF LinkInv

LEMMA LinkStays ==
  ASSUME LinkInv, pc # "overrun", call' = call, pos' = pos, out' = out
  PROVE  LinkInv'
<1>1. call.mode \in Checking /\ Sure => Linked(call, WordsIn, pos', out')
  BY DEF LinkInv
<1> QED
  BY <1>1, LinkedThen

LEMMA LinkOverrun ==
  ASSUME pc' = "overrun"
  PROVE  LinkInv'
BY DEF LinkInv

LEMMA LinkOfInit ==
  ASSUME Init
  PROVE  LinkInv
<1>1. call \in Calls /\ pos = 0 /\ out = << >>
  BY DEF Init
<1>2. UnitsOf(call.from, WordsIn)
  BY ONLY <1>1, WordsInFacts
<1>3. call.mode \in Checking => call.mode \in Readers
  BY DEF Checking, Readers
<1>4. call.mode \in Readers => Linked(call, WordsIn, 0, << >>)
  BY ONLY <1>1, <1>2, LinkStart
<1> QED
  BY ONLY <1>1, <1>3, <1>4 DEF LinkInv

LEMMA LinkOfStill ==
  ASSUME TypeInv, LinkInv,
         Refuse \/ Enter \/ Inspect \/ Full \/ Reject \/ GiveUp \/ CutShort \/ Conclude \/ UNCHANGED vars
  PROVE  LinkInv'
<1>1. CASE UNCHANGED vars
  <2>1. call' = call /\ pos' = pos /\ out' = out /\ pc' = pc
    BY <1>1 DEF vars
  <2>2. CASE pc = "overrun"
    BY ONLY <2>1, <2>2, LinkOverrun
  <2>3. CASE pc # "overrun"
    BY ONLY <2>1, <2>3, LinkInv, LinkStays
  <2> QED
    BY <2>2, <2>3
<1>2. CASE Refuse \/ Enter \/ Inspect \/ Full \/ Reject \/ GiveUp \/ CutShort \/ Conclude
  <2>1. pc \in {"call", "scalar"} /\ call' = call /\ pos' = pos /\ out' = out
    BY <1>2 DEF Refuse, Enter, Inspect, Full, Reject, GiveUp, CutShort, Conclude, Judged, Looping
  <2> QED
    BY ONLY <2>1, LinkInv, LinkStays
<1> QED
  BY <1>1, <1>2

(* In a call that neither repairs nor exchanges bytes the loop reads the   *)
(* text itself.                                                            *)
LEMMA ReadsText ==
  ASSUME TypeInv, call.mode \in Checking
  PROVE  /\ Input = WordsIn /\ UnitsOf(call.from, WordsIn) /\ Len(WordsIn) = Size
         /\ Size \in Nat /\ WordsIn \in Seq(Nat)
         /\ call.mode \in Readers /\ call.mode # "swap" /\ call.from \in Texts
         /\ call \in Calls /\ UnitsOf(call.to, out) /\ call.to \in Targets \cup {"none"}
<1>1. call \in Calls /\ UnitsOf(call.to, out)
  BY DEF TypeInv
<1>2. call.mode \in Readers /\ call.mode \notin {"swap", "wellFormed"}
  BY DEF Checking, Readers
<1>3. ~ call.inPlace
  <2>1. call.inPlace \in BOOLEAN /\ (call.inPlace => call.mode \in {"wellFormed", "swap"})
    BY ONLY <1>1, OfferedIs, CallFacts
  <2> QED
    BY ONLY <1>2, <2>1
<1>4. Input = WordsIn
  BY ONLY <1>1, <1>3, InputIs
<1>5. UnitsOf(call.from, WordsIn) /\ Len(WordsIn) = Size /\ Size \in Nat /\ WordsIn \in Seq(Nat)
  BY ONLY <1>1, WordsInFacts
<1>6. call.from \in Texts /\ call.to \in Targets \cup {"none"}
  BY ONLY <1>1, <1>2, OfferedIs
<1> QED
  BY ONLY <1>1, <1>2, <1>4, <1>5, <1>6

LEMMA RunFromNothing ==
  ASSUME NEW t, NEW n \in Nat, NEW u, u = [i \in 1 .. n |-> Spelled(t[i])[1]], call.to # "none",
         u \in Seq(Nat)
  PROVE  RunOut(<< >>, t, 0, n) = u
<1>1. Firsts(t, 0, n) = u
  <2>1. \A i \in 1 .. n : 0 + i = i
    OBVIOUS
  <2> QED
    BY ONLY <2>1, u = [i \in 1 .. n |-> Spelled(t[i])[1]] DEF Firsts
<1>2. << >> \o u = u
  BY ONLY u \in Seq(Nat), ConcatEmptySeq
<1> QED
  BY ONLY <1>1, <1>2, call.to # "none" DEF RunOut

-----------------------------------------------------------------------------
(* The kernels by what they do *)

KernelBegins(n, units) ==
  /\ n \in 0 .. Size /\ n \in Nat /\ base = 0 /\ pos = 0 /\ out = << >> /\ pc = "kernel"
  /\ call' = call /\ base' = n /\ pos' = n
  /\ \A i \in 1 .. n : Easy(Input[i])
  /\ UnitsOf(call.to, units)
  /\ call.to = "none" => units = << >>
  /\ call.to # "none" => Len(units) = n /\ units = [i \in 1 .. n |-> Spelled(Input[i])[1]]

KernelEnds(n, units) ==
  \/ n > call.room /\ call.to # "none" /\ pc' = "overrun" /\ out' = out /\ res' = res
  \/ /\ ~ (n > call.room /\ call.to # "none") /\ out' = units
     /\ n = Size /\ call.to # "none" /\ Answer("Success", n)
  \/ /\ ~ (n > call.room /\ call.to # "none") /\ out' = units /\ res' = res
     /\ ~ (n = Size /\ call.to # "none")
     /\ pc' = IF call.room - Len(units) < Required(RestAfter(n)) THEN "panicked" ELSE "scalar"

LEMMA KernelStep ==
  ASSUME TypeInv, Kernel
  PROVE  \E n, units : KernelBegins(n, units) /\ KernelEnds(n, units)
<1>0. /\ call \in Calls /\ UnitsOf(call.to, out) /\ Size \in Nat
      /\ base = 0 /\ pos = 0 /\ out = << >> /\ call' = call /\ pc = "kernel"
  BY CallFacts DEF TypeInv, Kernel
<1>1. PICK n \in KernelStops :
        /\ base' = n /\ pos' = n
        /\ IF n > call.room /\ call.to # "none" THEN pc' = "overrun" /\ UNCHANGED << out, res >>
           ELSE LET units == IF call.to = "none" THEN << >> ELSE [i \in 1 .. n |-> Spelled(Input[i])[1]]
                IN  /\ out' = units
                    /\ IF n = Size /\ call.to # "none"
                       THEN Answer("Success", n)
                       ELSE /\ pc' = IF call.room - Len(units) < Required(RestAfter(n))
                                     THEN "panicked" ELSE "scalar"
                            /\ UNCHANGED res
  BY Zenon DEF Kernel
<1>2. n \in pos .. Size /\ \A i \in pos + 1 .. n : Easy(Input[i])
  BY Zenon DEF KernelStops
<1>3. n \in 0 .. Size /\ n \in Nat /\ \A i \in 1 .. n : Easy(Input[i])
  <2>1. n \in 0 .. Size /\ n \in Nat /\ pos + 1 = 1
    BY ONLY <1>0, <1>2
  <2> QED
    BY ONLY <1>2, <2>1
<1>4. PICK units : units = IF call.to = "none" THEN << >> ELSE [i \in 1 .. n |-> Spelled(Input[i])[1]]
  OBVIOUS
<1>5. /\ UnitsOf(call.to, units) /\ (call.to = "none" => units = << >>)
      /\ call.to # "none" => Len(units) = n /\ units = [i \in 1 .. n |-> Spelled(Input[i])[1]]
  <2>1. CASE call.to = "none"
    BY ONLY <1>4, <2>1, NoUnits
  <2>2. CASE call.to # "none"
    <3>1. units = FirstUnits(0, n)
      BY ONLY <1>0, <1>3, <1>4, <2>2, FirstUnitsFrom0
    <3>2. 0 \in Nat /\ 0 + n <= Size
      BY ONLY <1>0, <1>3, SMT
    <3>3. UnitsOf(call.to, units) /\ Len(units) = n
      BY ONLY <1>0, <1>3, <2>2, <3>1, <3>2, FirstUnitsType
    <3> QED
      BY ONLY <1>4, <2>2, <3>3
  <2> QED
    BY <2>1, <2>2
<1>6. KernelBegins(n, units)
  BY ONLY <1>0, <1>1, <1>3, <1>5 DEF KernelBegins
<1>7. KernelEnds(n, units)
  <2>1. IF n > call.room /\ call.to # "none" THEN pc' = "overrun" /\ out' = out /\ res' = res
        ELSE /\ out' = units
             /\ IF n = Size /\ call.to # "none"
                THEN Answer("Success", n)
                ELSE /\ pc' = IF call.room - Len(units) < Required(RestAfter(n))
                              THEN "panicked" ELSE "scalar"
                     /\ res' = res
    BY ONLY <1>1, <1>4
  <2> QED
    BY ONLY <2>1, Zenon DEF KernelEnds
<1> QED
  BY ONLY <1>6, <1>7

LEMMA LinkOfKernel ==
  ASSUME TypeInv, LinkInv, Kernel
  PROVE  LinkInv'
<1>1. PICK n, units : KernelBegins(n, units) /\ KernelEnds(n, units)
  BY KernelStep
<1>2. CASE pc' = "overrun"
  BY ONLY <1>2, LinkOverrun
<1>3. CASE pc' # "overrun"
  <2>1. out' = units /\ pos' = n /\ call' = call
    BY ONLY <1>1, <1>3 DEF KernelBegins, KernelEnds
  <2>2. SUFFICES ASSUME call.mode \in Checking, Sure PROVE Linked(call, WordsIn, pos', out')
    BY <2>1, LinkedThen
  <2>3. /\ Input = WordsIn /\ UnitsOf(call.from, WordsIn) /\ Len(WordsIn) = Size /\ WordsIn \in Seq(Nat)
        /\ Size \in Nat /\ call.mode \in Readers /\ call \in Calls
    BY ONLY TypeInv, call.mode \in Checking, ReadsText
  <2>4. PICK t : t = WordsIn
    OBVIOUS
  <2>5. /\ n \in 0 .. Size /\ n \in Nat /\ UnitsOf(call.to, units)
        /\ \A i \in 1 .. n : Easy(t[i])
        /\ call.to = "none" => units = << >>
        /\ call.to # "none" => units = [i \in 1 .. n |-> Spelled(t[i])[1]]
    BY ONLY <1>1, <2>3, <2>4 DEF KernelBegins
  <2>6. \A i \in 0 + 1 .. 0 + n : Plainly(t[i])
    <3>1. 0 + 1 = 1 /\ 0 + n = n /\ (\A i \in 1 .. n : i \in 1 .. Size)
      BY ONLY <2>3, <2>5
    <3>2. \A i \in 1 .. Size : t[i] \in Nat /\ IsUnit(call.from, t[i])
      BY ONLY <2>3, <2>4, UnitsIn
    <3>3. \A i \in 1 .. n : Plainly(t[i])
      BY ONLY <2>3, <2>5, <3>1, <3>2, call.mode \in Checking, EasyPlainly
    <3> QED
      BY ONLY <3>1, <3>3
  <2>7. 0 + n <= Len(t) /\ 0 + n = n /\ 0 \in Nat
    BY ONLY <2>3, <2>4, <2>5
  <2>8. UnitsOf(call.to, << >>) /\ Linked(call, t, 0, << >>)
    BY ONLY <2>3, <2>4, NoUnits, LinkStart
  <2>9. Linked(call, t, 0 + n, RunOut(<< >>, t, 0, n))
    BY ONLY <2>3, <2>4, <2>5, <2>6, <2>7, <2>8, PlainlyRun
  <2>10. RunOut(<< >>, t, 0, n) = units
    <3>1. CASE call.to = "none"
      BY ONLY <2>5, <3>1 DEF RunOut
    <3>2. CASE call.to # "none"
      <4>1. units \in Seq(Nat)
        BY ONLY <2>5, UnitsIn
      <4> QED
        BY ONLY <2>5, <3>2, <4>1, RunFromNothing
    <3> QED
      BY <3>1, <3>2
  <2> QED
    BY ONLY <2>1, <2>4, <2>7, <2>9, <2>10
<1> QED
  BY <1>2, <1>3

-----------------------------------------------------------------------------
(* The kernel that is resumed *)

(* Clean groups from pos to n and, if there is one, the character behind   *)
(* them, which ends at last.                                               *)
ResumedBegins(n, last, part, rest) ==
  /\ call.from = "latin1" /\ call.to = "utf8" /\ base = 0 /\ pc = "kernel" /\ call' = call
  /\ base' = base /\ res' = res /\ pos' = last
  /\ n \in pos .. Size /\ n \in Nat /\ last \in n .. Size /\ last \in Nat
  /\ \A i \in pos + 1 .. n : Easy(Input[i])
  /\ part = SubSeq(Input, pos + 1, n)
  /\ \/ n < Size /\ last = n + 1 /\ rest = Spelled(Input[last])
     \/ n = Size /\ last = n /\ rest = << >>

LEMMA ResumedStep ==
  ASSUME TypeInv, ResumedKernel
  PROVE  \E n, last, part, rest : /\ ResumedBegins(n, last, part, rest)
                                  /\ Put(part \o rest, IF last = Size THEN "scalar" ELSE "kernel")
<1>0. /\ base \in Nat /\ pos \in base .. Size /\ Size \in Nat /\ base = 0
      /\ pc = "kernel" /\ Resumes /\ call' = call /\ base' = base /\ res' = res
  BY CallFacts DEF TypeInv, ResumedKernel
<1>1. PICK n \in KernelStops :
        LET last == IF n < Size THEN n + 1 ELSE n
            units == SubSeq(Input, pos + 1, n) \o (IF n < Size THEN Spelled(Input[last]) ELSE << >>)
        IN  Put(units, IF last = Size THEN "scalar" ELSE "kernel") /\ pos' = last
  BY Zenon DEF ResumedKernel
<1>2. n \in pos .. Size /\ \A i \in pos + 1 .. n : Easy(Input[i])
  BY Zenon DEF KernelStops
<1>3. n \in Nat
  BY ONLY <1>0, <1>2, SMT
<1>4. PICK last : last = IF n < Size THEN n + 1 ELSE n
  OBVIOUS
<1>5. PICK rest : rest = IF n < Size THEN Spelled(Input[last]) ELSE << >>
  OBVIOUS
<1>6. PICK part : part = SubSeq(Input, pos + 1, n)
  OBVIOUS
<1>7. Put(part \o rest, IF last = Size THEN "scalar" ELSE "kernel") /\ pos' = last
  BY ONLY <1>1, <1>4, <1>5, <1>6, Zenon
<1>8. last \in n .. Size /\ last \in Nat /\ (n < Size \/ n = Size)
  BY ONLY <1>0, <1>2, <1>3, <1>4, SMT
<1>9. \/ n < Size /\ last = n + 1 /\ rest = Spelled(Input[last])
      \/ n = Size /\ last = n /\ rest = << >>
  <2>1. CASE n < Size
    BY ONLY <1>4, <1>5, <2>1
  <2>2. CASE n = Size
    BY ONLY <1>0, <1>4, <1>5, <2>2
  <2> QED
    BY ONLY <1>8, <2>1, <2>2
<1>10. call.from = "latin1" /\ call.to = "utf8"
  BY <1>0 DEF Resumes
<1>11. ResumedBegins(n, last, part, rest)
  BY ONLY <1>0, <1>2, <1>3, <1>6, <1>7, <1>8, <1>9, <1>10 DEF ResumedBegins
<1> QED
  BY ONLY <1>7, <1>11

LEMMA PutIs ==
  ASSUME NEW u, NEW next, Put(u, next)
  PROVE  \/ out' = out \o u /\ pc' = next
         \/ pc' = "overrun" /\ out' = out /\ ~ (Len(out) + Len(u) <= call.room)
BY Zenon DEF Put

(* OctetText below 128 are spelled as they are.                                *)
LEMMA AsciiFirst ==
  ASSUME call.to = "utf8", call.mode # "swap", NEW u \in Nat, u < 128
  PROVE  Spelled(u)[1] = u
<1>1. Spelled(u) = UTF8Units(u)
  BY ONLY call.to = "utf8", call.mode # "swap" DEF Spelled
<1>2. UTF8Units(u) = << u >>
  BY ONLY u \in Nat, u < 128 DEF UTF8Units
<1> QED
  BY ONLY <1>1, <1>2

LEMMA CopyIsFirsts ==
  ASSUME call.to = "utf8", call.mode # "swap", NEW t \in Seq(Nat), NEW p \in Nat, NEW k \in Nat,
         p + k <= Len(t), \A i \in p + 1 .. p + k : t[i] < 128
  PROVE  SubSeq(t, p + 1, p + k) = Firsts(t, p, k) /\ Firsts(t, p, k) \in Seq(Nat)
<1>1. Len(t) \in Nat /\ \A i \in 1 .. Len(t) : t[i] \in Nat
  BY ElementOfSeq, LenProperties
<1>2. PICK f : f = Firsts(t, p, k)
  OBVIOUS
<1>3. f = [i \in 1 .. k |-> Spelled(t[p + i])[1]]
  BY ONLY <1>2 DEF Firsts
<1>4. \A i \in 1 .. k : Spelled(t[p + i])[1] = t[p + i] /\ t[p + i] \in Nat
  <2> TAKE i \in 1 .. k
  <2>1. PICK q : q = p + i
    OBVIOUS
  <2>2. q \in p + 1 .. p + k /\ q \in 1 .. Len(t)
    BY ONLY <1>1, <2>1, p \in Nat, k \in Nat, i \in 1 .. k, p + k <= Len(t), SMT
  <2>3. t[q] \in Nat /\ t[q] < 128
    BY ONLY <1>1, <2>2, \A j \in p + 1 .. p + k : t[j] < 128
  <2> QED
    BY ONLY <2>1, <2>3, AsciiFirst, call.to = "utf8", call.mode # "swap"
<1>5. \A i \in 1 .. k : f[i] = t[p + i] /\ f[i] \in Nat
  <2>1. \A i \in 1 .. k : f[i] = Spelled(t[p + i])[1]
    BY ONLY <1>3
  <2> QED
    BY ONLY <1>4, <2>1, Zenon
<1>6. f \in Seq(Nat) /\ Len(f) = k
  <2>1. f = [i \in 1 .. k |-> f[i]]
    BY ONLY <1>3
  <2>2. f \in [1 .. k -> Nat]
    BY ONLY <1>5, <2>1
  <2> QED
    BY ONLY <2>2, k \in Nat, SeqDef, LenProperties
<1>7. PICK s : s = SubSeq(t, p + 1, p + k)
  OBVIOUS
<1>8. s \in Seq(Nat) /\ Len(s) = k /\ \A i \in 1 .. k : s[i] = t[p + i]
  <2>1. /\ p + 1 \in 1 .. Len(t) + 1 /\ p + k \in p + 1 - 1 .. Len(t) /\ p + k - (p + 1) + 1 = k
        /\ \A i \in 1 .. k : p + 1 + i - 1 = p + i
    BY ONLY <1>1, p \in Nat, k \in Nat, p + k <= Len(t), SMT
  <2> QED
    BY ONLY <1>1, <1>7, <2>1, t \in Seq(Nat), p \in Nat, k \in Nat, SMT
<1>9. s = f
  BY ONLY <1>5, <1>6, <1>8, SameSequence
<1> QED
  BY ONLY <1>2, <1>6, <1>7, <1>9

LEMMA LinkOfResumed ==
  ASSUME TypeInv, LinkInv, ResumedKernel
  PROVE  LinkInv'
<1>1. PICK n, last, part, rest :
        /\ ResumedBegins(n, last, part, rest)
        /\ Put(part \o rest, IF last = Size THEN "scalar" ELSE "kernel")
  BY ResumedStep
<1>2. CASE pc' = "overrun"
  BY ONLY <1>2, LinkOverrun
<1>3. CASE pc' # "overrun"
  <2>1. out' = out \o (part \o rest)
    BY ONLY <1>1, <1>3, PutIs
  <2>2. pos' = last /\ call' = call /\ pc = "kernel"
    BY ONLY <1>1 DEF ResumedBegins
  <2> SUFFICES ASSUME call.mode \in Checking, Sure PROVE Linked(call, WordsIn, pos', out')
    BY <2>2, LinkedThen
  <2>4. /\ Input = WordsIn /\ UnitsOf(call.from, WordsIn) /\ Len(WordsIn) = Size /\ WordsIn \in Seq(Nat)
        /\ Size \in Nat /\ call.mode \in Readers /\ call \in Calls /\ call.mode # "swap"
        /\ UnitsOf(call.to, out)
    BY ONLY TypeInv, call.mode \in Checking, ReadsText
  <2>5. PICK t : t = WordsIn
    OBVIOUS
  <2>6. /\ call.from = "latin1" /\ call.to = "utf8"
        /\ n \in pos .. Size /\ n \in Nat /\ last \in n .. Size /\ last \in Nat
        /\ \A i \in pos + 1 .. n : Easy(t[i])
        /\ part = SubSeq(t, pos + 1, n)
        /\ \/ n < Size /\ last = n + 1 /\ rest = Spelled(t[last])
           \/ n = Size /\ last = n /\ rest = << >>
    BY ONLY <1>1, <2>4, <2>5 DEF ResumedBegins
  <2>7. pos \in Nat
    BY DEF TypeInv
  <2>8. PICK k \in Nat : n = pos + k
    <3>1. n - pos \in Nat /\ n = pos + (n - pos)
      BY ONLY <2>4, <2>6, <2>7, SMT
    <3> QED
      BY <3>1
  <2>9. \A i \in pos + 1 .. pos + k : t[i] \in Nat /\ t[i] < 128 /\ Plainly(t[i])
    <3> TAKE i \in pos + 1 .. pos + k
    <3>1. i \in 1 .. Len(t) /\ i \in pos + 1 .. n
      BY ONLY <2>4, <2>5, <2>6, <2>7, <2>8, i \in pos + 1 .. pos + k, SMT
    <3>2. t[i] \in Nat
      BY ONLY <2>4, <2>5, <3>1, UnitsIn
    <3>3. Easy(t[i])
      BY ONLY <2>6, <3>1
    <3>4. t[i] < 128
      <4>1. PICK u : u = t[i]
        OBVIOUS
      <4>2. Easy(u) <=> (call.to # "utf8" \/ u < 128)
        BY ONLY <2>4, <2>6 DEF Easy
      <4> QED
        BY ONLY <2>6, <3>3, <4>1, <4>2
    <3>5. call.from \in Texts
      BY ONLY <2>6 DEF Texts
    <3> QED
      BY ONLY <2>4, <3>2, <3>4, <3>5, AsciiPlainly
  <2>10. pos + k <= Len(t) /\ t \in Seq(Nat) /\ UnitsOf(call.from, t) /\ Linked(call, t, pos, out)
    <3>1. Linked(call, WordsIn, pos, out)
      BY <2>2 DEF LinkInv
    <3>2. pos + k <= Size
      BY ONLY <2>4, <2>6, <2>7, <2>8, SMT
    <3> QED
      BY ONLY <2>4, <2>5, <3>1, <3>2
  <2>11. part = Firsts(t, pos, k) /\ part \in Seq(Nat)
    <3>1. part = SubSeq(t, pos + 1, pos + k)
      BY ONLY <2>6, <2>8
    <3>2. \A i \in pos + 1 .. pos + k : t[i] < 128
      BY ONLY <2>9
    <3> QED
      <4>1. SubSeq(t, pos + 1, pos + k) = Firsts(t, pos, k) /\ Firsts(t, pos, k) \in Seq(Nat)
        BY ONLY <2>4, <2>6, <2>7, <2>10, k \in Nat, <3>2, CopyIsFirsts
      <4> QED
        BY ONLY <3>1, <4>1, Zenon
  <2>12. PICK o : o = RunOut(out, t, pos, k)
    OBVIOUS
  <2>13. o = out \o part
    BY ONLY <2>6, <2>11, <2>12 DEF RunOut
  <2>14. Linked(call, t, n, o) /\ UnitsOf(call.to, o)
    BY ONLY <2>4, <2>7, <2>8, <2>9, <2>10, <2>12, PlainlyRun
  <2>15. CASE n = Size /\ last = n /\ rest = << >>
    <3>1. part \o << >> = part
      BY ONLY <2>11, ConcatEmptySeq
    <3> QED
      BY ONLY <2>1, <2>2, <2>5, <2>13, <2>14, <2>15, <3>1
  <2>16. CASE n < Size /\ last = n + 1 /\ rest = Spelled(t[last])
    <3>1. n \in 0 .. Len(t) /\ n < Len(t) /\ last \in 1 .. Len(t)
      BY ONLY <2>4, <2>5, <2>6, <2>16, SMT
    <3>2. t[last] \in Nat /\ IsUnit("latin1", t[last])
      BY ONLY <2>6, <2>10, <3>1, UnitsIn
    <3>3. Single(call.from, t[last]) /\ Holds(call.to, t[last])
      BY ONLY <2>6, <3>2 DEF Single, Holds, IsUnit
    <3>4. StartsAt(call.from, call.to, t, n + 1, 1, t[last])
      BY ONLY <2>10, <2>16, <3>1, <3>3, SingleStarts
    <3>5. Linked(call, t, n + 1, o \o Spelled(t[last]))
      BY ONLY <2>4, <2>10, <2>14, <3>1, <3>4, LinkMore
    <3>6. out \o (part \o rest) = o \o rest
      <4>1. UnitsOf(call.to, rest)
        BY ONLY <2>4, <2>16, <3>2, SpelledType
      <4>2. out \in Seq(Nat) /\ rest \in Seq(Nat)
        BY ONLY <2>4, <4>1, UnitsIn
      <4>3. out \o (part \o rest) = (out \o part) \o rest
        BY ONLY <2>11, <4>2, JoinAssociative
      <4> QED
        BY ONLY <2>13, <4>3
    <3> QED
      BY ONLY <2>1, <2>2, <2>5, <2>16, <3>5, <3>6
  <2> QED
    BY ONLY <2>6, <2>15, <2>16
<1> QED
  BY <1>2, <1>3

-----------------------------------------------------------------------------
(* The loop *)

(* A block of ASCII, by what it does.                                      *)
BlockBegins(units) ==
  /\ call.from \in {"ascii", "utf8"} /\ pc = "scalar" /\ pos < Size
  /\ call' = call /\ base' = base /\ res' = res /\ pos' = pos + BlockSize
  /\ pos + BlockSize <= Size
  /\ \A i \in pos + 1 .. pos + BlockSize : Input[i] < 128
  /\ units = IF call.to = "none" THEN << >> ELSE [i \in 1 .. BlockSize |-> Spelled(Input[pos + i])[1]]

LEMMA BlockStep ==
  ASSUME AsciiBlock
  PROVE  \E units : BlockBegins(units) /\ Put(units, "scalar")
<1>1. PICK units : units = IF call.to = "none" THEN << >> ELSE [i \in 1 .. BlockSize |-> Spelled(Input[pos + i])[1]]
  OBVIOUS
<1>2. Looping /\ BlockAhead /\ Put(units, "scalar") /\ pos' = pos + BlockSize /\ UNCHANGED << call, base, res >>
  BY ONLY AsciiBlock, <1>1, Zenon DEF AsciiBlock
<1>3. BlockBegins(units)
  BY ONLY <1>1, <1>2, Zenon DEF BlockBegins, Looping, BlockAhead, Here
<1> QED
  BY <1>2, <1>3

LEMMA LinkOfBlock ==
  ASSUME TypeInv, LinkInv, AsciiBlock
  PROVE  LinkInv'
<1>1. PICK units : BlockBegins(units) /\ Put(units, "scalar")
  BY BlockStep
<1>2. CASE pc' = "overrun"
  BY ONLY <1>2, LinkOverrun
<1>3. CASE pc' # "overrun"
  <2>1. out' = out \o units
    BY ONLY <1>1, <1>3, PutIs
  <2>2. pos' = pos + BlockSize /\ call' = call /\ pc = "scalar"
    BY ONLY <1>1 DEF BlockBegins
  <2> SUFFICES ASSUME call.mode \in Checking, Sure PROVE Linked(call, WordsIn, pos', out')
    BY <2>2, LinkedThen
  <2>4. /\ Input = WordsIn /\ UnitsOf(call.from, WordsIn) /\ Len(WordsIn) = Size /\ WordsIn \in Seq(Nat)
        /\ Size \in Nat /\ call.mode \in Readers /\ call \in Calls /\ call.from \in Texts
        /\ UnitsOf(call.to, out)
    BY ONLY TypeInv, call.mode \in Checking, ReadsText
  <2>5. PICK t : t = WordsIn
    OBVIOUS
  <2>6. PICK k \in Nat : k = BlockSize
    BY BlockSizeIs
  <2>7. pos + k <= Len(t) /\ pos \in Nat /\ UnitsOf(call.from, t) /\ Linked(call, t, pos, out)
    <3>1. pos + BlockSize <= Size
      BY ONLY <1>1 DEF BlockBegins
    <3>2. Linked(call, WordsIn, pos, out)
      BY <2>2 DEF LinkInv
    <3>3. pos \in Nat
      BY DEF TypeInv
    <3> QED
      BY ONLY <2>4, <2>5, <2>6, <3>1, <3>2, <3>3
  <2>8. \A i \in pos + 1 .. pos + k : Plainly(t[i])
    <3> TAKE i \in pos + 1 .. pos + k
    <3>1. i \in 1 .. Len(t)
      BY ONLY <2>4, <2>5, <2>7, i \in pos + 1 .. pos + k, k \in Nat, SMT
    <3>2. t[i] \in Nat
      BY ONLY <2>7, <3>1, UnitsIn
    <3>3. t[i] < 128
      <4>1. \A j \in pos + 1 .. pos + BlockSize : t[j] < 128
        BY ONLY <1>1, <2>4, <2>5 DEF BlockBegins
      <4> QED
        BY ONLY <2>6, <4>1, i \in pos + 1 .. pos + k
    <3> QED
      BY ONLY <2>4, <3>2, <3>3, AsciiPlainly
  <2>9. Linked(call, t, pos + k, RunOut(out, t, pos, k))
    BY ONLY <2>4, <2>7, <2>8, k \in Nat, PlainlyRun
  <2>10. RunOut(out, t, pos, k) = out \o units
    <3>1. CASE call.to = "none"
      <4>1. units = << >>
        BY ONLY <1>1, <3>1 DEF BlockBegins
      <4>2. out \in Seq(Nat)
        BY ONLY <2>4, UnitsIn
      <4>3. out \o << >> = out
        BY ONLY <4>2, ConcatEmptySeq
      <4> QED
        BY ONLY <3>1, <4>1, <4>3 DEF RunOut
    <3>2. CASE call.to # "none"
      <4>1. units = [i \in 1 .. k |-> Spelled(t[pos + i])[1]]
        BY ONLY <1>1, <2>4, <2>5, <2>6, <3>2 DEF BlockBegins
      <4> QED
        BY ONLY <3>2, <4>1 DEF RunOut, Firsts
    <3> QED
      BY <3>1, <3>2
  <2> QED
    BY ONLY <2>1, <2>2, <2>5, <2>6, <2>9, <2>10
<1> QED
  BY <1>2, <1>3

(* The step over one character.                                            *)
CharacterBegins(u) ==
  /\ pc = "scalar" /\ pos < Size /\ ~ NoRoom
  /\ Judgement(Input, pos + 1) = "Success"
  /\ u = Converted(Input, pos + 1)
  /\ pos' = pos + Width(Input, pos + 1)
  /\ call' = call /\ base' = base /\ res' = res

LEMMA CharacterStep ==
  ASSUME Character
  PROVE  \E u : CharacterBegins(u) /\ Put(u, "scalar")
<1>1. PICK u : u = Converted(Input, Here)
  OBVIOUS
<1>2. /\ Looping /\ ~ NoRoom /\ Judgement(Input, Here) = "Success" /\ Put(u, "scalar")
      /\ pos' = pos + Width(Input, Here) /\ UNCHANGED << call, base, res >>
  BY ONLY Character, <1>1, Zenon DEF Character, Judged
<1>3. CharacterBegins(u)
  BY ONLY <1>1, <1>2, Zenon DEF CharacterBegins, Looping, Here
<1> QED
  BY <1>2, <1>3

(* A converter that does not refuse the unit at p steps over a character,  *)
(* if it looks or has reason not to.                                       *)
LEMMA AcceptedStarts ==
  ASSUME call \in Calls, call.mode \in Checking, NEW t, UnitsOf(call.from, t),
         NEW p \in 0 .. Len(t), p < Len(t), Judgement(t, p + 1) = "Success",
         call.mode = "valid" \/ JudgedAtEnd => After(call.from, call.to, t, p).whole
  PROVE  StartsAt(call.from, call.to, t, p + 1, Width(t, p + 1), CodePoint(t, p + 1))
<1>1. /\ call.from \in Texts /\ call.mode \in Readers /\ t \in Seq(Nat) /\ Len(t) \in Nat
  BY OfferedIs, UnitsIn DEF Checking, Readers
<1>2. PICK q \in 1 .. Len(t) : q = p + 1
  <2>1. p + 1 \in 1 .. Len(t)
    BY ONLY <1>1, p \in 0 .. Len(t), p < Len(t), SMT
  <2> QED
    BY <2>1
<1>3. Right(t, q)
  BY ONLY <1>1, call \in Calls, UnitsOf(call.from, t), q \in 1 .. Len(t), RightAny
<1>4. CASE call.mode = "valid" \/ JudgedAtEnd
  <2>1. CharactersAt(call.from, call.to, t, q) # {}
    BY ONLY <1>1, <1>2, <1>4, p \in 0 .. Len(t), p < Len(t),
            call.mode = "valid" \/ JudgedAtEnd => After(call.from, call.to, t, p).whole, AfterFault
  <2>2. PICK w, c : StartsAt(call.from, call.to, t, q, w, c)
    BY ONLY <2>1, NothingStarts
  <2>3. w = Width(t, q) /\ c = CodePoint(t, q)
    BY ONLY <1>3, <2>2 DEF Right
  <2> QED
    BY ONLY <1>2, <2>2, <2>3
<1>5. CASE ~ (call.mode = "valid" \/ JudgedAtEnd)
  <2>1. Judgement(t, q) = Verdict(t, q)
    BY ONLY <1>5 DEF Judgement
  <2>2. Verdict(t, q) = "Success"
    BY ONLY <1>2, <2>1, Judgement(t, p + 1) = "Success"
  <2> QED
    BY ONLY <1>2, <1>3, <2>2 DEF Right
<1> QED
  BY <1>4, <1>5

LEMMA LinkedWhole ==
  ASSUME NEW t, NEW p, NEW o, Linked(call, t, p, o)
  PROVE  /\ After(call.from, call.to, t, p).whole <=> Reading(call.from, call.to, t).whole
         /\ After(call.from, call.to, t, p).stop = Reading(call.from, call.to, t).stop
         /\ call.to # "none" =>
              OutLink(call, o, After(call.from, call.to, t, p).points, Reading(call.from, call.to, t).points)
BY ReadingIsAfter DEF Linked

LEMMA LinkOfCharacter ==
  ASSUME TypeInv, LinkInv, Character
  PROVE  LinkInv'
<1>1. PICK u : CharacterBegins(u) /\ Put(u, "scalar")
  BY CharacterStep
<1>2. CASE pc' = "overrun"
  BY ONLY <1>2, LinkOverrun
<1>3. CASE pc' # "overrun"
  <2>1. out' = out \o u
    BY ONLY <1>1, <1>3, PutIs
  <2>2. call' = call /\ pc = "scalar" /\ pos < Size
    BY ONLY <1>1 DEF CharacterBegins
  <2> SUFFICES ASSUME call.mode \in Checking, Sure PROVE Linked(call, WordsIn, pos', out')
    BY <2>2, LinkedThen
  <2>4. /\ Input = WordsIn /\ UnitsOf(call.from, WordsIn) /\ Len(WordsIn) = Size /\ WordsIn \in Seq(Nat)
        /\ Size \in Nat /\ call.mode \in Readers /\ call \in Calls
        /\ UnitsOf(call.to, out)
    BY ONLY TypeInv, call.mode \in Checking, ReadsText
  <2>5. PICK t : t = WordsIn
    OBVIOUS
  <2>6. /\ Judgement(t, pos + 1) = "Success" /\ u = Converted(t, pos + 1)
        /\ pos' = pos + Width(t, pos + 1)
    BY ONLY <1>1, <2>4, <2>5 DEF CharacterBegins
  <2>7. pos \in 0 .. Len(t) /\ pos < Len(t) /\ UnitsOf(call.from, t) /\ Linked(call, t, pos, out)
    <3>1. Linked(call, WordsIn, pos, out)
      BY <2>2 DEF LinkInv
    <3>2. pos \in Nat
      BY DEF TypeInv
    <3> QED
      BY ONLY <2>2, <2>4, <2>5, <3>1, <3>2
  <2>8. call.mode = "valid" \/ JudgedAtEnd => After(call.from, call.to, t, pos).whole
    <3>1. call.mode = "valid" \/ JudgedAtEnd => Reading(call.from, call.to, t).whole
      BY <2>5 DEF Sure, Source
    <3> QED
      BY ONLY <2>7, <3>1, LinkedWhole
  <2>9. StartsAt(call.from, call.to, t, pos + 1, Width(t, pos + 1), CodePoint(t, pos + 1))
    BY ONLY <2>4, <2>6, <2>7, <2>8, call.mode \in Checking, AcceptedStarts
  <2>10. Linked(call, t, pos + Width(t, pos + 1), out \o Spelled(CodePoint(t, pos + 1)))
    BY ONLY <2>4, <2>7, <2>9, LinkMore
  <2>11. Converted(t, pos + 1) = Spelled(CodePoint(t, pos + 1))
    <3>1. pos + 1 \in 1 .. Len(t)
      BY ONLY <2>4, <2>5, <2>7, SMT
    <3> QED
      BY ONLY <2>4, <2>7, <2>9, <3>1, ConvertedStarted
  <2> QED
    BY ONLY <2>1, <2>5, <2>6, <2>10, <2>11
<1> QED
  BY <1>2, <1>3

LEMMA LinkOfSubstitute ==
  ASSUME TypeInv, LinkInv, Substitute
  PROVE  LinkInv'
<1>1. call.mode \in {"replacement", "wellFormed"} /\ call' = call
  BY DEF Substitute
<1>2. ~ (call.mode \in Checking)
  BY ONLY <1>1 DEF Checking
<1> QED
  BY ONLY <1>1, <1>2, LinkedThen

LEMMA BoundaryLinked ==
  ASSUME call \in Calls, call.from = "utf8", call.to = "none", call.mode \in Readers,
         NEW t, UnitsOf(call.from, t), NEW s \in 0 .. Len(t), CleanText(t, s),
         NEW b \in 0 .. s, b = 0 \/ b = s \/ b + 1 \notin Tails(t, s)
  PROVE  Linked(call, t, b, << >>)
<1> DEFINE InReach(x) == x \in 0 .. s /\ (x = 0 \/ x = s \/ x + 1 \notin Tails(t, s))
           Unfit == {x \in 0 .. s : InReach(x) /\ ~ Linked(call, t, x, << >>)}
<1>0. t \in Seq(Nat) /\ Len(t) \in Nat /\ s \in Nat /\ \A i \in 1 .. s : i \in 1 .. Len(t)
  <2>1. t \in Seq(Nat) /\ Len(t) \in Nat
    BY UnitsIn
  <2> QED
    BY ONLY <2>1, s \in 0 .. Len(t), SMT
<1>1. Linked(call, t, 0, << >>)
  BY LinkStart
<1>2. UnitsOf(call.to, << >>)
  BY NoUnits
<1>3. Clean(Tails(t, s), Widths(t, s), s)
  BY ONLY <1>0, s \in 0 .. Len(t), CleanText(t, s), CleanIs
<1>4. ASSUME Unfit # {} PROVE FALSE
  <2>1. Unfit \in SUBSET Nat
    BY ONLY <1>0
  <2>2. PICK m \in Unfit : \A k \in Unfit : m <= k
    <3> HIDE DEF Unfit
    <3> QED BY ONLY <1>4, <2>1, LeastOf
  <2>3. m \in 0 .. s /\ InReach(m) /\ ~ Linked(call, t, m, << >>) /\ m # 0
    BY ONLY <1>1, m \in Unfit
  <2>4. m \in 1 .. s /\ (m = s \/ m + 1 \notin Tails(t, s)) /\ m \in Nat
    BY ONLY <1>0, <2>3, SMT
  <2>5. PICK p \in 1 .. m : p \notin Tails(t, s) /\ p + Widths(t, s)[p] = m + 1
    BY ONLY <1>0, <1>3, <2>4, LeadBefore
  <2>6. p \in 1 .. s /\ p - 1 \in 0 .. s /\ p - 1 + 1 = p /\ p - 1 < m /\ p - 1 \in Nat
    BY ONLY <1>0, <2>4, p \in 1 .. m, SMT
  <2>7. InReach(p - 1)
    BY ONLY <2>5, <2>6
  <2>8. p - 1 \notin Unfit
    <3> HIDE DEF Unfit
    <3> QED BY ONLY <2>2, <2>4, <2>6, SMT
  <2>9. PICK q \in 0 .. s : q = p - 1
    BY ONLY <2>6
  <2>10. Linked(call, t, q, << >>)
    BY ONLY <2>6, <2>7, <2>8, <2>9
  <2>11. ~ Continuation(t[p])
    BY ONLY <2>5, <2>6 DEF Tails
  <2>12. Led(t, s, p)
    BY ONLY <2>6, <2>11, CleanText(t, s), Zenon DEF CleanText
  <2>13. PICK w : w = LeadWidth(t[p])
    OBVIOUS
  <2>14. PICK c : StartsAt("utf8", "none", t, p, w, c)
    BY ONLY <2>12, <2>13 DEF Led
  <2>15. w \in 1 .. 4
    BY ONLY <2>12, <2>13 DEF Led
  <2>16. p + w = m + 1
    BY ONLY <2>5, <2>6, <2>13 DEF Widths
  <2>17. q \in 0 .. Len(t) /\ q < Len(t) /\ q + 1 = p /\ q + w = m
    BY ONLY <1>0, <2>4, <2>6, <2>9, <2>15, <2>16, q \in 0 .. s, s \in 0 .. Len(t), SMT
  <2>18. StartsAt(call.from, call.to, t, q + 1, w, c)
    BY ONLY <2>14, <2>17, call.from = "utf8", call.to = "none"
  <2>19. Linked(call, t, q + w, << >> \o Spelled(c))
    BY ONLY <1>2, <2>10, <2>17, <2>18, call \in Calls, call.mode \in Readers, UnitsOf(call.from, t),
         LinkMore
  <2>20. Spelled(c) = << >>
    <3>1. call.mode # "swap"
      BY DEF Readers
    <3> QED
      BY ONLY <3>1, call.to = "none" DEF Spelled
  <2>21. << >> \o << >> = << >>
    OBVIOUS
  <2>22. Linked(call, t, m, << >>)
    BY ONLY <2>17, <2>19, <2>20, <2>21
  <2> QED
    BY ONLY <2>3, <2>22
<1> QED
  BY ONLY <1>4, b \in 0 .. s, b = 0 \/ b = s \/ b + 1 \notin Tails(t, s)

LEMMA RewindLinked ==
  ASSUME call \in Calls, call.from = "utf8", call.to = "none", call.mode \in Readers,
         NEW t, UnitsOf(call.from, t), NEW n \in 0 .. Len(t), CleanRun(t, n),
         NEW r \in 0 .. n, RewindsTo(t, n, r)
  PROVE  Linked(call, t, r, << >>)
<1>0. t \in Seq(Nat) /\ Len(t) \in Nat /\ \A i \in 1 .. Len(t) : t[i] \in Nat
  BY UnitsIn
<1>1. PICK s \in 0 .. n :
        /\ \A p \in 1 .. s :
             IF Continuation(t[p])
             THEN \E q \in 1 .. p - 1 : q + LeadWidth(t[q]) > p
             ELSE UTF8Verdict(SubSeq(t, 1, s), p) = "Success"
        /\ n > s => /\ LeadWidth(t[s + 1]) > n - s
                    /\ \A p \in s + 2 .. n : Continuation(t[p])
  BY DEF CleanRun
<1>2. n \in Nat /\ s \in Nat /\ s <= n /\ s \in 0 .. Len(t)
  BY ONLY <1>0, n \in 0 .. Len(t), s \in 0 .. n, SMT
<1>3. CleanText(t, s)
  <2>1. \A p \in 1 .. s : UTF8Verdict(SubSeq(t, 1, s), p) = "Success" => Led(t, s, p)
    BY ONLY <1>0, <1>2, CleanLead
  <2>2. \A p \in 1 .. s : IF Continuation(t[p]) THEN \E q \in 1 .. p - 1 : q + LeadWidth(t[q]) > p
                          ELSE Led(t, s, p)
    <3> TAKE p \in 1 .. s
    <3>1. IF Continuation(t[p])
          THEN \E q \in 1 .. p - 1 : q + LeadWidth(t[q]) > p
          ELSE UTF8Verdict(SubSeq(t, 1, s), p) = "Success"
      BY ONLY <1>1, p \in 1 .. s, Zenon
    <3>2. UTF8Verdict(SubSeq(t, 1, s), p) = "Success" => Led(t, s, p)
      BY ONLY <2>1, p \in 1 .. s, Zenon
    <3> QED
      BY ONLY <3>1, <3>2, Zenon
  <2> QED
    BY ONLY <2>2, Zenon DEF CleanText
<1>4. PICK C : C = Tails(t, s)
  OBVIOUS
<1>5. PICK L : L = Widths(t, s)
  OBVIOUS
<1>6. PICK D : D = Tails(t, n)
  OBVIOUS
<1>7. Clean(C, L, s)
  BY ONLY <1>0, <1>2, <1>3, <1>4, <1>5, CleanIs
<1>8. \A i : i \in D <=> i \in 1 .. n /\ Continuation(t[i])
  BY ONLY <1>6 DEF Tails
<1>9. D \cap (1 .. s) = C
  BY ONLY <1>2, <1>4, <1>6 DEF Tails
<1>10. PICK l \in 0 .. 4 : n > s => s + 1 \notin D /\ l > n - s /\ \A p \in s + 2 .. n : p \in D
  <2>1. CASE n > s
    <3>1. LeadWidth(t[s + 1]) > n - s /\ \A p \in s + 2 .. n : Continuation(t[p])
      BY ONLY <1>1, <2>1
    <3>2. s + 1 \in 1 .. Len(t) /\ \A p \in s + 2 .. n : p \in 1 .. n
      BY ONLY <1>0, <1>2, <2>1, n \in 0 .. Len(t), SMT
    <3>3. t[s + 1] \in Nat
      BY ONLY <1>0, <3>2
    <3>4. LeadWidth(t[s + 1]) \in 0 .. 4 /\ (Continuation(t[s + 1]) => LeadWidth(t[s + 1]) = 0)
      BY ONLY <3>3, WidthRange
    <3>5. LeadWidth(t[s + 1]) # 0
      BY ONLY <1>2, <2>1, <3>1, <3>4, SMT
    <3>6. s + 1 \notin D
      BY ONLY <1>8, <3>4, <3>5
    <3>7. \A p \in s + 2 .. n : p \in D
      BY ONLY <1>8, <3>1, <3>2
    <3> QED
      BY ONLY <3>1, <3>4, <3>6, <3>7
  <2>2. CASE ~ (n > s)
    <3>1. 0 \in 0 .. 4
      OBVIOUS
    <3> QED
      BY ONLY <2>2, <3>1
  <2> QED
    BY <2>1, <2>2
<1>11. /\ r < n \/ n = 0
       /\ r + 6 >= n
       /\ n > 0 => r = 0 \/ r + 6 = n \/ r + 1 \notin D
       /\ \A i \in r + 2 .. n : i \in D
  <2>1. /\ r < n \/ n = 0
        /\ r + 1 + MaxRewind >= n
        /\ n > 0 => r = 0 \/ r + 1 + MaxRewind = n \/ ~ Continuation(t[r + 1])
        /\ \A i \in r + 1 .. n - 1 : Continuation(t[i + 1])
    BY DEF RewindsTo
  <2>2. r + 1 + MaxRewind = r + 6
    BY ONLY r \in 0 .. n, n \in 0 .. Len(t), <1>0 DEF MaxRewind
  <2>3. \A i \in r + 2 .. n : i \in D
    <3> TAKE i \in r + 2 .. n
    <3>1. PICK j \in r + 1 .. n - 1 : j + 1 = i
      <4>1. i - 1 \in r + 1 .. n - 1 /\ i - 1 + 1 = i
        BY ONLY <1>2, r \in 0 .. n, i \in r + 2 .. n, SMT
      <4> QED
        BY <4>1
    <3>2. Continuation(t[j + 1])
      BY ONLY <2>1, j \in r + 1 .. n - 1
    <3>3. i \in 1 .. n
      BY ONLY <1>2, r \in 0 .. n, i \in r + 2 .. n, SMT
    <3> QED
      BY ONLY <1>8, <3>1, <3>2, <3>3
  <2>4. ~ Continuation(t[r + 1]) => r + 1 \notin D
    BY ONLY <1>8
  <2> QED
    BY ONLY <2>1, <2>2, <2>3, <2>4
<1>12. r \in 0 .. s /\ (r = 0 \/ r = s \/ r + 1 \notin C)
  <2>1. Rewinding(s, n, C, D, l, r)
    BY ONLY <1>2, <1>9, <1>10, <1>11 DEF Rewinding
  <2>2. Restarts(s, C, r)
    BY ONLY <1>2, <1>7, <2>1, r \in 0 .. n, l \in 0 .. 4, RewindClean
  <2> QED
    BY ONLY <2>2 DEF Restarts
<1>13. r \in 0 .. s /\ (r = 0 \/ r = s \/ r + 1 \notin Tails(t, s))
  BY ONLY <1>4, <1>12, Zenon
<1> QED
  BY ONLY <1>2, <1>3, <1>13, call \in Calls, call.from = "utf8", call.to = "none",
          call.mode \in Readers, UnitsOf(call.from, t), BoundaryLinked, SMTT(30)

LEMMA LinkOfValidator ==
  ASSUME TypeInv, LinkInv, UTF8Kernel
  PROVE  LinkInv'
<1>1. /\ call.from = "utf8" /\ call.to = "none" /\ call' = call /\ out' = out /\ pc = "kernel"
      /\ \E n \in CleanRuns : base' = Rewound(n) /\ pos' = Rewound(n)
  BY DEF UTF8Kernel
<1>2. PICK n \in CleanRuns : pos' = Rewound(n)
  BY ONLY <1>1
<1>3. out = << >>
  <2>1. ~ Resumes
    BY <1>1 DEF Resumes
  <2> QED
    BY ONLY <1>1, <2>1, TypeInv DEF TypeInv
<1> SUFFICES ASSUME call.mode \in Checking, Sure PROVE Linked(call, WordsIn, pos', out')
  BY <1>1, LinkedThen
<1>4. /\ Input = WordsIn /\ UnitsOf(call.from, WordsIn) /\ Len(WordsIn) = Size
      /\ Size \in Nat /\ call.mode \in Readers /\ call \in Calls
  BY ONLY TypeInv, call.mode \in Checking, ReadsText
<1>5. PICK t : t = WordsIn
  OBVIOUS
<1>6. n \in 0 .. Size /\ CleanTo(n)
  BY ONLY n \in CleanRuns DEF CleanRuns
<1>7. CleanRun(t, n)
  BY ONLY <1>4, <1>5, <1>6, Zenon DEF CleanTo, CleanRun
<1>8. Rewound(n) \in 0 .. n /\ RewindsTo(t, n, Rewound(n))
  BY ONLY <1>4, <1>5, <1>6, RewoundIs
<1>9. Linked(call, t, Rewound(n), << >>)
  BY ONLY <1>1, <1>4, <1>5, <1>6, <1>7, <1>8, RewindLinked
<1> QED
  BY ONLY <1>1, <1>2, <1>3, <1>5, <1>9

-----------------------------------------------------------------------------
LEMMA LinkInvNext ==
  ASSUME TypeInv, LinkInv, [Next]_vars
  PROVE  LinkInv'
<1>1. CASE Next
  BY <1>1, LinkOfStill, LinkOfKernel, LinkOfResumed, LinkOfValidator, LinkOfBlock, LinkOfCharacter,
     LinkOfSubstitute DEF Next
<1>2. CASE UNCHANGED vars
  BY <1>2, LinkOfStill
<1> QED
  BY <1>1, <1>2

LEMMA LinkInvAlways == Spec => []LinkInv
<1>1. Init => LinkInv
  BY LinkOfInit
<1>2. TypeInv /\ LinkInv /\ [Next]_vars => LinkInv'
  BY LinkInvNext
<1> QED
  BY <1>1, <1>2, TypeInvAlways, PTL DEF Spec

(* The units counted once at least, and those counted once more for each   *)
(* bound they reach; a pair is counted twice too often where surrogates    *)
(* count for three bytes.                                                  *)
Basic(t) == {i \in DOMAIN t : /\ call.from = "utf8" => ~ Continuation(t[i])
                              /\ call.from = "utf16" /\ call.to = "utf32" => ~ Low(t[i])}

Second(t) == {i \in DOMAIN t :
                \/ call.from = "utf8" /\ call.to = "utf16" /\ t[i] >= 240
                \/ call.from \in {"latin1", "utf16", "utf32"} /\ call.to = "utf8" /\ t[i] >= 128
                \/ call.from = "utf32" /\ call.to = "utf16" /\ t[i] >= 65536}

Third(t) == {i \in DOMAIN t :
               /\ call.from \in {"utf16", "utf32"} /\ call.to = "utf8" /\ t[i] >= 2048
               /\ call.from = "utf16" /\ call.mode # "replacement" => ~ Surrogate(t[i])}

Fourth(t) == {i \in DOMAIN t : call.from = "utf32" /\ call.to = "utf8" /\ t[i] >= 65536}

Paired(t) == {i \in DOMAIN t : call.mode = "replacement" /\ Pair(t, i)}

Due(t, p) ==
  Left(Basic(t), p) + Left(Second(t), p) + Left(Third(t), p) + Left(Fourth(t), p)
    - 2 * Left(Paired(t), p)

Weight(t, i) ==
  Bit(i \in Basic(t)) + Bit(i \in Second(t)) + Bit(i \in Third(t)) + Bit(i \in Fourth(t))
    - 2 * Bit(i \in Paired(t))

LEMMA DueIs ==
  ASSUME NEW t, NEW n \in Nat, DOMAIN t = 1 .. n
  PROVE  /\ \A p \in 0 .. n : Due(t, p) \in Int
         /\ Due(t, n) = 0
         /\ \A p \in 0 .. n - 1 : Due(t, p) = Due(t, p + 1) + Weight(t, p + 1)
<1>1. /\ Basic(t) \subseteq 1 .. n /\ Second(t) \subseteq 1 .. n /\ Third(t) \subseteq 1 .. n
      /\ Fourth(t) \subseteq 1 .. n /\ Paired(t) \subseteq 1 .. n
  BY DEF Basic, Second, Third, Fourth, Paired
<1>2. PICK A : A = Basic(t)
  OBVIOUS
<1>3. PICK B : B = Second(t)
  OBVIOUS
<1>4. PICK C : C = Third(t)
  OBVIOUS
<1>5. PICK D : D = Fourth(t)
  OBVIOUS
<1>6. PICK E : E = Paired(t)
  OBVIOUS
<1>7. /\ \A p : Due(t, p) = Left(A, p) + Left(B, p) + Left(C, p) + Left(D, p) - 2 * Left(E, p)
      /\ \A i : Weight(t, i) = Bit(i \in A) + Bit(i \in B) + Bit(i \in C) + Bit(i \in D) - 2 * Bit(i \in E)
  BY ONLY <1>2, <1>3, <1>4, <1>5, <1>6, Zenon DEF Due, Weight
<1>8. ASSUME NEW S \in {A, B, C, D, E}
      PROVE  /\ \A p \in 0 .. n : Left(S, p) \in Nat
             /\ Left(S, n) = 0
             /\ \A p \in 0 .. n - 1 : Left(S, p) = Left(S, p + 1) + Bit(p + 1 \in S)
  <2>1. S \subseteq 1 .. n
    BY ONLY <1>1, <1>2, <1>3, <1>4, <1>5, <1>6, S \in {A, B, C, D, E}
  <2> QED
    BY ONLY <2>1, n \in Nat, LeftIs
<1>9. /\ \A p \in 0 .. n : Left(A, p) \in Nat /\ Left(B, p) \in Nat /\ Left(C, p) \in Nat
                             /\ Left(D, p) \in Nat /\ Left(E, p) \in Nat
      /\ Left(A, n) = 0 /\ Left(B, n) = 0 /\ Left(C, n) = 0 /\ Left(D, n) = 0 /\ Left(E, n) = 0
  BY ONLY <1>8
<1>10. ASSUME NEW p \in 0 .. n - 1 PROVE Due(t, p) = Due(t, p + 1) + Weight(t, p + 1)
  <2>1. /\ Left(A, p) = Left(A, p + 1) + Bit(p + 1 \in A)
        /\ Left(B, p) = Left(B, p + 1) + Bit(p + 1 \in B)
        /\ Left(C, p) = Left(C, p + 1) + Bit(p + 1 \in C)
        /\ Left(D, p) = Left(D, p + 1) + Bit(p + 1 \in D)
        /\ Left(E, p) = Left(E, p + 1) + Bit(p + 1 \in E)
    BY ONLY <1>8, p \in 0 .. n - 1
  <2>2. p + 1 \in 0 .. n
    BY ONLY p \in 0 .. n - 1, n \in Nat, SMT
  <2>3. /\ Left(A, p + 1) \in Nat /\ Left(B, p + 1) \in Nat /\ Left(C, p + 1) \in Nat
        /\ Left(D, p + 1) \in Nat /\ Left(E, p + 1) \in Nat
    BY ONLY <1>9, <2>2
  <2>4. \A x : Bit(x) \in {0, 1}
    BY ONLY BitIs
  <2> QED
    BY ONLY <1>7, <2>1, <2>3, <2>4, SMT
<1>11. \A p \in 0 .. n : Due(t, p) \in Int
  BY ONLY <1>7, <1>9, SMT
<1>12. Due(t, n) = 0
  BY ONLY <1>7, <1>9, SMT
<1> QED
  BY ONLY <1>10, <1>11, <1>12

LEMMA Members ==
  ASSUME NEW t, NEW i \in DOMAIN t
  PROVE  /\ i \in Basic(t) <=> /\ call.from = "utf8" => ~ Continuation(t[i])
                               /\ call.from = "utf16" /\ call.to = "utf32" => ~ Low(t[i])
         /\ i \in Second(t) <=>
              \/ call.from = "utf8" /\ call.to = "utf16" /\ t[i] >= 240
              \/ call.from \in {"latin1", "utf16", "utf32"} /\ call.to = "utf8" /\ t[i] >= 128
              \/ call.from = "utf32" /\ call.to = "utf16" /\ t[i] >= 65536
         /\ i \in Third(t) <=>
              /\ call.from \in {"utf16", "utf32"} /\ call.to = "utf8" /\ t[i] >= 2048
              /\ call.from = "utf16" /\ call.mode # "replacement" => ~ Surrogate(t[i])
         /\ i \in Fourth(t) <=> call.from = "utf32" /\ call.to = "utf8" /\ t[i] >= 65536
         /\ i \in Paired(t) <=> call.mode = "replacement" /\ Pair(t, i)
BY DEF Basic, Second, Third, Fourth, Paired

Weighs(t, i, u) ==
  /\ call.from = "utf8" =>
       Weight(t, i) = Bit(~ Continuation(u)) + Bit(call.to = "utf16" /\ u >= 240)
  /\ call.from = "latin1" => Weight(t, i) = 1 + Bit(call.to = "utf8" /\ u >= 128)
  /\ call.from = "utf16" /\ call.to = "utf8" /\ call.mode # "replacement" =>
       Weight(t, i) = 1 + Bit(u >= 128) + Bit(u >= 2048 /\ ~ Surrogate(u))
  /\ call.from = "utf16" /\ call.to = "utf8" /\ call.mode = "replacement" =>
       Weight(t, i) = 1 + Bit(u >= 128) + Bit(u >= 2048) - 2 * Bit(Pair(t, i))
  /\ call.from = "utf16" /\ call.to = "utf32" => Weight(t, i) = Bit(~ Low(u))
  /\ call.from = "utf16" /\ call.to \in {"utf16", "latin1"} => Weight(t, i) = 1
  /\ call.from = "utf32" /\ call.to = "utf8" =>
       Weight(t, i) = 1 + Bit(u >= 128) + Bit(u >= 2048) + Bit(u >= 65536)
  /\ call.from = "utf32" /\ call.to = "utf16" => Weight(t, i) = 1 + Bit(u >= 65536)
  /\ call.from = "utf32" /\ call.to = "latin1" => Weight(t, i) = 1

LEMMA WeightOf ==
  ASSUME call \in Calls, call.to \in Targets, NEW t, NEW i \in DOMAIN t, NEW u, u = t[i]
  PROVE  Weighs(t, i, u)
<1>1. call.mode = "replacement" => call.from = "utf16" /\ call.to = "utf8"
  BY OfferedIs
<1>2. PICK a : a = Bit(i \in Basic(t))
  OBVIOUS
<1>3. PICK b : b = Bit(i \in Second(t))
  OBVIOUS
<1>4. PICK c : c = Bit(i \in Third(t))
  OBVIOUS
<1>5. PICK d : d = Bit(i \in Fourth(t))
  OBVIOUS
<1>6. PICK e : e = Bit(i \in Paired(t))
  OBVIOUS
<1>7. Weight(t, i) = a + b + c + d - 2 * e
  BY ONLY <1>2, <1>3, <1>4, <1>5, <1>6 DEF Weight
<1>8. /\ a = Bit(/\ call.from = "utf8" => ~ Continuation(u)
                 /\ call.from = "utf16" /\ call.to = "utf32" => ~ Low(u))
      /\ b = Bit(\/ call.from = "utf8" /\ call.to = "utf16" /\ u >= 240
                 \/ call.from \in {"latin1", "utf16", "utf32"} /\ call.to = "utf8" /\ u >= 128
                 \/ call.from = "utf32" /\ call.to = "utf16" /\ u >= 65536)
      /\ c = Bit(/\ call.from \in {"utf16", "utf32"} /\ call.to = "utf8" /\ u >= 2048
                 /\ call.from = "utf16" /\ call.mode # "replacement" => ~ Surrogate(u))
      /\ d = Bit(call.from = "utf32" /\ call.to = "utf8" /\ u >= 65536)
      /\ e = Bit(call.mode = "replacement" /\ Pair(t, i))
  BY <1>2, <1>3, <1>4, <1>5, <1>6, Members DEF Bit
<1>9. CASE call.from = "utf8"
  BY ONLY <1>1, <1>7, <1>8, <1>9 DEF Bit, Weighs
<1>10. CASE call.from = "latin1"
  BY ONLY <1>1, <1>7, <1>8, <1>10 DEF Bit, Weighs
<1>11. CASE call.from = "utf32"
  BY ONLY <1>1, <1>7, <1>8, <1>11, call.to \in Targets DEF Bit, Weighs, Targets
<1>12. CASE call.from = "utf16"
  BY ONLY <1>1, <1>7, <1>8, <1>12, call.to \in Targets DEF Bit, Weighs, Targets
<1>13. CASE call.from \notin {"utf8", "latin1", "utf16", "utf32"}
  BY ONLY <1>13 DEF Weighs
<1> QED
  BY ONLY <1>9, <1>10, <1>11, <1>12, <1>13

(* Counting over the whole text is what the length functions do.           *)
LEMMA DueWhole ==
  ASSUME NEW t, NEW n \in Nat, DOMAIN t = 1 .. n
  PROVE  Due(t, 0) = Cardinality(Basic(t)) + Cardinality(Second(t)) + Cardinality(Third(t))
                       + Cardinality(Fourth(t)) - 2 * Cardinality(Paired(t))
<1>1. /\ Basic(t) \subseteq 1 .. n /\ Second(t) \subseteq 1 .. n /\ Third(t) \subseteq 1 .. n
      /\ Fourth(t) \subseteq 1 .. n /\ Paired(t) \subseteq 1 .. n
  BY DEF Basic, Second, Third, Fourth, Paired
<1> QED
  BY ONLY <1>1, n \in Nat, LeftIs DEF Due

(* What the call's length function answers, the safe converters' as well.  *)
LengthOf(t) == IF call.mode = "safe"
               THEN IF call.from = "latin1" THEN utf8LengthFromLatin1(t) ELSE utf8LengthFromUTF16(t)
               ELSE Required(t)

(* The sets counted, conversion by conversion.                             *)
LEMMA SetsUTF8 ==
  ASSUME NEW t, call.from = "utf8", call.mode # "replacement", call.to # "utf8"
  PROVE  /\ Basic(t) = {i \in DOMAIN t : ~ Continuation(t[i])}
         /\ call.to = "utf16" => Second(t) = From(t, 240)
         /\ call.to # "utf16" => Second(t) = {}
         /\ Third(t) = {} /\ Fourth(t) = {} /\ Paired(t) = {}
<1>1. Basic(t) = {i \in DOMAIN t : ~ Continuation(t[i])}
  BY DEF Basic
<1>2. call.to = "utf16" => Second(t) = From(t, 240)
  BY DEF Second, From
<1>3. call.to # "utf16" => Second(t) = {}
  BY DEF Second
<1>4. Third(t) = {} /\ Fourth(t) = {} /\ Paired(t) = {}
  BY DEF Third, Fourth, Paired
<1> QED
  BY ONLY <1>1, <1>2, <1>3, <1>4

LEMMA SetsLatin1 ==
  ASSUME NEW t, call.from = "latin1", call.mode # "replacement"
  PROVE  /\ Basic(t) = DOMAIN t
         /\ call.to = "utf8" => Second(t) = From(t, 128)
         /\ call.to # "utf8" => Second(t) = {}
         /\ Third(t) = {} /\ Fourth(t) = {} /\ Paired(t) = {}
<1>1. Basic(t) = DOMAIN t
  BY DEF Basic
<1>2. call.to = "utf8" => Second(t) = From(t, 128)
  BY DEF Second, From
<1>3. call.to # "utf8" => Second(t) = {}
  BY DEF Second
<1>4. Third(t) = {} /\ Fourth(t) = {} /\ Paired(t) = {}
  BY DEF Third, Fourth, Paired
<1> QED
  BY ONLY <1>1, <1>2, <1>3, <1>4

LEMMA SetsUTF32 ==
  ASSUME NEW t, call.from = "utf32", call.mode # "replacement"
  PROVE  /\ Basic(t) = DOMAIN t /\ Paired(t) = {}
         /\ call.to = "utf8" => Second(t) = From(t, 128) /\ Third(t) = From(t, 2048) /\ Fourth(t) = From(t, 65536)
         /\ call.to = "utf16" => Second(t) = From(t, 65536)
         /\ call.to \notin {"utf8", "utf16"} => Second(t) = {}
         /\ call.to # "utf8" => Third(t) = {} /\ Fourth(t) = {}
<1>1. Basic(t) = DOMAIN t /\ Paired(t) = {}
  BY DEF Basic, Paired
<1>2. call.to = "utf8" => Second(t) = From(t, 128) /\ Third(t) = From(t, 2048) /\ Fourth(t) = From(t, 65536)
  BY DEF Second, Third, Fourth, From
<1>3. call.to = "utf16" => Second(t) = From(t, 65536)
  BY DEF Second, From
<1>4. call.to \notin {"utf8", "utf16"} => Second(t) = {}
  BY DEF Second
<1>5. call.to # "utf8" => Third(t) = {} /\ Fourth(t) = {}
  BY DEF Third, Fourth
<1> QED
  BY ONLY <1>1, <1>2, <1>3, <1>4, <1>5

LEMMA SetsUTF16 ==
  ASSUME NEW t, call.from = "utf16", call.mode = "replacement" => call.to = "utf8"
  PROVE  /\ Fourth(t) = {}
         /\ call.to # "utf32" => Basic(t) = DOMAIN t
         /\ call.to = "utf32" => Basic(t) = {i \in DOMAIN t : ~ Low(t[i])}
         /\ call.to = "utf8" => Second(t) = From(t, 128)
         /\ call.to # "utf8" => Second(t) = {} /\ Third(t) = {} /\ Paired(t) = {}
         /\ call.to = "utf8" /\ call.mode = "replacement" =>
              Third(t) = From(t, 2048) /\ Paired(t) = {i \in DOMAIN t : Pair(t, i)}
         /\ call.to = "utf8" /\ call.mode # "replacement" =>
              Third(t) = {i \in From(t, 2048) : ~ Surrogate(t[i])} /\ Paired(t) = {}
<1>1. Fourth(t) = {}
  BY DEF Fourth
<1>2. call.to # "utf32" => Basic(t) = DOMAIN t
  BY DEF Basic
<1>3. call.to = "utf32" => Basic(t) = {i \in DOMAIN t : ~ Low(t[i])}
  BY DEF Basic
<1>4. call.to = "utf8" => Second(t) = From(t, 128)
  BY DEF Second, From
<1>5. call.to # "utf8" => Second(t) = {} /\ Third(t) = {} /\ Paired(t) = {}
  BY DEF Second, Third, Paired
<1>6. call.to = "utf8" /\ call.mode = "replacement" =>
        Third(t) = From(t, 2048) /\ Paired(t) = {i \in DOMAIN t : Pair(t, i)}
  BY DEF Third, Paired, From
<1>7. call.to = "utf8" /\ call.mode # "replacement" =>
        Third(t) = {i \in From(t, 2048) : ~ Surrogate(t[i])} /\ Paired(t) = {}
  BY DEF Third, Paired, From
<1> QED
  BY ONLY <1>1, <1>2, <1>3, <1>4, <1>5, <1>6, <1>7

LEMMA LengthIsDue ==
  ASSUME call \in Calls, call.to \in Targets, NEW t, UnitsOf(call.from, t)
  PROVE  LengthOf(t) = Due(t, 0) /\ LengthOf(t) \in Int
<1>0. DOMAIN t = 1 .. Len(t) /\ Len(t) \in Nat /\ t \in Seq(Nat)
  BY UnitsIn
<1>1. /\ call.mode = "replacement" => call.from = "utf16" /\ call.to = "utf8"
      /\ call.mode = "safe" => call.from \in {"latin1", "utf16"} /\ call.to = "utf8"
      /\ call.mode \in {"wellFormed", "swap"} => call.from = "utf16" /\ call.to = "utf16"
      /\ call.mode \notin Inspections /\ call.from \in {"latin1", "utf8", "utf16", "utf32"}
      /\ call.mode \in {"plain", "errors", "valid", "safe", "replacement", "wellFormed", "swap"}
      /\ call.to = call.from => call.mode \in {"wellFormed", "swap"}
      /\ call.from = "latin1" => call.mode \in {"plain", "safe"}
      /\ call.to # "none"
  BY OfferedIs DEF Targets, Readers, Texts
<1>2. Due(t, 0) \in Int
  <2>1. \A p \in 0 .. Len(t) : Due(t, p) \in Int
    BY ONLY <1>0, DueIs
  <2> QED
    BY ONLY <2>1, <1>0
<1>10. \A S \in {Basic(t), Second(t), Third(t), Fourth(t), Paired(t)} : Cardinality(S) \in Nat
  <2>1. IsFiniteSet(1 .. Len(t))
    BY ONLY <1>0, FS_Interval
  <2>2. \A S \in {Basic(t), Second(t), Third(t), Fourth(t), Paired(t)} : S \in SUBSET (1 .. Len(t))
    BY ONLY <1>0 DEF Basic, Second, Third, Fourth, Paired
  <2> QED
    BY ONLY <2>1, <2>2, FS_Subset, FS_CardinalityType
<1>11. PICK a, b, c, d, e : /\ a = Cardinality(Basic(t)) /\ b = Cardinality(Second(t))
                            /\ c = Cardinality(Third(t)) /\ d = Cardinality(Fourth(t))
                            /\ e = Cardinality(Paired(t))
  OBVIOUS
<1>12. a \in Nat /\ b \in Nat /\ c \in Nat /\ d \in Nat /\ e \in Nat
  BY ONLY <1>10, <1>11
<1>3. Due(t, 0) = a + b + c + d - 2 * e
  <2>1. Due(t, 0) = Cardinality(Basic(t)) + Cardinality(Second(t)) + Cardinality(Third(t))
                      + Cardinality(Fourth(t)) - 2 * Cardinality(Paired(t))
    BY ONLY <1>0, DueWhole
  <2> QED
    BY ONLY <2>1, <1>11
<1>4. Cardinality({}) = 0 /\ Cardinality(DOMAIN t) = Len(t)
  <2>1. Cardinality({}) = 0
    BY ONLY FS_EmptySet
  <2>2. Cardinality(1 .. Len(t)) = IF 1 > Len(t) THEN 0 ELSE Len(t) - 1 + 1
    BY ONLY <1>0, FS_Interval
  <2> QED
    BY ONLY <1>0, <2>1, <2>2
<1>21. CASE call.from = "utf8" /\ call.to = "utf16"
  <2>1. LengthOf(t) = utf16LengthFromUTF8(t)
    BY ONLY <1>1, <1>21 DEF LengthOf, Required, RequiredBy
  <2>2. /\ Basic(t) = {i \in DOMAIN t : ~ Continuation(t[i])} /\ Second(t) = From(t, 240)
        /\ Third(t) = {} /\ Fourth(t) = {} /\ Paired(t) = {}
    BY ONLY <1>1, <1>21, SetsUTF8
  <2>3. c = 0 /\ d = 0 /\ e = 0
    BY ONLY <2>2, <1>11, <1>4
  <2>4. LengthOf(t) = a + b
    BY ONLY <2>1, <2>2, <1>11, <1>4 DEF utf16LengthFromUTF8, countUTF8
  <2> QED
    BY ONLY <2>3, <2>4, <1>3, <1>12, <1>0
<1>22. CASE call.from = "utf8" /\ call.to \in {"latin1", "utf32"}
  <2>1. LengthOf(t) = countUTF8(t)
    BY ONLY <1>1, <1>22 DEF LengthOf, Required, RequiredBy
  <2>2. /\ Basic(t) = {i \in DOMAIN t : ~ Continuation(t[i])} /\ Second(t) = {}
        /\ Third(t) = {} /\ Fourth(t) = {} /\ Paired(t) = {}
    BY ONLY <1>1, <1>22, SetsUTF8
  <2>3. b = 0 /\ c = 0 /\ d = 0 /\ e = 0
    BY ONLY <2>2, <1>11, <1>4
  <2>4. LengthOf(t) = a
    BY ONLY <2>1, <2>2, <1>11, <1>4 DEF countUTF8
  <2> QED
    BY ONLY <2>3, <2>4, <1>3, <1>12, <1>0
<1>23. CASE call.from = "latin1" /\ call.to = "utf8"
  <2>1. LengthOf(t) = utf8LengthFromLatin1(t)
    BY ONLY <1>1, <1>23 DEF LengthOf, Required, RequiredBy
  <2>2. Basic(t) = DOMAIN t /\ Second(t) = From(t, 128) /\ Third(t) = {} /\ Fourth(t) = {} /\ Paired(t) = {}
    BY ONLY <1>1, <1>23, SetsLatin1
  <2>3. a = Len(t) /\ c = 0 /\ d = 0 /\ e = 0
    BY ONLY <2>2, <1>11, <1>4
  <2>4. LengthOf(t) = Len(t) + b
    BY ONLY <2>1, <2>2, <1>11, <1>4 DEF utf8LengthFromLatin1
  <2> QED
    BY ONLY <2>3, <2>4, <1>3, <1>12, <1>0
<1>24. CASE call.from = "latin1" /\ call.to \in {"utf16", "utf32"}
  <2>1. LengthOf(t) = Len(t)
    BY ONLY <1>1, <1>24 DEF LengthOf, Required, RequiredBy
  <2>2. Basic(t) = DOMAIN t /\ Second(t) = {} /\ Third(t) = {} /\ Fourth(t) = {} /\ Paired(t) = {}
    BY ONLY <1>1, <1>24, SetsLatin1
  <2>3. a = Len(t) /\ b = 0 /\ c = 0 /\ d = 0 /\ e = 0
    BY ONLY <2>2, <1>11, <1>4
  <2> QED
    BY ONLY <2>1, <2>3, <1>3, <1>12, <1>0
<1>25. CASE call.from = "utf32" /\ call.to = "utf8"
  <2>1. LengthOf(t) = utf8LengthFromUTF32(t)
    BY ONLY <1>1, <1>25 DEF LengthOf, Required, RequiredBy
  <2>2. /\ Basic(t) = DOMAIN t /\ Second(t) = From(t, 128)
        /\ Third(t) = From(t, 2048) /\ Fourth(t) = From(t, 65536) /\ Paired(t) = {}
    BY ONLY <1>1, <1>25, SetsUTF32
  <2>3. a = Len(t) /\ e = 0
    BY ONLY <2>2, <1>11, <1>4
  <2>4. LengthOf(t) = Len(t) + b + c + d
    BY ONLY <2>1, <2>2, <1>11, <1>4 DEF utf8LengthFromUTF32
  <2> QED
    BY ONLY <2>3, <2>4, <1>3, <1>12, <1>0
<1>26. CASE call.from = "utf32" /\ call.to = "utf16"
  <2>1. LengthOf(t) = utf16LengthFromUTF32(t)
    BY ONLY <1>1, <1>26 DEF LengthOf, Required, RequiredBy
  <2>2. Basic(t) = DOMAIN t /\ Second(t) = From(t, 65536) /\ Third(t) = {} /\ Fourth(t) = {} /\ Paired(t) = {}
    BY ONLY <1>1, <1>26, SetsUTF32
  <2>3. a = Len(t) /\ c = 0 /\ d = 0 /\ e = 0
    BY ONLY <2>2, <1>11, <1>4
  <2>4. LengthOf(t) = Len(t) + b
    BY ONLY <2>1, <2>2, <1>11, <1>4 DEF utf16LengthFromUTF32
  <2> QED
    BY ONLY <2>3, <2>4, <1>3, <1>12, <1>0
<1>27. CASE call.from = "utf32" /\ call.to = "latin1"
  <2>1. LengthOf(t) = Len(t)
    BY ONLY <1>1, <1>27 DEF LengthOf, Required, RequiredBy
  <2>2. Basic(t) = DOMAIN t /\ Second(t) = {} /\ Third(t) = {} /\ Fourth(t) = {} /\ Paired(t) = {}
    BY ONLY <1>1, <1>27, SetsUTF32
  <2>3. a = Len(t) /\ b = 0 /\ c = 0 /\ d = 0 /\ e = 0
    BY ONLY <2>2, <1>11, <1>4
  <2> QED
    BY ONLY <2>1, <2>3, <1>3, <1>12, <1>0
<1>28. CASE call.from = "utf16" /\ call.to = "utf8" /\ call.mode = "replacement"
  <2>1. LengthOf(t) = utf8LengthFromUTF16WithReplacement(t)
    BY ONLY <1>1, <1>28 DEF LengthOf, Required, RequiredBy
  <2>2. /\ Basic(t) = DOMAIN t /\ Second(t) = From(t, 128)
        /\ Third(t) = From(t, 2048) /\ Fourth(t) = {} /\ Paired(t) = {i \in DOMAIN t : Pair(t, i)}
    BY ONLY <1>1, <1>28, SetsUTF16
  <2>3. a = Len(t) /\ d = 0
    BY ONLY <2>2, <1>11, <1>4
  <2>4. LengthOf(t) = Len(t) + b + c - 2 * e
    BY ONLY <2>1, <2>2, <1>11, <1>4 DEF utf8LengthFromUTF16WithReplacement
  <2> QED
    BY ONLY <2>3, <2>4, <1>3, <1>12, <1>0
<1>29. CASE call.from = "utf16" /\ call.to = "utf8" /\ call.mode # "replacement"
  <2>1. LengthOf(t) = utf8LengthFromUTF16(t)
    BY ONLY <1>1, <1>29 DEF LengthOf, Required, RequiredBy
  <2>2. /\ Basic(t) = DOMAIN t /\ Second(t) = From(t, 128)
        /\ Third(t) = {i \in From(t, 2048) : ~ Surrogate(t[i])} /\ Fourth(t) = {} /\ Paired(t) = {}
    BY ONLY <1>1, <1>29, SetsUTF16
  <2>3. a = Len(t) /\ d = 0 /\ e = 0
    BY ONLY <2>2, <1>11, <1>4
  <2>4. LengthOf(t) = Len(t) + b + c
    BY ONLY <2>1, <2>2, <1>11, <1>4 DEF utf8LengthFromUTF16
  <2> QED
    BY ONLY <2>3, <2>4, <1>3, <1>12, <1>0
<1>30. CASE call.from = "utf16" /\ call.to = "utf32"
  <2>1. LengthOf(t) = utf32LengthFromUTF16(t)
    BY ONLY <1>1, <1>30 DEF LengthOf, Required, RequiredBy
  <2>2. /\ Basic(t) = {i \in DOMAIN t : ~ Low(t[i])} /\ Second(t) = {}
        /\ Third(t) = {} /\ Fourth(t) = {} /\ Paired(t) = {}
    BY ONLY <1>1, <1>30, SetsUTF16
  <2>3. b = 0 /\ c = 0 /\ d = 0 /\ e = 0
    BY ONLY <2>2, <1>11, <1>4
  <2>4. LengthOf(t) = a
    BY ONLY <2>1, <2>2, <1>11, <1>4 DEF utf32LengthFromUTF16
  <2> QED
    BY ONLY <2>3, <2>4, <1>3, <1>12, <1>0
<1>31. CASE call.from = "utf16" /\ call.to \in {"latin1", "utf16"}
  <2>1. LengthOf(t) = Len(t)
    BY ONLY <1>1, <1>31 DEF LengthOf, Required, RequiredBy
  <2>2. Basic(t) = DOMAIN t /\ Second(t) = {} /\ Third(t) = {} /\ Fourth(t) = {} /\ Paired(t) = {}
    BY ONLY <1>1, <1>31, SetsUTF16
  <2>3. a = Len(t) /\ b = 0 /\ c = 0 /\ d = 0 /\ e = 0
    BY ONLY <2>2, <1>11, <1>4
  <2> QED
    BY ONLY <2>1, <2>3, <1>3, <1>12, <1>0
<1>40. LengthOf(t) = Due(t, 0)
  BY ONLY <1>1, <1>21, <1>22, <1>23, <1>24, <1>25, <1>26, <1>27, <1>28, <1>29, <1>30, <1>31,
       call.to \in Targets
     DEF Targets
<1> QED
  BY ONLY <1>2, <1>40

RestOf(e, t, n, s) ==
  /\ UnitsOf(e, s) /\ Len(s) = Len(t) - n /\ Len(s) \in Nat
  /\ \A i \in 1 .. Len(s) : s[i] = t[n + i]

LEMMA RestIs ==
  ASSUME NEW e, NEW t, UnitsOf(e, t), NEW n, NEW s, Ahead(t, n, s)
  PROVE  RestOf(e, t, n, s)
<1>0. n \in 0 .. Len(t)
  BY DEF Ahead
<1>7. s = SubSeq(t, n + 1, Len(t))
  BY DEF Ahead
<1>1. t \in Seq(Nat) /\ Len(t) \in Nat /\ DOMAIN t = 1 .. Len(t) /\ \A i \in 1 .. Len(t) : t[i] \in Nat /\ IsUnit(e, t[i])
  BY UnitsIn
<1>2. s \in Seq(Nat) /\ Len(s) = Len(t) - n /\ \A i \in 1 .. Len(s) : s[i] = t[n + i]
  <2>1. n + 1 \in 1 .. Len(t) + 1 /\ Len(t) \in (n + 1) - 1 .. Len(t) /\ Len(t) - (n + 1) + 1 = Len(t) - n
        /\ \A i \in 1 .. Len(t) - n : (n + 1) + i - 1 = n + i
    BY ONLY <1>1, <1>0, SMT
  <2>2. s \in Seq(Nat) /\ Len(s) = Len(t) - (n + 1) + 1
        /\ \A i \in 1 .. Len(t) - (n + 1) + 1 : s[i] = t[(n + 1) + i - 1]
    <3>1. n + 1 \in Int /\ Len(t) \in Int /\ \A i \in n + 1 .. Len(t) : t[i] \in Nat
      BY ONLY <1>1, <1>0, SMT
    <3>2. PICK m \in Nat : m = n + 1 /\ m <= Len(t) + 1
      BY ONLY <1>0, <1>1, SMT
    <3>3. /\ s \in Seq(Nat) /\ Len(s) = IF m <= Len(t) THEN Len(t) - m + 1 ELSE 0
          /\ \A i \in 1 .. Len(t) - m + 1 : s[i] = t[m + i - 1]
      BY ONLY <1>7, <3>1, <3>2, SubSeqProperties
    <3>4. (IF m <= Len(t) THEN Len(t) - m + 1 ELSE 0) = Len(t) - m + 1
      <4>1. Len(t) \in Nat
        BY ONLY <1>1
      <4> QED
        BY ONLY <3>2, <4>1, SMT
    <3>5. Len(t) - m + 1 = Len(t) - (n + 1) + 1
      BY ONLY <3>2, <1>1, <1>0, SMT
    <3>6. s \in Seq(Nat) /\ Len(s) = Len(t) - m + 1
      BY ONLY <3>3, <3>4
    <3> QED
      BY ONLY <3>2, <3>3, <3>5, <3>6
  <2> QED
    BY ONLY <2>1, <2>2
<1>3. DOMAIN s = 1 .. Len(s)
  BY ONLY <1>2, SMT
<1>4. \A i \in 1 .. Len(s) : IsUnit(e, s[i])
  <2> TAKE i \in 1 .. Len(s)
  <2>1. PICK j \in 1 .. Len(t) : j = n + i
    BY ONLY <1>1, <1>2, <1>0, i \in 1 .. Len(s), SMT
  <2>2. s[i] = t[j] /\ IsUnit(e, t[j])
    BY ONLY <1>1, <1>2, <2>1, i \in 1 .. Len(s)
  <2> QED
    BY ONLY <2>2
<1>5. UnitsOf(e, s)
  BY ONLY <1>2, <1>3, <1>4 DEF UnitsOf
<1>6. Len(s) \in Nat
  BY ONLY <1>2, <1>1, <1>0, SMT
<1> QED
  BY ONLY <1>2, <1>5, <1>6 DEF RestOf

LEMMA RestWeight ==
  ASSUME NEW t, UnitsOf(call.from, t), NEW n, NEW s, Ahead(t, n, s),
         NEW i \in 1 .. Len(s)
  PROVE  Weight(s, i) = Weight(t, n + i)
<1>0. n \in 0 .. Len(t)
  BY DEF Ahead
<1>1. /\ Len(t) \in Nat /\ DOMAIN t = 1 .. Len(t) /\ UnitsOf(call.from, s)
      /\ Len(s) = Len(t) - n /\ Len(s) \in Nat /\ \A j \in 1 .. Len(s) : s[j] = t[n + j]
  <2>1. Len(t) \in Nat /\ DOMAIN t = 1 .. Len(t)
    BY UnitsIn
  <2>2. RestOf(call.from, t, n, s)
    BY RestIs
  <2> QED
    BY ONLY <2>1, <2>2 DEF RestOf
<1>2. DOMAIN s = 1 .. Len(s)
  BY <1>1, UnitsIn
<1>3. PICK j \in 1 .. Len(t) : j = n + i
  BY ONLY <1>1, <1>0, i \in 1 .. Len(s), SMT
<1>4. s[i] = t[j] /\ i \in DOMAIN s /\ j \in DOMAIN t
  BY ONLY <1>1, <1>2, <1>3, i \in 1 .. Len(s)
<1>5. i < Len(s) <=> j < Len(t)
  BY ONLY <1>1, <1>3, <1>0, i \in 1 .. Len(s), SMT
<1>6. i < Len(s) => s[i + 1] = t[j + 1]
  <2> HAVE i < Len(s)
  <2>1. i + 1 \in 1 .. Len(s) /\ n + (i + 1) = j + 1
    BY ONLY <1>1, <1>3, i < Len(s), <1>0, i \in 1 .. Len(s), SMT
  <2> QED
    BY <2>1, <1>1
<1>7. Pair(s, i) <=> Pair(t, j)
  BY ONLY <1>4, <1>5, <1>6 DEF Pair
<1>8. /\ i \in Basic(s) <=> j \in Basic(t)
      /\ i \in Second(s) <=> j \in Second(t)
      /\ i \in Third(s) <=> j \in Third(t)
      /\ i \in Fourth(s) <=> j \in Fourth(t)
      /\ i \in Paired(s) <=> j \in Paired(t)
  BY ONLY <1>4, <1>7, Members
<1>9. Weight(s, i) = Weight(t, j)
  BY ONLY <1>8 DEF Weight, Bit
<1> QED
  BY ONLY <1>3, <1>9

LEMMA RestDue ==
  ASSUME NEW t, UnitsOf(call.from, t), NEW n, NEW s, Ahead(t, n, s)
  PROVE  Due(s, 0) = Due(t, n)
<1>0. n \in 0 .. Len(t)
  BY DEF Ahead
<1>1. /\ Len(t) \in Nat /\ DOMAIN t = 1 .. Len(t) /\ UnitsOf(call.from, s)
      /\ Len(s) = Len(t) - n /\ Len(s) \in Nat
  <2>1. Len(t) \in Nat /\ DOMAIN t = 1 .. Len(t)
    BY UnitsIn
  <2>2. RestOf(call.from, t, n, s)
    BY RestIs
  <2> QED
    BY ONLY <2>1, <2>2 DEF RestOf
<1>2. DOMAIN s = 1 .. Len(s)
  BY <1>1, UnitsIn
<1> DEFINE G == {i \in 0 .. Len(s) : Due(s, i) = Due(t, n + i)}
<1>3. \A k \in 0 .. Len(s) : k \in G <=> Due(s, k) = Due(t, n + k)
  OBVIOUS
<1> HIDE DEF G
<1>4. \A k \in 0 .. Len(s) : k + 1 .. Len(s) \subseteq G => k \in G
  <2> SUFFICES ASSUME NEW k \in 0 .. Len(s), k + 1 .. Len(s) \subseteq G
               PROVE  k \in G
    OBVIOUS
  <2>0. k \in Nat /\ n \in Nat /\ k <= Len(s)
    BY ONLY <1>0, <1>1, k \in 0 .. Len(s), SMT
  <2>1. CASE k = Len(s)
    <3>1. n + k = Len(t)
      BY ONLY <1>1, <2>0, <2>1, SMT
    <3>2. Due(t, Len(t)) = 0 /\ Due(s, Len(s)) = 0
      BY ONLY <1>1, <1>2, DueIs
    <3> QED
      BY ONLY <3>1, <3>2, <2>1, <1>3, k \in 0 .. Len(s)
  <2>2. CASE k < Len(s)
    <3>1. k + 1 \in 1 .. Len(s) /\ k + 1 \in k + 1 .. Len(s) /\ k + 1 \in 0 .. Len(s)
      BY ONLY <1>1, <2>0, <2>2, SMT
    <3>2. k + 1 \in G
      BY ONLY <3>1, k + 1 .. Len(s) \subseteq G
    <3>3. Due(s, k) = Due(s, k + 1) + Weight(s, k + 1)
      <4>1. \A p \in 0 .. Len(s) - 1 : Due(s, p) = Due(s, p + 1) + Weight(s, p + 1)
        BY ONLY <1>1, <1>2, DueIs
      <4>2. k \in 0 .. Len(s) - 1
        BY ONLY <1>1, <2>0, <2>2, SMT
      <4> QED
        BY ONLY <4>1, <4>2
    <3>4. Due(t, n + k) = Due(t, (n + k) + 1) + Weight(t, (n + k) + 1)
      <4>1. \A p \in 0 .. Len(t) - 1 : Due(t, p) = Due(t, p + 1) + Weight(t, p + 1)
        BY ONLY <1>1, DueIs
      <4>2. n + k \in 0 .. Len(t) - 1
        BY ONLY <1>1, <2>0, <2>2, SMT
      <4> QED
        BY ONLY <4>1, <4>2
    <3>5. (n + k) + 1 = n + (k + 1)
      BY ONLY <2>0, SMT
    <3>6. Weight(s, k + 1) = Weight(t, n + (k + 1))
      BY <3>1, RestWeight
    <3>7. Due(s, k + 1) = Due(t, n + (k + 1))
      BY ONLY <3>1, <3>2, <1>3
    <3>8. Due(s, k) = Due(t, n + k)
      BY ONLY <3>3, <3>4, <3>5, <3>6, <3>7
    <3> QED
      BY ONLY <3>8, <1>3, k \in 0 .. Len(s)
  <2> QED
    <3>1. k = Len(s) \/ k < Len(s)
      <4>1. Len(s) \in Nat
        BY ONLY <1>1
      <4> QED
        BY ONLY <4>1, <2>0, SMT
    <3> QED
      BY ONLY <3>1, <2>1, <2>2
<1>5. 0 .. Len(s) \subseteq G
  BY ONLY <1>1, <1>4, Backward
<1>6. 0 \in 0 .. Len(s) /\ n + 0 = n
  BY ONLY <1>0, <1>1, SMT
<1>7. 0 \in G
  BY ONLY <1>5, <1>6
<1> QED
  BY ONLY <1>3, <1>6, <1>7

(* A character weighs what it is spelled with                              *)
LEMMA SingleWeight ==
  ASSUME call \in Calls, call.to \in Targets, call.mode \in Readers, call.from # "utf8",
         NEW t, NEW i \in DOMAIN t, NEW u \in Nat, u = t[i], Single(call.from, u), Holds(call.to, u)
  PROVE  Weight(t, i) = SpellSize(call.to, u)
<1>1. /\ call.from \in {"latin1", "utf16", "utf32"}
      /\ call.to = call.from => call.mode \in {"wellFormed", "swap"}
      /\ call.mode \in {"wellFormed", "swap"} => call.from = "utf16" /\ call.to = "utf16"
      /\ call.mode = "replacement" => call.from = "utf16" /\ call.to = "utf8"
  BY OfferedIs DEF Targets, Texts
<1>2. /\ call.from = "latin1" => u <= 255
      /\ call.from = "utf16" => u <= 65535 /\ ~ Surrogate(u)
      /\ call.to = "latin1" => u <= 255
  BY ONLY <1>1, Single(call.from, u), Holds(call.to, u), u \in Nat, SMT DEF Single, Holds, Scalar,
       Surrogate
<1>3. CASE call.from = "latin1"
  <2>1. Weight(t, i) = 1 + Bit(call.to = "utf8" /\ u >= 128)
    BY <1>3, WeightOf DEF Weighs
  <2> QED
    BY ONLY <2>1, <1>1, <1>2, <1>3, call.to \in Targets, u \in Nat, SMT DEF SpellSize, Size8,
         Size16, Bit, Targets
<1>4. CASE call.from = "utf32"
  <2>1. /\ call.to = "utf8" => Weight(t, i) = 1 + Bit(u >= 128) + Bit(u >= 2048) + Bit(u >= 65536)
        /\ call.to = "utf16" => Weight(t, i) = 1 + Bit(u >= 65536)
        /\ call.to = "latin1" => Weight(t, i) = 1
    BY <1>4, WeightOf DEF Weighs
  <2> QED
    BY ONLY <2>1, <1>1, <1>2, <1>4, call.to \in Targets, u \in Nat, SMT DEF SpellSize, Size8,
         Size16, Bit, Targets
<1>5. CASE call.from = "utf16"
  <2>1. ~ Pair(t, i) /\ ~ Low(u)
    BY ONLY <1>2, <1>5, u = t[i], u \in Nat, SMT DEF Pair, High, Low, Surrogate
  <2>2. /\ call.to = "utf8" /\ call.mode # "replacement" =>
             Weight(t, i) = 1 + Bit(u >= 128) + Bit(u >= 2048 /\ ~ Surrogate(u))
        /\ call.to = "utf8" /\ call.mode = "replacement" =>
             Weight(t, i) = 1 + Bit(u >= 128) + Bit(u >= 2048) - 2 * Bit(Pair(t, i))
        /\ call.to = "utf32" => Weight(t, i) = Bit(~ Low(u))
        /\ call.to \in {"utf16", "latin1"} => Weight(t, i) = 1
    BY <1>5, WeightOf DEF Weighs
  <2> QED
    BY ONLY <2>1, <2>2, <1>1, <1>2, <1>5, call.to \in Targets, u \in Nat, SMT
       DEF SpellSize, Size8, Size16, Bit, Targets
<1> QED
  BY ONLY <1>1, <1>3, <1>4, <1>5

LEMMA PairWeight ==
  ASSUME call \in Calls, call.to \in Targets \ {"latin1"}, call.mode \in Readers, call.from = "utf16",
         NEW t \in Seq(Nat), NEW i \in 1 .. Len(t), Pair(t, i), NEW c \in Nat, 65536 <= c
  PROVE  i + 1 \in 1 .. Len(t) /\ Weight(t, i) + Weight(t, i + 1) = SpellSize(call.to, c)
<1>1. call.mode = "replacement" => call.to = "utf8"
  BY OfferedIs DEF Targets, Texts
<1>2. /\ i \in DOMAIN t /\ i + 1 \in DOMAIN t /\ i + 1 \in 1 .. Len(t)
      /\ t[i] \in Nat /\ t[i + 1] \in Nat /\ High(t[i]) /\ Low(t[i + 1])
  BY Pair(t, i), SMT DEF Pair
<1>3. PICK u, v : u = t[i] /\ v = t[i + 1]
  OBVIOUS
<1>4. PICK j : j = i + 1
  OBVIOUS
<1>5. ~ Pair(t, j) /\ u \in Nat /\ v \in Nat /\ u >= 2048 /\ v >= 2048 /\ ~ Low(u) /\ Low(v) /\ Surrogate(u) /\ Surrogate(v)
  BY ONLY <1>2, <1>3, <1>4, SMT DEF Pair, High, Low, Surrogate
<1>6. /\ call.to = "utf8" /\ call.mode # "replacement" =>
           /\ Weight(t, i) = 1 + Bit(u >= 128) + Bit(u >= 2048 /\ ~ Surrogate(u))
           /\ Weight(t, j) = 1 + Bit(v >= 128) + Bit(v >= 2048 /\ ~ Surrogate(v))
      /\ call.to = "utf8" /\ call.mode = "replacement" =>
           /\ Weight(t, i) = 1 + Bit(u >= 128) + Bit(u >= 2048) - 2 * Bit(Pair(t, i))
           /\ Weight(t, j) = 1 + Bit(v >= 128) + Bit(v >= 2048) - 2 * Bit(Pair(t, j))
      /\ call.to = "utf32" => Weight(t, i) = Bit(~ Low(u)) /\ Weight(t, j) = Bit(~ Low(v))
      /\ call.to = "utf16" => Weight(t, i) = 1 /\ Weight(t, j) = 1
  <2>1. /\ call.to = "utf8" /\ call.mode # "replacement" =>
             Weight(t, i) = 1 + Bit(u >= 128) + Bit(u >= 2048 /\ ~ Surrogate(u))
        /\ call.to = "utf8" /\ call.mode = "replacement" =>
             Weight(t, i) = 1 + Bit(u >= 128) + Bit(u >= 2048) - 2 * Bit(Pair(t, i))
        /\ call.to = "utf32" => Weight(t, i) = Bit(~ Low(u))
        /\ call.to = "utf16" => Weight(t, i) = 1
    <3>1. i \in DOMAIN t /\ u = t[i]
      BY ONLY <1>2, <1>3
    <3>2. Weighs(t, i, u)
      BY <3>1, WeightOf
    <3> QED
      BY ONLY <3>2, call.from = "utf16" DEF Weighs
  <2>2. /\ call.to = "utf8" /\ call.mode # "replacement" =>
             Weight(t, j) = 1 + Bit(v >= 128) + Bit(v >= 2048 /\ ~ Surrogate(v))
        /\ call.to = "utf8" /\ call.mode = "replacement" =>
             Weight(t, j) = 1 + Bit(v >= 128) + Bit(v >= 2048) - 2 * Bit(Pair(t, j))
        /\ call.to = "utf32" => Weight(t, j) = Bit(~ Low(v))
        /\ call.to = "utf16" => Weight(t, j) = 1
    <3>1. j \in DOMAIN t /\ v = t[j]
      BY ONLY <1>2, <1>3, <1>4
    <3>2. Weighs(t, j, v)
      BY <3>1, WeightOf
    <3> QED
      BY ONLY <3>2, call.from = "utf16" DEF Weighs
  <2> QED
    BY ONLY <2>1, <2>2
<1>7. /\ u >= 128 /\ v >= 128 /\ u >= 2048 /\ v >= 2048
      /\ ~ (u >= 2048 /\ ~ Surrogate(u)) /\ ~ (v >= 2048 /\ ~ Surrogate(v))
  BY ONLY <1>5, SMT
<1>8. /\ SpellSize("utf8", c) = 4 /\ SpellSize("utf16", c) = 2 /\ SpellSize("utf32", c) = 1
  BY ONLY c \in Nat, 65536 <= c, SMT DEF SpellSize, Size8, Size16
<1>13. Weight(t, i) + Weight(t, j) = SpellSize(call.to, c)
  <2>1. CASE call.to = "utf8" /\ call.mode # "replacement"
    BY ONLY <1>6, <1>7, <1>8, <2>1 DEF Bit
  <2>2. CASE call.to = "utf8" /\ call.mode = "replacement"
    BY ONLY <1>5, <1>6, <1>7, <1>8, <2>2, Pair(t, i) DEF Bit
  <2>3. CASE call.to = "utf32"
    BY ONLY <1>5, <1>6, <1>8, <2>3 DEF Bit
  <2>4. CASE call.to = "utf16"
    BY ONLY <1>6, <1>8, <2>4
  <2> QED
    BY ONLY <2>1, <2>2, <2>3, <2>4, call.to \in Targets \ {"latin1"} DEF Targets
<1> QED
  BY ONLY <1>2, <1>4, <1>13

(* The character at p + 1 costs what it is spelled with.                   *)
Costs(t, p, w, c) == Due(t, p) = Due(t, p + w) + SpellSize(call.to, c)

LEMMA DueSteps ==
  ASSUME NEW t, NEW n \in Nat, DOMAIN t = 1 .. n, NEW p \in 0 .. n - 1
  PROVE  /\ Due(t, p) = Due(t, p + 1) + Weight(t, p + 1)
         /\ Due(t, p) \in Int /\ Due(t, p + 1) \in Int /\ Weight(t, p + 1) \in Int
<1>1. /\ \A q \in 0 .. n : Due(t, q) \in Int
      /\ \A q \in 0 .. n - 1 : Due(t, q) = Due(t, q + 1) + Weight(t, q + 1)
  BY DueIs
<1>2. p \in 0 .. n /\ p + 1 \in 0 .. n
  BY SMT
<1>3. Weight(t, p + 1) \in Int
  BY BitIs, SMT DEF Weight
<1> QED
  BY ONLY <1>1, <1>2, <1>3, p \in 0 .. n - 1

(* w bytes, the first of which leads and the others continue.              *)
LEMMA TailWeights ==
  ASSUME call \in Calls, call.to \in Targets, call.from = "utf8",
         NEW t, NEW i \in DOMAIN t, t[i] \in Nat, Tail8(t[i])
  PROVE  Weight(t, i) = 0
<1>1. Weighs(t, i, t[i])
  BY WeightOf
<1>2. Continuation(t[i])
  BY LeadWidthIs
<1>3. ~ (t[i] >= 240)
  BY ONLY t[i] \in Nat, Tail8(t[i]), SMT DEF Tail8, Within
<1> QED
  BY ONLY <1>1, <1>2, <1>3, call.from = "utf8" DEF Weighs, Bit

(* What the length functions make of a lead.                               *)
LeadWeight(w) == IF call.to = "utf16" /\ w = 4 THEN 2 ELSE 1

LEMMA LeadWeighs ==
  ASSUME call \in Calls, call.to \in Targets, call.from = "utf8",
         NEW t, NEW i \in DOMAIN t, t[i] \in Nat, LeadWidth(t[i]) # 0
  PROVE  Weight(t, i) = LeadWeight(LeadWidth(t[i]))
<1>1. Weighs(t, i, t[i])
  BY WeightOf
<1>2. PICK u : u = t[i]
  OBVIOUS
<1>3. ~ Continuation(u) /\ (u >= 240 <=> LeadWidth(u) = 4)
  <2>1. u \in Nat /\ LeadWidth(u) # 0
    BY ONLY <1>2, t[i] \in Nat, LeadWidth(t[i]) # 0
  <2>2. /\ u < 128 => LeadWidth(u) = 1
        /\ 192 <= u /\ u < 224 => LeadWidth(u) = 2
        /\ 224 <= u /\ u < 240 => LeadWidth(u) = 3
        /\ 240 <= u /\ u < 248 => LeadWidth(u) = 4
        /\ (128 <= u /\ u < 192) \/ 248 <= u => LeadWidth(u) = 0
        /\ Continuation(u) <=> Tail8(u)
    BY ONLY <2>1, LeadWidthIs
  <2> QED
    BY ONLY <2>1, <2>2, SMT DEF Tail8, Within
<1> QED
  BY ONLY <1>1, <1>2, <1>3, call.from = "utf8" DEF Weighs, Bit, LeadWeight

LEMMA UTF8Cost ==
  ASSUME call \in Calls, call.to \in Targets, call.from = "utf8", NEW t, UnitsOf(call.from, t),
         NEW p \in 0 .. Len(t), p < Len(t), NEW w \in 1 .. 4, p + w <= Len(t), LeadWidth(t[p + 1]) = w,
         \A i \in p + 2 .. p + w : Tail8(t[i])
  PROVE  Due(t, p) = Due(t, p + w) + LeadWeight(w)
<1>1. Len(t) \in Nat /\ DOMAIN t = 1 .. Len(t) /\ \A i \in 1 .. Len(t) : t[i] \in Nat
  BY ONLY UnitsOf(call.from, t), UnitsIn
<1>2. PICK n \in Nat : n = Len(t)
  <2>1. Len(t) \in Nat
    BY ONLY <1>1
  <2> QED
    BY ONLY <2>1
<1>3. p \in Nat /\ w \in Nat /\ p + w <= n /\ p + 1 \in DOMAIN t
  BY ONLY <1>1, <1>2, p \in 0 .. Len(t), p < Len(t), w \in 1 .. 4, p + w <= Len(t), SMT
<1>4. \A q \in 0 .. n - 1 : /\ Due(t, q) = Due(t, q + 1) + Weight(t, q + 1)
                            /\ Due(t, q) \in Int /\ Due(t, q + 1) \in Int /\ Weight(t, q + 1) \in Int
  BY <1>1, <1>2, DueSteps
<1>5. Weight(t, p + 1) = LeadWeight(w)
  BY <1>1, <1>3, LeadWeighs
<1>6. \A i \in p + 2 .. p + w : Weight(t, i) = 0
  <2> TAKE i \in p + 2 .. p + w
  <2>1. i \in DOMAIN t /\ i \in 1 .. Len(t)
    BY ONLY <1>1, <1>2, <1>3, i \in p + 2 .. p + w, SMT
  <2> QED
    BY <1>1, <2>1, TailWeights
<1>7. Due(t, p) = Due(t, p + 1) + LeadWeight(w)
  BY ONLY <1>3, <1>4, <1>5, w \in 1 .. 4, SMT
<1>8. \A q \in p + 1 .. p + w - 1 : Due(t, q) = Due(t, q + 1)
  <2> TAKE q \in p + 1 .. p + w - 1
  <2>1. q + 1 \in p + 2 .. p + w /\ q \in 0 .. n - 1
    BY ONLY <1>3, q \in p + 1 .. p + w - 1, SMT
  <2>2. Due(t, q) = Due(t, q + 1) + 0 /\ Due(t, q + 1) \in Int
    BY ONLY <2>1, <1>4, <1>6
  <2> QED
    BY ONLY <2>2
<1>9. Due(t, p + 1) = Due(t, p + w)
  <2>1. CASE w = 1
    BY ONLY <2>1
  <2>2. CASE w = 2
    <3>1. p + 1 \in p + 1 .. p + w - 1 /\ (p + 1) + 1 = p + w
      BY ONLY <1>3, <2>2, SMT
    <3> QED
      BY ONLY <3>1, <1>8
  <2>3. CASE w = 3
    <3>1. p + 1 \in p + 1 .. p + w - 1 /\ (p + 1) + 1 = p + 2 /\ p + 2 \in p + 1 .. p + w - 1 /\ (p + 2) + 1 = p + w
      BY ONLY <1>3, <2>3, SMT
    <3> QED
      BY ONLY <3>1, <1>8
  <2>4. CASE w = 4
    <3>1. /\ p + 1 \in p + 1 .. p + w - 1 /\ (p + 1) + 1 = p + 2 /\ p + 2 \in p + 1 .. p + w - 1
          /\ (p + 2) + 1 = p + 3 /\ p + 3 \in p + 1 .. p + w - 1 /\ (p + 3) + 1 = p + w
      BY ONLY <1>3, <2>4, SMT
    <3> QED
      BY ONLY <3>1, <1>8
  <2> QED
    BY ONLY <2>1, <2>2, <2>3, <2>4, w \in 1 .. 4, SMT
<1> QED
  BY ONLY <1>7, <1>9

LEMMA UTF8Size ==
  ASSUME call \in Calls, call.to \in Targets, call.from = "utf8", NEW s, Units(s), UTF8Character(s),
         NEW c, c = Meaning("utf8", s)
  PROVE  SpellSize(call.to, c) = LeadWeight(Len(s))
<1>1. /\ Len(s) = 1 \/ Len(s) = 2 \/ Len(s) = 3 \/ Len(s) = 4
      /\ Len(s) = 1 => c < 128
      /\ Len(s) = 2 => c < 2048
      /\ Len(s) = 3 => c < 65536
      /\ Len(s) = 4 => 65536 <= c
      /\ c \in Nat
  BY UTF8CharacterIs, MeaningUTF8
<1>2. call.to # "utf8"
  BY OfferedIs
<1>3. c < 65536 <=> Len(s) # 4
  BY ONLY <1>1, SMT
<1> QED
  BY ONLY <1>1, <1>2, <1>3, call.to \in Targets DEF SpellSize, Size16, LeadWeight, Targets

LEMMA CharacterCosts ==
  ASSUME call \in Calls, call.to \in Targets, call.mode \in Readers, NEW t, UnitsOf(call.from, t),
         NEW p \in 0 .. Len(t), p < Len(t), NEW w, NEW c, StartsAt(call.from, call.to, t, p + 1, w, c)
  PROVE  Costs(t, p, w, c)
<1>1. /\ t \in Seq(Nat) /\ Len(t) \in Nat /\ DOMAIN t = 1 .. Len(t)
      /\ \A i \in 1 .. Len(t) : t[i] \in Nat
  BY UnitsIn
<1>2. p + 1 \in 1 .. Len(t) /\ call.from \in Texts
  <2>1. p + 1 \in 1 .. Len(t)
    BY ONLY <1>1, p \in 0 .. Len(t), p < Len(t), SMT
  <2> QED
    BY <2>1, OfferedIs
<1>3. PieceFacts(call.from, call.to, t, p + 1, w, c)
  BY ONLY <1>1, <1>2, StartsAt(call.from, call.to, t, p + 1, w, c), StartsPiece
<1>4. PICK s : s = Piece(t, p + 1, w)
  OBVIOUS
<1>5. /\ w \in 1 .. 4 /\ p + 1 + w - 1 <= Len(t) /\ c = Meaning(call.from, s)
      /\ IsCharacter(call.from, s) /\ Holds(call.to, c)
      /\ Units(s) /\ CopyOf(s, t, p + 1) /\ Len(s) = w /\ c \in Nat
  BY ONLY <1>3, <1>4 DEF PieceFacts
<1>6. CASE call.from = "utf8"
  <2>1. UTF8Character(s)
    BY ONLY <1>5, <1>6 DEF IsCharacter
  <2>2. /\ Len(s) = LeadWidth(s[1]) /\ \A i \in 2 .. Len(s) : Tail8(s[i])
    BY ONLY <1>5, <2>1, UTF8CharacterIs
  <2>3. LeadWidth(t[p + 1]) = w
    BY ONLY <1>5, <2>2 DEF CopyOf
  <2>4. \A i \in p + 2 .. p + w : Tail8(t[i])
    <3> TAKE i \in p + 2 .. p + w
    <3>1. PICK j \in 2 .. w : i = p + j
      <4>1. i - p \in 2 .. w /\ i = p + (i - p)
        BY ONLY <1>5, p \in 0 .. Len(t), <1>1, i \in p + 2 .. p + w, SMT
      <4> QED
        BY ONLY <4>1
    <3>2. (p + 1) + 1 = p + 2 /\ (p + 1) + 2 = p + 3 /\ (p + 1) + 3 = p + 4
      BY ONLY <1>1, p \in 0 .. Len(t), SMT
    <3>3. s[j] = t[p + j]
      <4>1. j = 2 \/ j = 3 \/ j = 4
        BY ONLY <1>5, <3>1, SMT
      <4>2. /\ j = 2 => 2 <= w
            /\ j = 3 => 3 <= w
            /\ j = 4 => 4 <= w
        BY ONLY <1>5, <3>1, SMT
      <4>3. /\ 2 <= w => s[2] = t[p + 2]
            /\ 3 <= w => s[3] = t[p + 3]
            /\ 4 <= w => s[4] = t[p + 4]
        BY ONLY <1>5, <3>2 DEF CopyOf
      <4> QED
        BY ONLY <4>1, <4>2, <4>3
    <3> QED
      BY ONLY <3>1, <3>3, <2>2, <1>5
  <2>5. p + w <= Len(t)
    BY ONLY <1>1, <1>5, p \in 0 .. Len(t), SMT
  <2>6. Due(t, p) = Due(t, p + w) + LeadWeight(w)
    BY <1>5, <1>6, <2>3, <2>4, <2>5, UTF8Cost
  <2>7. SpellSize(call.to, c) = LeadWeight(w)
    BY <1>5, <1>6, <2>1, UTF8Size
  <2> QED
    BY ONLY <2>6, <2>7 DEF Costs
<1>7. CASE call.from # "utf8" /\ w = 1
  <2>1. s[1] = t[p + 1] /\ c = t[p + 1] /\ Single(call.from, c)
    <3>1. s[1] = t[p + 1]
      BY ONLY <1>5 DEF CopyOf
    <3>2. (IsCharacter(call.from, s) <=> Single(call.from, s[1])) /\ Meaning(call.from, s) = s[1]
      BY <1>5, <1>7, SingleIs
    <3> QED
      BY ONLY <1>5, <3>1, <3>2
  <2>2. Weight(t, p + 1) = SpellSize(call.to, c)
    <3>1. p + 1 \in DOMAIN t /\ c \in Nat /\ c = t[p + 1] /\ Holds(call.to, c)
      BY ONLY <1>1, <1>2, <1>5, <2>1
    <3> QED
      BY <1>7, <2>1, <3>1, SingleWeight
  <2>3. Due(t, p) = Due(t, p + 1) + Weight(t, p + 1)
    <3>1. p \in 0 .. Len(t) - 1
      BY ONLY <1>1, p \in 0 .. Len(t), p < Len(t), SMT
    <3> QED
      BY ONLY <1>1, <3>1, DueSteps
  <2> QED
    BY ONLY <1>7, <2>2, <2>3 DEF Costs
<1>8. CASE call.from # "utf8" /\ w # 1
  <2>1. call.from = "utf16" /\ w = 2 /\ 65536 <= c
    <3>1. call.from \in Texts \ {"utf8"} /\ Units(s) /\ IsCharacter(call.from, s) /\ c = Meaning(call.from, s)
      BY ONLY <1>2, <1>5, <1>8
    <3>2. /\ Len(s) = 1 \/ (Len(s) = 2 /\ call.from = "utf16")
          /\ Len(s) = 2 => 65536 <= c
      BY ONLY <3>1, MeaningOthers
    <3> QED
      BY ONLY <1>5, <1>8, <3>2
  <2>2. call.to # "latin1"
    BY ONLY <1>5, <2>1, SMT DEF Holds
  <2>3. Pair(t, p + 1)
    BY <1>1, <1>2, <2>1, <2>2, PairStarts
  <2>4. (p + 1) + 1 \in 1 .. Len(t) /\ Weight(t, p + 1) + Weight(t, (p + 1) + 1) = SpellSize(call.to, c)
    <3>1. call.to \in Targets \ {"latin1"} /\ call.from = "utf16" /\ t \in Seq(Nat) /\ p + 1 \in 1 .. Len(t)
          /\ c \in Nat /\ 65536 <= c
      BY ONLY <1>1, <1>2, <1>5, <2>1, <2>2, call.to \in Targets
    <3> QED
      BY <2>3, <3>1, PairWeight
  <2>5. p \in 0 .. Len(t) - 1 /\ p + 1 \in 0 .. Len(t) - 1 /\ (p + 1) + 1 = p + 2
    BY ONLY <1>1, <2>4, p \in 0 .. Len(t), SMT
  <2>6. /\ Due(t, p) = Due(t, p + 1) + Weight(t, p + 1) /\ Weight(t, p + 1) \in Int
        /\ Due(t, p + 1) = Due(t, p + 2) + Weight(t, p + 2)
        /\ Due(t, p + 2) \in Int /\ Weight(t, p + 2) \in Int
    BY ONLY <1>1, <2>5, DueSteps
  <2>7. Due(t, p) = Due(t, p + 2) + SpellSize(call.to, c)
    BY ONLY <2>4, <2>5, <2>6
  <2> QED
    BY ONLY <2>1, <2>7 DEF Costs
<1> QED
  BY ONLY <1>6, <1>7, <1>8

LEMMA DueNat ==
  ASSUME call \in Calls, NEW t, UnitsOf(call.from, t), NEW p \in 0 .. Len(t)
  PROVE  Due(t, p) \in Int /\ Due(t, p) >= 0
<1>1. DOMAIN t = 1 .. Len(t) /\ Len(t) \in Nat /\ \A i \in 1 .. Len(t) : t[i] \in Nat
  BY ONLY UnitsOf(call.from, t), UnitsIn
<1>2. PICK n \in Nat : n = Len(t)
  <2>1. Len(t) \in Nat
    BY ONLY <1>1
  <2> QED
    BY ONLY <2>1
<1>3. /\ Basic(t) \subseteq 1 .. n /\ Second(t) \subseteq 1 .. n /\ Third(t) \subseteq 1 .. n
      /\ Fourth(t) \subseteq 1 .. n /\ Paired(t) \subseteq 1 .. n
  BY ONLY <1>1, <1>2 DEF Basic, Second, Third, Fourth, Paired
<1>4. Paired(t) \subseteq Second(t) /\ Paired(t) \subseteq Third(t)
  <2> SUFFICES ASSUME NEW i \in Paired(t)
               PROVE  i \in Second(t) /\ i \in Third(t)
    OBVIOUS
  <2>1. i \in DOMAIN t /\ call.mode = "replacement" /\ Pair(t, i)
    BY DEF Paired
  <2>2. call.from = "utf16" /\ call.to = "utf8"
    BY <2>1, OfferedIs
  <2>3. t[i] \in Nat /\ t[i] >= 128 /\ t[i] >= 2048
    BY ONLY <1>1, <2>1, SMT DEF Pair, High
  <2> QED
    BY ONLY <2>1, <2>2, <2>3 DEF Second, Third
<1>5. p \in 0 .. n
  BY ONLY <1>2
<1>6. PICK a, b, c, d, e : /\ a = Left(Basic(t), p) /\ b = Left(Second(t), p) /\ c = Left(Third(t), p)
                           /\ d = Left(Fourth(t), p) /\ e = Left(Paired(t), p)
  OBVIOUS
<1>7. a \in Nat /\ b \in Nat /\ c \in Nat /\ d \in Nat /\ e \in Nat
  BY ONLY <1>3, <1>5, <1>6, n \in Nat, LeftIs
<1>8. e <= b /\ e <= c
  BY ONLY <1>3, <1>4, <1>5, <1>6, n \in Nat, LeftMonotone
<1>9. Due(t, p) = a + b + c + d - 2 * e
  BY ONLY <1>6 DEF Due
<1> QED
  BY ONLY <1>7, <1>8, <1>9, SMT

LEMMA DueRun ==
  ASSUME NEW t, NEW n \in Nat, DOMAIN t = 1 .. n, NEW p \in Nat, NEW k \in Nat, p + k <= n,
         \A i \in p + 1 .. p + k : Weight(t, i) = 1
  PROVE  Due(t, p) = k + Due(t, p + k)
<1> DEFINE G == {j \in 0 .. k : Due(t, p) = j + Due(t, p + j)}
<1>1. \A j \in 0 .. k : j \in G <=> Due(t, p) = j + Due(t, p + j)
  OBVIOUS
<1> HIDE DEF G
<1>2. \A q \in 0 .. n : Due(t, q) \in Int
  BY DueIs
<1>3. 0 \in G
  <2>1. p \in 0 .. n /\ p + 0 = p /\ 0 \in 0 .. k
    BY ONLY p \in Nat, k \in Nat, n \in Nat, p + k <= n, SMT
  <2> QED
    BY ONLY <1>1, <1>2, <2>1
<1>4. \A j \in 0 .. k - 1 : j \in G => j + 1 \in G
  <2> SUFFICES ASSUME NEW j \in 0 .. k - 1, j \in G
               PROVE  j + 1 \in G
    OBVIOUS
  <2>1. /\ j \in 0 .. k /\ j + 1 \in 0 .. k /\ p + j \in 0 .. n - 1 /\ (p + j) + 1 = p + (j + 1)
        /\ p + (j + 1) \in p + 1 .. p + k /\ j \in Nat
    BY ONLY j \in 0 .. k - 1, p \in Nat, k \in Nat, n \in Nat, p + k <= n, SMT
  <2>2. Due(t, p + j) = Due(t, (p + j) + 1) + Weight(t, (p + j) + 1) /\ Due(t, (p + j) + 1) \in Int
    BY ONLY <2>1, n \in Nat, DOMAIN t = 1 .. n, DueSteps
  <2>3. Weight(t, p + (j + 1)) = 1
    BY <2>1
  <2>4. Due(t, p) = j + Due(t, p + j)
    BY ONLY <1>1, <2>1, j \in G
  <2>5. Due(t, p) = (j + 1) + Due(t, p + (j + 1))
    BY ONLY <2>1, <2>2, <2>3, <2>4
  <2> QED
    BY ONLY <1>1, <2>1, <2>5
<1>5. 0 .. k \subseteq G
  BY ONLY <1>3, <1>4, k \in Nat, Upward
<1>6. k \in 0 .. k
  BY ONLY k \in Nat, SMT
<1> QED
  BY ONLY <1>1, <1>5, <1>6

(* What a kernel takes without a second look is owed one unit.             *)
LEMMA AsciiWeight ==
  ASSUME call \in Calls, call.to \in Targets, NEW t, NEW i \in DOMAIN t, t[i] \in Nat, t[i] < 128
  PROVE  Weight(t, i) = 1
<1>1. PICK u \in Nat : u = t[i] /\ u < 128
  OBVIOUS
<1>2. Weighs(t, i, u)
  BY <1>1, WeightOf
<1>3. /\ ~ Continuation(u) /\ ~ (u >= 240) /\ ~ (u >= 128) /\ ~ (u >= 2048) /\ ~ (u >= 65536) /\ ~ Low(u)
      /\ ~ Pair(t, i)
  <2>1. Continuation(u) <=> Tail8(u)
    BY ONLY u \in Nat, LeadWidthIs
  <2> QED
    BY ONLY <1>1, <2>1, SMT DEF Tail8, Within, Low, Pair, High
<1>4. /\ call.from \in {"utf8", "latin1", "utf16", "utf32"}
      /\ call.to = call.from => call.mode \in {"wellFormed", "swap"}
      /\ call.mode \in {"wellFormed", "swap"} => call.from = "utf16" /\ call.to = "utf16"
  BY OfferedIs DEF Targets, Texts, Readers
<1> QED
  BY ONLY <1>2, <1>3, <1>4, call.to \in Targets DEF Weighs, Bit, Targets

LEMMA EasyWeight ==
  ASSUME call \in Calls, call.to \in Targets, NEW t, NEW i \in DOMAIN t, t[i] \in Nat, IsUnit(call.from, t[i]),
         Easy(t[i])
  PROVE  Weight(t, i) = 1
<1>1. PICK u \in Nat : u = t[i] /\ IsUnit(call.from, u) /\ Easy(u)
  OBVIOUS
<1>2. CASE u < 128
  BY <1>1, <1>2, AsciiWeight
<1>3. CASE ~ (u < 128)
  <2>1. Weighs(t, i, u)
    BY <1>1, WeightOf
  <2>2. /\ call.from \in {"utf8", "latin1", "utf16", "utf32"}
        /\ call.to = call.from => call.mode \in {"wellFormed", "swap"}
        /\ call.mode \in {"wellFormed", "swap"} => call.from = "utf16" /\ call.to = "utf16"
    BY OfferedIs DEF Targets, Texts, Readers
  <2>3. CASE call.mode = "swap"
    BY ONLY <2>1, <2>2, <2>3 DEF Weighs
  <2>4. CASE call.mode # "swap" /\ call.from = "latin1"
    <3>1. call.to # "utf8"
      BY ONLY <1>1, <1>3, <2>4 DEF Easy
    <3> QED
      BY ONLY <2>1, <2>2, <2>4, <3>1 DEF Weighs, Bit
  <2>5. CASE call.mode # "swap" /\ call.from = "utf8"
    BY ONLY <1>1, <1>3, <2>5 DEF Easy
  <2>6. CASE call.mode # "swap" /\ call.from = "utf16" /\ call.to \in {"latin1", "utf16"}
    BY ONLY <2>1, <2>6 DEF Weighs
  <2>7. CASE call.mode # "swap" /\ call.from = "utf16" /\ call.to = "utf8"
    BY ONLY <1>1, <1>3, <2>7 DEF Easy
  <2>8. CASE call.mode # "swap" /\ call.from = "utf16" /\ call.to = "utf32"
    <3>1. ~ Surrogate(u)
      BY ONLY <1>1, <2>8 DEF Easy
    <3>2. ~ Low(u)
      BY ONLY <3>1, u \in Nat, SMT DEF Surrogate, Low
    <3> QED
      BY ONLY <2>1, <2>8, <3>2 DEF Weighs, Bit
  <2>9. CASE call.mode # "swap" /\ call.from = "utf32" /\ call.to = "latin1"
    BY ONLY <2>1, <2>9 DEF Weighs
  <2>10. CASE call.mode # "swap" /\ call.from = "utf32" /\ call.to = "utf8"
    BY ONLY <1>1, <1>3, <2>10 DEF Easy
  <2>11. CASE call.mode # "swap" /\ call.from = "utf32" /\ call.to = "utf16"
    <3>1. u < 65536
      BY ONLY <1>1, <2>11 DEF Easy
    <3>2. ~ (u >= 65536)
      BY ONLY <3>1, u \in Nat, SMT
    <3> QED
      BY ONLY <2>1, <2>11, <3>2 DEF Weighs, Bit
  <2> QED
    BY ONLY <2>2, <2>3, <2>4, <2>5, <2>6, <2>7, <2>8, <2>9, <2>10, <2>11,
         call.to \in Targets DEF Targets
<1> QED
  BY ONLY <1>2, <1>3

(* What is written and what is still owed                                  *)
(* A trusting converter of UTF-16 that is given a text it cannot trust.    *)
Misled == call.mode = "valid" /\ call.from = "utf16" /\ ~ Source.whole

Exactly == call.mode = "valid" => Source.whole

(* What is owed once p units are read, of the text the call was given.     *)
Owed(p) == Due(WordsIn, p)

(* k units written and p read: never more than was owed, and just that     *)
(* unless a trusting converter got a text it cannot trust.                 *)
Balanced(k, p) ==
  /\ Exactly => Owed(0) = k + Owed(p)
  /\ ~ Misled => Owed(0) >= k + Owed(p)

Pays(k, p, q) ==
  /\ Exactly => Owed(p) = k + Owed(q)
  /\ ~ Misled => Owed(p) >= k + Owed(q)

BudgetInv ==
  /\ pc \in {"kernel", "scalar"} => call.room >= Required(WordsIn)
  /\ pc = "kernel" => call.provider = "kernel"
  /\ call.to = "none" => out = << >>
  /\ pc # "overrun" /\ call.to # "none" => Balanced(Len(out), pos)
  /\ pc = "panicked" => out = << >> /\ call.room < Required(WordsIn)
  /\ pc = "overrun" => Misled

LEMMA SameBudget ==
  ASSUME call' = call
  PROVE  /\ Required(WordsIn)' = Required(WordsIn)
         /\ Misled' <=> Misled
         /\ \A k, p : Balanced(k, p)' <=> Balanced(k, p)
<1>1. WordsIn' = WordsIn /\ Source' = Source
  BY SameText
<1>2. Misled' <=> Misled
  BY ONLY <1>1, call' = call DEF Misled
<1>3. Exactly' <=> Exactly
  BY ONLY <1>1, call' = call DEF Exactly
<1>4. \A p : Owed(p)' = Owed(p)
  <2> TAKE p
  <2>1. /\ Basic(WordsIn)' = Basic(WordsIn) /\ Second(WordsIn)' = Second(WordsIn)
        /\ Third(WordsIn)' = Third(WordsIn) /\ Fourth(WordsIn)' = Fourth(WordsIn)
        /\ Paired(WordsIn)' = Paired(WordsIn)
    BY ONLY <1>1, call' = call DEF Basic, Second, Third, Fourth, Paired
  <2> QED
    BY ONLY <2>1 DEF Owed, Due
<1>5. \A k, p : Balanced(k, p)' <=> Balanced(k, p)
  BY ONLY <1>2, <1>3, <1>4 DEF Balanced
<1>6. Required(WordsIn)' = Required(WordsIn)
  BY ONLY <1>1, call' = call DEF Required
<1> QED
  BY ONLY <1>2, <1>5, <1>6

LEMMA OwedNat ==
  ASSUME call \in Calls, NEW p \in 0 .. Size
  PROVE  Owed(p) \in Int /\ Owed(p) >= 0
<1>1. UnitsOf(call.from, WordsIn) /\ Len(WordsIn) = Size
  BY WordsInFacts
<1>2. p \in 0 .. Len(WordsIn)
  BY ONLY <1>1
<1> QED
  BY <1>1, <1>2, DueNat DEF Owed

LEMMA RequiredIsOwed ==
  ASSUME call \in Calls
  PROVE  /\ call.to # "none" /\ call.mode # "safe" => Required(WordsIn) = Owed(0)
         /\ \A t : call.to = "none" \/ call.mode = "safe" => Required(t) = 0
<1>1. UnitsOf(call.from, WordsIn) /\ Len(WordsIn) = Size
  BY WordsInFacts
<1>2. ASSUME call.to # "none", call.mode # "safe"
      PROVE  Required(WordsIn) = Owed(0)
  <2>1. call.to \in Targets
    BY <1>2, OfferedIs
  <2>2. LengthOf(WordsIn) = Due(WordsIn, 0)
    BY <1>1, <2>1, LengthIsDue
  <2> QED
    BY ONLY <1>2, <2>2 DEF LengthOf, Owed
<1>3. ASSUME NEW t, call.to = "none" \/ call.mode = "safe"
      PROVE  Required(t) = 0
  <2>1. call.mode # "replacement" \/ call.to = "none"
    BY ONLY <1>3
  <2>2. call.mode = "safe" => call.from \in {"latin1", "utf16"} /\ call.to = "utf8"
    BY OfferedIs
  <2>3. CASE call.to = "none"
    BY ONLY <2>3 DEF Required, RequiredBy
  <2>4. CASE call.mode = "safe"
    BY ONLY <2>2, <2>4 DEF Required, RequiredBy
  <2> QED
    BY ONLY <1>3, <2>3, <2>4
<1> QED
  BY ONLY <1>2, <1>3

LEMMA BudgetPut ==
  ASSUME TypeInv, BudgetInv, pc \in {"kernel", "scalar"}, call' = call,
         NEW u, UnitsOf(call.to, u), call.to = "none" => u = << >>,
         pos' \in 0 .. Size, call.to # "none" => Pays(Len(u), pos, pos'),
         call.mode = "safe" => Len(out) + Len(u) <= call.room,
         NEW next \in {"kernel", "scalar"}, next = "kernel" => pc = "kernel", Put(u, next)
  PROVE  BudgetInv'
<1>1. /\ call \in Calls /\ pos \in 0 .. Size /\ UnitsOf(call.to, out)
      /\ call.room \in Nat
  <2>1. call \in Calls /\ base \in Nat /\ pos \in base .. Size /\ UnitsOf(call.to, out)
    BY DEF TypeInv
  <2>2. Size \in Nat /\ call.room \in Nat
    BY <2>1, CallFacts
  <2> QED
    BY ONLY <2>1, <2>2, SMT
<1>2. out \in Seq(Nat) /\ u \in Seq(Nat) /\ Len(out) \in Nat /\ Len(u) \in Nat
  BY <1>1, UnitsIn
<1>3. Size \in Nat
  BY <1>1, CallFacts
<1>4. 0 \in 0 .. Size
  BY ONLY <1>3, SMT
<1>5. Owed(0) \in Int /\ Owed(pos) \in Int /\ Owed(pos') \in Int /\ Owed(pos') >= 0
  <2>1. \A p \in 0 .. Size : Owed(p) \in Int /\ Owed(p) >= 0
    BY <1>1, OwedNat
  <2> QED
    BY ONLY <1>1, <1>4, <2>1, pos' \in 0 .. Size
<1>6. call.to # "none" => Balanced(Len(out), pos) /\ Pays(Len(u), pos, pos')
  BY ONLY BudgetInv, pc \in {"kernel", "scalar"},
       call.to # "none" => Pays(Len(u), pos, pos') DEF BudgetInv
<1>7. call.to # "none" => Balanced(Len(out) + Len(u), pos')
  <2> HAVE call.to # "none"
  <2> QED
    BY ONLY <1>2, <1>5, <1>6, call.to # "none" DEF Balanced, Pays
<1>8. /\ Required(WordsIn)' = Required(WordsIn) /\ (Misled' <=> Misled)
      /\ \A k, p : Balanced(k, p)' <=> Balanced(k, p)
  BY SameBudget
<1>9. call.room >= Required(WordsIn)
  BY DEF BudgetInv
<1>10. pc' = "overrun" => Misled
  <2> SUFFICES ASSUME pc' = "overrun", ~ Misled
               PROVE  FALSE
    OBVIOUS
  <2>1. ~ (Len(out) + Len(u) <= call.room)
    BY ONLY pc' = "overrun", next \in {"kernel", "scalar"}, Put(u, next), PutIs
  <2>2. CASE call.to = "none"
    <3>1. Len(out) = 0 /\ Len(u) = 0
      BY ONLY <2>2, BudgetInv, call.to = "none" => u = << >> DEF BudgetInv
    <3> QED
      BY ONLY <1>1, <2>1, <3>1, SMT
  <2>3. CASE call.to # "none" /\ call.mode # "safe"
    <3>1. Required(WordsIn) = Owed(0)
      BY <1>1, <2>3, RequiredIsOwed
    <3>2. Owed(0) >= Len(out) + Len(u) + Owed(pos')
      BY ONLY <1>7, <2>3, ~ Misled DEF Balanced
    <3> QED
      BY ONLY <1>1, <1>2, <1>5, <1>9, <2>1, <3>1, <3>2, SMT
  <2>4. CASE call.mode = "safe"
    BY ONLY <2>1, <2>4, call.mode = "safe" => Len(out) + Len(u) <= call.room
  <2> QED
    BY ONLY <2>2, <2>3, <2>4
<1>11. CASE pc' = "overrun"
  <2>1. out' = out
    BY ONLY <1>11, next \in {"kernel", "scalar"}, Put(u, next), PutIs
  <2>2. call.to = "none" => out = << >>
    BY DEF BudgetInv
  <2> QED
    BY ONLY <1>8, <1>10, <1>11, <2>1, <2>2, call' = call DEF BudgetInv
<1>12. CASE pc' # "overrun"
  <2>1. out' = out \o u /\ pc' = next
    BY ONLY <1>12, Put(u, next), PutIs
  <2>2. Len(out') = Len(out) + Len(u)
    BY ONLY <1>2, <2>1, JoinType
  <2>3. call.to = "none" => out' = << >>
    <3> HAVE call.to = "none"
    <3>1. out = << >> /\ u = << >>
      BY DEF BudgetInv
    <3>2. << >> \o << >> = << >>
      BY ONLY Prepend, ConcatEmptySeq
    <3> QED
      BY ONLY <2>1, <3>1, <3>2
  <2>5. pc' = "kernel" => call'.provider = "kernel"
    BY ONLY <2>1, BudgetInv, next = "kernel" => pc = "kernel", call' = call DEF BudgetInv
  <2>6. call'.room >= Required(WordsIn)'
    BY ONLY <1>8, <1>9, call' = call
  <2>7. pc' # "panicked"
    BY ONLY <2>1, next \in {"kernel", "scalar"}
  <2>8. call.to # "none" => Balanced(Len(out), pos)'
    <3>1. call.to # "none" => Balanced(Len(out'), pos')
      BY ONLY <1>7, <2>2
    <3> QED
      BY ONLY <1>8, <3>1
  <2> QED
    BY ONLY <1>12, <2>3, <2>5, <2>6, <2>7, <2>8, call' = call DEF BudgetInv
<1> QED
  BY ONLY <1>11, <1>12

LEMMA NothingSpent ==
  ASSUME BudgetInv, pc # "overrun", call' = call, out' = out, call.to # "none" => pos' = pos,
         pc' \in {"kernel", "scalar"} => call.room >= Required(WordsIn),
         pc' = "kernel" => call.provider = "kernel", pc' # "panicked", pc' # "overrun"
  PROVE  BudgetInv'
<1>1. /\ Required(WordsIn)' = Required(WordsIn) /\ (Misled' <=> Misled)
      /\ \A k, p : Balanced(k, p)' <=> Balanced(k, p)
  BY SameBudget
<1>2. call.to # "none" => Balanced(Len(out'), pos')
  BY DEF BudgetInv
<1>3. call.to # "none" => Balanced(Len(out), pos)'
  BY ONLY <1>1, <1>2
<1>4. call'.to = "none" => out' = << >>
  BY DEF BudgetInv
<1>5. pc' \in {"kernel", "scalar"} => call'.room >= Required(WordsIn)'
  BY <1>1
<1> QED
  BY ONLY <1>1, <1>3, <1>4, <1>5, call' = call, pc' = "kernel" => call.provider = "kernel",
          pc' # "panicked", pc' # "overrun" DEF BudgetInv

LEMMA BudgetOfStill ==
  ASSUME TypeInv, BudgetInv,
         Enter \/ Inspect \/ UTF8Kernel \/ Full \/ Reject \/ GiveUp \/ CutShort \/ Conclude
  PROVE  BudgetInv'
<1>1. CASE Enter
  <2>1. call' = call /\ out' = out /\ pos' = pos /\ pc = "call" /\ pc' \in {"kernel", "scalar"}
    BY <1>1 DEF Enter
  <2>2. pc' = "kernel" => call.provider = "kernel"
    BY <1>1 DEF Enter
  <2>3. call.room >= Required(WordsIn)
    BY <1>1 DEF Enter, WordsIn
  <2> QED
    BY <2>1, <2>2, <2>3, NothingSpent
<1>2. CASE Inspect
  <2>1. call' = call /\ out' = out /\ pos' = pos /\ pc = "call" /\ pc' = "returned"
    BY <1>2 DEF Inspect, Answer
  <2> QED
    BY <2>1, NothingSpent
<1>3. CASE UTF8Kernel
  <2>1. call' = call /\ out' = out /\ pc = "kernel" /\ call.to = "none" /\ pc' = "scalar"
    BY <1>3 DEF UTF8Kernel
  <2>2. call.room >= Required(WordsIn)
    BY <2>1 DEF BudgetInv
  <2> QED
    BY <2>1, <2>2, NothingSpent
<1>4. CASE Full \/ Reject \/ GiveUp \/ CutShort \/ Conclude
  <2>1. call' = call /\ out' = out /\ pos' = pos /\ pc = "scalar" /\ pc' = "returned"
    BY <1>4 DEF Full, Reject, GiveUp, CutShort, Conclude, Judged, Looping, Succeed, Fail, Answer
  <2> QED
    BY <2>1, NothingSpent
<1> QED
  BY <1>1, <1>2, <1>3, <1>4

LEMMA BudgetOfRefuse ==
  ASSUME TypeInv, BudgetInv, Refuse
  PROVE  BudgetInv'
<1>1. /\ call' = call /\ out' = out /\ pos' = pos /\ pc = "call" /\ pc' = "panicked"
      /\ call.room < Required(WordsIn)
  BY DEF Refuse, WordsIn
<1>2. out = << >>
  BY <1>1 DEF TypeInv
<1>3. /\ Required(WordsIn)' = Required(WordsIn) /\ (Misled' <=> Misled)
      /\ \A k, p : Balanced(k, p)' <=> Balanced(k, p)
  BY <1>1, SameBudget
<1>4. call.to # "none" => Balanced(Len(out'), pos')
  BY <1>1 DEF BudgetInv
<1>5. call.to # "none" => Balanced(Len(out), pos)'
  BY ONLY <1>3, <1>4
<1> QED
  BY ONLY <1>1, <1>2, <1>3, <1>5 DEF BudgetInv

LEMMA BudgetOfStutter ==
  ASSUME BudgetInv, UNCHANGED vars
  PROVE  BudgetInv'
<1>1. call' = call /\ out' = out /\ pos' = pos /\ pc' = pc
  BY DEF vars
<1>2. /\ Required(WordsIn)' = Required(WordsIn) /\ (Misled' <=> Misled)
      /\ \A k, p : Balanced(k, p)' <=> Balanced(k, p)
  BY <1>1, SameBudget
<1>3. pc # "overrun" /\ call.to # "none" => Balanced(Len(out'), pos')
  BY <1>1 DEF BudgetInv
<1>4. pc # "overrun" /\ call.to # "none" => Balanced(Len(out), pos)'
  BY ONLY <1>2, <1>3
<1> QED
  BY ONLY BudgetInv, <1>1, <1>2, <1>4 DEF BudgetInv

LEMMA BudgetOfInit ==
  ASSUME Init
  PROVE  BudgetInv
<1>1. /\ call \in Calls /\ pc = "call" /\ pos = 0 /\ out = << >>
  BY DEF Init
<1>2. Len(out) = 0
  BY <1>1
<1>3. Owed(0) \in Int
  <2>1. Size \in Nat
    BY <1>1, CallFacts
  <2>2. 0 \in 0 .. Size
    BY ONLY <2>1, SMT
  <2> QED
    BY <1>1, <2>2, OwedNat
<1>4. Balanced(Len(out), pos)
  BY ONLY <1>1, <1>2, <1>3, SMT DEF Balanced
<1> QED
  BY ONLY <1>1, <1>4 DEF BudgetInv

(* The kernel's prefix is owed one unit for each it takes.                 *)
LEMMA PrefixOwed ==
  ASSUME call \in Calls, call.to \in Targets, NEW p \in Nat, NEW k \in Nat, p + k <= Size,
         \A i \in p + 1 .. p + k : Easy(WordsIn[i])
  PROVE  Owed(p) = k + Owed(p + k)
<1>1. UnitsOf(call.from, WordsIn) /\ Len(WordsIn) = Size /\ Size \in Nat
  BY WordsInFacts
<1>2. PICK t : t = WordsIn
  OBVIOUS
<1>3. DOMAIN t = 1 .. Size /\ \A i \in 1 .. Size : t[i] \in Nat /\ IsUnit(call.from, t[i])
  BY ONLY <1>1, <1>2, UnitsIn
<1>4. \A i \in p + 1 .. p + k : Weight(t, i) = 1
  <2> TAKE i \in p + 1 .. p + k
  <2>1. i \in 1 .. Size
    BY ONLY <1>1, p \in Nat, k \in Nat, p + k <= Size, i \in p + 1 .. p + k, SMT
  <2>2. Easy(t[i]) /\ i \in DOMAIN t /\ t[i] \in Nat /\ IsUnit(call.from, t[i])
    BY <1>2, <1>3, <2>1
  <2> QED
    BY <2>2, EasyWeight
<1> QED
  BY <1>1, <1>2, <1>3, <1>4, DueRun DEF Owed

LEMMA RestOwed ==
  ASSUME call \in Calls, call.to \in Targets, call.mode # "safe", NEW n \in 0 .. Size
  PROVE  Required(RestAfter(n)) = Owed(n)
<1>1. UnitsOf(call.from, WordsIn) /\ Len(WordsIn) = Size
  BY WordsInFacts
<1>2. PICK s : s = RestAfter(n)
  OBVIOUS
<1>3. Ahead(WordsIn, n, s)
  BY ONLY <1>1, <1>2, n \in 0 .. Size DEF Ahead, RestAfter, WordsIn
<1>4. UnitsOf(call.from, s)
  <2>1. RestOf(call.from, WordsIn, n, s)
    BY <1>1, <1>3, RestIs
  <2> QED
    BY ONLY <2>1 DEF RestOf
<1>5. LengthOf(s) = Due(s, 0)
  BY <1>4, LengthIsDue
<1>6. Due(s, 0) = Due(WordsIn, n)
  BY <1>1, <1>3, RestDue
<1> QED
  BY ONLY <1>2, <1>5, <1>6, call.mode # "safe" DEF LengthOf, Owed

LEMMA BudgetOfKernel ==
  ASSUME TypeInv, BudgetInv, Kernel
  PROVE  BudgetInv'
<1>1. PICK n, units : KernelBegins(n, units) /\ KernelEnds(n, units)
  BY KernelStep
<1>2. /\ n \in 0 .. Size /\ n \in Nat /\ pos = 0 /\ out = << >> /\ pc = "kernel"
      /\ call' = call /\ pos' = n
      /\ \A i \in 1 .. n : Easy(Input[i])
      /\ UnitsOf(call.to, units)
      /\ call.to = "none" => units = << >>
      /\ call.to # "none" => Len(units) = n
  BY ONLY <1>1 DEF KernelBegins
<1>3. call \in Calls /\ UnitsOf(call.to, out)
  BY DEF TypeInv
<1>4. call.room \in Nat /\ Size \in Nat /\ call.provider = "kernel" /\ call.room >= Required(WordsIn)
  BY <1>2, <1>3, CallFacts DEF BudgetInv
<1>5. call.mode # "safe"
  BY <1>3, <1>4, OfferedIs
<1>6. /\ Required(WordsIn)' = Required(WordsIn) /\ (Misled' <=> Misled)
      /\ \A k, p : Balanced(k, p)' <=> Balanced(k, p)
  BY <1>2, SameBudget
<1>7. CASE call.to = "none"
  <2>1. Required(RestAfter(n)) = 0 /\ Len(units) = 0
    BY <1>2, <1>3, <1>7, RequiredIsOwed
  <2>2. ~ (call.room - Len(units) < Required(RestAfter(n)))
    BY ONLY <1>4, <2>1, SMT
  <2>3. out' = << >> /\ pc' = "scalar"
    BY ONLY <1>1, <1>2, <1>7, <2>2 DEF KernelEnds
  <2> QED
    BY ONLY <1>2, <1>4, <1>6, <1>7, <2>3 DEF BudgetInv
<1>8. CASE call.to # "none"
  <2>1. call.to \in Targets
    BY <1>3, <1>8, OfferedIs
  <2>2. \A i \in 0 + 1 .. 0 + n : Easy(WordsIn[i])
    <3>1. \A i \in 1 .. Size : i > Len(out) => Input[i] = WordsIn[i]
      BY <1>3, InputIs
    <3>2. Len(out) = 0
      BY ONLY <1>2
    <3>3. \A i \in 0 + 1 .. 0 + n : i \in 1 .. n /\ i \in 1 .. Size /\ i > 0
      BY ONLY <1>2, <1>4, SMT
    <3> QED
      BY ONLY <1>2, <3>1, <3>2, <3>3
  <2>3. Owed(0) = n + Owed(0 + n)
    <3>1. 0 \in Nat /\ 0 + n <= Size
      BY ONLY <1>2, <1>4, SMT
    <3> QED
      BY <1>2, <1>3, <2>1, <2>2, <3>1, PrefixOwed
  <2>4. 0 + n = n
    BY ONLY <1>2
  <2>5. Owed(n) \in Int /\ Owed(n) >= 0
    BY <1>2, <1>3, OwedNat
  <2>6. Required(WordsIn) = Owed(0) /\ Required(RestAfter(n)) = Owed(n)
    BY <1>2, <1>3, <1>5, <1>8, <2>1, RequiredIsOwed, RestOwed
  <2>7. ~ (n > call.room) /\ ~ (call.room - Len(units) < Required(RestAfter(n)))
    BY ONLY <1>2, <1>4, <1>8, <2>3, <2>4, <2>5, <2>6, SMT
  <2>8. out' = units /\ pc' \in {"scalar", "returned"}
    BY ONLY <1>1, <2>7 DEF KernelEnds, Answer
  <2>9. Balanced(Len(out'), pos')
    BY ONLY <1>2, <1>8, <2>3, <2>4, <2>5, <2>8, SMT DEF Balanced
  <2>10. Balanced(Len(out), pos)'
    BY ONLY <1>6, <2>9
  <2> QED
    BY ONLY <1>2, <1>4, <1>6, <1>8, <2>8, <2>10 DEF BudgetInv
<1> QED
  BY ONLY <1>7, <1>8

LEMMA PaysExactly ==
  ASSUME NEW k, NEW p, NEW q, Owed(p) = k + Owed(q), Owed(p) \in Int
  PROVE  Pays(k, p, q)
BY DEF Pays

LEMMA BudgetOfResumed ==
  ASSUME TypeInv, BudgetInv, ResumedKernel
  PROVE  BudgetInv'
<1>1. PICK n, last, part, rest :
        /\ ResumedBegins(n, last, part, rest)
        /\ Put(part \o rest, IF last = Size THEN "scalar" ELSE "kernel")
  BY ResumedStep
<1>2. /\ call.from = "latin1" /\ call.to = "utf8" /\ pc = "kernel" /\ call' = call /\ pos' = last
      /\ n \in pos .. Size /\ n \in Nat /\ last \in n .. Size /\ last \in Nat
      /\ \A i \in pos + 1 .. n : Easy(Input[i])
      /\ part = SubSeq(Input, pos + 1, n)
      /\ \/ n < Size /\ last = n + 1 /\ rest = Spelled(Input[last])
         \/ n = Size /\ last = n /\ rest = << >>
  BY ONLY <1>1 DEF ResumedBegins
<1>3. call \in Calls /\ UnitsOf(call.to, out) /\ pos \in Nat /\ call.provider = "kernel"
  BY <1>2 DEF TypeInv, BudgetInv
<1>4. /\ Size \in Nat /\ call.mode \in {"plain", "safe"} /\ call.mode # "safe" /\ call.mode \in Checking
      /\ call.mode \in Readers /\ call.to \in Targets /\ call.mode # "swap" /\ call.swapped \in BOOLEAN
  BY <1>2, <1>3, CallFacts, OfferedIs DEF Checking, Readers, Targets
<1>5. /\ Input = WordsIn /\ UnitsOf(call.from, WordsIn) /\ Len(WordsIn) = Size /\ WordsIn \in Seq(Nat)
  BY <1>4, ReadsText
<1>6. PICK k \in Nat : n = pos + k /\ pos + k <= Size
  <2>1. n - pos \in Nat /\ n = pos + (n - pos) /\ pos + (n - pos) <= Size
    BY ONLY <1>2, <1>3, <1>4, SMT
  <2> QED
    BY ONLY <2>1
<1>7. Owed(pos) = k + Owed(n)
  <2>1. \A i \in pos + 1 .. pos + k : Easy(WordsIn[i])
    BY ONLY <1>2, <1>5, <1>6
  <2> QED
    BY <1>3, <1>4, <1>6, <2>1, PrefixOwed
<1>8. Len(part) = k /\ part \in Seq(Nat) /\ UnitsOf(call.to, part)
  <2>1. \A i \in pos + 1 .. pos + k : WordsIn[i] < 128
    <3> TAKE i \in pos + 1 .. pos + k
    <3>1. Easy(WordsIn[i])
      BY ONLY <1>2, <1>5, <1>6, i \in pos + 1 .. pos + k
    <3> QED
      BY ONLY <1>2, <1>4, <3>1 DEF Easy
  <2>2. part = Firsts(WordsIn, pos, k) /\ Firsts(WordsIn, pos, k) \in Seq(Nat)
    <3>1. SubSeq(WordsIn, pos + 1, pos + k) = Firsts(WordsIn, pos, k) /\ Firsts(WordsIn, pos, k) \in Seq(Nat)
      BY ONLY <1>2, <1>3, <1>4, <1>5, <1>6, <2>1, CopyIsFirsts
    <3> QED
      BY ONLY <1>2, <1>5, <1>6, <3>1
  <2>3. part = FirstUnits(pos, k)
    BY ONLY <1>5, <2>2 DEF Firsts, FirstUnits
  <2> QED
    BY <1>2, <1>3, <1>6, <2>2, <2>3, FirstUnitsType
<1>9. UnitsOf(call.to, rest) /\ Owed(n) = Len(rest) + Owed(last)
  <2>1. CASE n = Size /\ last = n /\ rest = << >>
    <3>1. Owed(n) \in Int
      <4>1. n \in 0 .. Size
        BY ONLY <1>2, <1>3, <1>4, SMT
      <4> QED
        BY <1>3, <4>1, OwedNat
    <3>2. UnitsOf(call.to, << >>) /\ Len(<< >>) = 0
      BY NoUnits
    <3> QED
      BY ONLY <2>1, <3>1, <3>2
  <2>2. CASE n < Size /\ last = n + 1 /\ rest = Spelled(Input[last])
    <3>1. n \in 0 .. Len(WordsIn) /\ n < Len(WordsIn) /\ last \in 1 .. Len(WordsIn)
      BY ONLY <1>2, <1>4, <1>5, <2>2, SMT
    <3>2. PICK c : c = WordsIn[last]
      OBVIOUS
    <3>3. c \in Nat /\ IsUnit("latin1", c)
      BY ONLY <1>2, <1>5, <3>1, <3>2, UnitsIn
    <3>4. Single(call.from, c) /\ Holds(call.to, c)
      BY ONLY <1>2, <3>3 DEF Single, Holds, IsUnit
    <3>5. StartsAt(call.from, call.to, WordsIn, n + 1, 1, c)
      BY ONLY <1>5, <2>2, <3>1, <3>2, <3>4, SingleStarts
    <3>6. Costs(WordsIn, n, 1, c)
      BY <1>3, <1>4, <1>5, <3>1, <3>5, CharacterCosts
    <3>7. rest = Spelled(c) /\ UnitsOf(call.to, rest) /\ Len(rest) = SpellSize(call.to, c)
      <4>1. UnitsOf(call.to, Spelled(c)) /\ Len(Spelled(c)) = SpellSize(call.to, c)
        BY <1>4, <3>3, SpelledIs
      <4> QED
        BY ONLY <1>5, <2>2, <3>2, <4>1
    <3>8. Owed(n) = Owed(last) + SpellSize(call.to, c)
      BY ONLY <2>2, <3>6 DEF Costs, Owed
    <3>9. Owed(last) \in Int
      <4>1. last \in 0 .. Size
        BY ONLY <1>5, <1>4, <3>1, SMT
      <4> QED
        BY <1>3, <4>1, OwedNat
    <3>10. SpellSize(call.to, c) \in Int
      BY <1>4, <3>3, SizesFew
    <3> QED
      BY ONLY <3>7, <3>8, <3>9, <3>10, SMT
  <2> QED
    BY ONLY <1>2, <2>1, <2>2
<1>10. UnitsOf(call.to, part \o rest) /\ Len(part \o rest) = Len(part) + Len(rest)
  BY ONLY <1>8, <1>9, UnitsJoin
<1>11. pos' \in 0 .. Size
  BY ONLY <1>2, <1>4, SMT
<1>12. Pays(Len(part \o rest), pos, pos')
  <2>1. Len(rest) \in Nat
    BY ONLY <1>9, UnitsIn
  <2>2. Owed(pos') \in Int
    BY <1>3, <1>11, OwedNat
  <2>3. Owed(pos) = Len(part \o rest) + Owed(pos')
    BY ONLY <1>2, <1>7, <1>8, <1>9, <1>10, <2>1, <2>2, SMT
  <2>4. Owed(pos) \in Int
    BY ONLY <1>10, <1>8, <2>1, <2>2, <2>3, SMT
  <2> QED
    BY ONLY <2>3, <2>4, PaysExactly
<1> QED
  <2>1. PICK next \in {"kernel", "scalar"} : next = IF last = Size THEN "scalar" ELSE "kernel"
    OBVIOUS
  <2>2. PICK u : u = part \o rest
    OBVIOUS
  <2>3. UnitsOf(call.to, u) /\ Pays(Len(u), pos, pos') /\ Put(u, next)
    BY ONLY <1>1, <1>10, <1>12, <2>1, <2>2
  <2> QED
    BY <1>2, <1>4, <1>11, <2>1, <2>3, BudgetPut

LEMMA BudgetOfBlock ==
  ASSUME TypeInv, BudgetInv, AsciiBlock
  PROVE  BudgetInv'
<1>1. PICK units : BlockBegins(units) /\ Put(units, "scalar")
  BY BlockStep
<1>2. PICK k \in Nat : k = BlockSize
  BY BlockSizeIs
<1>3. /\ call.from \in {"ascii", "utf8"} /\ pc = "scalar" /\ call' = call /\ pos' = pos + k
      /\ pos + k <= Size /\ \A i \in pos + 1 .. pos + k : Input[i] < 128
      /\ call.to = "none" => units = << >>
      /\ call.to # "none" => units = FirstUnits(pos, k)
  BY ONLY <1>1, <1>2 DEF BlockBegins, FirstUnits
<1>4. call \in Calls /\ UnitsOf(call.to, out) /\ pos \in Nat
  BY DEF TypeInv
<1>5. Size \in Nat /\ call.mode # "safe" /\ ~ call.inPlace /\ call.to \in Targets \cup {"none"}
  BY <1>3, <1>4, CallFacts, OfferedIs
<1>6. Input = WordsIn /\ UnitsOf(call.from, WordsIn) /\ Len(WordsIn) = Size
  BY <1>4, <1>5, InputIs, WordsInFacts
<1>7. pos' \in 0 .. Size
  BY ONLY <1>2, <1>3, <1>4, <1>5, SMT
<1>8. UnitsOf(call.to, units)
  <2>1. CASE call.to = "none"
    BY ONLY <1>3, <2>1, NoUnits
  <2>2. CASE call.to # "none"
    BY <1>2, <1>3, <1>4, <2>2, FirstUnitsType
  <2> QED
    BY <2>1, <2>2
<1>9. call.to # "none" => Pays(Len(units), pos, pos')
  <2> SUFFICES ASSUME call.to # "none"
               PROVE  Pays(Len(units), pos, pos')
    OBVIOUS
  <2>1. Len(units) = k
    BY <1>2, <1>3, <1>4, FirstUnitsType
  <2>2. \A i \in pos + 1 .. pos + k : Weight(WordsIn, i) = 1
    <3> TAKE i \in pos + 1 .. pos + k
    <3>1. i \in 1 .. Len(WordsIn)
      BY ONLY <1>2, <1>3, <1>4, <1>6, <1>5, i \in pos + 1 .. pos + k, SMT
    <3>2. WordsIn[i] \in Nat /\ i \in DOMAIN WordsIn
      BY ONLY <1>6, <3>1, UnitsIn
    <3>3. WordsIn[i] < 128
      BY ONLY <1>3, <1>6, i \in pos + 1 .. pos + k
    <3> QED
      BY <1>4, <1>5, <3>2, <3>3, AsciiWeight
  <2>3. DOMAIN WordsIn = 1 .. Size
    BY ONLY <1>6, UnitsIn
  <2>4. Owed(pos) = k + Owed(pos + k)
    BY <1>2, <1>3, <1>4, <1>5, <2>2, <2>3, DueRun DEF Owed
  <2>5. Owed(pos) \in Int
    <3>1. pos \in 0 .. Size
      BY ONLY <1>2, <1>3, <1>4, <1>5, SMT
    <3> QED
      BY <1>4, <3>1, OwedNat
  <2> QED
    BY ONLY <1>3, <2>1, <2>4, <2>5, PaysExactly
<1> QED
  BY <1>1, <1>3, <1>5, <1>7, <1>8, <1>9, BudgetPut

LEMMA PlainWeights ==
  ASSUME call \in Calls, \/ call.from = "utf16" /\ call.to \in {"utf16", "latin1"}
                         \/ call.from = "utf32" /\ call.to = "latin1",
         NEW t, UnitsOf(call.from, t), NEW p \in Nat, NEW k \in Nat, p + k <= Len(t)
  PROVE  Due(t, p) = k + Due(t, p + k)
<1>1. t \in Seq(Nat) /\ Len(t) \in Nat /\ DOMAIN t = 1 .. Len(t)
  BY UnitsIn
<1>2. call.to \in Targets
  BY DEF Targets
<1>3. \A i \in p + 1 .. p + k : Weight(t, i) = 1
  <2> TAKE i \in p + 1 .. p + k
  <2>1. i \in DOMAIN t
    BY ONLY <1>1, i \in p + 1 .. p + k, p \in Nat, k \in Nat, p + k <= Len(t), SMT
  <2>2. PICK u : u = t[i]
    OBVIOUS
  <2>3. Weighs(t, i, u)
    BY <1>2, <2>1, <2>2, WeightOf
  <2> QED
    BY ONLY <2>3, \/ call.from = "utf16" /\ call.to \in {"utf16", "latin1"}
                  \/ call.from = "utf32" /\ call.to = "latin1" DEF Weighs
<1> QED
  BY <1>1, <1>3, DueRun

(* A trusting converter of UTF-32 pays for whatever it is given.           *)
LEMMA AnyWordWeight ==
  ASSUME call \in Calls, call.to \in Targets, call.from = "utf32",
         NEW t, NEW i \in DOMAIN t, NEW u \in Nat, u = t[i]
  PROVE  Weight(t, i) = SpellSize(call.to, u)
<1>1. Weighs(t, i, u)
  BY WeightOf
<1>2. call.to \in {"utf8", "utf16", "latin1"}
  BY CallFacts DEF Offered, Targets
<1>3. CASE call.to = "utf8"
  <2>1. Weight(t, i) = 1 + Bit(u >= 128) + Bit(u >= 2048) + Bit(u >= 65536)
    BY ONLY <1>1, <1>3, call.from = "utf32" DEF Weighs
  <2> QED
    BY ONLY <1>3, <2>1, u \in Nat, SMT DEF Bit, SpellSize, Size8
<1>4. CASE call.to = "utf16"
  <2>1. Weight(t, i) = 1 + Bit(u >= 65536)
    BY ONLY <1>1, <1>4, call.from = "utf32" DEF Weighs
  <2> QED
    BY ONLY <1>4, <2>1, u \in Nat, SMT DEF Bit, SpellSize, Size16
<1>5. CASE call.to = "latin1"
  <2>1. Weight(t, i) = 1
    BY ONLY <1>1, <1>5, call.from = "utf32" DEF Weighs
  <2> QED
    BY ONLY <1>5, <2>1, SMT DEF SpellSize
<1> QED
  BY ONLY <1>2, <1>3, <1>4, <1>5

(* What is owed for UTF-8 only becomes less.                               *)
LEMMA DueFalls ==
  ASSUME call \in Calls, call.to \in Targets, call.from = "utf8", NEW t, UnitsOf(call.from, t),
         NEW p \in 0 .. Len(t)
  PROVE  \A q \in p .. Len(t) : Due(t, p) >= Due(t, q) /\ Due(t, q) \in Int
<1>1. t \in Seq(Nat) /\ Len(t) \in Nat /\ DOMAIN t = 1 .. Len(t)
  BY UnitsIn
<1>2. \A i \in DOMAIN t : Weight(t, i) \in Int /\ Weight(t, i) >= 0
  <2> TAKE i \in DOMAIN t
  <2>1. PICK u : u = t[i]
    OBVIOUS
  <2>2. Weighs(t, i, u)
    BY <2>1, WeightOf
  <2>3. Weight(t, i) = Bit(~ Continuation(u)) + Bit(call.to = "utf16" /\ u >= 240)
    BY ONLY <2>2, call.from = "utf8" DEF Weighs
  <2>4. Bit(~ Continuation(u)) \in {0, 1} /\ Bit(call.to = "utf16" /\ u >= 240) \in {0, 1}
    BY ONLY BitIs
  <2> QED
    BY ONLY <2>3, <2>4, SMT
<1>3. \A q \in 0 .. Len(t) : Due(t, q) \in Int
  BY ONLY <1>1, DueIs
<1>4. \A q \in 0 .. Len(t) - 1 : Due(t, q) = Due(t, q + 1) + Weight(t, q + 1)
  BY ONLY <1>1, DueIs
<1>5. PICK m \in Nat : m = Len(t) - p
  <2>1. Len(t) - p \in Nat
    BY ONLY <1>1, p \in 0 .. Len(t), SMT
  <2> QED
    BY ONLY <2>1
<1> DEFINE G == {k \in 0 .. m : Due(t, p) >= Due(t, p + k)}
<1>6. \A k : k \in G <=> k \in 0 .. m /\ Due(t, p) >= Due(t, p + k)
  OBVIOUS
<1> HIDE DEF G
<1>7. 0 \in G
  BY ONLY <1>1, <1>3, <1>5, <1>6, p \in 0 .. Len(t), SMT
<1>8. \A k \in 0 .. m - 1 : k \in G => k + 1 \in G
  <2> SUFFICES ASSUME NEW k \in 0 .. m - 1, k \in G
               PROVE  k + 1 \in G
    OBVIOUS
  <2>1. PICK q : q = p + k
    OBVIOUS
  <2>2. q \in 0 .. Len(t) - 1 /\ q + 1 \in DOMAIN t /\ q \in 0 .. Len(t) /\ q + 1 \in 0 .. Len(t)
        /\ p + (k + 1) = q + 1 /\ k + 1 \in 0 .. m
    BY ONLY <1>1, <1>5, <2>1, p \in 0 .. Len(t), k \in 0 .. m - 1, SMT
  <2>3. Due(t, p) >= Due(t, q)
    BY ONLY <1>6, <2>1, k \in G
  <2>4. /\ Due(t, q) = Due(t, q + 1) + Weight(t, q + 1) /\ Weight(t, q + 1) >= 0 /\ Weight(t, q + 1) \in Int
        /\ Due(t, q) \in Int /\ Due(t, q + 1) \in Int /\ Due(t, p) \in Int
    BY ONLY <1>2, <1>3, <1>4, <2>2, p \in 0 .. Len(t)
  <2>5. Due(t, p) >= Due(t, q + 1)
    BY ONLY <2>3, <2>4, SMT
  <2>6. Due(t, p) >= Due(t, p + (k + 1))
    BY ONLY <2>2, <2>5
  <2> QED
    BY ONLY <1>6, <2>2, <2>6
<1>9. 0 .. m \subseteq G
  BY ONLY <1>5, <1>7, <1>8, Upward
<1> QED
  <2> SUFFICES ASSUME NEW q \in p .. Len(t)
               PROVE  Due(t, p) >= Due(t, q) /\ Due(t, q) \in Int
    OBVIOUS
  <2>1. PICK k : k = q - p
    OBVIOUS
  <2>2. k \in 0 .. m /\ p + k = q /\ q \in 0 .. Len(t)
    BY ONLY <1>1, <1>5, <2>1, p \in 0 .. Len(t), q \in p .. Len(t), SMT
  <2>3. Due(t, p) >= Due(t, p + k)
    BY ONLY <1>6, <1>9, <2>2
  <2> QED
    BY ONLY <1>3, <2>2, <2>3

(* A lead whose bytes are all there, whatever they are.                    *)
LEMMA LeadSize ==
  ASSUME call.to \in Targets \ {"utf8"}, NEW t \in Seq(Nat), NEW p \in 1 .. Len(t), NEW w \in 1 .. 4,
         w = LeadWidth(t[p]), p + w - 1 <= Len(t), NEW c, c = Assembled(t, p)
  PROVE  c \in Nat /\ SpellSize(call.to, c) <= LeadWeight(w)
<1>0. Len(t) \in Nat
  BY LenProperties
<1>1. c \in Nat
  BY AssembledNat
<1>2. w # 4 => c < 65536
  <2> SUFFICES ASSUME w # 4 PROVE c < 65536
    OBVIOUS
  <2>1. CASE w = 1
    <3>1. t[p] \in Nat
      BY UnitAt
    <3>2. c = t[p]
      BY <2>1 DEF Assembled
    <3>3. t[p] < 128
      BY ONLY <2>1, <3>1, w = LeadWidth(t[p]), LeadWidthIs, SMT
    <3> QED
      BY ONLY <3>1, <3>2, <3>3, SMT
  <2>2. CASE w = 2
    <3>1. t[p] \in Nat /\ t[p + 1] \in Nat
      <4>1. p + 1 \in 1 .. Len(t)
        BY ONLY <1>0, <2>2, p \in 1 .. Len(t), p + w - 1 <= Len(t), SMT
      <4> QED
        BY ONLY <4>1, p \in 1 .. Len(t), t \in Seq(Nat)
    <3>2. c = (t[p] % 32) * 64 + (t[p + 1] % 64)
      BY <2>2 DEF Assembled
    <3>3. PICK a, b : a = t[p] % 32 /\ b = t[p + 1] % 64
      OBVIOUS
    <3>4. a \in Int /\ a <= 31 /\ b \in Int /\ b <= 63
      <4>1. \A x \in Nat : x % 32 \in Int /\ x % 32 <= 31
        BY ONLY SMT
      <4>2. \A x \in Nat : x % 64 \in Int /\ x % 64 <= 63
        BY ONLY SMT
      <4> QED
        BY ONLY <3>1, <3>3, <4>1, <4>2
    <3>5. c = a * 64 + b
      BY ONLY <3>2, <3>3
    <3> QED
      BY ONLY <3>4, <3>5, SMT
  <2>3. CASE w = 3
    <3>1. t[p] \in Nat /\ t[p + 1] \in Nat /\ t[p + 2] \in Nat
      <4>1. p + 1 \in 1 .. Len(t) /\ p + 2 \in 1 .. Len(t)
        BY ONLY <1>0, <2>3, p \in 1 .. Len(t), p + w - 1 <= Len(t), SMT
      <4> QED
        BY ONLY <4>1, p \in 1 .. Len(t), t \in Seq(Nat)
    <3>2. c = (t[p] % 16) * 4096 + (t[p + 1] % 64) * 64 + (t[p + 2] % 64)
      BY <2>3 DEF Assembled
    <3>3. PICK a, b, d : a = t[p] % 16 /\ b = t[p + 1] % 64 /\ d = t[p + 2] % 64
      OBVIOUS
    <3>4. a \in Int /\ a <= 15 /\ b \in Int /\ b <= 63 /\ d \in Int /\ d <= 63
      <4>1. \A x \in Nat : x % 16 \in Int /\ x % 16 <= 15
        BY ONLY SMT
      <4>2. \A x \in Nat : x % 64 \in Int /\ x % 64 <= 63
        BY ONLY SMT
      <4> QED
        BY ONLY <3>1, <3>3, <4>1, <4>2
    <3>5. c = a * 4096 + b * 64 + d
      BY ONLY <3>2, <3>3
    <3> QED
      BY ONLY <3>4, <3>5, SMT
  <2> QED
    BY ONLY <2>1, <2>2, <2>3, w \in 1 .. 4, w # 4, SMT
<1>3. CASE call.to = "utf16"
  BY ONLY <1>1, <1>2, <1>3, SMT DEF SpellSize, Size16, LeadWeight
<1>4. CASE call.to \in {"latin1", "utf32"}
  BY ONLY <1>1, <1>4, SMT DEF SpellSize, LeadWeight
<1> QED
  BY ONLY <1>1, <1>3, <1>4, call.to \in Targets \ {"utf8"} DEF Targets

(* A trusting converter of UTF-8 that can step over the bytes and pays no  *)
(* more than their lead is owed stays within what is owed.                 *)
LEMMA LeadCost ==
  ASSUME call \in Calls, call.to \in Targets \ {"utf8"}, call.from = "utf8", NEW t, UnitsOf(call.from, t),
         NEW p \in 0 .. Len(t), p < Len(t), NEW w \in 1 .. 4, w = LeadWidth(t[p + 1]), p + w <= Len(t),
         NEW n \in Nat, n <= LeadWeight(w)
  PROVE  Due(t, p) >= n + Due(t, p + w)
<1>1. t \in Seq(Nat) /\ Len(t) \in Nat /\ DOMAIN t = 1 .. Len(t)
  BY UnitsIn
<1>2. p + 1 \in 1 .. Len(t) /\ p \in 0 .. Len(t) - 1 /\ p + 1 + w - 1 <= Len(t) /\ p \in Nat
      /\ p + 1 \in 0 .. Len(t) /\ p + w \in 0 .. Len(t) /\ p + 1 <= p + w
  BY ONLY <1>1, p \in 0 .. Len(t), p < Len(t), w \in 1 .. 4, p + w <= Len(t), SMT
<1>3. t[p + 1] \in Nat /\ LeadWidth(t[p + 1]) # 0
  BY ONLY <1>1, <1>2, w = LeadWidth(t[p + 1]), w \in 1 .. 4, UnitAt, SMT
<1>4. Weight(t, p + 1) = LeadWeight(w)
  BY <1>1, <1>2, <1>3, LeadWeighs
<1>5. Due(t, p) = Due(t, p + 1) + Weight(t, p + 1) /\ Due(t, p + 1) \in Int
  BY <1>1, <1>2, DueSteps
<1>7. Due(t, p + 1) >= Due(t, p + w) /\ Due(t, p + w) \in Int
  <2>1. \A q \in p + 1 .. Len(t) : Due(t, p + 1) >= Due(t, q) /\ Due(t, q) \in Int
    BY <1>1, <1>2, DueFalls
  <2> QED
    BY ONLY <1>1, <1>2, <2>1, SMT
<1>8. LeadWeight(w) \in {1, 2}
  BY DEF LeadWeight
<1> QED
  BY ONLY <1>4, <1>5, <1>7, <1>8, n \in Nat, n <= LeadWeight(w), SMT

(* What a character that the loop steps over is spelled with, and what it  *)
(* is owed, in the text the call was given.                                *)
Stepped(u, t, p, q) ==
  /\ p \in 0 .. Len(t) /\ p < Len(t)
  /\ Judgement(t, p + 1) = "Success"
  /\ u = Converted(t, p + 1)
  /\ q = p + Width(t, p + 1)

LEMMA SteppedPlace ==
  ASSUME call \in Calls, call.mode \notin Inspections, NEW t, UnitsOf(call.from, t),
         NEW u, NEW p, NEW q, Stepped(u, t, p, q)
  PROVE  /\ Width(t, p + 1) \in 1 .. 4 /\ q \in 0 .. Len(t) /\ CodePoint(t, p + 1) \in Nat
         /\ p + 1 \in 1 .. Len(t) /\ Len(t) \in Nat /\ p \in Nat
         /\ call.mode = "swap" => IsUnit("utf16", CodePoint(t, p + 1))
<1>1. p \in 0 .. Len(t) /\ p < Len(t) /\ Judgement(t, p + 1) = "Success" /\ q = p + Width(t, p + 1)
  BY DEF Stepped
<1>2. Len(t) \in Nat
  BY UnitsIn
<1>3. p + 1 \in 1 .. Len(t) /\ p \in Nat
  BY ONLY <1>1, <1>2, SMT
<1>4. StepInside(t, p + 1)
  BY <1>1, <1>3, StepType
<1>5. /\ Width(t, p + 1) \in 1 .. 4 /\ p + 1 + Width(t, p + 1) - 1 <= Len(t) /\ CodePoint(t, p + 1) \in Nat
      /\ call.mode = "swap" => IsUnit("utf16", CodePoint(t, p + 1))
  BY ONLY <1>4 DEF StepInside
<1>6. q \in 0 .. Len(t)
  BY ONLY <1>1, <1>2, <1>3, <1>5, SMT
<1> QED
  BY ONLY <1>2, <1>3, <1>5, <1>6

(* A character paid for at what it costs.                                  *)
LEMMA StartedPays ==
  ASSUME call \in Calls, call.to \in Targets, call.mode \in Readers, NEW t, UnitsOf(call.from, t),
         NEW u, NEW p, NEW q, Stepped(u, t, p, q),
         StartsAt(call.from, call.to, t, p + 1, Width(t, p + 1), CodePoint(t, p + 1))
  PROVE  Due(t, p) = Len(u) + Due(t, q)
<1>1. call.mode \notin Inspections /\ call.mode # "swap" /\ call.swapped \in BOOLEAN
  BY CallFacts DEF Readers, Inspections
<1>2. PICK c, w : c = CodePoint(t, p + 1) /\ w = Width(t, p + 1)
  OBVIOUS
<1>3. c \in Nat /\ q \in 0 .. Len(t) /\ Len(t) \in Nat
  BY <1>1, <1>2, SteppedPlace
<1>4. p \in 0 .. Len(t) /\ p < Len(t) /\ u = Spelled(c) /\ q = p + w
  <2>1. p \in 0 .. Len(t) /\ p < Len(t) /\ u = Converted(t, p + 1) /\ q = p + w
    BY <1>2 DEF Stepped
  <2>2. p + 1 \in 1 .. Len(t)
    BY ONLY <1>3, <2>1, SMT
  <2>3. Converted(t, p + 1) = Spelled(c)
    BY <1>2, <2>2, ConvertedStarted
  <2> QED
    BY ONLY <2>1, <2>3
<1>5. Costs(t, p, w, c)
  BY <1>2, <1>4, CharacterCosts
<1>6. Len(u) = SpellSize(call.to, c) /\ Len(u) \in 1 .. 4
  BY <1>1, <1>3, <1>4, SpelledIs
<1>7. Due(t, q) \in Int
  BY <1>3, DueNat
<1>8. Due(t, p) = Due(t, q) + SpellSize(call.to, c)
  BY ONLY <1>4, <1>5 DEF Costs
<1> QED
  BY ONLY <1>6, <1>7, <1>8, SMT

(* A word for a word.                                                      *)
LEMMA WordPays ==
  ASSUME call \in Calls, call.mode = "swap" \/ JudgedAtEnd, NEW t, UnitsOf(call.from, t),
         NEW u, NEW p, NEW q, Stepped(u, t, p, q)
  PROVE  Due(t, p) = Len(u) + Due(t, q)
<1>1. /\ \/ call.from = "utf16" /\ call.to \in {"utf16", "latin1"}
         \/ call.from = "utf32" /\ call.to = "latin1"
      /\ call.mode \notin Inspections
      /\ call.mode = "swap" \/ call.to = "latin1"
  BY OfferedIs DEF JudgedAtEnd, Inspections
<1>2. PICK c : c = CodePoint(t, p + 1)
  OBVIOUS
<1>3. /\ p \in 0 .. Len(t) /\ p < Len(t) /\ u = Spelled(c) /\ q = p + Width(t, p + 1)
  <2>1. call.from # "utf8"
    BY ONLY <1>1
  <2> QED
    BY <1>2, <2>1, ConvertedOthers DEF Stepped
<1>4. Width(t, p + 1) = 1
  BY ONLY <1>1 DEF Width
<1>5. Len(u) = 1
  <2>1. CASE call.mode = "swap"
    <3>1. call.to = "utf16"
      BY <2>1, OfferedIs
    <3>2. Spelled(c) = << ReverseBytes16(c) >>
      BY ONLY <2>1, <3>1 DEF Spelled
    <3> QED
      BY ONLY <1>3, <3>2
  <2>2. CASE call.mode # "swap"
    <3>1. Spelled(c) = << c % 256 >>
      BY ONLY <1>1, <2>2 DEF Spelled
    <3> QED
      BY ONLY <1>3, <3>1
  <2> QED
    BY ONLY <2>1, <2>2
<1>6. p \in Nat /\ p + 1 <= Len(t) /\ 1 \in Nat
  <2>1. Len(t) \in Nat
    BY UnitsIn
  <2> QED
    BY ONLY <1>3, <2>1, SMT
<1>7. Due(t, p) = 1 + Due(t, p + 1)
  BY <1>1, <1>6, PlainWeights
<1> QED
  BY ONLY <1>3, <1>4, <1>5, <1>7

(* A trusting converter, whatever the text.                                *)
LEMMA TrustingPays ==
  ASSUME call \in Calls, call.to \in Targets, call.mode = "valid", call.from # "utf16", NEW t, UnitsOf(call.from, t),
         NEW u, NEW p, NEW q, Stepped(u, t, p, q)
  PROVE  Due(t, p) >= Len(u) + Due(t, q)
<1>1. /\ call.from \in {"utf8", "utf32"} /\ call.mode \notin Inspections /\ call.mode # "swap"
      /\ call.swapped \in BOOLEAN /\ call.from # call.to
  <2>1. call.from \in Sources /\ call.swapped \in BOOLEAN /\ Offered(call)
    BY CallFacts
  <2> QED
    BY ONLY <2>1, call.mode = "valid", call.from # "utf16", call.to \in Targets DEF Offered,
         Sources, Encodings, Inspections, Targets
<1>2. PICK c, w : c = CodePoint(t, p + 1) /\ w = Width(t, p + 1)
  OBVIOUS
<1>3. c \in Nat /\ w \in 1 .. 4 /\ q \in 0 .. Len(t) /\ Len(t) \in Nat /\ p + 1 \in 1 .. Len(t) /\ p \in Nat
  BY <1>1, <1>2, SteppedPlace
<1>4. p \in 0 .. Len(t) /\ p < Len(t) /\ u = Converted(t, p + 1) /\ q = p + w
  BY <1>2 DEF Stepped
<1>5. /\ ~ LongForm(t, p + 1) => Len(u) = SpellSize(call.to, c) /\ Len(u) \in 1 .. 4
      /\ LongForm(t, p + 1) => Len(u) = 2
  <2>1. ~ LongForm(t, p + 1) => u = Spelled(c)
    BY ONLY <1>2, <1>4 DEF Converted, LongForm
  <2>2. Len(Spelled(c)) = SpellSize(call.to, c) /\ Len(Spelled(c)) \in 1 .. 4
    BY <1>1, <1>3, SpelledIs
  <2>3. LongForm(t, p + 1) => Len(u) = 2
    BY ONLY <1>2, <1>3, <1>4, ConvertedPair
  <2> QED
    BY ONLY <2>1, <2>2, <2>3
<1>6. Due(t, q) \in Int
  BY <1>3, DueNat
<1>7. t \in Seq(Nat) /\ DOMAIN t = 1 .. Len(t)
  BY UnitsIn
<1>8. CASE call.from = "utf8"
  <2>1. w = LeadWidth(t[p + 1]) /\ c = Assembled(t, p + 1)
    BY ONLY <1>2, <1>8 DEF Width, CodePoint
  <2>2. p + w <= Len(t)
    BY ONLY <1>3, <1>4, SMT
  <2>3. call.to \in Targets \ {"utf8"}
    BY ONLY <1>1, <1>8, call.to \in Targets
  <2>4. Len(u) \in Nat /\ Len(u) <= LeadWeight(w)
    <3>1. CASE LongForm(t, p + 1)
      <4>1. Len(u) = 2 /\ LeadWeight(w) = 2
        BY ONLY <1>2, <1>5, <3>1 DEF LongForm, LeadWeight
      <4> QED
        BY ONLY <4>1, SMT
    <3>2. CASE ~ LongForm(t, p + 1)
      <4>1. p + 1 + w - 1 <= Len(t)
        BY ONLY <1>3, <2>2, SMT
      <4>2. SpellSize(call.to, c) <= LeadWeight(w)
        BY ONLY <1>3, <1>7, <2>1, <2>3, <4>1, LeadSize
      <4>3. Len(u) = SpellSize(call.to, c) /\ Len(u) \in 1 .. 4
        BY ONLY <1>5, <3>2
      <4>4. Len(u) \in Nat
        BY ONLY <4>3, SMT
      <4> QED
        BY ONLY <4>2, <4>3, <4>4
    <3> QED
      BY ONLY <3>1, <3>2
  <2>5. Due(t, p) >= Len(u) + Due(t, p + w)
    BY ONLY <1>3, <1>4, <1>8, <2>1, <2>2, <2>3, <2>4, LeadCost, UnitsOf(call.from, t), call \in Calls
  <2> QED
    BY ONLY <1>4, <2>5
<1>9. CASE call.from = "utf32"
  <2>1. w = 1 /\ c = t[p + 1]
    BY ONLY <1>2, <1>9 DEF Width, CodePoint
  <2>2. Weight(t, p + 1) = SpellSize(call.to, c)
    BY ONLY <1>3, <1>7, <1>9, <2>1, AnyWordWeight, call \in Calls, call.to \in Targets
  <2>3. p \in 0 .. Len(t) - 1
    BY ONLY <1>3, <1>4, SMT
  <2>4. Due(t, p) = Due(t, p + 1) + Weight(t, p + 1)
    BY ONLY <1>3, <1>7, <2>3, DueSteps
  <2>5. Len(u) = SpellSize(call.to, c) /\ Len(u) \in 1 .. 4
    BY ONLY <1>5, <1>9 DEF LongForm
  <2> QED
    BY ONLY <1>4, <1>6, <2>1, <2>2, <2>4, <2>5, SMT
<1> QED
  BY ONLY <1>1, <1>8, <1>9

(* A lone surrogate is owed what U+FFFD is spelled with.                   *)
LEMMA ReplacementPays ==
  ASSUME call \in Calls, call.mode \in {"replacement", "wellFormed"}, NEW t, UnitsOf(call.from, t),
         NEW p \in 0 .. Len(t), p < Len(t), Verdict(t, p + 1) = "Surrogate"
  PROVE  Due(t, p) = Len(Spelled(Replacement)) + Due(t, p + 1)
<1>1. /\ call.from = "utf16" /\ call.to \in {"utf8", "utf16"} /\ call.to \in Targets /\ call.mode \in Readers
      /\ call.mode = "replacement" => call.to = "utf8"
      /\ call.mode = "wellFormed" => call.to = "utf16"
      /\ call.mode # "swap" /\ call.swapped \in BOOLEAN
  BY OfferedIs, CallFacts DEF Targets, Readers
<1>2. t \in Seq(Nat) /\ Len(t) \in Nat /\ DOMAIN t = 1 .. Len(t)
  BY UnitsIn
<1>3. p + 1 \in 1 .. Len(t) /\ p \in Nat /\ p + 1 <= Len(t) /\ p \in 0 .. Len(t) - 1
  BY ONLY <1>2, p \in 0 .. Len(t), p < Len(t), SMT
<1>4. PICK i \in 1 .. Len(t) : i = p + 1
  BY <1>3
<1>5. Surrogate(t[i]) /\ ~ Pair(t, i)
  <2>1. Verdict(t, i) = UTF16Verdict(t, i)
    BY ONLY <1>1, VerdictOf
  <2> QED
    BY ONLY <1>4, <2>1, Verdict(t, p + 1) = "Surrogate" DEF UTF16Verdict
<1>6. Len(Spelled(Replacement)) = SpellSize(call.to, Replacement)
  BY <1>1, ReplacementNat, SpelledIs
<1>7. CASE call.mode = "wellFormed"
  <2>1. Due(t, p) = 1 + Due(t, p + 1)
    BY <1>1, <1>3, <1>7, PlainWeights
  <2>2. SpellSize(call.to, Replacement) = 1
    BY ONLY <1>1, <1>7, SMT DEF SpellSize, Size16, Replacement
  <2> QED
    BY ONLY <1>6, <2>1, <2>2
<1>8. CASE call.mode = "replacement"
  <2>1. PICK u : u = t[i]
    OBVIOUS
  <2>2. Weighs(t, i, u)
    BY <1>1, <1>2, <2>1, WeightOf
  <2>3. Weight(t, i) = 1 + Bit(u >= 128) + Bit(u >= 2048) - 2 * Bit(Pair(t, i))
    BY ONLY <1>1, <1>8, <2>2 DEF Weighs
  <2>4. u \in Nat /\ u >= 55296
    <3>1. t[i] \in Nat /\ t[i] >= 55296
      BY ONLY <1>2, <1>5, SMT DEF Surrogate
    <3> QED
      BY ONLY <2>1, <3>1
  <2>5. Bit(u >= 128) = 1 /\ Bit(u >= 2048) = 1
    BY ONLY <2>4, SMT DEF Bit
  <2>6. Bit(Pair(t, i)) = 0
    BY ONLY <1>5 DEF Bit
  <2>7. Weight(t, i) = 3
    BY ONLY <2>3, <2>5, <2>6, SMT
  <2>8. SpellSize(call.to, Replacement) = 3
    BY ONLY <1>1, <1>8, SMT DEF SpellSize, Size8, Replacement
  <2>9. Due(t, p) = Due(t, p + 1) + Weight(t, p + 1) /\ Due(t, p + 1) \in Int
    BY ONLY <1>2, <1>3, DueSteps
  <2> QED
    BY ONLY <1>4, <1>6, <2>7, <2>8, <2>9, SMT
<1> QED
  BY ONLY <1>7, <1>8, call.mode \in {"replacement", "wellFormed"}

(* In place what is owed is the same in the text and in what is read back. *)
LEMMA OwedInput ==
  ASSUME call \in Calls, UnitsOf(call.to, out), NEW p \in 0 .. Size, NEW q \in 0 .. Size,
         NEW k \in Int, p <= q, Due(Input, p) = k + Due(Input, q)
  PROVE  Owed(p) = k + Owed(q)
<1>1. /\ UnitsOf(call.from, Input) /\ Len(Input) = Size /\ (~ call.inPlace => Input = WordsIn)
      /\ UnitsOf(call.from, WordsIn) /\ Len(WordsIn) = Size /\ Size \in Nat
  BY InputIs, WordsInFacts
<1>2. CASE ~ call.inPlace
  BY ONLY <1>1, <1>2, Due(Input, p) = k + Due(Input, q) DEF Owed
<1>3. CASE call.inPlace
  <2>1. call.from = "utf16" /\ call.to = "utf16"
    BY <1>3, OfferedIs
  <2>2. PICK m : m = q - p
    OBVIOUS
  <2>3. m \in Nat /\ p + m = q /\ p \in Nat /\ p + m <= Size
    BY ONLY <1>1, <2>2, p \in 0 .. Size, q \in 0 .. Size, p <= q, SMT
  <2>4. Due(Input, p) = m + Due(Input, p + m) /\ Due(WordsIn, p) = m + Due(WordsIn, p + m)
    BY <1>1, <2>1, <2>3, PlainWeights
  <2>5. Due(Input, q) \in Int /\ Due(WordsIn, q) \in Int
    BY <1>1, DueNat
  <2>6. m = k
    BY ONLY <2>3, <2>4, <2>5, k \in Int, Due(Input, p) = k + Due(Input, q), SMT
  <2> QED
    BY ONLY <2>3, <2>4, <2>6 DEF Owed
<1> QED
  BY <1>2, <1>3

LEMMA AlwaysInside ==
  ASSUME TypeInv
  PROVE  /\ call \in Calls /\ UnitsOf(call.to, out) /\ pos \in 0 .. Size /\ pos \in Nat /\ Size \in Nat
         /\ call.room \in Nat
         /\ UnitsOf(call.from, Input) /\ Len(Input) = Size
         /\ UnitsOf(call.from, WordsIn) /\ Len(WordsIn) = Size
         /\ call.to \in Targets \cup {"none"} /\ Len(out) \in Nat
         /\ pc \in {"kernel", "scalar"} => call.mode \notin Inspections
<1>1. call \in Calls /\ UnitsOf(call.to, out) /\ base \in Nat /\ pos \in base .. Size
      /\ (pc \in {"kernel", "scalar"} => call.mode \notin Inspections)
  BY DEF TypeInv
<1>2. /\ Size \in Nat /\ call.room \in Nat /\ UnitsOf(call.from, Input) /\ Len(Input) = Size
      /\ UnitsOf(call.from, WordsIn) /\ Len(WordsIn) = Size /\ call.to \in Targets \cup {"none"}
  BY <1>1, CallFacts, InputIs, WordsInFacts, OfferedIs
<1>3. pos \in 0 .. Size /\ pos \in Nat
  BY ONLY <1>1, <1>2, SMT
<1>4. Len(out) \in Nat
  BY ONLY <1>1, UnitsIn
<1> QED
  BY ONLY <1>1, <1>2, <1>3, <1>4

LEMMA CharacterStepped ==
  ASSUME TypeInv, NEW u, CharacterBegins(u)
  PROVE  Stepped(u, Input, pos, pos') /\ pos' \in 0 .. Size /\ pos <= pos' /\ UnitsOf(call.to, u)
         /\ (call.to = "none" => u = << >>)
<1>1. /\ pc = "scalar" /\ pos < Size /\ Judgement(Input, pos + 1) = "Success"
      /\ u = Converted(Input, pos + 1) /\ pos' = pos + Width(Input, pos + 1)
  BY DEF CharacterBegins
<1>2. Stepped(u, Input, pos, pos')
  BY <1>1, AlwaysInside DEF Stepped
<1>3. call \in Calls /\ call.mode \notin Inspections /\ UnitsOf(call.from, Input) /\ Len(Input) = Size
      /\ pos \in Nat
  BY <1>1, AlwaysInside
<1>4. /\ Width(Input, pos + 1) \in 1 .. 4 /\ pos' \in 0 .. Size /\ CodePoint(Input, pos + 1) \in Nat
      /\ call.mode = "swap" => IsUnit("utf16", CodePoint(Input, pos + 1))
  BY <1>2, <1>3, SteppedPlace
<1>5. pos <= pos'
  BY ONLY <1>1, <1>3, <1>4, SMT
<1>6. UnitsOf(call.to, u) /\ (call.to = "none" => u = << >>)
  BY <1>1, <1>3, <1>4, ConvertedType
<1> QED
  BY ONLY <1>2, <1>4, <1>5, <1>6

(* What a checking or a repairing call accepts is a character.             *)
LEMMA CheckedStarts ==
  ASSUME call \in Calls, call.mode \in Readers \ {"valid"}, ~ JudgedAtEnd, NEW t, UnitsOf(call.from, t),
         NEW p \in 0 .. Len(t), p < Len(t), Judgement(t, p + 1) = "Success"
  PROVE  StartsAt(call.from, call.to, t, p + 1, Width(t, p + 1), CodePoint(t, p + 1))
<1>1. p + 1 \in 1 .. Len(t)
  <2>1. Len(t) \in Nat
    BY UnitsIn
  <2> QED
    BY ONLY <2>1, p \in 0 .. Len(t), p < Len(t), SMT
<1>2. PICK q \in 1 .. Len(t) : q = p + 1
  BY <1>1
<1>3. Right(t, q)
  BY RightAny
<1>4. Judgement(t, q) = Verdict(t, q)
  BY ONLY ~ JudgedAtEnd, call.mode \in Readers \ {"valid"} DEF Judgement
<1> QED
  BY ONLY <1>2, <1>3, <1>4, Judgement(t, p + 1) = "Success" DEF Right

LEMMA SafeFits ==
  ASSUME TypeInv, NEW u, CharacterBegins(u), call.mode = "safe"
  PROVE  Len(out) + Len(u) <= call.room
<1>1. ~ NoRoom /\ u = Spelled(CodePoint(Input, pos + 1)) /\ pc = "scalar"
  <2>1. ~ NoRoom /\ u = Converted(Input, pos + 1) /\ pc = "scalar"
    BY DEF CharacterBegins
  <2>2. call.from # "utf8"
    BY <2>1, AlwaysInside, OfferedIs
  <2> QED
    BY ONLY <2>1, <2>2, ConvertedOthers
<1>2. Len(u) <= Needed(Input, pos + 1) /\ Len(u) \in Nat /\ Needed(Input, pos + 1) \in Nat
  <2>1. Stepped(u, Input, pos, pos')
    BY CharacterStepped
  <2>2. CodePoint(Input, pos + 1) \in Nat /\ call.to # "none" /\ call.mode # "swap" /\ call \in Calls
    <3>1. call \in Calls /\ call.mode \notin Inspections /\ UnitsOf(call.from, Input)
      BY <1>1, AlwaysInside
    <3>2. CodePoint(Input, pos + 1) \in Nat
      BY <2>1, <3>1, SteppedPlace
    <3>3. call.to # "none"
      BY <3>1, OfferedIs
    <3> QED
      BY <3>1, <3>2, <3>3
  <2>3. Len(u) \in 1 .. 4
    BY <1>1, <2>2, SpelledType
  <2>4. Needed(Input, pos + 1) = 4 \/ Needed(Input, pos + 1) = Len(u)
    BY ONLY <1>1 DEF Needed
  <2> QED
    <3>1. PICK k : k = Needed(Input, pos + 1)
      OBVIOUS
    <3>2. PICK m : m = Len(u)
      OBVIOUS
    <3>3. m \in 1 .. 4 /\ (k = 4 \/ k = m)
      BY ONLY <2>3, <2>4, <3>1, <3>2
    <3>4. m <= k /\ m \in Nat /\ k \in Nat
      BY ONLY <3>3, SMT
    <3> QED
      BY ONLY <3>1, <3>2, <3>4
<1>3. ~ (call.room - Len(out) < Needed(Input, pos + 1))
  BY <1>1 DEF NoRoom, Here
<1>4. call.room \in Nat /\ Len(out) \in Nat
  BY AlwaysInside
<1> QED
  BY ONLY <1>2, <1>3, <1>4, SMT

LEMMA CharacterPays ==
  ASSUME TypeInv, LinkInv, NEW u, CharacterBegins(u), call.to # "none"
  PROVE  Pays(Len(u), pos, pos')
<1>1. /\ call \in Calls /\ UnitsOf(call.to, out) /\ pos \in 0 .. Size /\ UnitsOf(call.from, Input)
      /\ Len(Input) = Size /\ call.to \in Targets /\ call.mode \notin Inspections
      /\ pc = "scalar" /\ pos < Size /\ UnitsOf(call.from, WordsIn) /\ Len(WordsIn) = Size
  <2>1. pc = "scalar" /\ pos < Size
    BY DEF CharacterBegins
  <2> QED
    BY <2>1, AlwaysInside
<1>2. Stepped(u, Input, pos, pos') /\ pos' \in 0 .. Size /\ pos <= pos' /\ UnitsOf(call.to, u)
  BY CharacterStepped
<1>3. Len(u) \in Nat /\ Len(u) \in Int
  <2>1. Len(u) \in Nat
    BY ONLY <1>2, UnitsIn
  <2> QED
    BY ONLY <2>1, SMT
<1>4. Owed(pos) \in Int /\ Owed(pos') \in Int
  BY <1>1, <1>2, OwedNat
<1>5. ASSUME Due(Input, pos) = Len(u) + Due(Input, pos')
      PROVE  Pays(Len(u), pos, pos')
  <2>1. Owed(pos) = Len(u) + Owed(pos')
    BY <1>1, <1>2, <1>3, <1>5, OwedInput
  <2> QED
    BY ONLY <1>4, <2>1, PaysExactly
<1>6. ASSUME call.mode \in Readers, StartsAt(call.from, call.to, Input, pos + 1, Width(Input, pos + 1), CodePoint(Input, pos + 1))
      PROVE  Pays(Len(u), pos, pos')
  BY <1>1, <1>2, <1>5, <1>6, StartedPays
<1>7. CASE call.mode = "swap" \/ JudgedAtEnd
  BY <1>1, <1>2, <1>5, <1>7, WordPays
<1>8. CASE call.mode \in Readers \ {"valid"} /\ ~ JudgedAtEnd
  <2>1. Judgement(Input, pos + 1) = "Success"
    BY <1>2 DEF Stepped
  <2> QED
    BY <1>1, <1>6, <1>8, <2>1, CheckedStarts
<1>9. CASE call.mode = "valid" /\ Source.whole
  <2>1. call.mode \in Checking /\ Sure /\ Linked(call, WordsIn, pos, out) /\ call.mode \in Readers
    BY <1>1, <1>9 DEF Sure, Checking, LinkInv, Readers
  <2>2. Input = WordsIn
    BY <2>1, ReadsText
  <2>3. After(call.from, call.to, WordsIn, pos).whole
    BY <1>9, <2>1, LinkedWhole DEF Source
  <2>4. Judgement(WordsIn, pos + 1) = "Success"
    BY <1>2, <2>2 DEF Stepped
  <2>5. StartsAt(call.from, call.to, WordsIn, pos + 1, Width(WordsIn, pos + 1), CodePoint(WordsIn, pos + 1))
    BY ONLY <1>1, <2>1, <2>3, <2>4, AcceptedStarts
  <2> QED
    BY <1>6, <2>1, <2>2, <2>5
<1>10. CASE call.mode = "valid" /\ ~ Source.whole /\ call.from = "utf16"
  BY <1>10 DEF Pays, Exactly, Misled
<1>11. CASE call.mode = "valid" /\ ~ Source.whole /\ call.from # "utf16"
  <2>1. Input = WordsIn
    BY <1>11, ReadsText DEF Checking
  <2>2. Owed(pos) >= Len(u) + Owed(pos')
    BY <1>1, <1>2, <1>11, <2>1, TrustingPays DEF Owed
  <2> QED
    BY ONLY <1>11, <2>2 DEF Pays, Exactly
<1> QED
  <2>1. call.mode \in Readers \cup {"swap"}
    BY <1>1, OfferedIs
  <2> QED
    BY ONLY <1>7, <1>8, <1>9, <1>10, <1>11, <2>1

LEMMA BudgetOfCharacter ==
  ASSUME TypeInv, LinkInv, BudgetInv, Character
  PROVE  BudgetInv'
<1>1. PICK u : CharacterBegins(u) /\ Put(u, "scalar")
  BY CharacterStep
<1>2. call' = call /\ pc = "scalar"
  BY ONLY <1>1 DEF CharacterBegins
<1>3. /\ UnitsOf(call.to, u) /\ (call.to = "none" => u = << >>)
      /\ pos' \in 0 .. Size
  BY <1>1, CharacterStepped
<1>4. call.to # "none" => Pays(Len(u), pos, pos')
  BY <1>1, CharacterPays
<1>5. call.mode = "safe" => Len(out) + Len(u) <= call.room
  BY <1>1, SafeFits
<1> QED
  BY <1>1, <1>2, <1>3, <1>4, <1>5, BudgetPut

(* The step over a lone surrogate.                                         *)
SubstituteBegins(u) ==
  /\ call.mode \in {"replacement", "wellFormed"} /\ pc = "scalar" /\ pos < Size
  /\ Judgement(Input, pos + 1) = "Surrogate"
  /\ u = Spelled(Replacement)
  /\ pos' = pos + 1 /\ call' = call /\ base' = base /\ res' = res

LEMMA SubstituteStep ==
  ASSUME Substitute
  PROVE  \E u : SubstituteBegins(u) /\ Put(u, "scalar")
<1>1. SubstituteBegins(Spelled(Replacement)) /\ Put(Spelled(Replacement), "scalar")
  BY DEF Substitute, SubstituteBegins, Judged, Looping, Here
<1> QED
  BY <1>1

LEMMA BudgetOfSubstitute ==
  ASSUME TypeInv, BudgetInv, Substitute
  PROVE  BudgetInv'
<1>1. PICK u : SubstituteBegins(u) /\ Put(u, "scalar")
  BY SubstituteStep
<1>2. /\ call.mode \in {"replacement", "wellFormed"} /\ pc = "scalar" /\ pos < Size
      /\ Judgement(Input, pos + 1) = "Surrogate" /\ u = Spelled(Replacement)
      /\ pos' = pos + 1 /\ call' = call
  BY ONLY <1>1 DEF SubstituteBegins
<1>3. /\ call \in Calls /\ UnitsOf(call.to, out) /\ pos \in 0 .. Size /\ UnitsOf(call.from, Input)
      /\ Len(Input) = Size /\ Size \in Nat /\ pos \in Nat
  BY AlwaysInside
<1>4. pos' \in 0 .. Size /\ pos <= pos'
  BY ONLY <1>2, <1>3, SMT
<1>5. Verdict(Input, pos + 1) = "Surrogate"
  BY ONLY <1>2 DEF Judgement, JudgedAtEnd
<1>6. Due(Input, pos) = Len(u) + Due(Input, pos')
  BY ONLY <1>2, <1>3, <1>5, ReplacementPays
<1>7. UnitsOf(call.to, u) /\ (call.to = "none" => u = << >>)
  <2>1. call.mode # "swap"
    BY ONLY <1>2
  <2> QED
    BY <1>2, <1>3, <2>1, ReplacementNat, SpelledType
<1>8. Len(u) \in Nat /\ Len(u) \in Int
  <2>1. Len(u) \in Nat
    BY ONLY <1>7, UnitsIn
  <2> QED
    BY ONLY <2>1, SMT
<1>9. Pays(Len(u), pos, pos')
  <2>1. Owed(pos) = Len(u) + Owed(pos')
    BY <1>3, <1>4, <1>6, <1>8, OwedInput
  <2>2. Owed(pos) \in Int
    BY <1>3, OwedNat
  <2> QED
    BY ONLY <2>1, <2>2, PaysExactly
<1>10. call.mode # "safe"
  BY ONLY <1>2
<1> QED
  BY <1>1, <1>2, <1>4, <1>7, <1>9, <1>10, BudgetPut

LEMMA BudgetInvNext ==
  ASSUME TypeInv, LinkInv, BudgetInv, [Next]_vars
  PROVE  BudgetInv'
<1>1. CASE Enter \/ Inspect \/ UTF8Kernel \/ Full \/ Reject \/ GiveUp \/ CutShort \/ Conclude
  BY <1>1, BudgetOfStill
<1>2. CASE Refuse
  BY <1>2, BudgetOfRefuse
<1>3. CASE Kernel
  BY <1>3, BudgetOfKernel
<1>4. CASE ResumedKernel
  BY <1>4, BudgetOfResumed
<1>5. CASE AsciiBlock
  BY <1>5, BudgetOfBlock
<1>6. CASE Character
  BY <1>6, BudgetOfCharacter
<1>7. CASE Substitute
  BY <1>7, BudgetOfSubstitute
<1>8. CASE UNCHANGED vars
  BY <1>8, BudgetOfStutter
<1> QED
  BY <1>1, <1>2, <1>3, <1>4, <1>5, <1>6, <1>7, <1>8 DEF Next

LEMMA BudgetInvAlways == Spec => []BudgetInv
<1>1. Init => BudgetInv
  BY BudgetOfInit
<1>2. TypeInv /\ LinkInv /\ BudgetInv /\ [Next]_vars => BudgetInv'
  BY BudgetInvNext
<1> QED
  BY <1>1, <1>2, TypeInvAlways, LinkInvAlways, PTL DEF Spec

(* Every call, ill-formed input included: dst is indexed past its end only *)
(* by a converter that trusts UTF-16 and was given what it must not trust; *)
(* the check of dst that panics comes before anything is written.          *)
THEOREM NeverOverruns == Spec => []PanicsBeforeWriting
<1>1. BudgetInv => PanicsBeforeWriting
  BY DEF BudgetInv, PanicsBeforeWriting, Misled
<1> QED
  BY <1>1, BudgetInvAlways, PTL

LEMMA NothingOwed ==
  ASSUME call \in Calls
  PROVE  Owed(Size) = 0
<1>1. UnitsOf(call.from, WordsIn) /\ Len(WordsIn) = Size /\ Size \in Nat
  BY WordsInFacts
<1>2. DOMAIN WordsIn = 1 .. Size
  BY <1>1, UnitsIn
<1> QED
  BY ONLY <1>1, <1>2, DueIs DEF Owed

LEMMA WholeLength ==
  ASSUME TypeInv, BudgetInv, pc # "overrun", pos = Size, call.to # "none", Exactly
  PROVE  Len(out) = LengthOf(WordsIn)
<1>1. /\ call \in Calls /\ UnitsOf(call.from, WordsIn) /\ call.to \in Targets /\ Len(out) \in Nat
  BY AlwaysInside
<1>2. Balanced(Len(out), pos)
  BY DEF BudgetInv
<1>3. Owed(0) = Len(out) + Owed(pos)
  BY ONLY <1>2, Exactly DEF Balanced
<1>4. Owed(pos) = 0
  BY <1>1, NothingOwed
<1>5. LengthOf(WordsIn) = Owed(0)
  BY <1>1, LengthIsDue DEF Owed
<1> QED
  BY ONLY <1>1, <1>3, <1>4, <1>5, SMT

(* For every text that is converted whole the length function answers what *)
(* is written, no unit more or less.                                       *)
THEOREM LengthsExact == Spec => []LengthExact
<1>1. TypeInv /\ BudgetInv => LengthExact
  <2> SUFFICES ASSUME TypeInv, BudgetInv, Returned, pos = Size, call.to # "none",
                      Source.whole \/ call.mode \in {"replacement", "wellFormed", "swap"}
               PROVE  Len(out) = (IF call.mode = "safe"
                                  THEN IF call.from = "latin1" THEN utf8LengthFromLatin1(WordsIn)
                                       ELSE utf8LengthFromUTF16(WordsIn)
                                  ELSE Required(WordsIn))
    BY DEF LengthExact
  <2>1. pc # "overrun" /\ Exactly
    BY DEF Returned, Exactly
  <2>2. Len(out) = LengthOf(WordsIn)
    BY <2>1, WholeLength
  <2> QED
    BY ONLY <2>2 DEF LengthOf
<1> QED
  BY <1>1, TypeInvAlways, BudgetInvAlways, PTL

(* Words that are all a byte of Latin-1, or not.                           *)
LEMMA NarrowReading ==
  ASSUME call \in Calls, call.mode \in Checking, call.from \in {"utf16", "utf32"}, call.to = "latin1",
         NEW t, UnitsOf(call.from, t)
  PROVE  Reading(call.from, call.to, t).whole <=> \A i \in 1 .. Len(t) : t[i] <= 255
<1>1. /\ t \in Seq(Nat) /\ Len(t) \in Nat /\ \A i \in 1 .. Len(t) : t[i] \in Nat /\ IsUnit(call.from, t[i])
  BY UnitsIn
<1>2. call.mode \in Readers /\ call.from \in Texts /\ call.mode # "swap"
  BY DEF Checking, Readers, Texts
<1>3. ASSUME NEW n \in 0 .. Len(t), \A i \in 1 .. n : t[i] <= 255
      PROVE  After(call.from, call.to, t, n).whole <=> Reading(call.from, call.to, t).whole
  <2>1. n \in Nat /\ 0 \in Nat /\ 0 + n = n /\ 0 + n <= Len(t)
    BY ONLY <1>1, n \in 0 .. Len(t), SMT
  <2>2. \A i \in 0 + 1 .. 0 + n : Plainly(t[i])
    <3> TAKE i \in 0 + 1 .. 0 + n
    <3>1. i \in 1 .. n /\ i \in 1 .. Len(t)
      BY ONLY <1>1, n \in 0 .. Len(t), i \in 0 + 1 .. 0 + n, SMT
    <3>2. PICK u \in Nat : u = t[i] /\ IsUnit(call.from, u) /\ u <= 255
      BY ONLY <1>1, <1>3, <3>1
    <3>3. Easy(u)
      BY ONLY <1>2, <3>2, call.from \in {"utf16", "utf32"}, call.to = "latin1" DEF Easy
    <3> QED
      BY ONLY <3>2, <3>3, EasyPlainly, call \in Calls, call.mode \in Checking
  <2>3. Linked(call, t, 0, << >>) /\ UnitsOf(call.to, << >>)
    BY <1>2, LinkStart, NoUnits
  <2>4. Linked(call, t, 0 + n, RunOut(<< >>, t, 0, n))
    BY <1>2, <2>1, <2>2, <2>3, PlainlyRun
  <2>5. Linked(call, t, n, RunOut(<< >>, t, 0, n))
    BY ONLY <2>1, <2>4
  <2> QED
    BY ONLY <2>5, LinkedWhole
<1>4. ASSUME \A i \in 1 .. Len(t) : t[i] <= 255
      PROVE  Reading(call.from, call.to, t).whole
  <2>1. After(call.from, call.to, t, Len(t)).whole
    BY ONLY <1>1, <1>2, AfterLast
  <2>2. Len(t) \in 0 .. Len(t)
    BY ONLY <1>1, SMT
  <2> QED
    BY ONLY <1>3, <1>4, <2>1, <2>2
<1>5. ASSUME NEW j \in 1 .. Len(t), t[j] > 255, Reading(call.from, call.to, t).whole
      PROVE  FALSE
  <2> DEFINE T == {i \in 1 .. Len(t) : t[i] > 255}
  <2>1. T \in SUBSET Nat /\ T # {}
    BY ONLY <1>1, <1>5, SMT
  <2>2. PICK m \in T : \A k \in T : m <= k
    BY ONLY <2>1, LeastOf
  <2>3. m \in 1 .. Len(t) /\ t[m] > 255 /\ \A k \in 1 .. Len(t) : t[k] > 255 => m <= k
    BY ONLY <2>2
  <2> HIDE DEF T
  <2>4. PICK n : n = m - 1
    OBVIOUS
  <2>5. n \in 0 .. Len(t) /\ n < Len(t) /\ n + 1 = m
    <3>1. m \in 1 .. Len(t)
      BY ONLY <2>3
    <3> QED
      BY ONLY <1>1, <2>4, <3>1, SMT
  <2>6. \A i \in 1 .. n : t[i] <= 255
    BY ONLY <1>1, <2>3, <2>4, SMT
  <2>7. After(call.from, call.to, t, n).whole
    BY ONLY <1>3, <1>5, <2>5, <2>6
  <2>8. CharactersAt(call.from, call.to, t, m) = {}
    <3>1. Right(t, m)
      BY <1>2, <2>3, RightAny
    <3>2. Verdict(t, m) = Latin1Verdict(t[m])
      BY ONLY <1>2, VerdictOf, call.from \in {"utf16", "utf32"}, call.to = "latin1"
    <3>3. Latin1Verdict(t[m]) = "TooLarge"
      BY ONLY <2>3 DEF Latin1Verdict
    <3> QED
      BY ONLY <3>1, <3>2, <3>3 DEF Right
  <2> QED
    BY ONLY <1>1, <1>2, <2>5, <2>7, <2>8, AfterFault
<1> QED
  <2>1. ASSUME Reading(call.from, call.to, t).whole PROVE \A i \in 1 .. Len(t) : t[i] <= 255
    <3> TAKE i \in 1 .. Len(t)
    <3>1. ~ (t[i] > 255)
      BY ONLY <1>5, <2>1, i \in 1 .. Len(t)
    <3> QED
      BY ONLY <1>1, <3>1, i \in 1 .. Len(t), SMT
  <2> QED
    BY ONLY <1>4, <2>1

(* What was written reads back as all there is to read, where nothing more *)
(* of it can be read.                                                      *)
ReadsBack(t, o) ==
  call.to # "none" =>
    /\ Reading(call.to, call.to, Native(call, o)).whole
    /\ Reading(call.to, call.to, Native(call, o)).points = Reading(call.from, call.to, t).points

LEMMA NothingMore ==
  ASSUME call \in Calls, NEW t, NEW p, NEW o, UnitsOf(call.to, o), Linked(call, t, p, o),
         After(call.from, call.to, t, p).points = << >>
  PROVE  ReadsBack(t, o)
<1> SUFFICES ASSUME call.to # "none"
             PROVE  /\ Reading(call.to, call.to, Native(call, o)).whole
                    /\ Reading(call.to, call.to, Native(call, o)).points = Reading(call.from, call.to, t).points
  BY DEF ReadsBack
<1>1. PICK d : d = Reading(call.to, call.to, Native(call, o))
  OBVIOUS
<1>2. d \in AReading
  <2>1. call.to \in Texts /\ Native(call, o) \in Seq(Nat)
    BY OfferedIs, NativeType DEF Targets, Texts
  <2> QED
    BY ONLY <1>1, <2>1, ReadingType
<1>3. d.points \in Seq(Nat)
  BY ONLY <1>2, ReadingFields
<1>4. OutLink(call, o, << >>, Reading(call.from, call.to, t).points)
  BY ONLY Linked(call, t, p, o), After(call.from, call.to, t, p).points = << >>, call.to # "none",
       LinkedWhole
<1>5. d.whole /\ Both(d.points, << >>) = Reading(call.from, call.to, t).points
  BY ONLY <1>1, <1>4 DEF OutLink
<1> QED
  BY ONLY <1>1, <1>3, <1>5, BothIs

(* What the kernel took *)

(* A tail that ends has written something if there was a tail, and what a  *)
(* kernel converted to Latin-1 needs no second look.                       *)
TailInv ==
  /\ pc = "scalar" /\ call.to # "none" /\ base > 0 =>
       base < Size /\ base <= Len(out) /\ (base < pos => base < Len(out))
  /\ JudgedAtEnd => \A i \in 1 .. base : WordsIn[i] <= 255

LEMMA TailOfPut ==
  ASSUME TypeInv, TailInv, pc = "scalar", call' = call, base' = base,
         NEW u, UnitsOf(call.to, u), call.to # "none" => Len(u) >= 1, Put(u, "scalar")
  PROVE  TailInv'
<1>1. /\ WordsIn' = WordsIn /\ Size' = Size /\ (JudgedAtEnd' <=> JudgedAtEnd)
  BY SameText
<1>2. JudgedAtEnd' => \A i \in 1 .. base' : WordsIn'[i] <= 255
  BY ONLY <1>1, TailInv, base' = base DEF TailInv
<1>3. ASSUME pc' = "scalar", call.to # "none", base > 0
      PROVE  base < Size /\ base <= Len(out') /\ base < Len(out')
  <2>1. out' = out \o u
    BY ONLY <1>3, Put(u, "scalar"), PutIs
  <2>2. out \in Seq(Nat) /\ u \in Seq(Nat) /\ Len(out) \in Nat /\ Len(u) \in Nat
    BY UnitsIn DEF TypeInv
  <2>3. Len(out') = Len(out) + Len(u)
    BY ONLY <2>1, <2>2, JoinType
  <2>4. base < Size /\ base <= Len(out) /\ base \in Nat
    BY <1>3 DEF TailInv, TypeInv
  <2>5. Len(u) >= 1
    BY <1>3
  <2> QED
    BY ONLY <2>2, <2>3, <2>4, <2>5, SMT
<1> QED
  BY ONLY <1>1, <1>2, <1>3, call' = call, base' = base DEF TailInv

LEMMA TailOfStill ==
  ASSUME TypeInv, TailInv,
         Refuse \/ Enter \/ Inspect \/ Full \/ Reject \/ GiveUp \/ CutShort \/ Conclude \/ UTF8Kernel \/ UNCHANGED vars
  PROVE  TailInv'
<1>1. CASE UTF8Kernel
  <2>1. call' = call /\ call.to = "none"
    BY <1>1 DEF UTF8Kernel
  <2>2. ~ JudgedAtEnd' /\ call'.to = "none"
    BY ONLY <2>1 DEF JudgedAtEnd
  <2> QED
    BY ONLY <2>2 DEF TailInv
<1>2. CASE Enter
  <2>1. call' = call /\ base' = base /\ base = 0
    BY <1>2 DEF Enter, TypeInv
  <2>2. /\ WordsIn' = WordsIn /\ (JudgedAtEnd' <=> JudgedAtEnd)
    BY <2>1, SameText
  <2>3. ~ (base' > 0)
    BY ONLY <2>1, SMT
  <2> QED
    BY ONLY <2>1, <2>2, <2>3, TailInv DEF TailInv
<1>3. CASE Refuse \/ Inspect \/ Full \/ Reject \/ GiveUp \/ CutShort \/ Conclude
  <2>1. call' = call /\ base' = base /\ pc' # "scalar"
    BY <1>3 DEF Refuse, Inspect, Full, Reject, GiveUp, CutShort, Conclude, Succeed, Fail, Answer
  <2>2. /\ WordsIn' = WordsIn /\ (JudgedAtEnd' <=> JudgedAtEnd)
    BY <2>1, SameText
  <2> QED
    BY ONLY <2>1, <2>2, TailInv DEF TailInv
<1>4. CASE UNCHANGED vars
  <2>1. call' = call /\ base' = base /\ pc' = pc /\ out' = out /\ pos' = pos
    BY <1>4 DEF vars
  <2>2. /\ WordsIn' = WordsIn /\ Size' = Size /\ (JudgedAtEnd' <=> JudgedAtEnd)
    BY <2>1, SameText
  <2> QED
    BY ONLY <2>1, <2>2, TailInv DEF TailInv
<1> QED
  BY <1>1, <1>2, <1>3, <1>4

LEMMA KernelReads ==
  ASSUME TypeInv, NEW n, NEW units, KernelBegins(n, units)
  PROVE  \A i \in 1 .. n : Easy(WordsIn[i])
<1>1. /\ n \in 0 .. Size /\ n \in Nat /\ out = << >> /\ \A i \in 1 .. n : Easy(Input[i])
  BY DEF KernelBegins
<1>2. \A i \in 1 .. Size : i > Len(out) => Input[i] = WordsIn[i]
  BY InputIs DEF TypeInv
<1>3. Size \in Nat
  BY AlwaysInside
<1>4. Len(out) = 0
  BY ONLY <1>1
<1>5. \A i \in 1 .. n : i \in 1 .. Size /\ i > 0
  BY ONLY <1>1, <1>3, SMT
<1> QED
  BY ONLY <1>1, <1>2, <1>4, <1>5

LEMMA TailOfKernel ==
  ASSUME TypeInv, TailInv, Kernel
  PROVE  TailInv'
<1>1. PICK n, units : KernelBegins(n, units) /\ KernelEnds(n, units)
  BY KernelStep
<1>2. /\ n \in 0 .. Size /\ n \in Nat /\ call' = call /\ base' = n /\ pos' = n
      /\ call.to # "none" => Len(units) = n
  BY ONLY <1>1 DEF KernelBegins
<1>3. /\ WordsIn' = WordsIn /\ Size' = Size /\ (JudgedAtEnd' <=> JudgedAtEnd)
  BY <1>2, SameText
<1>4. JudgedAtEnd => \A i \in 1 .. n : WordsIn[i] <= 255
  <2> SUFFICES ASSUME JudgedAtEnd, NEW i \in 1 .. n
               PROVE  WordsIn[i] <= 255
    OBVIOUS
  <2>1. Easy(WordsIn[i])
    BY <1>1, KernelReads
  <2>2. call.from \in {"utf16", "utf32"} /\ call.to = "latin1" /\ call.mode # "swap"
    BY DEF JudgedAtEnd
  <2> QED
    BY ONLY <2>1, <2>2 DEF Easy
<1>5. ASSUME pc' = "scalar", call.to # "none"
      PROVE  n < Size /\ n <= Len(out') /\ ~ (n < n)
  <2>1. out' = units /\ n # Size
    BY ONLY <1>1, <1>5 DEF KernelEnds, Answer
  <2>2. Size \in Nat
    BY AlwaysInside
  <2> QED
    BY ONLY <1>2, <1>5, <2>1, <2>2, SMT
<1> QED
  BY ONLY <1>2, <1>3, <1>4, <1>5 DEF TailInv

LEMMA TailOfResumed ==
  ASSUME TypeInv, TailInv, ResumedKernel
  PROVE  TailInv'
<1>1. call' = call /\ base' = base /\ base = 0
  BY DEF ResumedKernel, TypeInv
<1>2. /\ WordsIn' = WordsIn /\ Size' = Size /\ (JudgedAtEnd' <=> JudgedAtEnd)
  BY <1>1, SameText
<1>3. ~ (base' > 0)
  BY ONLY <1>1, SMT
<1> QED
  BY ONLY <1>1, <1>2, <1>3, TailInv DEF TailInv

LEMMA TailOfLoop ==
  ASSUME TypeInv, TailInv, AsciiBlock \/ Character \/ Substitute
  PROVE  TailInv'
<1>1. CASE AsciiBlock
  <2>1. PICK units : BlockBegins(units) /\ Put(units, "scalar")
    BY <1>1, BlockStep
  <2>2. PICK k \in Nat : k = BlockSize /\ k >= 1
    BY BlockSizeIs
  <2>3. /\ pc = "scalar" /\ call' = call /\ base' = base /\ pos + k <= Size
        /\ call.to = "none" => units = << >>
        /\ call.to # "none" => units = FirstUnits(pos, k)
    BY ONLY <2>1, <2>2 DEF BlockBegins, FirstUnits
  <2>4. call.to # "none" => UnitsOf(call.to, units) /\ Len(units) = k
    <3>1. call \in Calls /\ UnitsOf(call.to, out) /\ pos \in Nat
      BY AlwaysInside
    <3> QED
      BY <2>2, <2>3, <3>1, FirstUnitsType
  <2>5. UnitsOf(call.to, units)
    BY ONLY <2>3, <2>4, NoUnits
  <2>6. call.to # "none" => Len(units) >= 1
    BY ONLY <2>2, <2>4
  <2> QED
    BY <2>1, <2>3, <2>5, <2>6, TailOfPut
<1>2. CASE Character
  <2>1. PICK u : CharacterBegins(u) /\ Put(u, "scalar")
    BY <1>2, CharacterStep
  <2>2. pc = "scalar" /\ call' = call /\ base' = base /\ u = Converted(Input, pos + 1)
    BY ONLY <2>1 DEF CharacterBegins
  <2>3. UnitsOf(call.to, u) /\ Stepped(u, Input, pos, pos')
    BY <2>1, CharacterStepped
  <2>4. call.to # "none" => Len(u) >= 1
    <3>1. call \in Calls /\ call.mode \notin Inspections /\ UnitsOf(call.from, Input)
      BY <2>2, AlwaysInside
    <3>2. CodePoint(Input, pos + 1) \in Nat /\ (call.mode = "swap" => IsUnit("utf16", CodePoint(Input, pos + 1)))
      BY <2>3, <3>1, SteppedPlace
    <3>3. call.to # "none" => Len(u) \in 1 .. 4
      BY <2>2, <3>1, <3>2, ConvertedType
    <3> QED
      BY ONLY <3>3, SMT
  <2> QED
    BY <2>1, <2>2, <2>3, <2>4, TailOfPut
<1>3. CASE Substitute
  <2>1. PICK u : SubstituteBegins(u) /\ Put(u, "scalar")
    BY <1>3, SubstituteStep
  <2>2. pc = "scalar" /\ call' = call /\ base' = base /\ u = Spelled(Replacement) /\ call.mode # "swap"
    BY ONLY <2>1 DEF SubstituteBegins
  <2>3. UnitsOf(call.to, u) /\ (call.to # "none" => Len(u) \in 1 .. 4)
    BY <2>2, AlwaysInside, ReplacementNat, SpelledType
  <2>4. call.to # "none" => Len(u) >= 1
    <3>1. call.to # "none" => Len(u) \in 1 .. 4
      BY ONLY <2>3
    <3> QED
      BY ONLY <3>1, SMT
  <2> QED
    BY <2>1, <2>2, <2>3, <2>4, TailOfPut
<1> QED
  BY <1>1, <1>2, <1>3

LEMMA TailInvAlways == Spec => []TailInv
<1>1. Init => TailInv
  <2>1. ASSUME Init PROVE ~ (base > 0) /\ \A i \in 1 .. base : FALSE
    BY <2>1 DEF Init
  <2> QED
    BY <2>1 DEF TailInv
<1>2. TypeInv /\ TailInv /\ [Next]_vars => TailInv'
  BY TailOfStill, TailOfKernel, TailOfResumed, TailOfLoop DEF Next
<1> QED
  BY <1>1, <1>2, TypeInvAlways, PTL DEF Spec

Accepted(o) == [error |-> Said("Success"),
                count |-> CASE call.to # "none" -> Len(o)
                            [] call.to = "none" /\ call.mode = "errors" -> Size
                            [] OTHER -> 0]

Told(o, r) ==
  IF Source.whole THEN ReadsBack(WordsIn, o) /\ r = Accepted(o)
  ELSE /\ call.mode = "plain" => r = Unanswered
       /\ call.mode = "errors" =>
            /\ r = [error |-> Fault(call.from, call.to, WordsIn, Source.stop + 1),
                    count |-> Source.stop]
            /\ ReadsBack(WordsIn, o)

ToldInv == Returned /\ call.mode \in Plainspoken => Told(out, res)

LEMMA SameTold ==
  ASSUME call' = call
  PROVE  \A o, r : Told(o, r)' <=> Told(o, r)
<1>1. WordsIn' = WordsIn /\ Source' = Source /\ Size' = Size
  BY SameText
<1>2. \A o : Accepted(o)' = Accepted(o)
  BY ONLY <1>1, call' = call DEF Accepted, Said
<1>3. \A o : ReadsBack(WordsIn, o)' <=> ReadsBack(WordsIn, o)
  BY ONLY <1>1, call' = call DEF ReadsBack
<1> QED
  BY ONLY <1>1, <1>2, <1>3, call' = call DEF Told

LEMMA ToldThen ==
  ASSUME call' = call, pc' = "returned" /\ call.mode \in Plainspoken => Told(out', res')
  PROVE  ToldInv'
<1>1. \A o, r : Told(o, r)' <=> Told(o, r)
  BY SameTold
<1>2. ASSUME pc' = "returned", call.mode \in Plainspoken
      PROVE  Told(out, res)'
  BY ONLY <1>1, <1>2, pc' = "returned" /\ call.mode \in Plainspoken => Told(out', res')
<1> QED
  BY ONLY <1>2, call' = call DEF ToldInv, Returned

LEMMA Succeeded ==
  ASSUME call.mode \in Plainspoken, Succeed, call.to # "none" => Written = Len(out)
  PROVE  pc' = "returned" /\ res' = Accepted(out)
<1>1. CASE call.to # "none"
  BY ONLY <1>1, Succeed, call.to # "none" => Written = Len(out) DEF Succeed, Answer, Accepted
<1>2. CASE call.to = "none" /\ call.mode = "errors"
  BY ONLY <1>2, Succeed DEF Succeed, Answer, Accepted
<1>3. CASE call.to = "none" /\ call.mode # "errors"
  BY ONLY <1>3, Succeed DEF Succeed, Answer, Accepted
<1> QED
  BY <1>1, <1>2, <1>3

LEMMA WrittenAll ==
  ASSUME TypeInv, TailInv, pc = "scalar", pos = Size, call.to # "none"
  PROVE  Written = Len(out)
<1>1. base \in Nat /\ Len(out) \in Nat
  BY AlwaysInside DEF TypeInv
<1>2. CASE base = 0
  BY ONLY <1>1, <1>2 DEF Written
<1>3. CASE base > 0
  <2>1. base < Size /\ (base < pos => base < Len(out))
    BY <1>3 DEF TailInv
  <2>2. base < Len(out)
    BY ONLY <2>1, pos = Size
  <2>3. Len(out) # base
    BY ONLY <1>1, <2>2, SMT
  <2> QED
    BY ONLY <2>3 DEF Written
<1> QED
  BY ONLY <1>1, <1>2, <1>3, SMT

LEMMA LinkedEnd ==
  ASSUME TypeInv, NEW o, UnitsOf(call.to, o), call.mode \in Checking, Linked(call, WordsIn, Size, o)
  PROVE  Source.whole /\ ReadsBack(WordsIn, o)
<1>1. /\ UnitsOf(call.from, WordsIn) /\ Len(WordsIn) = Size /\ WordsIn \in Seq(Nat) /\ call.from \in Texts
      /\ call \in Calls
  BY ReadsText
<1>2. PICK t : t = WordsIn
  OBVIOUS
<1>3. /\ After(call.from, call.to, t, Len(t)).points = << >>
      /\ After(call.from, call.to, t, Len(t)).whole
  BY ONLY <1>1, <1>2, AfterLast
<1>4. Linked(call, t, Len(t), o)
  BY ONLY <1>1, <1>2, Linked(call, WordsIn, Size, o)
<1>5. ReadsBack(t, o)
  BY ONLY <1>1, <1>3, <1>4, UnitsOf(call.to, o), NothingMore
<1>6. Reading(call.from, call.to, t).whole
  BY ONLY <1>3, <1>4, LinkedWhole
<1> QED
  BY ONLY <1>2, <1>5, <1>6 DEF Source

LEMMA LateIs ==
  ASSUME TypeInv, TailInv, JudgedAtEnd
  PROVE  LateReject <=> ~ Source.whole
<1>1. call.mode = "plain" /\ call.from \in {"utf16", "utf32"} /\ call.to = "latin1"
  BY DEF JudgedAtEnd
<1>2. call.mode \in Checking
  BY ONLY <1>1 DEF Checking
<1>3. /\ Input = WordsIn /\ UnitsOf(call.from, WordsIn) /\ Len(WordsIn) = Size /\ Size \in Nat
      /\ call \in Calls
  BY <1>2, ReadsText
<1>4. PICK t : t = WordsIn
  OBVIOUS
<1>5. Source.whole <=> \A i \in 1 .. Size : t[i] <= 255
  <2>1. Reading(call.from, call.to, t).whole <=> \A i \in 1 .. Len(t) : t[i] <= 255
    BY ONLY <1>1, <1>2, <1>3, <1>4, NarrowReading
  <2> QED
    BY ONLY <1>3, <1>4, <2>1 DEF Source
<1>6. base \in Nat /\ base <= Size /\ \A i \in 1 .. base : t[i] <= 255
  <2>1. base \in Nat /\ pos \in base .. Size
    BY DEF TypeInv
  <2>2. base <= Size
    BY ONLY <1>3, <2>1, SMT
  <2> QED
    BY <1>4, <2>1, <2>2 DEF TailInv
<1>7. \A i \in 1 .. Size : t[i] \in Nat
  BY ONLY <1>3, <1>4, UnitsIn
<1>8. LateReject <=> \E i \in base + 1 .. Size : t[i] > 255
  BY ONLY <1>3, <1>4, JudgedAtEnd DEF LateReject
<1> QED
  BY ONLY <1>3, <1>5, <1>6, <1>7, <1>8, SMT

LEMMA ToldOfFinish ==
  ASSUME TypeInv, LinkInv, TailInv, Conclude
  PROVE  ToldInv'
<1>1. /\ pc = "scalar" /\ pos = Size /\ call' = call /\ out' = out
      /\ IF LateReject THEN Fail("TooLarge") ELSE Succeed
  BY DEF Conclude
<1> SUFFICES ASSUME call.mode \in Plainspoken
             PROVE  Told(out', res')
  BY <1>1, ToldThen
<1>2. call.mode \in Checking /\ UnitsOf(call.to, out)
  BY DEF Plainspoken, Checking, TypeInv
<1>3. CASE Sure
  <2>1. Linked(call, WordsIn, Size, out)
    BY <1>1, <1>2, <1>3 DEF LinkInv
  <2>2. Source.whole /\ ReadsBack(WordsIn, out)
    BY <1>2, <2>1, LinkedEnd
  <2>3. ~ LateReject
    BY <2>2, LateIs DEF LateReject
  <2>4. res' = Accepted(out)
    BY <1>1, <2>3, WrittenAll, Succeeded
  <2> QED
    BY ONLY <1>1, <2>2, <2>4 DEF Told
<1>4. CASE ~ Sure /\ call.mode = "valid"
  BY ONLY <1>4 DEF Sure, Told
<1>5. CASE ~ Sure /\ call.mode # "valid"
  <2>1. JudgedAtEnd /\ ~ Source.whole
    BY ONLY <1>5 DEF Sure
  <2>2. call.mode = "plain" /\ call.to # "none"
    BY ONLY <2>1 DEF JudgedAtEnd
  <2>3. Fail("TooLarge")
    BY <1>1, <2>1, LateIs
  <2>4. res' = Unanswered
    BY ONLY <2>2, <2>3 DEF Fail, Answer, Said, Unanswered
  <2> QED
    BY ONLY <2>1, <2>2, <2>4 DEF Told
<1> QED
  BY ONLY <1>3, <1>4, <1>5

LEMMA ToldOfKernel ==
  ASSUME TypeInv, LinkInv, Kernel
  PROVE  ToldInv'
<1>1. PICK n, units : KernelBegins(n, units) /\ KernelEnds(n, units)
  BY KernelStep
<1>2. /\ n \in 0 .. Size /\ n \in Nat /\ call' = call /\ pos' = n /\ UnitsOf(call.to, units)
      /\ call.to # "none" => Len(units) = n
  BY ONLY <1>1 DEF KernelBegins
<1> SUFFICES ASSUME pc' = "returned", call.mode \in Plainspoken
             PROVE  Told(out', res')
  BY <1>2, ToldThen
<1>3. out' = units /\ n = Size /\ call.to # "none" /\ Answer("Success", n)
  BY ONLY <1>1, pc' = "returned" DEF KernelEnds
<1>4. call.mode \in Checking
  BY DEF Plainspoken, Checking
<1>5. res' = Accepted(units)
  BY ONLY <1>2, <1>3 DEF Answer, Accepted
<1>6. CASE Sure
  <2>1. LinkInv' /\ (Sure' <=> Sure) /\ WordsIn' = WordsIn
    BY <1>2, LinkOfKernel, SameText
  <2>2. Linked(call, WordsIn, Size, units)
    <3>1. Linked(call', WordsIn', pos', out')
      BY ONLY <1>2, <1>4, <1>6, <2>1, pc' = "returned" DEF LinkInv
    <3> QED
      BY ONLY <1>2, <1>3, <2>1, <3>1
  <2>3. Source.whole /\ ReadsBack(WordsIn, units)
    BY <1>2, <1>4, <2>2, LinkedEnd
  <2> QED
    BY ONLY <1>3, <1>5, <2>3 DEF Told
<1>7. CASE ~ Sure /\ call.mode = "valid"
  BY ONLY <1>7 DEF Sure, Told
<1>8. CASE ~ Sure /\ call.mode # "valid"
  <2>1. JudgedAtEnd /\ ~ Source.whole
    BY ONLY <1>8 DEF Sure
  <2>2. call.mode = "plain" /\ call.from \in {"utf16", "utf32"} /\ call.to = "latin1"
    BY ONLY <2>1 DEF JudgedAtEnd
  <2>3. /\ UnitsOf(call.from, WordsIn) /\ Len(WordsIn) = Size /\ call \in Calls
    BY <1>4, ReadsText
  <2>4. \A i \in 1 .. n : Easy(WordsIn[i])
    BY <1>1, KernelReads
  <2>5. \A i \in 1 .. Len(WordsIn) : WordsIn[i] <= 255
    BY ONLY <1>3, <2>2, <2>3, <2>4 DEF Easy
  <2>6. Source.whole
    BY <1>4, <2>2, <2>3, <2>5, NarrowReading DEF Source
  <2> QED
    BY ONLY <2>1, <2>6
<1> QED
  BY ONLY <1>6, <1>7, <1>8

(* Refused at a unit that starts no character.                             *)
LEMMA LinkedFault ==
  ASSUME TypeInv, LinkInv, pc = "scalar", pos < Size, call.mode \in Checking \ {"valid"},
         NEW error, error # "Success", Judgement(Input, pos + 1) = error
  PROVE  /\ ~ Source.whole /\ Source.stop = pos /\ ReadsBack(WordsIn, out)
         /\ error = Fault(call.from, call.to, WordsIn, Source.stop + 1) /\ error \in Faults
<1>1. /\ Input = WordsIn /\ UnitsOf(call.from, WordsIn) /\ Len(WordsIn) = Size /\ WordsIn \in Seq(Nat)
      /\ call.from \in Texts /\ call.mode \in Readers /\ call \in Calls /\ UnitsOf(call.to, out)
  <2>1. call.mode \in Checking
    BY ONLY call.mode \in Checking \ {"valid"}
  <2> QED
    BY <2>1, ReadsText
<1>2. PICK t : t = WordsIn
  OBVIOUS
<1>3. ~ JudgedAtEnd
  <2>1. ASSUME JudgedAtEnd PROVE FALSE
    <3>1. call.mode # "valid"
      BY ONLY <2>1 DEF JudgedAtEnd
    <3>2. Judgement(Input, pos + 1) = "Success"
      BY ONLY <2>1, <3>1 DEF Judgement
    <3> QED
      BY ONLY <3>2, Judgement(Input, pos + 1) = error, error # "Success"
  <2> QED
    BY <2>1
<1>4. Linked(call, WordsIn, pos, out)
  <2>1. call.mode # "valid" /\ call.mode \in Checking /\ pc # "overrun"
    BY ONLY pc = "scalar", call.mode \in Checking \ {"valid"}
  <2>2. Sure
    BY ONLY <1>3, <2>1 DEF Sure
  <2> QED
    BY ONLY <2>1, <2>2, LinkInv DEF LinkInv
<1>5. pos \in 0 .. Len(t) /\ pos < Len(t) /\ pos + 1 \in 1 .. Len(t)
  <2>1. pos \in 0 .. Size /\ pos \in Nat /\ Size \in Nat
    BY AlwaysInside
  <2>2. pos + 1 \in 1 .. Size
    BY ONLY <2>1, pos < Size, SMT
  <2> QED
    BY ONLY <1>1, <1>2, <2>1, <2>2, pos < Size
<1>6. Right(t, pos + 1)
  BY ONLY <1>1, <1>2, <1>5, RightAny
<1>7. Verdict(t, pos + 1) = error
  BY ONLY <1>1, <1>2, <1>3, call.mode \in Checking \ {"valid"},
       Judgement(Input, pos + 1) = error DEF Judgement
<1>8. /\ CharactersAt(call.from, call.to, t, pos + 1) = {}
      /\ error = Fault(call.from, call.to, t, pos + 1) /\ error \in Faults
  BY ONLY <1>6, <1>7, error # "Success" DEF Right
<1>9. /\ After(call.from, call.to, t, pos).points = << >>
      /\ After(call.from, call.to, t, pos).stop = pos
      /\ ~ After(call.from, call.to, t, pos).whole
  BY ONLY <1>1, <1>2, <1>5, <1>8, AfterFault
<1>10. ReadsBack(t, out)
  BY ONLY <1>1, <1>2, <1>4, <1>9, NothingMore
<1>11. ~ Reading(call.from, call.to, t).whole /\ Reading(call.from, call.to, t).stop = pos
  BY ONLY <1>2, <1>4, <1>9, LinkedWhole
<1> QED
  BY ONLY <1>2, <1>8, <1>10, <1>11 DEF Source

LEMMA ToldOfReject ==
  ASSUME TypeInv, LinkInv, Reject
  PROVE  ToldInv'
<1>1. PICK error \in Faults \ {"Success"} : Judged(error) /\ Fail(error)
  BY DEF Reject
<1>2. /\ pc = "scalar" /\ pos < Size /\ Judgement(Input, pos + 1) = error /\ call' = call /\ out' = out
      /\ call.mode \in {"plain", "errors", "safe"}
  BY <1>1 DEF Reject, Judged, Looping, Here
<1> SUFFICES ASSUME call.mode \in Plainspoken
             PROVE  Told(out', res')
  BY <1>2, ToldThen
<1>3. call.mode \in Checking \ {"valid"} /\ error # "Success"
  BY ONLY <1>1, <1>2 DEF Checking
<1>4. /\ ~ Source.whole /\ Source.stop = pos /\ ReadsBack(WordsIn, out)
      /\ error = Fault(call.from, call.to, WordsIn, Source.stop + 1)
  BY <1>2, <1>3, LinkedFault
<1>5. call.mode = "plain" => res' = Unanswered
  BY ONLY <1>1, <1>3 DEF Fail, Answer, Said, Unanswered
<1>6. call.mode = "errors" => res' = [error |-> error, count |-> pos]
  BY ONLY <1>1 DEF Fail, Answer, Said
<1>7. call.mode \in {"plain", "errors"}
  BY ONLY <1>2, call.mode \in Plainspoken DEF Plainspoken
<1> QED
  BY ONLY <1>2, <1>4, <1>5, <1>6 DEF Told

(* Only a converter that trusts what it should not gives up.               *)
LEMMA GivesUp ==
  ASSUME TypeInv, LinkInv, pc = "scalar", pos < Size, call.mode \in Checking,
         NEW error, error \in {"void", "cut"}, Judgement(Input, pos + 1) = error
  PROVE  call.mode = "valid" /\ ~ Source.whole
<1>1. /\ Input = WordsIn /\ UnitsOf(call.from, WordsIn) /\ Len(WordsIn) = Size /\ WordsIn \in Seq(Nat)
      /\ call.from \in Texts /\ call.mode \in Readers /\ call \in Calls /\ UnitsOf(call.to, out)
  BY ReadsText
<1>2. error # "Success" /\ error \notin Faults
  BY ONLY error \in {"void", "cut"} DEF Faults
<1>3. call.mode = "valid"
  <2>1. ASSUME call.mode # "valid" PROVE FALSE
    <3>1. call.mode \in Checking \ {"valid"}
      BY ONLY <2>1, call.mode \in Checking
    <3> QED
      BY <1>2, <3>1, LinkedFault
  <2> QED
    BY <2>1
<1>4. ASSUME Source.whole PROVE FALSE
  <2>1. PICK t : t = WordsIn
    OBVIOUS
  <2>2. pos \in 0 .. Len(t) /\ pos < Len(t) /\ pos + 1 \in 1 .. Len(t)
    <3>1. pos \in 0 .. Size /\ pos \in Nat /\ Size \in Nat
      BY AlwaysInside
    <3>2. pos + 1 \in 1 .. Size
      BY ONLY <3>1, pos < Size, SMT
    <3> QED
      BY ONLY <1>1, <2>1, <3>1, <3>2, pos < Size
  <2>3. Linked(call, t, pos, out)
    BY <1>4, <2>1 DEF LinkInv, Sure
  <2>4. After(call.from, call.to, t, pos).whole
    BY ONLY <1>4, <2>1, <2>3, LinkedWhole DEF Source
  <2>5. CharactersAt(call.from, call.to, t, pos + 1) # {}
    BY ONLY <1>1, <2>1, <2>2, <2>4, AfterFault
  <2>6. PICK w, c : StartsAt(call.from, call.to, t, pos + 1, w, c)
    BY ONLY <2>5, NothingStarts
  <2>7. Right(t, pos + 1)
    BY ONLY <1>1, <2>1, <2>2, RightAny
  <2>8. Trusted(t, pos + 1) = "Success"
    BY ONLY <2>6, <2>7 DEF Right
  <2>9. Judgement(t, pos + 1) = Trusted(t, pos + 1)
    BY ONLY <1>3 DEF Judgement, JudgedAtEnd
  <2> QED
    BY ONLY <1>1, <1>2, <2>1, <2>8, <2>9, Judgement(Input, pos + 1) = error
<1> QED
  BY <1>3, <1>4

LEMMA ToldOfGivingUp ==
  ASSUME TypeInv, LinkInv, GiveUp \/ CutShort
  PROVE  ToldInv'
<1>1. PICK error : error \in {"void", "cut"} /\ Judgement(Input, pos + 1) = error /\ pc = "scalar" /\ pos < Size
  BY DEF GiveUp, CutShort, Judged, Looping, Here
<1>2. call' = call
  BY DEF GiveUp, CutShort
<1> SUFFICES ASSUME call.mode \in Plainspoken
             PROVE  Told(out', res')
  BY <1>2, ToldThen
<1>3. call.mode \in Checking
  BY DEF Plainspoken, Checking
<1>4. call.mode = "valid" /\ ~ Source.whole
  BY <1>1, <1>3, GivesUp
<1> QED
  BY ONLY <1>4 DEF Told

LEMMA PutSteps ==
  ASSUME TypeInv, ResumedKernel \/ AsciiBlock \/ Character \/ Substitute
  PROVE  call' = call /\ \E u, next : next # "returned" /\ Put(u, next)
<1>1. CASE ResumedKernel
  <2>1. PICK n, last, part, rest : /\ ResumedBegins(n, last, part, rest)
                                   /\ Put(part \o rest, IF last = Size THEN "scalar" ELSE "kernel")
    BY <1>1, ResumedStep
  <2>2. call' = call
    BY ONLY <2>1 DEF ResumedBegins
  <2>3. (IF last = Size THEN "scalar" ELSE "kernel") # "returned"
    OBVIOUS
  <2> QED
    BY ONLY <2>1, <2>2, <2>3
<1>2. CASE AsciiBlock
  BY <1>2, BlockStep DEF BlockBegins
<1>3. CASE Character
  BY <1>3, CharacterStep DEF CharacterBegins
<1>4. CASE Substitute
  BY <1>4, SubstituteStep DEF SubstituteBegins
<1> QED
  BY <1>1, <1>2, <1>3, <1>4

LEMMA ToldOfOthers ==
  ASSUME TypeInv, ToldInv,
         \/ Refuse \/ Enter \/ ResumedKernel \/ UTF8Kernel \/ AsciiBlock \/ Character \/ Substitute
         \/ Full \/ Inspect \/ UNCHANGED vars
  PROVE  ToldInv'
<1>1. CASE Refuse \/ Enter \/ UTF8Kernel
  <2>1. call' = call /\ pc' # "returned"
    BY <1>1 DEF Refuse, Enter, UTF8Kernel
  <2> QED
    BY ONLY <2>1, ToldThen
<1>2. CASE ResumedKernel \/ AsciiBlock \/ Character \/ Substitute
  <2>1. call' = call /\ \E u, next : next # "returned" /\ Put(u, next)
    BY <1>2, PutSteps
  <2>2. pc' # "returned"
    BY ONLY <2>1, PutIs
  <2> QED
    BY ONLY <2>1, <2>2, ToldThen
<1>3. CASE Full \/ Inspect
  <2>1. call' = call /\ (call.mode = "safe" \/ call.mode \in Inspections)
    BY <1>3 DEF Full, NoRoom, Inspect, Inspections
  <2>2. call.mode \notin Plainspoken
    BY ONLY <2>1 DEF Inspections, Plainspoken
  <2> QED
    BY ONLY <2>1, <2>2, ToldThen
<1>4. CASE UNCHANGED vars
  <2>1. call' = call /\ pc' = pc /\ out' = out /\ res' = res
    BY <1>4 DEF vars
  <2>2. pc' = "returned" /\ call.mode \in Plainspoken => Told(out', res')
    BY ONLY <2>1, ToldInv DEF ToldInv, Returned
  <2> QED
    BY ONLY <2>1, <2>2, ToldThen
<1> QED
  BY <1>1, <1>2, <1>3, <1>4

LEMMA ToldInvAlways == Spec => []ToldInv
<1>1. Init => ToldInv
  BY DEF Init, ToldInv, Returned
<1>2. TypeInv /\ LinkInv /\ TailInv /\ ToldInv /\ [Next]_vars => ToldInv'
  BY ToldOfFinish, ToldOfKernel, ToldOfReject, ToldOfGivingUp, ToldOfOthers DEF Next
<1> QED
  BY <1>1, <1>2, TypeInvAlways, LinkInvAlways, TailInvAlways, PTL DEF Spec

LEMMA WrittenWords == call \in Calls => WordsOut = Native(call, out)
  BY DEF WordsOut, Native, Swap

(* Every checking and every trusting function, every text, group and block *)
(* size: accepted is what is well formed and fits, what is written reads   *)
(* back as the same code points, and otherwise the fault and its position  *)
(* are those of the first character that is not one.                       *)
THEOREM ConvertsAll == Spec => []ConvertsExactly
<1>1. TypeInv /\ ToldInv => ConvertsExactly
  <2> SUFFICES ASSUME TypeInv, ToldInv, Returned, call.mode \in {"plain", "errors", "valid"}
               PROVE  IF Source.whole
                      THEN /\ call.to # "none" => Target.whole /\ Target.points = Source.points
                           /\ res = [error |-> Said("Success"),
                                     count |-> CASE call.to # "none" -> Len(out)
                                                 [] call.to = "none" /\ call.mode = "errors" -> Size
                                                 [] OTHER -> 0]
                      ELSE /\ call.mode = "plain" => res = Unanswered
                           /\ call.mode = "errors" =>
                                /\ res = [error |-> Fault(call.from, call.to, WordsIn, Source.stop + 1),
                                          count |-> Source.stop]
                                /\ call.to # "none" => Target.whole /\ Target.points = Source.points
    BY DEF ConvertsExactly
  <2>1. Told(out, res)
    BY DEF ToldInv, Plainspoken
  <2>2. Target = Reading(call.to, call.to, Native(call, out)) /\ Source = Reading(call.from, call.to, WordsIn)
    BY WrittenWords DEF Target, Source, TypeInv
  <2>3. ReadsBack(WordsIn, out) => (call.to # "none" => Target.whole /\ Target.points = Source.points)
    BY ONLY <2>2 DEF ReadsBack
  <2> QED
    BY ONLY <2>1, <2>3 DEF Told, Accepted
<1> QED
  BY <1>1, TypeInvAlways, ToldInvAlways, PTL

Stopped(o) ==
  /\ Reading(call.to, call.to, Native(call, o)).whole
  /\ Stops(Source.points, Reading(call.to, call.to, Native(call, o)).points, call.room, Len(o))

Halted(o, r) ==
  r.count > 0 \/ Source.whole => r.count = Len(o) /\ Stopped(o)

HaltInv == Returned /\ call.mode = "safe" => Halted(out, res)

LEMMA HaltThen ==
  ASSUME call' = call, pc' = "returned" /\ call.mode = "safe" => Halted(out', res')
  PROVE  HaltInv'
<1>1. Source' = Source
  BY SameText
<1>2. \A o, r : Halted(o, r)' <=> Halted(o, r)
  BY ONLY <1>1, call' = call DEF Halted, Stopped
<1>3. ASSUME pc' = "returned", call.mode = "safe"
      PROVE  Halted(out, res)'
  BY ONLY <1>2, <1>3, pc' = "returned" /\ call.mode = "safe" => Halted(out', res')
<1> QED
  BY ONLY <1>3, call' = call DEF HaltInv, Returned

(* The next character is the first there is no room for.                   *)
LEMMA StoppedAt ==
  ASSUME TypeInv, call.mode = "safe", Linked(call, WordsIn, pos, out),
         pos < Size => call.room - Len(out) < Needed(WordsIn, pos + 1)
  PROVE  Stopped(out)
<1>1. /\ UnitsOf(call.from, WordsIn) /\ Len(WordsIn) = Size /\ WordsIn \in Seq(Nat)
      /\ call.from \in Texts /\ call.mode \in Readers /\ call \in Calls /\ UnitsOf(call.to, out)
      /\ Size \in Nat
  BY ReadsText DEF Checking
<1>2. call.to = "utf8" /\ call.from \in {"latin1", "utf16"} /\ call.to \in Targets /\ call.to \in Texts
  BY <1>1, OfferedIs DEF Targets, Texts
<1>3. PICK t : t = WordsIn
  OBVIOUS
<1>4. PICK a : a = After(call.from, call.to, t, pos)
  OBVIOUS
<1>5. PICK e : e = Reading(call.to, call.to, Native(call, out))
  OBVIOUS
<1>6. PICK d, r, s : d = e.points /\ r = a.points /\ s = Source.points
  OBVIOUS
<1>7. pos \in 0 .. Len(t) /\ pos \in Nat
  <2>1. pos \in 0 .. Size /\ pos \in Nat
    BY AlwaysInside
  <2> QED
    BY ONLY <1>1, <1>3, <2>1
<1>8. d \in Seq(Nat) /\ r \in Seq(Nat)
  <2>1. Native(call, out) \in Seq(Nat)
    BY <1>1, NativeType
  <2>2. e \in AReading
    BY ONLY <1>2, <1>5, <2>1, ReadingType
  <2>3. a \in AReading
    BY ONLY <1>1, <1>3, <1>4, <1>7, AfterType
  <2> QED
    BY ONLY <1>6, <2>2, <2>3, ReadingFields
<1>9. e.whole /\ Both(d, r) = s
  <2>1. OutLink(call, out, a.points, Reading(call.from, call.to, t).points)
    <3>1. Linked(call, t, pos, out) /\ call.to # "none"
      BY ONLY <1>2, <1>3, Linked(call, WordsIn, pos, out)
    <3> QED
      BY ONLY <1>4, <3>1, LinkedWhole
  <2> QED
    BY ONLY <1>3, <1>5, <1>6, <2>1 DEF OutLink, Source
<1>10. /\ d = SubSeq(s, 1, Len(d)) /\ Len(s) = Len(d) + Len(r) /\ Len(d) \in Nat /\ Len(r) \in Nat
       /\ \A c \in Nat, x \in Seq(Nat) : r = InFront(c, x) => s[Len(d) + 1] = c
  <2>1. s = Both(d, r)
    BY ONLY <1>9
  <2>2. Parted(d, r, s)
    BY ONLY <1>8, <2>1, FrontOf
  <2> QED
    BY ONLY <2>2 DEF Parted
<1>11. ASSUME Len(d) < Len(s)
       PROVE  Len(out) + Len(UTF8Units(s[Len(d) + 1])) > call.room
  <2>1. Len(r) # 0
    BY ONLY <1>10, <1>11, SMT
  <2>2. r # << >>
    BY ONLY <2>1
  <2>3. pos # Len(t)
    BY ONLY <1>1, <1>3, <1>4, <1>6, <2>2, AfterLast
  <2>4. pos < Len(t) /\ pos + 1 \in 1 .. Len(t)
    BY ONLY <1>1, <1>3, <1>7, <2>3, SMT
  <2>5. CharactersAt(call.from, call.to, t, pos + 1) # {}
    BY ONLY <1>1, <1>3, <1>4, <1>6, <1>7, <2>2, <2>4, AfterFault
  <2>6. PICK w, c : StartsAt(call.from, call.to, t, pos + 1, w, c)
    BY ONLY <2>5, NothingStarts
  <2>7. /\ c \in Nat /\ pos + w \in pos + 1 .. Len(t)
        /\ r = InFront(c, After(call.from, call.to, t, pos + w).points)
    BY ONLY <1>1, <1>3, <1>4, <1>6, <1>7, <2>4, <2>6, AfterOne
  <2>8. After(call.from, call.to, t, pos + w).points \in Seq(Nat)
    <3>1. pos + w \in 0 .. Len(t)
      BY ONLY <1>1, <1>3, <1>7, <2>7, SMT
    <3>2. After(call.from, call.to, t, pos + w) \in AReading
      BY ONLY <1>1, <1>3, <3>1, AfterType
    <3> QED
      BY ONLY <3>2, ReadingFields
  <2>9. s[Len(d) + 1] = c
    BY ONLY <1>10, <2>7, <2>8
  <2>10. Right(t, pos + 1)
    BY ONLY <1>1, <1>3, <2>4, RightAny
  <2>11. w = Width(t, pos + 1) /\ c = CodePoint(t, pos + 1)
    BY ONLY <2>6, <2>10 DEF Right
  <2>12. Spelled(c) = UTF8Units(c)
    BY ONLY <1>2, call.mode = "safe" DEF Spelled
  <2>13. Needed(t, pos + 1) = Len(UTF8Units(c))
    <3>1. CASE call.from = "utf16" /\ Surrogate(t[pos + 1])
      <4>1. w = 2
        <5>1. w \in {1, 2}
          BY ONLY <1>2, <2>11, <3>1 DEF Width
        <5>2. t[pos + 1] \in Nat /\ IsUnit("utf16", t[pos + 1])
          BY ONLY <1>1, <1>3, <2>4, <3>1, UnitsIn
        <5>3. t[pos + 1] <= 65535
          BY ONLY <5>2, IsUnitIs
        <5>4. ~ Single(call.from, t[pos + 1])
          BY ONLY <3>1, <5>2, <5>3, WordIs
        <5>5. w # 1
          BY ONLY <1>1, <1>3, <2>4, <2>6, <5>4, SingleStarts
        <5> QED
          BY ONLY <5>1, <5>5
      <4>2. 65536 <= c
        <5>1. Pair(t, pos + 1) /\ c = FromPair(t[pos + 1], t[pos + 1 + 1])
          BY ONLY <1>1, <1>2, <1>3, <2>4, <2>6, <3>1, <4>1, PairStarts
        <5>2. PICK h, l : h = t[pos + 1] /\ l = t[pos + 1 + 1]
          OBVIOUS
        <5>3. High(h) /\ Low(l) /\ pos + 1 < Len(t)
          BY ONLY <5>1, <5>2 DEF Pair
        <5>4. pos + 1 + 1 \in 1 .. Len(t)
          BY ONLY <1>1, <1>3, <1>7, <5>3, SMT
        <5>5. h \in Nat /\ l \in Nat
          BY ONLY <1>1, <1>3, <2>4, <5>2, <5>4
        <5>6. c = PairValue(h, l)
          BY ONLY <5>1, <5>2, <5>3, <5>5, SixteenBits
        <5> QED
          BY ONLY <5>3, <5>5, <5>6, SMT DEF PairValue, High, Low
      <4>3. Len(UTF8Units(c)) = Size8(c)
        BY ONLY <2>7, UTF8Spelled
      <4>4. Size8(c) = 4
        BY ONLY <2>7, <4>2, SMT DEF Size8
      <4> QED
        BY ONLY <3>1, <4>3, <4>4 DEF Needed
    <3>2. CASE ~ (call.from = "utf16" /\ Surrogate(t[pos + 1]))
      BY ONLY <2>11, <2>12, <3>2 DEF Needed
    <3> QED
      BY ONLY <3>1, <3>2
  <2>14. Len(UTF8Units(c)) \in Nat
    <3>1. UnitsOf(call.to, Spelled(c))
      BY <1>1, <2>7, SpelledType
    <3> QED
      BY ONLY <2>12, <3>1, UnitsIn
  <2>15. call.room \in Nat /\ Len(out) \in Nat
    BY AlwaysInside
  <2>16. call.room - Len(out) < Needed(t, pos + 1)
    BY ONLY <1>1, <1>3, <2>4, pos < Size => call.room - Len(out) < Needed(WordsIn, pos + 1)
  <2>17. Len(out) + Len(UTF8Units(c)) > call.room
    BY ONLY <2>13, <2>14, <2>15, <2>16, SMT
  <2> QED
    BY ONLY <2>9, <2>17
<1>12. Stops(s, d, call.room, Len(out))
  BY ONLY <1>10, <1>11 DEF Stops
<1> QED
  BY ONLY <1>5, <1>6, <1>9, <1>12 DEF Stopped

LEMMA HaltOfFinish ==
  ASSUME TypeInv, LinkInv, Conclude
  PROVE  HaltInv'
<1>1. /\ pc = "scalar" /\ pos = Size /\ call' = call /\ out' = out
      /\ IF LateReject THEN Fail("TooLarge") ELSE Succeed
  BY DEF Conclude
<1> SUFFICES ASSUME call.mode = "safe"
             PROVE  Halted(out', res')
  BY <1>1, HaltThen
<1>2. ~ JudgedAtEnd /\ call.mode \in Checking /\ call.mode # "valid"
  BY ONLY call.mode = "safe" DEF JudgedAtEnd, Checking
<1>3. Succeed
  BY ONLY <1>1, <1>2 DEF LateReject
<1>4. call.to # "none"
  BY OfferedIs DEF TypeInv
<1>5. res'.count = Len(out)
  BY ONLY <1>3, <1>4, call.mode = "safe" DEF Succeed, Answer, Written
<1>6. Linked(call, WordsIn, pos, out)
  BY ONLY <1>1, <1>2, LinkInv DEF LinkInv, Sure
<1>7. Stopped(out)
  <2>1. ~ (pos < Size)
    <3>1. Size \in Nat
      BY AlwaysInside
    <3> QED
      BY ONLY <1>1, <3>1, SMT
  <2> QED
    BY <1>6, <2>1, StoppedAt
<1> QED
  BY ONLY <1>1, <1>5, <1>7 DEF Halted

LEMMA HaltOfFull ==
  ASSUME TypeInv, LinkInv, Full
  PROVE  HaltInv'
<1>1. pc = "scalar" /\ pos < Size /\ NoRoom /\ Succeed /\ call' = call /\ out' = out
  BY DEF Full, Looping
<1>2. call.mode = "safe" /\ call.room - Len(out) < Needed(Input, pos + 1)
  BY ONLY <1>1 DEF NoRoom, Here
<1>3. ~ JudgedAtEnd /\ call.mode \in Checking /\ call.mode # "valid"
  BY ONLY <1>2 DEF JudgedAtEnd, Checking
<1>4. call.to # "none"
  BY <1>2, OfferedIs DEF TypeInv
<1>5. res'.count = Len(out)
  BY ONLY <1>1, <1>2, <1>4 DEF Succeed, Answer, Written
<1>6. Linked(call, WordsIn, pos, out)
  BY ONLY <1>1, <1>3, LinkInv DEF LinkInv, Sure
<1>7. Input = WordsIn
  BY <1>3, ReadsText
<1>8. Stopped(out)
  BY <1>2, <1>6, <1>7, StoppedAt
<1>9. Halted(out', res')
  BY ONLY <1>1, <1>5, <1>8 DEF Halted
<1> QED
  BY ONLY <1>1, <1>9, HaltThen

LEMMA HaltOfReject ==
  ASSUME TypeInv, LinkInv, Reject
  PROVE  HaltInv'
<1>1. PICK error \in Faults \ {"Success"} : Judged(error) /\ Fail(error)
  BY DEF Reject
<1>2. /\ pc = "scalar" /\ pos < Size /\ Judgement(Input, pos + 1) = error /\ call' = call
  BY <1>1 DEF Reject, Judged, Looping, Here
<1> SUFFICES ASSUME call.mode = "safe"
             PROVE  Halted(out', res')
  BY <1>2, HaltThen
<1>3. call.mode \in Checking \ {"valid"} /\ error # "Success"
  BY ONLY <1>1, call.mode = "safe" DEF Checking
<1>4. ~ Source.whole
  BY <1>2, <1>3, LinkedFault
<1>5. res'.count = 0
  BY ONLY <1>1, call.mode = "safe" DEF Fail, Answer
<1>6. ~ (res'.count > 0)
  BY ONLY <1>5, SMT
<1> QED
  BY ONLY <1>4, <1>6 DEF Halted

LEMMA HaltOfOthers ==
  ASSUME TypeInv, LinkInv, BudgetInv, HaltInv,
         \/ Refuse \/ Enter \/ ResumedKernel \/ UTF8Kernel \/ AsciiBlock \/ Character \/ Substitute
         \/ Kernel \/ GiveUp \/ CutShort \/ Inspect \/ UNCHANGED vars
  PROVE  HaltInv'
<1>1. CASE Refuse \/ Enter \/ UTF8Kernel
  <2>1. call' = call /\ pc' # "returned"
    BY <1>1 DEF Refuse, Enter, UTF8Kernel
  <2> QED
    BY ONLY <2>1, HaltThen
<1>2. CASE ResumedKernel \/ AsciiBlock \/ Character \/ Substitute
  <2>1. call' = call /\ \E u, next : next # "returned" /\ Put(u, next)
    BY <1>2, PutSteps
  <2>2. pc' # "returned"
    BY ONLY <2>1, PutIs
  <2> QED
    BY ONLY <2>1, <2>2, HaltThen
<1>3. CASE Inspect
  <2>1. call' = call /\ call.mode \in Inspections
    BY <1>3 DEF Inspect, Inspections
  <2>2. call.mode # "safe"
    BY ONLY <2>1 DEF Inspections
  <2> QED
    BY ONLY <2>1, <2>2, HaltThen
<1>4. CASE Kernel
  <2>1. call' = call /\ pc = "kernel"
    BY <1>4 DEF Kernel
  <2>2. call.provider = "kernel" /\ call \in Calls
    BY <2>1 DEF BudgetInv, TypeInv
  <2>3. call.mode # "safe"
    BY <2>2, OfferedIs
  <2> QED
    BY ONLY <2>1, <2>3, HaltThen
<1>5. CASE GiveUp \/ CutShort
  <2>1. PICK error : error \in {"void", "cut"} /\ Judgement(Input, pos + 1) = error /\ pc = "scalar" /\ pos < Size
    BY <1>5 DEF GiveUp, CutShort, Judged, Looping, Here
  <2>2. call' = call
    BY <1>5 DEF GiveUp, CutShort
  <2>3. call.mode # "safe"
    <3>1. ASSUME call.mode = "safe" PROVE FALSE
      <4>1. call.mode \in Checking
        BY ONLY <3>1 DEF Checking
      <4>2. call.mode = "valid"
        BY <2>1, <4>1, GivesUp
      <4> QED
        BY ONLY <3>1, <4>2
    <3> QED
      BY <3>1
  <2> QED
    BY ONLY <2>2, <2>3, HaltThen
<1>6. CASE UNCHANGED vars
  <2>1. call' = call /\ pc' = pc /\ out' = out /\ res' = res
    BY <1>6 DEF vars
  <2>2. pc' = "returned" /\ call.mode = "safe" => Halted(out', res')
    BY ONLY <2>1, HaltInv DEF HaltInv, Returned
  <2> QED
    BY ONLY <2>1, <2>2, HaltThen
<1> QED
  BY <1>1, <1>2, <1>3, <1>4, <1>5, <1>6

LEMMA HaltInvAlways == Spec => []HaltInv
<1>1. Init => HaltInv
  BY DEF Init, HaltInv, Returned
<1>2. TypeInv /\ LinkInv /\ BudgetInv /\ HaltInv /\ [Next]_vars => HaltInv'
  BY HaltOfFinish, HaltOfFull, HaltOfReject, HaltOfOthers DEF Next
<1> QED
  BY <1>1, <1>2, TypeInvAlways, LinkInvAlways, BudgetInvAlways, PTL DEF Spec

(* A safe converter writes whole characters from the beginning of the text *)
(* and stops where the next one has no room, in every dst.                 *)
THEOREM SafeStops == Spec => []SafeStopsWhole
<1>1. TypeInv /\ HaltInv => SafeStopsWhole
  <2> SUFFICES ASSUME TypeInv, HaltInv, Returned, call.mode = "safe", res.count > 0 \/ Source.whole
               PROVE  /\ res.count = Len(out) /\ Target.whole
                      /\ Target.points = SubSeq(Source.points, 1, Len(Target.points))
                      /\ Len(Target.points) < Len(Source.points) =>
                           Len(out) + Len(UTF8Units(Source.points[Len(Target.points) + 1])) > call.room
    BY DEF SafeStopsWhole
  <2>1. res.count = Len(out) /\ Stopped(out)
    BY DEF HaltInv, Halted
  <2>2. Target = Reading(call.to, call.to, Native(call, out))
    BY WrittenWords DEF Target, TypeInv
  <2> QED
    BY ONLY <2>1, <2>2 DEF Stopped, Stops
<1> QED
  BY <1>1, TypeInvAlways, HaltInvAlways, PTL

(* The first p words stand where they stood, but for lone surrogates.      *)
KeptTo(t, p, o) == Len(o) = p /\ \A i \in 1 .. p : Native(call, o)[i] \in May(t, i)

(* p units are read and o is written.                                      *)
Mended(t, p, o) ==
  OutLink(call, o, RepairedAfter(call.from, t, p), RepairedAfter(call.from, t, 0))

Mend(t, p, o) == Mended(t, p, o) /\ (call.mode = "wellFormed" => KeptTo(t, p, o))

(* Both repairing calls read UTF-16.                                       *)
LEMMA RepairingIs ==
  ASSUME call \in Calls, call.mode \in Repairing
  PROVE  /\ call.from = "utf16" /\ call.from \in Texts /\ call.from # "latin1"
         /\ call.to \in {"utf8", "utf16"} /\ call.to \in Targets \ {"latin1"} /\ call.to \in Targets
         /\ call.to # "none" /\ call.mode \in Readers \ {"valid"} /\ call.mode \in Readers
         /\ call.mode # "swap" /\ call.mode \notin Inspections /\ ~ JudgedAtEnd /\ call.swapped \in BOOLEAN
         /\ call.mode = "wellFormed" => call.to = "utf16"
         /\ call.mode = "replacement" => call.to = "utf8"
         /\ call.inPlace => call.mode = "wellFormed"
         /\ \A c : Holds(call.to, c)
<1>1. call.mode = "replacement" \/ call.mode = "wellFormed"
  BY DEF Repairing
<1>2. /\ call.from = "utf16" /\ call.to \in {"utf8", "utf16"}
      /\ call.mode = "wellFormed" => call.to = "utf16"
      /\ call.mode = "replacement" => call.to = "utf8"
      /\ call.inPlace => call.mode = "wellFormed"
      /\ call.swapped \in BOOLEAN
  BY <1>1, OfferedIs, CallFacts
<1>3. \A c : Holds(call.to, c)
  BY ONLY <1>2 DEF Holds
<1> QED
  BY ONLY <1>1, <1>2, <1>3 DEF Texts, Targets, Readers, Inspections, JudgedAtEnd

LEMMA MendStart ==
  ASSUME call \in Calls, call.mode \in Repairing, NEW t, UnitsOf(call.from, t)
  PROVE  Mend(t, 0, << >>)
<1>1. call.from \in Texts /\ call.to \in Targets /\ t \in Seq(Nat) /\ Len(t) \in Nat
  BY RepairingIs, UnitsIn
<1>2. RepairedAfter(call.from, t, 0) \in Seq(Nat)
  <2>1. 0 \in 0 .. Len(t)
    BY ONLY <1>1, SMT
  <2> QED
    BY ONLY <1>1, <2>1, RepairedType
<1>3. Mended(t, 0, << >>)
  BY ONLY <1>1, <1>2, OutStart DEF Mended
<1>4. KeptTo(t, 0, << >>)
  <2>1. Len(<< >>) = 0 /\ 1 .. 0 = {}
    BY SMT
  <2> QED
    BY ONLY <2>1 DEF KeptTo
<1> QED
  BY ONLY <1>3, <1>4 DEF Mend

(* Units written where those of the text stand.                            *)
Keeps(t, p, k, u) == Len(u) = k /\ \A j \in 1 .. k : Native(call, u)[j] \in May(t, p + j)

LEMMA KeptMore ==
  ASSUME NEW t, NEW p \in Nat, NEW k \in Nat, NEW o, UnitsOf(call.to, o), KeptTo(t, p, o),
         NEW u, UnitsOf(call.to, u), Keeps(t, p, k, u)
  PROVE  KeptTo(t, p + k, o \o u)
<1>1. Len(o) = p /\ Len(u) = k
  BY DEF KeptTo, Keeps
<1>2. UnitsOf(call.to, o \o u) /\ Len(o \o u) = p + k
  BY ONLY <1>1, UnitsJoin, UnitsOf(call.to, o), UnitsOf(call.to, u)
<1>3. PICK a : a = Native(call, o)
  OBVIOUS
<1>4. PICK b : b = Native(call, u)
  OBVIOUS
<1>5. PICK v : v = Native(call, o \o u)
  OBVIOUS
<1>6. a \in Seq(Nat) /\ b \in Seq(Nat) /\ Len(a) = p /\ Len(b) = k
  BY ONLY <1>1, <1>3, <1>4, NativeType, UnitsOf(call.to, o), UnitsOf(call.to, u)
<1>7. v = a \o b
  BY ONLY <1>3, <1>4, <1>5, NativeJoin, UnitsOf(call.to, o), UnitsOf(call.to, u)
<1>8. (\A i \in 1 .. p : v[i] = a[i]) /\ (\A i \in 1 .. k : v[p + i] = b[i])
  BY ONLY <1>6, <1>7, JoinIs
<1>9. ASSUME NEW i \in 1 .. p + k PROVE v[i] \in May(t, i)
  <2>1. CASE i <= p
    <3>1. i \in 1 .. p
      BY ONLY <2>1, i \in 1 .. p + k, p \in Nat, k \in Nat, SMT
    <3>2. a[i] \in May(t, i)
      BY ONLY <1>3, <3>1, KeptTo(t, p, o) DEF KeptTo
    <3> QED
      BY ONLY <1>8, <3>1, <3>2
  <2>2. CASE ~ (i <= p)
    <3>1. PICK j \in 1 .. k : i = p + j
      <4>1. i - p \in 1 .. k /\ i = p + (i - p)
        BY ONLY <2>2, i \in 1 .. p + k, p \in Nat, k \in Nat, SMT
      <4> QED
        BY ONLY <4>1
    <3>2. b[j] \in May(t, p + j)
      BY ONLY <1>4, j \in 1 .. k, Keeps(t, p, k, u) DEF Keeps
    <3> QED
      BY ONLY <1>8, <3>1, <3>2
  <2> QED
    BY ONLY <2>1, <2>2
<1> QED
  BY ONLY <1>2, <1>5, <1>9 DEF KeptTo

(* A character is repaired to itself.                                      *)
LEMMA MendMore ==
  ASSUME call \in Calls, call.mode \in Repairing, NEW t, UnitsOf(call.from, t),
         NEW p \in 0 .. Len(t), p < Len(t), NEW w, NEW c,
         StartsAt(call.from, call.to, t, p + 1, w, c),
         NEW o, UnitsOf(call.to, o), Mend(t, p, o)
  PROVE  Mend(t, p + w, o \o Spelled(c)) /\ p + w \in p + 1 .. Len(t)
<1>1. /\ call.from = "utf16" /\ call.from \in Texts /\ call.from # "latin1" /\ call.to \in Targets
      /\ call.to \in Targets \ {"latin1"} /\ call.mode # "swap" /\ Holds(call.to, c)
      /\ call.swapped \in BOOLEAN /\ t \in Seq(Nat) /\ Len(t) \in Nat
  BY RepairingIs, UnitsIn
<1>2. StartsAt(call.from, call.from, t, p + 1, w, c)
  BY ONLY <1>1, StartsAt(call.from, call.to, t, p + 1, w, c), SameCharacters
<1>3. w \in 1 .. 4 /\ p + w \in p + 1 .. Len(t) /\ c \in Nat /\ Scalar(c)
  BY ONLY <1>1, <1>2, p \in 0 .. Len(t), p < Len(t), AfterOne
<1>4. p + w \in 0 .. Len(t) /\ p \in Nat /\ w \in Nat /\ p + 1 \in 1 .. Len(t)
  BY ONLY <1>1, <1>3, p \in 0 .. Len(t), p < Len(t), SMT
<1>5. PICK r : r = RepairedAfter(call.from, t, p + w)
  OBVIOUS
<1>6. r \in Seq(Nat) /\ RepairedAfter(call.from, t, p) = InFront(c, r)
  <2>1. r \in Seq(Nat)
    BY ONLY <1>1, <1>4, <1>5, RepairedType
  <2> QED
    BY ONLY <1>1, <1>2, <1>5, <2>1, p \in 0 .. Len(t), p < Len(t), RepairedMore
<1>7. PICK r0 : r0 = RepairedAfter(call.from, t, 0)
  OBVIOUS
<1>8. OutLink(call, o, InFront(c, r), r0)
  BY ONLY <1>6, <1>7, Mend(t, p, o) DEF Mend, Mended
<1>9. OutLink(call, o \o Spelled(c), r, r0)
  BY ONLY <1>1, <1>3, <1>6, <1>8, call \in Calls, UnitsOf(call.to, o), OutMore
<1>10. Mended(t, p + w, o \o Spelled(c))
  BY ONLY <1>5, <1>7, <1>9 DEF Mended
<1>11. ASSUME call.mode = "wellFormed" PROVE KeptTo(t, p + w, o \o Spelled(c))
  <2>1. call.to = "utf16"
    BY <1>11, RepairingIs
  <2>2. UnitsOf(call.to, Spelled(c)) /\ Native(call, Spelled(c)) = Spelling(call.to, c)
        /\ Len(Spelled(c)) = SpellSize(call.to, c)
    BY ONLY <1>1, <1>3, SpelledIs
  <2>3. Spelling(call.to, c) = UTF16Units(c)
    BY ONLY <2>1 DEF Spelling
  <2>4. PICK q : q = p + 1
    OBVIOUS
  <2>5. Len(UTF16Units(c)) = w /\ \A j \in 1 .. w : UTF16Units(c)[j] = t[q + j - 1]
    <3>1. PICK f : f = call.from
      OBVIOUS
    <3>2. f = "utf16" /\ StartsAt(f, f, t, q, w, c) /\ q \in 1 .. Len(t) /\ t \in Seq(Nat)
      BY ONLY <1>1, <1>2, <1>4, <2>4, <3>1
    <3>3. Again(t, q, w, c)
      BY ONLY <3>2, SpelledAgain
    <3> QED
      BY ONLY <3>3 DEF Again
  <2>6. \A j \in 1 .. w : q + j - 1 = p + j
    BY ONLY <1>4, <2>4, SMT
  <2>7. \A j \in 1 .. w : Native(call, Spelled(c))[j] = t[p + j]
    BY ONLY <2>2, <2>3, <2>5, <2>6
  <2>8. Len(Spelled(c)) = w
    <3>1. Len(Native(call, Spelled(c))) = Len(Spelled(c))
      BY ONLY <2>2, NativeType
    <3> QED
      BY ONLY <2>2, <2>3, <2>5, <3>1
  <2>9. Keeps(t, p, w, Spelled(c))
    BY ONLY <2>7, <2>8 DEF Keeps, May
  <2>10. KeptTo(t, p, o)
    BY ONLY <1>11, Mend(t, p, o) DEF Mend
  <2> QED
    BY ONLY <1>4, <2>2, <2>9, <2>10, UnitsOf(call.to, o), KeptMore
<1> QED
  BY ONLY <1>3, <1>10, <1>11 DEF Mend

(* A lone surrogate is repaired to U+FFFD.                                 *)
LEMMA MendLone ==
  ASSUME call \in Calls, call.mode \in Repairing, NEW t, UnitsOf(call.from, t),
         NEW p \in 0 .. Len(t), p < Len(t), Verdict(t, p + 1) = "Surrogate",
         NEW o, UnitsOf(call.to, o), Mend(t, p, o)
  PROVE  Mend(t, p + 1, o \o Spelled(Replacement))
<1>1. /\ call.from = "utf16" /\ call.from \in Texts /\ call.from # "latin1" /\ call.to \in Targets
      /\ call.to \in Targets \ {"latin1"} /\ call.mode # "swap" /\ Holds(call.to, Replacement)
      /\ call.swapped \in BOOLEAN /\ t \in Seq(Nat) /\ Len(t) \in Nat /\ call.mode \in Readers
      /\ call.to # "latin1"
  BY RepairingIs, UnitsIn
<1>2. p + 1 \in 1 .. Len(t) /\ p + 1 \in 0 .. Len(t) /\ p \in Nat /\ 1 \in Nat
  BY ONLY <1>1, p \in 0 .. Len(t), p < Len(t), SMT
<1>3. PICK q \in 1 .. Len(t) : q = p + 1
  BY ONLY <1>2
<1>4. Verdict(t, q) = "Surrogate"
  BY ONLY <1>3, Verdict(t, p + 1) = "Surrogate"
<1>5. CharactersAt(call.from, call.to, t, q) = {}
  <2>1. Right(t, q)
    BY ONLY <1>1, call \in Calls, UnitsOf(call.from, t), q \in 1 .. Len(t), RightAny
  <2>2. Verdict(t, q) # "Success"
    BY ONLY <1>4
  <2> QED
    BY ONLY <2>1, <2>2 DEF Right
<1>6. CharactersAt(call.from, call.from, t, p + 1) = {}
  <2>1. CharactersAt(call.from, call.to, t, q) = CharactersAt(call.from, call.from, t, q)
    <3>1. PICK a \in Targets \ {"latin1"} : a = call.to
      BY ONLY <1>1
    <3>2. PICK e : e = call.from /\ e # "latin1"
      BY ONLY <1>1
    <3>3. CharactersAt(e, a, t, q) = CharactersAt(e, e, t, q)
      BY ONLY <3>2, SameCharacters
    <3> QED
      BY ONLY <3>1, <3>2, <3>3
  <2> QED
    BY ONLY <1>3, <1>5, <2>1
<1>7. Surrogate(t[q])
  <2>1. Verdict(t, q) = UTF16Verdict(t, q)
    BY ONLY <1>1, VerdictOf
  <2> QED
    BY ONLY <1>4, <2>1 DEF UTF16Verdict
<1>8. PICK r : r = RepairedAfter(call.from, t, p + 1)
  OBVIOUS
<1>9. r \in Seq(Nat) /\ RepairedAfter(call.from, t, p) = InFront(Replacement, r)
  <2>1. r \in Seq(Nat)
    BY ONLY <1>1, <1>2, <1>8, RepairedType
  <2>2. RepairedAfter(call.from, t, p) = InFront(65533, RepairedAfter(call.from, t, p + 1))
    BY ONLY <1>1, <1>6, p \in 0 .. Len(t), p < Len(t), RepairedNone
  <2> QED
    BY ONLY <1>8, <2>1, <2>2 DEF Replacement
<1>10. PICK r0 : r0 = RepairedAfter(call.from, t, 0)
  OBVIOUS
<1>11. OutLink(call, o, InFront(Replacement, r), r0)
  BY ONLY <1>9, <1>10, Mend(t, p, o) DEF Mend, Mended
<1>12. Replacement \in Nat /\ Scalar(Replacement)
  BY SMT DEF Replacement, Scalar
<1>13. OutLink(call, o \o Spelled(Replacement), r, r0)
  BY ONLY <1>1, <1>9, <1>11, <1>12, call \in Calls, UnitsOf(call.to, o), OutMore
<1>14. Mended(t, p + 1, o \o Spelled(Replacement))
  BY ONLY <1>8, <1>10, <1>13 DEF Mended
<1>15. ASSUME call.mode = "wellFormed" PROVE KeptTo(t, p + 1, o \o Spelled(Replacement))
  <2>1. call.to = "utf16"
    BY <1>15, RepairingIs
  <2>2. UnitsOf(call.to, Spelled(Replacement))
        /\ Native(call, Spelled(Replacement)) = Spelling(call.to, Replacement)
    BY ONLY <1>1, <1>12, SpelledIs
  <2>3. Spelling(call.to, Replacement) = UTF16Units(Replacement)
    BY ONLY <2>1 DEF Spelling
  <2>4. Replacement < 65536
    BY SMT DEF Replacement
  <2>5. Len(UTF16Units(Replacement)) = 1 /\ UTF16Units(Replacement)[1] = Replacement
    BY ONLY <1>12, <2>4, UTF16Spelled DEF Size16
  <2>6. Len(Native(call, Spelled(Replacement))) = Len(Spelled(Replacement))
    BY ONLY <2>2, NativeType
  <2>7. \A j \in 1 .. 1 : j = 1
    BY SMT
  <2>8. Replacement \in May(t, p + 1)
    BY ONLY <1>3, <1>7 DEF May
  <2>9. Keeps(t, p, 1, Spelled(Replacement))
    BY ONLY <2>2, <2>3, <2>5, <2>6, <2>7, <2>8 DEF Keeps
  <2>10. KeptTo(t, p, o)
    BY ONLY <1>15, Mend(t, p, o) DEF Mend
  <2> QED
    BY ONLY <1>2, <2>2, <2>9, <2>10, UnitsOf(call.to, o), KeptMore
<1> QED
  BY ONLY <1>14, <1>15 DEF Mend

(* A run of units, each of them a character of one unit.                   *)
LEMMA MendRun ==
  ASSUME call \in Calls, call.mode \in Repairing, NEW t, UnitsOf(call.from, t),
         NEW p \in Nat, NEW k \in Nat, p + k <= Len(t),
         \A i \in p + 1 .. p + k : Plainly(t[i]),
         NEW o, UnitsOf(call.to, o), Mend(t, p, o)
  PROVE  Mend(t, p + k, RunOut(o, t, p, k))
<1>1. /\ t \in Seq(Nat) /\ Len(t) \in Nat
      /\ \A i \in 1 .. Len(t) : t[i] \in Nat /\ IsUnit(call.from, t[i])
  BY UnitsIn
<1>2. call.to # "none" /\ call.mode # "swap"
  BY RepairingIs
<1>3. ASSUME NEW i \in 1 .. k
      PROVE  /\ StartsAt(call.from, call.to, t, p + i, 1, t[p + i]) /\ Alone(t, p + i)
             /\ UnitsOf(call.to, Spelled(t[p + i]))
  <2>1. PICK q : q = p + i
    OBVIOUS
  <2>2. q \in p + 1 .. p + k /\ q \in 1 .. Len(t)
    BY ONLY <1>1, <2>1, i \in 1 .. k, p \in Nat, k \in Nat, p + k <= Len(t), SMT
  <2>3. Plainly(t[q])
    BY ONLY <2>2, \A j \in p + 1 .. p + k : Plainly(t[j])
  <2>4. StartsAt(call.from, call.to, t, q, 1, t[q])
    BY ONLY <1>1, <2>2, <2>3, SingleStarts DEF Plainly
  <2>5. Alone(t, q)
    BY ONLY <2>3 DEF Plainly, Alone
  <2>6. PICK u : u = t[q]
    OBVIOUS
  <2>7. u \in Nat
    BY ONLY <1>1, <2>2, <2>6
  <2>8. UnitsOf(call.to, Spelled(u))
    BY ONLY <1>2, <2>7, SpelledType, call \in Calls
  <2> QED
    BY ONLY <2>1, <2>4, <2>5, <2>6, <2>8
<1>4. AllAlone(t, p, k)
  BY ONLY <1>2, <1>3 DEF AllAlone
<1> DEFINE Good(j) == Mend(t, p + j, RunOut(o, t, p, j)) /\ UnitsOf(call.to, RunOut(o, t, p, j))
           G == {j \in 0 .. k : Good(j)}
<1>5. 0 \in G
  <2>1. RunOut(o, t, p, 0) = o /\ p + 0 = p
    BY RunOutNone
  <2> QED
    BY <2>1
<1>6. \A j \in 0 .. k - 1 : j \in G => j + 1 \in G
  <2> SUFFICES ASSUME NEW j \in 0 .. k - 1, Good(j) PROVE j + 1 \in 0 .. k /\ Good(j + 1)
    OBVIOUS
  <2>1. /\ j \in Nat /\ j + 1 \in 0 .. k /\ j + 1 \in 1 .. k /\ (\A i \in 1 .. j + 1 : i \in 1 .. k)
        /\ p + j \in 0 .. Len(t) /\ p + j < Len(t) /\ p + j + 1 = p + (j + 1)
    BY ONLY <1>1, p \in Nat, k \in Nat, p + k <= Len(t), j \in 0 .. k - 1, SMT
  <2>2. PICK q : q = RunOut(o, t, p, j)
    OBVIOUS
  <2>3. PICK u : u = t[p + (j + 1)]
    OBVIOUS
  <2>4. StartsAt(call.from, call.to, t, p + j + 1, 1, u) /\ UnitsOf(call.to, Spelled(u))
    BY ONLY <1>3, <2>1, <2>3
  <2>5. Mend(t, p + j + 1, q \o Spelled(u))
    BY ONLY <2>1, <2>2, <2>4, Good(j), MendMore, call \in Calls, call.mode \in Repairing,
         UnitsOf(call.from, t)
  <2>6. UnitsOf(call.to, q \o Spelled(u))
    BY ONLY <2>2, <2>4, Good(j), UnitsJoin
  <2>7. AllAlone(t, p, j + 1)
    BY ONLY <1>4, <2>1 DEF AllAlone
  <2>8. RunOut(o, t, p, j + 1) = q \o Spelled(u)
    <3>1. RunOut(o, t, p, j + 1) = RunOut(o, t, p, j) \o Spelled(t[p + (j + 1)])
      BY ONLY <2>1, <2>7, RunOutMore, UnitsOf(call.to, o), p \in Nat
    <3> QED
      BY ONLY <2>2, <2>3, <3>1
  <2> QED
    BY ONLY <2>1, <2>5, <2>6, <2>8
<1>7. 0 .. k \subseteq G
  <2> HIDE DEF G
  <2> QED BY ONLY <1>5, <1>6, k \in Nat, Upward
<1>8. k \in 0 .. k
  OBVIOUS
<1> QED
  BY ONLY <1>7, <1>8

(* What the kernels of the repairing calls take is no surrogate.           *)
LEMMA EasyRepaired ==
  ASSUME call \in Calls, call.mode \in Repairing, NEW u \in Nat, IsUnit(call.from, u), Easy(u)
  PROVE  Plainly(u)
<1>1. /\ call.from = "utf16" /\ call.to \in {"utf8", "utf16"} /\ call.mode # "swap" /\ call.mode \in Readers
      /\ call.from \in Texts
  BY RepairingIs
<1>2. CASE call.to = "utf8"
  <2>1. u < 128
    BY ONLY <1>1, <1>2, Easy(u) DEF Easy
  <2> QED
    BY ONLY <1>1, <2>1, call \in Calls, u \in Nat, AsciiPlainly
<1>3. CASE call.to = "utf16"
  <2>1. ~ Surrogate(u)
    BY ONLY <1>1, <1>3, Easy(u) DEF Easy
  <2>2. u <= 65535 /\ u < 65536
    BY ONLY <1>1, IsUnit(call.from, u), u \in Nat DEF IsUnit
  <2>3. Single(call.from, u)
    BY ONLY <1>1, <2>1, <2>2, u \in Nat, WordIs
  <2>4. Holds(call.to, u)
    BY ONLY <1>3 DEF Holds
  <2>5. call.to # "none" => Len(Spelled(u)) = 1
    BY ONLY <1>1, <1>3, <2>2, call \in Calls, u \in Nat, OneUnitEach
  <2> QED
    BY ONLY <2>3, <2>4, <2>5 DEF Plainly
<1> QED
  BY ONLY <1>1, <1>2, <1>3

-----------------------------------------------------------------------------
(* The repairing calls *)

RepairInv ==
  pc # "overrun" /\ call.mode \in Repairing =>
    Mend(WordsIn, pos, out) /\ (pc = "returned" => pos = Size)

LEMMA RepairThen ==
  ASSUME call' = call,
         pc' # "overrun" /\ call.mode \in Repairing =>
           Mend(WordsIn, pos', out') /\ (pc' = "returned" => pos' = Size)
  PROVE  RepairInv'
<1>1. WordsIn' = WordsIn /\ Size' = Size
  BY SameText
<1>2. Mend(WordsIn, pos, out)' <=> Mend(WordsIn, pos', out')
  BY ONLY <1>1, call' = call DEF Mend, Mended, KeptTo, May
<1> QED
  BY ONLY <1>1, <1>2, call' = call,
          pc' # "overrun" /\ call.mode \in Repairing =>
            Mend(WordsIn, pos', out') /\ (pc' = "returned" => pos' = Size) DEF RepairInv

LEMMA RepairOfInit ==
  ASSUME Init
  PROVE  RepairInv
<1>1. call \in Calls /\ pos = 0 /\ out = << >> /\ pc = "call"
  BY DEF Init
<1>2. UnitsOf(call.from, WordsIn)
  BY ONLY <1>1, WordsInFacts
<1>3. call.mode \in Repairing => Mend(WordsIn, 0, << >>)
  BY ONLY <1>1, <1>2, MendStart
<1> QED
  BY ONLY <1>1, <1>3 DEF RepairInv

(* The character at q is the same in two texts that agree from q on.       *)
SameStep(t, u, q) ==
  Verdict(t, q) = Verdict(u, q) /\ Width(t, q) = Width(u, q) /\ CodePoint(t, q) = CodePoint(u, q)

LEMMA SameHere ==
  ASSUME call.mode \in Readers, call.mode \notin {"swap", "valid"}, call.from = "utf16", call.to # "latin1",
         NEW t, NEW u, NEW q, Len(t) = Len(u), t[q] = u[q], q < Len(t) => t[q + 1] = u[q + 1]
  PROVE  SameStep(t, u, q)
<1>1. Pair(t, q) <=> Pair(u, q)
  BY DEF Pair
<1>2. Verdict(t, q) = UTF16Verdict(t, q) /\ Verdict(u, q) = UTF16Verdict(u, q)
  BY VerdictOf
<1>3. Verdict(t, q) = Verdict(u, q)
  BY ONLY <1>1, <1>2, t[q] = u[q] DEF UTF16Verdict
<1>4. /\ Width(t, q) = IF Pair(t, q) THEN 2 ELSE 1
      /\ Width(u, q) = IF Pair(u, q) THEN 2 ELSE 1
  BY ONLY call.mode \notin {"swap", "valid"}, call.from = "utf16", call.to # "latin1" DEF Width
<1>5. Pair(t, q) => q < Len(t)
  BY ONLY Len(t) = Len(u) DEF Pair
<1>6. CodePoint(t, q) = CodePoint(u, q)
  <2>1. CASE Pair(t, q)
    <3>1. Width(t, q) = 2 /\ Width(u, q) = 2 /\ t[q + 1] = u[q + 1]
      BY ONLY <1>1, <1>4, <1>5, <2>1, q < Len(t) => t[q + 1] = u[q + 1]
    <3> QED
      BY ONLY <3>1, t[q] = u[q], call.from = "utf16" DEF CodePoint
  <2>2. CASE ~ Pair(t, q)
    <3>1. Width(t, q) # 2 /\ Width(u, q) # 2
      BY ONLY <1>1, <1>4, <2>2
    <3> QED
      BY ONLY <3>1, t[q] = u[q], call.from = "utf16" DEF CodePoint
  <2> QED
    BY ONLY <2>1, <2>2
<1> QED
  BY ONLY <1>1, <1>3, <1>4, <1>6 DEF SameStep

(* In place, what is behind the words written is still the text.           *)
LEMMA TextAhead ==
  ASSUME TypeInv, call.mode \in Repairing, pos < Size, Mend(WordsIn, pos, out)
  PROVE  SameStep(Input, WordsIn, pos + 1) /\ Judgement(Input, pos + 1) = Verdict(WordsIn, pos + 1)
<1>1. /\ call \in Calls /\ UnitsOf(call.to, out) /\ pos \in Nat /\ Size \in Nat
      /\ Len(Input) = Size /\ Len(WordsIn) = Size
  BY AlwaysInside
<1>2. /\ call.from = "utf16" /\ call.to # "latin1" /\ call.mode \in Readers
      /\ call.mode \notin {"swap", "valid"} /\ ~ JudgedAtEnd
      /\ call.inPlace => call.mode = "wellFormed"
  BY ONLY <1>1, call.mode \in Repairing, RepairingIs
<1>3. /\ ~ call.inPlace => Input = WordsIn
      /\ \A i \in 1 .. Size : i > Len(out) => Input[i] = WordsIn[i]
  BY ONLY <1>1, InputIs
<1>4. call.inPlace => Len(out) = pos
  BY ONLY <1>2, Mend(WordsIn, pos, out) DEF Mend, KeptTo
<1>5. \A i \in pos + 1 .. Size : i \in 1 .. Size /\ i > pos
  BY ONLY <1>1, SMT
<1>6. \A i \in pos + 1 .. Size : Input[i] = WordsIn[i]
  BY ONLY <1>3, <1>4, <1>5
<1>7. PICK q : q = pos + 1
  OBVIOUS
<1>8. q \in pos + 1 .. Size /\ (q < Size => q + 1 \in pos + 1 .. Size)
  BY ONLY <1>1, <1>7, pos < Size, SMT
<1>9. Input[q] = WordsIn[q] /\ (q < Len(Input) => Input[q + 1] = WordsIn[q + 1])
  BY ONLY <1>1, <1>6, <1>8
<1>10. SameStep(Input, WordsIn, q)
  BY ONLY <1>1, <1>2, <1>9, SameHere
<1>11. Judgement(Input, q) = Verdict(Input, q)
  BY ONLY <1>2 DEF Judgement
<1>12. Verdict(Input, q) = Verdict(WordsIn, q)
  BY ONLY <1>10 DEF SameStep
<1> QED
  BY ONLY <1>7, <1>10, <1>11, <1>12

LEMMA RepairOfKernel ==
  ASSUME TypeInv, Kernel
  PROVE  RepairInv'
<1>1. PICK n, units : KernelBegins(n, units) /\ KernelEnds(n, units)
  BY KernelStep
<1>2. call' = call /\ pos' = n /\ n \in Nat /\ n \in 0 .. Size
  BY ONLY <1>1 DEF KernelBegins
<1> SUFFICES ASSUME pc' # "overrun", call.mode \in Repairing
             PROVE  Mend(WordsIn, pos', out') /\ (pc' = "returned" => pos' = Size)
  BY <1>2, RepairThen
<1>3. out' = units /\ (pc' = "returned" => n = Size)
  BY ONLY <1>1, pc' # "overrun" DEF KernelEnds
<1>4. /\ call \in Calls /\ UnitsOf(call.from, WordsIn) /\ Len(WordsIn) = Size /\ Size \in Nat
      /\ UnitsOf(call.to, out)
  BY AlwaysInside
<1>5. PICK t : t = WordsIn
  OBVIOUS
<1>6. /\ t \in Seq(Nat) /\ Len(t) = Size
      /\ \A i \in 1 .. Size : t[i] \in Nat /\ IsUnit(call.from, t[i])
  BY ONLY <1>4, <1>5, UnitsIn
<1>7. \A i \in 1 .. n : i \in 1 .. Size /\ i > 0
  BY ONLY <1>2, <1>4, SMT
<1>8. \A i \in 0 + 1 .. 0 + n : Plainly(t[i])
  <2>1. \A i \in 1 .. n : Easy(t[i])
    BY <1>1, <1>5, KernelReads
  <2>2. \A i \in 1 .. n : Plainly(t[i])
    BY ONLY <1>4, <1>6, <1>7, <2>1, call.mode \in Repairing, EasyRepaired
  <2>3. 0 + 1 = 1 /\ 0 + n = n
    BY ONLY <1>2, SMT
  <2> QED
    BY ONLY <2>2, <2>3
<1>9. 0 + n <= Len(t) /\ 0 + n = n /\ 0 \in Nat
  BY ONLY <1>2, <1>4, <1>6, SMT
<1>10. UnitsOf(call.to, << >>) /\ Mend(t, 0, << >>) /\ UnitsOf(call.from, t)
  BY ONLY <1>4, <1>5, call.mode \in Repairing, NoUnits, MendStart
<1>11. Mend(t, 0 + n, RunOut(<< >>, t, 0, n))
  BY ONLY <1>2, <1>4, <1>8, <1>9, <1>10, call.mode \in Repairing, MendRun
<1>12. RunOut(<< >>, t, 0, n) = units
  <2>1. call.to # "none"
    BY ONLY <1>4, call.mode \in Repairing, RepairingIs
  <2>2. units = [i \in 1 .. n |-> Spelled(Input[i])[1]] /\ units \in Seq(Nat) /\ out = << >>
    BY ONLY <1>1, <2>1, UnitsIn DEF KernelBegins
  <2>3. \A i \in 1 .. Size : i > Len(out) => Input[i] = WordsIn[i]
    BY ONLY <1>4, InputIs
  <2>4. Len(out) = 0
    BY ONLY <2>2
  <2>5. \A i \in 1 .. n : Input[i] = t[i]
    BY ONLY <1>5, <1>7, <2>3, <2>4
  <2>6. units = [i \in 1 .. n |-> Spelled(t[i])[1]]
    BY ONLY <2>2, <2>5
  <2> QED
    BY ONLY <1>2, <2>1, <2>2, <2>6, RunFromNothing
<1> QED
  BY ONLY <1>2, <1>3, <1>5, <1>9, <1>11, <1>12

LEMMA RepairOfCharacter ==
  ASSUME TypeInv, RepairInv, Character
  PROVE  RepairInv'
<1>1. PICK u : CharacterBegins(u) /\ Put(u, "scalar")
  BY CharacterStep
<1>2. /\ pc = "scalar" /\ pos < Size /\ Judgement(Input, pos + 1) = "Success"
      /\ u = Converted(Input, pos + 1) /\ pos' = pos + Width(Input, pos + 1) /\ call' = call
  BY ONLY <1>1 DEF CharacterBegins
<1> SUFFICES ASSUME pc' # "overrun", call.mode \in Repairing
             PROVE  Mend(WordsIn, pos', out') /\ (pc' = "returned" => pos' = Size)
  BY <1>2, RepairThen
<1>3. out' = out \o u /\ pc' = "scalar"
  BY ONLY <1>1, pc' # "overrun", PutIs
<1>4. Mend(WordsIn, pos, out)
  BY ONLY <1>2, RepairInv, call.mode \in Repairing DEF RepairInv
<1>5. SameStep(Input, WordsIn, pos + 1) /\ Judgement(Input, pos + 1) = Verdict(WordsIn, pos + 1)
  BY <1>2, <1>4, TextAhead
<1>6. /\ call \in Calls /\ UnitsOf(call.to, out) /\ pos \in 0 .. Size
      /\ UnitsOf(call.from, WordsIn) /\ Len(WordsIn) = Size
  BY AlwaysInside
<1>7. PICK t : t = WordsIn
  OBVIOUS
<1>8. PICK w : w = Width(t, pos + 1)
  OBVIOUS
<1>9. PICK c : c = CodePoint(t, pos + 1)
  OBVIOUS
<1>10. u = Spelled(c) /\ pos' = pos + w /\ Verdict(t, pos + 1) = "Success"
  <2>1. call.from # "utf8"
    BY <1>6, OfferedIs DEF Repairing
  <2>2. u = Spelled(CodePoint(Input, pos + 1))
    BY ONLY <1>2, <2>1, ConvertedOthers
  <2> QED
    BY ONLY <1>2, <1>5, <1>7, <1>8, <1>9, <2>2 DEF SameStep
<1>11. ~ JudgedAtEnd /\ call.mode \in Readers \ {"valid"}
  BY ONLY <1>6, call.mode \in Repairing, RepairingIs
<1>12. Judgement(t, pos + 1) = "Success"
  BY ONLY <1>10, <1>11 DEF Judgement
<1>13. pos \in 0 .. Len(t) /\ pos < Len(t) /\ UnitsOf(call.from, t)
  BY ONLY <1>2, <1>6, <1>7
<1>14. StartsAt(call.from, call.to, t, pos + 1, w, c)
  BY ONLY <1>6, <1>8, <1>9, <1>11, <1>12, <1>13, CheckedStarts
<1>15. Mend(t, pos + w, out \o Spelled(c))
  BY ONLY <1>4, <1>6, <1>7, <1>13, <1>14, call.mode \in Repairing, MendMore
<1> QED
  BY ONLY <1>3, <1>7, <1>10, <1>15

LEMMA RepairOfSubstitute ==
  ASSUME TypeInv, RepairInv, Substitute
  PROVE  RepairInv'
<1>1. PICK u : SubstituteBegins(u) /\ Put(u, "scalar")
  BY SubstituteStep
<1>2. /\ pc = "scalar" /\ pos < Size /\ Judgement(Input, pos + 1) = "Surrogate"
      /\ u = Spelled(Replacement) /\ pos' = pos + 1 /\ call' = call
  BY ONLY <1>1 DEF SubstituteBegins
<1> SUFFICES ASSUME pc' # "overrun", call.mode \in Repairing
             PROVE  Mend(WordsIn, pos', out') /\ (pc' = "returned" => pos' = Size)
  BY <1>2, RepairThen
<1>3. out' = out \o u /\ pc' = "scalar"
  BY ONLY <1>1, pc' # "overrun", PutIs
<1>4. Mend(WordsIn, pos, out)
  BY ONLY <1>2, RepairInv, call.mode \in Repairing DEF RepairInv
<1>5. Judgement(Input, pos + 1) = Verdict(WordsIn, pos + 1)
  BY <1>2, <1>4, TextAhead
<1>6. /\ call \in Calls /\ UnitsOf(call.to, out) /\ pos \in 0 .. Size
      /\ UnitsOf(call.from, WordsIn) /\ Len(WordsIn) = Size
  BY AlwaysInside
<1>7. PICK t : t = WordsIn
  OBVIOUS
<1>8. Verdict(t, pos + 1) = "Surrogate" /\ pos \in 0 .. Len(t) /\ pos < Len(t) /\ UnitsOf(call.from, t)
  BY ONLY <1>2, <1>5, <1>6, <1>7
<1>9. Mend(t, pos + 1, out \o Spelled(Replacement))
  BY ONLY <1>4, <1>6, <1>7, <1>8, call.mode \in Repairing, MendLone
<1> QED
  BY ONLY <1>2, <1>3, <1>7, <1>9

(* The other steps do not belong to a repairing call, or move nothing.     *)
LEMMA RepairOfOthers ==
  ASSUME TypeInv, RepairInv,
         \/ Refuse \/ Enter \/ Inspect \/ ResumedKernel \/ UTF8Kernel \/ AsciiBlock
         \/ Full \/ Reject \/ GiveUp \/ CutShort \/ Conclude \/ UNCHANGED vars
  PROVE  RepairInv'
<1>1. ASSUME call' = call, call.mode \notin Repairing PROVE RepairInv'
  BY ONLY <1>1, RepairThen
<1>2. call.mode \in Repairing => call.from = "utf16"
  BY RepairingIs DEF TypeInv
<1>3. CASE Refuse \/ Enter
  <2>1. call' = call /\ pos' = pos /\ out' = out /\ pc # "overrun" /\ pc' # "returned"
    BY <1>3 DEF Refuse, Enter
  <2> QED
    BY ONLY <2>1, RepairThen, RepairInv DEF RepairInv
<1>4. CASE Inspect \/ Full \/ Reject
  <2>1. call' = call
    BY <1>4 DEF Inspect, Full, Reject
  <2>2. call.mode \notin Repairing
    BY <1>4 DEF Inspect, Full, Reject, NoRoom, Repairing
  <2> QED
    BY ONLY <1>1, <2>1, <2>2
<1>5. CASE ResumedKernel \/ UTF8Kernel \/ AsciiBlock
  <2>1. call' = call
    BY <1>5 DEF ResumedKernel, UTF8Kernel, AsciiBlock
  <2>2. call.from # "utf16"
    BY <1>5 DEF ResumedKernel, UTF8Kernel, AsciiBlock, Resumes, BlockAhead
  <2> QED
    BY ONLY <1>1, <1>2, <2>1, <2>2
<1>6. CASE GiveUp \/ CutShort
  <2>1. PICK error : error \in {"void", "cut"} /\ Judgement(Input, pos + 1) = error /\ pc = "scalar" /\ pos < Size
    BY <1>6 DEF GiveUp, CutShort, Judged, Looping, Here
  <2>2. call' = call
    BY <1>6 DEF GiveUp, CutShort
  <2>3. ASSUME call.mode \in Repairing PROVE FALSE
    <3>1. Mend(WordsIn, pos, out)
      BY ONLY <2>1, <2>3, RepairInv DEF RepairInv
    <3>2. Verdict(WordsIn, pos + 1) = error
      BY <2>1, <2>3, <3>1, TextAhead
    <3>3. call.mode \in Readers /\ call.from = "utf16" /\ call.to # "latin1"
      BY <2>3, RepairingIs DEF TypeInv
    <3>4. Verdict(WordsIn, pos + 1) = UTF16Verdict(WordsIn, pos + 1)
      BY ONLY <3>3, VerdictOf
    <3> QED
      BY ONLY <2>1, <3>2, <3>4 DEF UTF16Verdict
  <2> QED
    BY ONLY <1>1, <2>2, <2>3
<1>7. CASE Conclude
  <2>1. call' = call /\ pos' = pos /\ out' = out /\ pc # "overrun" /\ pos = Size
    BY <1>7 DEF Conclude
  <2> QED
    BY ONLY <2>1, RepairThen, RepairInv DEF RepairInv
<1>8. CASE UNCHANGED vars
  <2>1. call' = call /\ pos' = pos /\ out' = out /\ pc' = pc
    BY <1>8 DEF vars
  <2> QED
    BY ONLY <2>1, RepairThen, RepairInv DEF RepairInv
<1> QED
  BY <1>3, <1>4, <1>5, <1>6, <1>7, <1>8

LEMMA RepairInvAlways == Spec => []RepairInv
<1>1. Init => RepairInv
  BY RepairOfInit
<1>2. TypeInv /\ RepairInv /\ [Next]_vars => RepairInv'
  BY RepairOfKernel, RepairOfCharacter, RepairOfSubstitute, RepairOfOthers DEF Next
<1> QED
  BY <1>1, <1>2, TypeInvAlways, PTL DEF Spec

(* Every replacing conversion and every repair of every text: what was     *)
(* written reads as the text with U+FFFD for each lone surrogate, and the  *)
(* repair leaves every other word where it was, in place as well, where    *)
(* what is still to be read lies behind what is already written.           *)
THEOREM RepairsAll == Spec => []Repairs
<1>1. TypeInv /\ RepairInv => Repairs
  <2> SUFFICES ASSUME TypeInv, RepairInv, Returned, call.mode \in {"replacement", "wellFormed"}
               PROVE  /\ Target.whole /\ Target.points = Repaired(call.from, WordsIn)
                      /\ call.mode = "wellFormed" =>
                           /\ Len(out) = Size
                           /\ \A i \in 1 .. Size :
                                WordsOut[i] \in {WordsIn[i]} \cup (IF Surrogate(WordsIn[i]) THEN {Replacement} ELSE {})
    BY DEF Repairs
  <2>1. Mend(WordsIn, pos, out) /\ pos = Size
    BY DEF RepairInv, Returned, Repairing
  <2>2. call \in Calls /\ UnitsOf(call.to, out) /\ UnitsOf(call.from, WordsIn) /\ Len(WordsIn) = Size
    BY AlwaysInside
  <2>3. PICK t : t = WordsIn
    OBVIOUS
  <2>4. PICK d : d = Target
    OBVIOUS
  <2>5. d = Reading(call.to, call.to, Native(call, out)) /\ WordsOut = Native(call, out)
    BY ONLY <2>2, <2>4, WrittenWords DEF Target
  <2>6. t \in Seq(Nat) /\ Len(t) = Size
    BY ONLY <2>2, <2>3, UnitsIn
  <2>7. RepairedAfter(call.from, t, Size) = << >> /\ Repaired(call.from, t) = RepairedAfter(call.from, t, 0)
    BY ONLY <2>6, RepairedEnd, RepairedFirst
  <2>8. d.whole /\ Both(d.points, << >>) = Repaired(call.from, t)
    BY ONLY <2>1, <2>3, <2>5, <2>7 DEF Mend, Mended, OutLink
  <2>9. Both(d.points, << >>) = d.points
    <3>1. Native(call, out) \in Seq(Nat)
      BY ONLY <2>2, NativeType
    <3>2. call.to \in Texts
      <4>1. call.to = "utf8" \/ call.to = "utf16"
        BY <2>2, RepairingIs DEF Repairing
      <4> QED
        BY ONLY <4>1 DEF Texts
    <3>3. d.points \in Seq(Nat)
      BY ONLY <2>5, <3>1, <3>2, ReadingType, ReadingFields
    <3> QED
      BY ONLY <3>3, BothIs
  <2>10. call.mode = "wellFormed" => Len(out) = Size /\ \A i \in 1 .. Size : WordsOut[i] \in May(t, i)
    BY ONLY <2>1, <2>3, <2>5 DEF Mend, KeptTo
  <2> QED
    BY ONLY <2>3, <2>4, <2>8, <2>9, <2>10 DEF May
<1> QED
  BY <1>1, TypeInvAlways, RepairInvAlways, PTL

TrimInv == Returned /\ call.mode = "trim" => res.count = Trimmed(call.from, WordsIn)

LEMMA TrimThen ==
  ASSUME call' = call, pc' = "returned" /\ call.mode = "trim" => res'.count = Trimmed(call.from, WordsIn)
  PROVE  TrimInv'
<1>1. WordsIn' = WordsIn
  BY SameText
<1> QED
  BY ONLY <1>1, call' = call,
       pc' = "returned" /\ call.mode = "trim" => res'.count = Trimmed(call.from, WordsIn)
     DEF TrimInv, Returned

LEMMA TrimOfInspect ==
  ASSUME TypeInv, Inspect
  PROVE  TrimInv'
<1>1. call' = call
  BY DEF Inspect
<1> SUFFICES ASSUME call.mode = "trim"
             PROVE  res'.count = Trimmed(call.from, WordsIn)
  BY <1>1, TrimThen
<1>2. \/ call.from = "utf8" /\ Answer("Success", trimPartialUTF8(call.text))
      \/ call.from = "utf16" /\ Answer("Success", trimPartialUTF16(Words(call.text)))
  BY DEF Inspect
<1>3. \A n : Answer("Success", n) => res'.count = n
  BY DEF Answer
<1>4. CASE call.from = "utf8" /\ Answer("Success", trimPartialUTF8(call.text))
  <2>1. WordsIn = call.text
    BY ONLY <1>4 DEF WordsIn, Words
  <2> QED
    BY ONLY <1>3, <1>4, <2>1 DEF Trimmed
<1>5. CASE call.from = "utf16" /\ Answer("Success", trimPartialUTF16(Words(call.text)))
  <2>1. call.from # "utf8"
    BY ONLY <1>5
  <2> QED
    BY ONLY <1>3, <1>5, <2>1 DEF Trimmed, WordsIn
<1> QED
  BY ONLY <1>2, <1>4, <1>5

LEMMA TrimOfOthers ==
  ASSUME TypeInv, TrimInv,
         \/ Refuse \/ Enter \/ Kernel \/ ResumedKernel \/ UTF8Kernel \/ AsciiBlock \/ Character \/ Full
         \/ Substitute \/ Reject \/ GiveUp \/ CutShort \/ Conclude \/ UNCHANGED vars
  PROVE  TrimInv'
<1>1. CASE Refuse \/ Enter
  <2>1. call' = call /\ pc' # "returned"
    BY <1>1 DEF Refuse, Enter
  <2> QED
    BY ONLY <2>1, TrimThen
<1>2. CASE UNCHANGED vars
  BY <1>2, SMT DEF vars, TrimInv, Returned, WordsIn, Words, Swap
<1>3. CASE \/ Kernel \/ ResumedKernel \/ UTF8Kernel \/ AsciiBlock \/ Character \/ Full
           \/ Substitute \/ Reject \/ GiveUp \/ CutShort \/ Conclude
  <2>1. call' = call /\ pc \in {"kernel", "scalar"}
    BY <1>3 DEF Kernel, ResumedKernel, UTF8Kernel, AsciiBlock, Character, Full, Substitute, Reject,
         GiveUp,
                CutShort, Conclude, Judged, Looping
  <2>2. call.mode \notin Inspections
    BY ONLY <2>1, TypeInv DEF TypeInv
  <2>3. call.mode # "trim"
    BY ONLY <2>2 DEF Inspections
  <2> QED
    BY ONLY <2>1, <2>3, TrimThen
<1> QED
  BY <1>1, <1>2, <1>3

LEMMA TrimInvAlways == Spec => []TrimInv
<1>1. Init => TrimInv
  BY DEF Init, TrimInv, Returned
<1>2. TypeInv /\ TrimInv /\ [Next]_vars => TrimInv'
  BY TrimOfInspect, TrimOfOthers DEF Next
<1> QED
  BY <1>1, <1>2, TypeInvAlways, PTL DEF Spec

(* What is trimmed off a text whose last character was cut is that         *)
(* character and nothing more, and nothing is trimmed off a whole text: a  *)
(* reader that converts piece by piece splits and drops no character.      *)
THEOREM TrimsAll == Spec => []TrimsExactly
<1>1. TypeInv /\ TrimInv => TrimsExactly
  <2> SUFFICES ASSUME TypeInv, TrimInv, Returned, call.mode = "trim",
                      Source.whole \/ Truncated(call.from, SubSeq(WordsIn, Source.stop + 1, Size))
               PROVE  res.count = Source.stop
    BY DEF TrimsExactly
  <2>1. call \in Calls /\ UnitsOf(call.from, WordsIn) /\ Len(WordsIn) = Size
    BY AlwaysInside
  <2>2. call.to = "none" /\ call.from \in {"utf8", "utf16"}
    <3>1. Offered(call)
      BY <2>1, CallsAssumption
    <3> QED
      BY ONLY <3>1, call.mode = "trim" DEF Offered, Inspections
  <2>3. PICK t \in Seq(Nat) : t = WordsIn
    BY ONLY <2>1, UnitsIn
  <2>4. PICK r : r = Source
    OBVIOUS
  <2>5. r = Reading(call.from, "none", t)
    BY ONLY <2>2, <2>3, <2>4 DEF Source
  <2>6. r.whole \/ Truncated(call.from, SubSeq(t, r.stop + 1, Len(t)))
    BY <2>1, <2>3, <2>4
  <2>7. Trimmed(call.from, t) = r.stop
    BY ONLY <2>2, <2>5, <2>6, t \in Seq(Nat), KeptIs
  <2>8. res.count = Trimmed(call.from, t)
    BY <2>3 DEF TrimInv
  <2> QED
    BY ONLY <2>4, <2>7, <2>8
<1> QED
  BY <1>1, TypeInvAlways, TrimInvAlways, PTL

(* What a detection answers, as the code computes it.                      *)
Seen == detectEncodings(call.text, ~ call.swapped)

DetectInv ==
  Returned /\ call.mode \in {"detect", "autodetect"} =>
    res.count = IF call.mode = "detect" THEN Seen ELSE autodetectEncoding(Seen)

LEMMA DetectThen ==
  ASSUME call' = call,
         pc' = "returned" /\ call.mode \in {"detect", "autodetect"} =>
           res'.count = IF call.mode = "detect" THEN Seen ELSE autodetectEncoding(Seen)
  PROVE  DetectInv'
<1>1. Seen' = Seen
  BY SMT DEF Seen
<1> QED
  BY <1>1 DEF DetectInv, Returned

LEMMA DetectOfInspect ==
  ASSUME TypeInv, Inspect
  PROVE  DetectInv'
<1>1. call' = call
  BY DEF Inspect
<1> SUFFICES ASSUME call.mode \in {"detect", "autodetect"}
             PROVE  res'.count = IF call.mode = "detect" THEN Seen ELSE autodetectEncoding(Seen)
  BY <1>1, DetectThen
<1>2. \/ call.mode = "detect" /\ Answer("Success", Seen)
      \/ call.mode = "autodetect" /\ Answer("Success", autodetectEncoding(Seen))
  BY DEF Inspect, Seen
<1>3. \A n : Answer("Success", n) => res'.count = n
  BY DEF Answer
<1> QED
  BY ONLY <1>2, <1>3

LEMMA DetectOfOthers ==
  ASSUME TypeInv, DetectInv,
         \/ Refuse \/ Enter \/ Kernel \/ ResumedKernel \/ UTF8Kernel \/ AsciiBlock \/ Character \/ Full
         \/ Substitute \/ Reject \/ GiveUp \/ CutShort \/ Conclude \/ UNCHANGED vars
  PROVE  DetectInv'
<1>1. CASE Refuse \/ Enter
  <2>1. call' = call /\ pc' # "returned"
    BY <1>1 DEF Refuse, Enter
  <2> QED
    BY ONLY <2>1, DetectThen
<1>2. CASE UNCHANGED vars
  BY <1>2, SMT DEF vars, DetectInv, Returned, Seen
<1>3. CASE \/ Kernel \/ ResumedKernel \/ UTF8Kernel \/ AsciiBlock \/ Character \/ Full
           \/ Substitute \/ Reject \/ GiveUp \/ CutShort \/ Conclude
  <2>1. call' = call /\ pc \in {"kernel", "scalar"}
    BY <1>3 DEF Kernel, ResumedKernel, UTF8Kernel, AsciiBlock, Character, Full, Substitute, Reject,
         GiveUp,
                CutShort, Conclude, Judged, Looping
  <2>2. call.mode \notin Inspections
    BY ONLY <2>1, TypeInv DEF TypeInv
  <2>3. call.mode \notin {"detect", "autodetect"}
    BY ONLY <2>2 DEF Inspections
  <2> QED
    BY ONLY <2>1, <2>3, DetectThen
<1> QED
  BY <1>1, <1>2, <1>3

LEMMA DetectInvAlways == Spec => []DetectInv
<1>1. Init => DetectInv
  BY DEF Init, DetectInv, Returned
<1>2. TypeInv /\ DetectInv /\ [Next]_vars => DetectInv'
  BY DetectOfInspect, DetectOfOthers DEF Next
<1> QED
  BY <1>1, <1>2, TypeInvAlways, PTL DEF Spec

(* DetectEncodings answers every encoding the bytes can be read in, the    *)
(* byte-order mark before anything else, and AutodetectEncoding one of     *)
(* them, UTF-8 where there is a choice: the validators the code asks       *)
(* accept just what the references can read.                               *)
THEOREM DetectsAll == Spec => []DetectsReadable
<1>1. TypeInv /\ DetectInv => DetectsReadable
  <2> SUFFICES ASSUME TypeInv, DetectInv, Returned, call.mode \in {"detect", "autodetect"},
                      NEW R, R = ReadableAs(call.text, call.swapped)
               PROVE  IF call.mode = "detect" THEN res.count = BitsOf(R)
                      ELSE IF R = {} THEN res.count = 0
                      ELSE /\ \E e \in R : res.count = BitsOf({e})
                           /\ "UTF8" \in R => res.count = BitsOf({"UTF8"})
    BY DEF DetectsReadable
  <2>1. call \in Calls
    BY DEF TypeInv
  <2>2. Offered(call) /\ UnitsOf(call.from, call.text) /\ call.swapped \in BOOLEAN
    BY ONLY <2>1, CallFacts
  <2>3. call.from = "bytes"
    BY ONLY <2>2, call.mode \in {"detect", "autodetect"} DEF Offered
  <2>4. OctetText(call.text)
    <3>1. UnitsOf("bytes", call.text)
      BY ONLY <2>2, <2>3
    <3>2. /\ call.text \in Seq(Nat)
          /\ \A i \in 1 .. Len(call.text) : IsUnit("bytes", call.text[i])
      BY ONLY <3>1, UnitsIn
    <3>3. \A u : IsUnit("bytes", u) => u <= 255
      BY DEF IsUnit
    <3> QED
      BY ONLY <3>2, <3>3 DEF OctetText
  <2>5. Seen = BitsOf(R)
    BY ONLY <2>2, <2>4, R = ReadableAs(call.text, call.swapped), Detected DEF Seen
  <2>6. CASE call.mode = "detect"
    <3>1. res.count = Seen
      BY ONLY <2>6, DetectInv, Returned DEF DetectInv
    <3> QED
      BY ONLY <2>5, <2>6, <3>1
  <2>7. CASE call.mode = "autodetect"
    <3>1. call.mode # "detect" /\ res.count = autodetectEncoding(Seen)
      BY ONLY <2>7, DetectInv, Returned DEF DetectInv
    <3>2. PICK n : n = autodetectEncoding(BitsOf(R))
      OBVIOUS
    <3>3. Guess(n, R)
      <4>1. PICK t, b : t = call.text /\ b = call.swapped
        OBVIOUS
      <4>2. OctetText(t) /\ R = ReadableAs(t, b)
        BY ONLY <2>4, <4>1, R = ReadableAs(call.text, call.swapped)
      <4> QED
        <5>1. Guess(autodetectEncoding(BitsOf(ReadableAs(t, b))), ReadableAs(t, b))
          BY ONLY <4>2, Autodetected
        <5> QED
          BY ONLY <3>2, <4>2, <5>1
    <3>4. res.count = n
      BY ONLY <2>5, <3>1, <3>2
    <3> QED
      BY ONLY <3>1, <3>3, <3>4 DEF Guess
  <2> QED
    BY ONLY <2>6, <2>7, call.mode \in {"detect", "autodetect"}
<1> QED
  BY <1>1, TypeInvAlways, DetectInvAlways, PTL
=============================================================================
