-------------------------- MODULE Base64DecodeProofs --------------------------
(***************************************************************************)
(* For every input, option, capacity, provider and block size, a decoding  *)
(* call never writes past the end of its destination, and answers what     *)
(* Base64Promise says.                                                     *)
(*                                                                         *)
(* NoIndexPanic is not inductive: an unchecked call compares its           *)
(* destination with MaximalBinaryLengthFromBase64 once, before FindEnd has *)
(* looked at the padding, and never again.  The invariant that carries     *)
(* that check to the last write is Balance: four characters have been      *)
(* consumed for every three bytes written, and never more characters than  *)
(* the payload has.                                                        *)
(*                                                                         *)
(* KeepsPromise speaks of the end of a call only.  The invariant on the    *)
(* way there is Follows: the cursor is at a place of the promised          *)
(* computation, with the bytes of whole chunks behind it and the values of *)
(* the next one in the buffer.  What the answers say to the caller         *)
(* (DecodesEverything, StrictIsCanonical, ErrorAtOffender, ResumePoint) is *)
(* then a matter of the promise alone.                                     *)
(***************************************************************************)
EXTENDS Base64Decode, ReferenceProofs

(* The destination was admitted, and the payload ends before the padding   *)
(* that the preflight discounted.                                          *)
AdmittedCall ==
  /\ end.fullInputLength <= Len(call.input)
  /\ end.srcLen <= Len(call.input) - TrailingPads(call.input)
  /\ ~checkCapacity => call.cap >= MaximalBinaryLength(call.input)

(* Four characters consumed for three bytes written.                       *)
Balance ==
  /\ src <= end.srcLen
  /\ pc = "fast"   => 4 * Len(dst) <= 3 * src
  /\ pc = "gather" => /\ 4 * Len(dst) <= 3 * chunk
                      /\ chunk + Len(buffer) <= src
                      /\ Len(buffer) <= 4

Running == pc \in {"fast", "gather"}

IInv ==
  /\ TypeOK
  /\ Running => AdmittedCall /\ Balance
  /\ pc = "call" => src = 0 /\ dst = << >>
  /\ NoIndexPanic

-----------------------------------------------------------------------------

(* An unchecked call always has room for bytes paid for by characters of   *)
(* the payload.                                                            *)
LEMMA PaidBytesFit ==
  ASSUME TypeOK, AdmittedCall, ~checkCapacity,
         NEW n \in Nat, NEW used \in Nat, used <= end.srcLen,
         4 * (Len(dst) + n) <= 3 * used
  PROVE  Room(n)
<1> DEFINE w == Len(dst) + n
           a == Len(call.input) - TrailingPads(call.input)
<1>1. call.input \in CharTexts /\ call.cap \in Nat /\ w \in Nat
  BY LenProperties DEF TypeOK, CallType, CharTexts
<1>2. a \in Nat
  BY <1>1, LenProperties DEF TrailingPads, CharTexts
<1>3. 4 * w <= 3 * a
  BY <1>2 DEF AdmittedCall, TypeOK, EndType
<1>4. w <= MaximalBinaryLength(call.input)
  BY <1>1, <1>3, MaximalIsEnough
<1>5. MaximalBinaryLength(call.input) \in Int
  <2>1. a \div 4 \in Nat /\ a % 4 \in Nat
    BY <1>2
  <2> QED
    BY <2>1 DEF MaximalBinaryLength
<1> QED
  BY <1>1, <1>4, <1>5 DEF AdmittedCall, Room

(* Characters of the payload are characters of the input.                  *)
LEMMA PayloadCharacters ==
  ASSUME TypeOK, AdmittedCall, NEW i \in 0..(end.srcLen - 1)
  PROVE  /\ At(i) \in Char
         /\ Value(i) \in Nat
         /\ Value(i) <= 63 => Value(i) \in 0..63
<1>1. call.input \in Seq(Char)
  BY DEF TypeOK, CallType
<1>2. Len(call.input) \in Nat /\ TrailingPads(call.input) \in Nat
  BY <1>1, LenProperties DEF TrailingPads
<1>3. i + 1 \in 1..Len(call.input)
  BY <1>2 DEF TypeOK, EndType, AdmittedCall
<1>4. At(i) \in Char
  BY <1>1, <1>3, ElementOfSeq DEF At
<1> QED
  BY <1>4, ToValueType DEF Value

(* A result the tail decoder returns is finished into a FullResult.        *)
LEMMA ReturnType ==
  ASSUME TypeOK, AdmittedCall, NEW error \in Errors, NEW count \in Nat,
         NEW written \in Nat, NEW padding \in BOOLEAN,
         Return(error, count, written, padding)
  PROVE  res' \in FullResult /\ pc' = "returned"
<1>1. [error |-> error, inputCount |-> count, outputCount |-> written,
       paddingError |-> padding] \in FullResult
  BY DEF FullResult
<1>2. call.input \in CharTexts /\ end \in EndType
  BY DEF TypeOK, CallType, CharTexts
<1> QED
  BY <1>1, <1>2, FinishType DEF Return, AdmittedCall

LEMMA FourValues ==
  ASSUME NEW a \in 0..63, NEW b \in 0..63, NEW c \in 0..63, NEW d \in 0..63
  PROVE  /\ ChunkBytes(<<a, b, c, d>>) \in Seq(0..255)
         /\ Len(ChunkBytes(<<a, b, c, d>>)) = 3
<1>1. ASSUME NEW s \in Seq(0..63), Len(s) = 4
      PROVE  ChunkBytes(s) \in Seq(0..255) /\ Len(ChunkBytes(s)) = 3
  <2>1. Len(s) \in 2..4
    BY <1>1
  <2>2. ChunkBytes(s) \in Seq(0..255) /\ Len(ChunkBytes(s)) = Len(s) - 1
    BY ONLY <2>1, s \in Seq(0..63), ChunkBytesType
  <2> QED
    BY <1>1, <2>2
<1>2. <<a, b, c, d>> \in Seq(0..63) /\ Len(<<a, b, c, d>>) = 4
  OBVIOUS
<1> QED
  BY <1>1, <1>2, Zenon

(* Whole blocks of a payload are no longer than the payload.               *)
LEMMA WholeBlocks ==
  ASSUME NEW n \in Nat
  PROVE  (n \div Block) * Block \in Nat /\ (n \div Block) * Block <= n
<1>1. Block \in Nat /\ Block > 0
  BY BlockAssumption
<1>2. n \div Block \in Nat /\ n % Block \in Nat /\ n = Block * (n \div Block) + (n % Block)
  BY <1>1
<1> QED
  BY <1>1, <1>2

(* The block kernels write three bytes for four characters.                *)
LEMMA BlockBytesType ==
  ASSUME NEW n \in Nat, \A i \in 0..(n - 1) : Value(i) \in 0..63
  PROVE  BlockBytes(n) \in Seq(0..255) /\ Len(BlockBytes(n)) = 3 * (n \div 4)
<1> DEFINE m    == 3 * (n \div 4)
           o(i) == 4 * ((i - 1) \div 3)
           e(i) == ChunkBytes(<<Value(o(i)), Value(o(i) + 1), Value(o(i) + 2),
                                Value(o(i) + 3)>>)[((i - 1) % 3) + 1]
<1>1. m \in Nat
  OBVIOUS
<1>2. ASSUME NEW i \in 1..m PROVE e(i) \in 0..255
  <2>1. o(i) \in Nat /\ o(i) + 3 <= n - 1
    OBVIOUS
  <2>2. /\ o(i) \in 0..(n - 1) /\ o(i) + 1 \in 0..(n - 1)
        /\ o(i) + 2 \in 0..(n - 1) /\ o(i) + 3 \in 0..(n - 1)
    BY <2>1
  <2>3. ((i - 1) % 3) + 1 \in 1..3
    OBVIOUS
  <2> DEFINE c == ChunkBytes(<<Value(o(i)), Value(o(i) + 1), Value(o(i) + 2),
                               Value(o(i) + 3)>>)
  <2>4. c \in Seq(0..255) /\ Len(c) = 3
    <3> HIDE DEF o
    <3> QED BY <2>2, FourValues
  <2>5. ((i - 1) % 3) + 1 \in 1..Len(c)
    BY <2>3, <2>4
  <2> HIDE DEF c
  <2>6. c[((i - 1) % 3) + 1] \in 0..255
    BY <2>4, <2>5, ElementOfSeq
  <2> QED
    BY <2>6 DEF c
<1>3. BlockBytes(n) = [i \in 1..m |-> e(i)]
  BY DEF BlockBytes
<1> HIDE DEF m, e
<1>4. [i \in 1..m |-> e(i)] \in [1..m -> 0..255]
  BY <1>2
<1>5. BlockBytes(n) \in [1..m -> 0..255]
  BY <1>3, <1>4
<1>6. BlockBytes(n) \in Seq(0..255)
  BY <1>1, <1>5, SeqDef
<1>7. 1..Len(BlockBytes(n)) = 1..m /\ Len(BlockBytes(n)) \in Nat
  BY <1>5, <1>6, LenProperties
<1>8. Len(BlockBytes(n)) = m
  BY <1>1, <1>7
<1> QED
  BY <1>6, <1>8 DEF m

-----------------------------------------------------------------------------
(* Bytes that fit are appended: nothing crashes, and the type is kept.     *)
LEMMA WriteFits ==
  ASSUME TypeOK, NEW bytes \in Seq(0..255), NEW next \in Labels, Write(bytes, next),
         Room(Len(bytes))
  PROVE  /\ dst' \in Seq(0..255) /\ Len(dst') = Len(dst) + Len(bytes)
         /\ pc' = next
<1>1. dst \in Seq(0..255) /\ dst' = dst \o bytes /\ pc' = next
  BY DEF TypeOK, Write
<1> QED
  BY <1>1, ConcatProperties

(* FindEnd's answer admits the call.                                       *)
LEMMA FindEndAdmits ==
  ASSUME TypeOK, NEW e, e = FindEnd(call.input, call.options)
  PROVE  /\ e \in EndType
         /\ e.srcLen <= Len(call.input) - TrailingPads(call.input)
         /\ e.fullInputLength <= Len(call.input)
<1>1. call.input \in CharTexts
  BY DEF TypeOK, CallType, CharTexts
<1> QED
  BY <1>1, FindEndProperties

(* Every step of the decoder re-establishes the invariant: entering ...    *)
LEMMA EnterKeepsIInv ==
  ASSUME IInv, Enter PROVE IInv'
<1> USE DEF IInv, Running
<1>1. CASE Preflight
  BY <1>1 DEF Preflight, TypeOK, NoIndexPanic, Labels, Ended
<1>2. CASE EmptyInput
  <2> DEFINE e == FindEnd(call.input, call.options)
  <2>1. e \in EndType
    BY FindEndAdmits
  <2>2. res' \in FullResult
    BY <1>2, <2>1, EmptyPayloadType DEF EmptyInput
  <2> HIDE DEF e
  <2> QED
    BY <1>2, <2>1, <2>2 DEF EmptyInput, TypeOK, NoIndexPanic, Labels, Ended, e
<1>3. CASE StartScalar
  <2> DEFINE e == FindEnd(call.input, call.options)
  <2>1. /\ e \in EndType
        /\ e.srcLen <= Len(call.input) - TrailingPads(call.input)
        /\ e.fullInputLength <= Len(call.input)
    BY FindEndAdmits
  <2>2. /\ pc = "call" /\ end' = e /\ pc' = "fast"
        /\ checkCapacity \/ call.cap >= MaximalBinaryLength(call.input)
        /\ UNCHANGED <<call, src, chunk, buffer, dst, res>>
    BY <1>3 DEF StartScalar, Admitted, e
  <2> HIDE DEF e
  <2>3. TypeOK'
    BY <2>1, <2>2 DEF TypeOK, Labels
  <2>4. AdmittedCall'
    BY <2>1, <2>2 DEF AdmittedCall, checkCapacity
  <2>5. Balance'
    <3>1. src' = 0 /\ Len(dst') = 0
      BY <2>2
    <3> QED
      BY <2>1, <2>2, <3>1 DEF Balance, EndType
  <2> QED
    BY <2>2, <2>3, <2>4, <2>5 DEF NoIndexPanic
<1>4. CASE StartContiguous
  <2> DEFINE e      == FindEnd(call.input, call.options)
             blocks == (e.srcLen \div Block) * Block
             bytes  == BlockBytes(blocks)
  <2>1. /\ e \in EndType
        /\ e.srcLen <= Len(call.input) - TrailingPads(call.input)
        /\ e.fullInputLength <= Len(call.input)
    BY FindEndAdmits
  <2>2. /\ pc = "call" /\ end' = e /\ Write(bytes, "fast") /\ src' = blocks
        /\ checkCapacity \/ call.cap >= MaximalBinaryLength(call.input)
        /\ \A i \in 0..(e.srcLen - 1) : Value(i) <= 63
        /\ UNCHANGED <<call, chunk, buffer, res>>
    BY <1>4 DEF StartContiguous, Admitted, Contiguous, e, blocks, bytes
  <2>3. blocks \in Nat /\ blocks <= e.srcLen
    BY <2>1, WholeBlocks DEF EndType
  <2> HIDE DEF e, blocks
  <2>4. \A i \in 0..(blocks - 1) : Value(i) \in 0..63
    <3>1. call.input \in Seq(Char) /\ Len(call.input) \in Nat
      BY LenProperties DEF TypeOK, CallType
    <3>2. TrailingPads(call.input) \in Nat
      BY DEF TrailingPads
    <3>3. ASSUME NEW i \in 0..(blocks - 1) PROVE Value(i) \in 0..63
      <4>1. i + 1 \in 1..Len(call.input) /\ i \in 0..(e.srcLen - 1)
        BY <2>1, <2>3, <3>1, <3>2 DEF EndType
      <4>2. At(i) \in Char
        BY <3>1, <4>1, ElementOfSeq DEF At
      <4> QED
        BY <2>2, <4>1, <4>2, ToValueType DEF Value
    <3> QED
      BY <3>3
  <2>5. bytes \in Seq(0..255) /\ Len(bytes) = 3 * (blocks \div 4)
    BY <2>3, <2>4, BlockBytesType
  <2> HIDE DEF bytes
  <2>6. dst = << >> /\ Len(dst) = 0
    BY <2>2
  <2>7. 4 * Len(bytes) <= 3 * blocks /\ Len(bytes) \in Nat
    BY <2>3, <2>5
  <2>8. Room(Len(bytes)) \/ checkCapacity
    <3>1. call.input \in CharTexts /\ call.cap \in Nat
      BY DEF TypeOK, CallType, CharTexts
    <3>2. Len(call.input) \in Nat /\ TrailingPads(call.input) \in Nat
      BY <3>1, LenProperties DEF TrailingPads, CharTexts
    <3>3. 4 * Len(bytes) <= 3 * (Len(call.input) - TrailingPads(call.input))
      BY <2>1, <2>3, <2>7, <3>2 DEF EndType
    <3>4. Len(bytes) <= MaximalBinaryLength(call.input)
      BY <2>7, <3>1, <3>3, MaximalIsEnough
    <3>5. MaximalBinaryLength(call.input) \in Int
      BY <3>2 DEF MaximalBinaryLength
    <3> QED
      BY <2>2, <2>6, <2>7, <3>1, <3>4, <3>5 DEF Room
  <2>9. ~checkCapacity
    BY <1>4 DEF StartContiguous, Contiguous, checkCapacity
  <2>10. dst' \in Seq(0..255) /\ Len(dst') = Len(bytes) /\ pc' = "fast"
    BY <2>2, <2>5, <2>6, <2>7, <2>8, <2>9, WriteFits DEF Labels
  <2>11. TypeOK'
    BY <2>1, <2>2, <2>3, <2>10 DEF TypeOK, Labels
  <2>12. AdmittedCall'
    BY <2>1, <2>2 DEF AdmittedCall, checkCapacity
  <2>13. Balance'
    BY <2>2, <2>3, <2>7, <2>10 DEF Balance
  <2> QED
    BY <2>10, <2>11, <2>12, <2>13 DEF NoIndexPanic
<1> QED
  BY <1>1, <1>2, <1>3, <1>4 DEF Enter

(* ... the four-character loop ...                                         *)
LEMMA FastKeepsIInv ==
  ASSUME IInv, Fast PROVE IInv'
<1> USE DEF IInv, Running
<1>1. CASE FastTooSmall
  <2>1. pc = "fast" /\ AdmittedCall /\ src \in Nat /\ Len(dst) \in Nat
    BY <1>1, LenProperties DEF FastTooSmall, TypeOK
  <2>2. res' \in FullResult /\ pc' = "returned"
    BY <1>1, <2>1, ReturnType DEF FastTooSmall, Errors
  <2> QED
    BY <1>1, <2>2 DEF FastTooSmall, TypeOK, NoIndexPanic, Labels, Ended
<1>2. CASE FastChunk
  <2> DEFINE bytes == ChunkBytes(<<Value(src), Value(src + 1), Value(src + 2),
                                   Value(src + 3)>>)
  <2>1. /\ pc = "fast" /\ AdmittedCall /\ Balance /\ FourAhead
        /\ ~checkCapacity \/ Room(3)
        /\ Write(bytes, "fast") /\ src' = src + 4
        /\ UNCHANGED <<call, end, chunk, buffer, res>>
    BY <1>2 DEF FastChunk
  <2>2. src \in Nat /\ src + 4 <= end.srcLen /\ end.srcLen \in Nat
    BY <2>1 DEF TypeOK, EndType, FourAhead
  <2>3. /\ Value(src) \in 0..63 /\ Value(src + 1) \in 0..63
        /\ Value(src + 2) \in 0..63 /\ Value(src + 3) \in 0..63
    <3>1. ASSUME NEW i \in src..(src + 3) PROVE Value(i) \in 0..63
      <4>1. i \in 0..(end.srcLen - 1) /\ Value(i) <= 63
        BY <2>1, <2>2 DEF FourAhead
      <4> QED
        BY <2>1, <4>1, PayloadCharacters
    <3>2. /\ src \in src..(src + 3) /\ src + 1 \in src..(src + 3)
          /\ src + 2 \in src..(src + 3) /\ src + 3 \in src..(src + 3)
      BY <2>2
    <3> QED
      BY <3>1, <3>2
  <2>4. bytes \in Seq(0..255) /\ Len(bytes) = 3
    BY <2>3, FourValues
  <2> HIDE DEF bytes
  <2>5. Len(dst) \in Nat /\ 4 * (Len(dst) + 3) <= 3 * (src + 4)
    BY <2>1, <2>2, LenProperties DEF TypeOK, Balance
  <2>6. Room(3)
    BY <2>1, <2>2, <2>5, PaidBytesFit
  <2>7. dst' \in Seq(0..255) /\ Len(dst') = Len(dst) + 3 /\ pc' = "fast"
    BY <2>1, <2>4, <2>6, WriteFits DEF Labels
  <2>8. TypeOK'
    BY <2>1, <2>2, <2>7 DEF TypeOK, Labels
  <2>9. AdmittedCall'
    BY <2>1 DEF AdmittedCall, checkCapacity
  <2>10. Balance'
    BY <2>1, <2>2, <2>5, <2>7 DEF Balance
  <2> QED
    BY <2>7, <2>8, <2>9, <2>10 DEF NoIndexPanic
<1>3. CASE StartChunk
  <2>1. /\ pc = "fast" /\ AdmittedCall /\ Balance
        /\ chunk' = src /\ buffer' = << >> /\ pc' = "gather"
        /\ UNCHANGED <<call, end, src, dst, res>>
    BY <1>3 DEF StartChunk
  <2>2. TypeOK'
    BY <2>1 DEF TypeOK, Labels
  <2>3. AdmittedCall'
    BY <2>1 DEF AdmittedCall, checkCapacity
  <2>4. Balance'
    <3>1. Len(buffer') = 0 /\ src \in Nat
      BY <2>1 DEF TypeOK
    <3> QED
      BY <2>1, <3>1 DEF Balance
  <2> QED
    BY <2>1, <2>2, <2>3, <2>4 DEF NoIndexPanic
<1> QED
  BY <1>1, <1>2, <1>3 DEF Fast

(* ... the per-character loop ...                                          *)
LEMMA GatherKeepsIInv ==
  ASSUME IInv, Gather PROVE IInv'
<1> USE DEF IInv, Running
<1>1. /\ pc = "gather" /\ AdmittedCall /\ Balance
      /\ src \in Nat /\ chunk \in Nat /\ end.srcLen \in Nat
      /\ Len(dst) \in Nat /\ Len(buffer) \in Nat
  BY LenProperties DEF Gather, GatherValue, GatherSkip, GatherReject, FullTooSmall,
     FullChunk, Gathering, TypeOK, EndType
<1>2. CASE GatherValue
  <2>1. /\ Len(buffer) < 4 /\ src < end.srcLen /\ Value(src) <= 63
        /\ buffer' = Append(buffer, Value(src)) /\ src' = src + 1
        /\ UNCHANGED <<call, pc, end, chunk, dst, res>>
    BY <1>2 DEF GatherValue, Gathering
  <2>2. Value(src) \in 0..63
    <3>1. src \in 0..(end.srcLen - 1)
      BY <1>1, <2>1
    <3> QED
      BY <1>1, <2>1, <3>1, PayloadCharacters
  <2>3. buffer' \in Seq(0..63) /\ Len(buffer') = Len(buffer) + 1
    BY <2>1, <2>2, AppendProperties DEF TypeOK
  <2>4. TypeOK'
    BY <1>1, <2>1, <2>3 DEF TypeOK
  <2>5. AdmittedCall'
    BY <1>1, <2>1 DEF AdmittedCall, checkCapacity
  <2>6. Balance'
    BY <1>1, <2>1, <2>3 DEF Balance
  <2> QED
    BY <1>1, <2>1, <2>4, <2>5, <2>6 DEF NoIndexPanic
<1>3. CASE GatherSkip
  <2>1. /\ src < end.srcLen /\ src' = src + 1
        /\ UNCHANGED <<call, pc, end, chunk, buffer, dst, res>>
    BY <1>3 DEF GatherSkip, Gathering
  <2>2. TypeOK'
    BY <1>1, <2>1 DEF TypeOK
  <2>3. AdmittedCall'
    BY <1>1, <2>1 DEF AdmittedCall, checkCapacity
  <2>4. Balance'
    BY <1>1, <2>1 DEF Balance
  <2> QED
    BY <1>1, <2>1, <2>2, <2>3, <2>4 DEF NoIndexPanic
<1>4. CASE GatherReject
  <2>1. res' \in FullResult /\ pc' = "returned"
    BY <1>1, <1>4, ReturnType DEF GatherReject, Errors
  <2> QED
    BY <1>4, <2>1 DEF GatherReject, TypeOK, NoIndexPanic, Labels, Ended
<1>5. CASE FullTooSmall
  <2>1. res' \in FullResult /\ pc' = "returned"
    BY <1>1, <1>5, ReturnType DEF FullTooSmall, Errors
  <2> QED
    BY <1>5, <2>1 DEF FullTooSmall, TypeOK, NoIndexPanic, Labels, Ended
<1>6. CASE FullChunk
  <2>1. /\ Len(buffer) = 4 /\ (~checkCapacity \/ Room(3))
        /\ Write(ChunkBytes(buffer), "fast")
        /\ UNCHANGED <<call, end, src, chunk, buffer, res>>
    BY <1>6 DEF FullChunk
  <2>2. ChunkBytes(buffer) \in Seq(0..255) /\ Len(ChunkBytes(buffer)) = 3
    <3>1. buffer \in Seq(0..63) /\ Len(buffer) \in 2..4
      BY <2>1 DEF TypeOK
    <3>2. ChunkBytes(buffer) \in Seq(0..255) /\ Len(ChunkBytes(buffer)) = Len(buffer) - 1
      BY ONLY <3>1, ChunkBytesType
    <3> QED
      BY <2>1, <3>2
  <2>3. 4 * (Len(dst) + 3) <= 3 * src /\ src <= end.srcLen
    BY <1>1, <2>1 DEF Balance
  <2>4. Room(3)
    BY <1>1, <2>1, <2>3, PaidBytesFit
  <2>5. dst' \in Seq(0..255) /\ Len(dst') = Len(dst) + 3 /\ pc' = "fast"
    BY <2>1, <2>2, <2>4, WriteFits DEF Labels
  <2>6. TypeOK'
    BY <1>1, <2>1, <2>5 DEF TypeOK, Labels
  <2>7. AdmittedCall'
    BY <1>1, <2>1 DEF AdmittedCall, checkCapacity
  <2>8. Balance'
    BY <1>1, <2>1, <2>3, <2>5 DEF Balance
  <2> QED
    BY <2>5, <2>6, <2>7, <2>8 DEF NoIndexPanic
<1> QED
  BY <1>2, <1>3, <1>4, <1>5, <1>6 DEF Gather

(* ... and judging the last chunk.                                         *)
LEMMA LastKeepsIInv ==
  ASSUME IInv, Last PROVE IInv'
<1> USE DEF IInv, Running
<1>1. /\ pc = "gather" /\ AdmittedCall /\ Balance
      /\ src \in Nat /\ chunk \in Nat /\ end.srcLen \in Nat
      /\ Len(dst) \in Nat /\ Len(buffer) \in Nat /\ Len(buffer) < 4
  BY LenProperties DEF Last, LastMisfit, LastHeld, LastExtraBits, LastTooSmall,
     LastDecoded, LastRejected, LastEmpty, Kept, Judged, AtLastChunk, idx, TypeOK, EndType
<1>2. CASE LastMisfit
  <2>1. res' \in FullResult /\ pc' = "returned"
    BY <1>1, <1>2, ReturnType DEF LastMisfit, Errors
  <2> QED
    BY <1>2, <2>1 DEF LastMisfit, TypeOK, NoIndexPanic, Labels, Ended
<1>3. CASE LastHeld
  <2>1. res' \in FullResult /\ pc' = "returned" /\ src' \in Nat
    BY <1>1, <1>3, ReturnType DEF LastHeld, Errors
  <2> QED
    BY <1>3, <2>1 DEF LastHeld, TypeOK, NoIndexPanic, Labels, Ended
<1>4. CASE LastExtraBits
  <2>1. res' \in FullResult /\ pc' = "returned"
    BY <1>1, <1>4, ReturnType DEF LastExtraBits, Errors
  <2> QED
    BY <1>4, <2>1 DEF LastExtraBits, TypeOK, NoIndexPanic, Labels, Ended
<1>5. CASE LastTooSmall
  <2>1. res' \in FullResult /\ pc' = "returned"
    BY <1>1, <1>5, ReturnType DEF LastTooSmall, Errors
  <2> QED
    BY <1>5, <2>1 DEF LastTooSmall, TypeOK, NoIndexPanic, Labels, Ended
<1>6. CASE LastDecoded
  <2>1. idx \in {2, 3} /\ idx = Len(buffer)
    <3>1. Len(buffer) >= 2
      BY <1>6 DEF LastDecoded, idx
    <3>2. Len(buffer) \in Nat /\ Len(buffer) < 4
      BY <1>1
    <3>3. \A k \in Nat : k >= 2 /\ k < 4 => k \in {2, 3}
      OBVIOUS
    <3>4. Len(buffer) \in {2, 3}
      BY ONLY <3>1, <3>2, <3>3
    <3> QED
      BY ONLY <3>4 DEF idx
  <2>2. ChunkBytes(buffer) \in Seq(0..255) /\ Len(ChunkBytes(buffer)) = idx - 1
    <3>1. buffer \in Seq(0..63) /\ Len(buffer) \in 2..4
      BY <2>1 DEF TypeOK
    <3>2. ChunkBytes(buffer) \in Seq(0..255) /\ Len(ChunkBytes(buffer)) = Len(buffer) - 1
      BY ONLY <3>1, ChunkBytesType
    <3> QED
      BY <2>1, <3>2
  <2>3. Room(idx - 1)
    <3>1. CASE checkCapacity
      BY <1>6, <3>1 DEF LastDecoded
    <3>2. CASE ~checkCapacity
      <4>1. 4 * (Len(dst) + (idx - 1)) <= 3 * src /\ src <= end.srcLen
        BY <1>1, <2>1 DEF Balance
      <4>2. idx - 1 \in Nat
        BY <2>1
      <4> QED
        BY <1>1, <3>2, <4>1, <4>2, PaidBytesFit
    <3> QED
      BY <3>1, <3>2
  <2>4. /\ dst' = dst \o ChunkBytes(buffer)
        /\ Return("Success", src, Len(dst) + idx - 1, FALSE)
        /\ UNCHANGED <<call, end, src, chunk, buffer>>
    BY <1>6, <2>3 DEF LastDecoded
  <2>5. dst' \in Seq(0..255)
    BY <2>2, <2>4, ConcatProperties DEF TypeOK
  <2>6. res' \in FullResult /\ pc' = "returned"
    <3>1. Len(dst) + idx - 1 \in Nat
      BY <1>1, <2>1
    <3> QED
      BY <1>1, <2>4, <3>1, ReturnType DEF Errors
  <2> QED
    BY <2>4, <2>5, <2>6 DEF TypeOK, NoIndexPanic, Labels, Ended
<1>7. CASE LastRejected
  <2>1. res' \in FullResult /\ pc' = "returned"
    BY <1>1, <1>7, ReturnType DEF LastRejected, Errors
  <2> QED
    BY <1>7, <2>1 DEF LastRejected, TypeOK, NoIndexPanic, Labels, Ended
<1>8. CASE LastEmpty
  <2>1. res' \in FullResult /\ pc' = "returned"
    BY <1>1, <1>8, ReturnType DEF LastEmpty, Errors
  <2> QED
    BY <1>8, <2>1 DEF LastEmpty, TypeOK, NoIndexPanic, Labels, Ended
<1> QED
  BY <1>2, <1>3, <1>4, <1>5, <1>6, <1>7, <1>8 DEF Last

-----------------------------------------------------------------------------

(* The strengthened invariant holds in every state of every call.          *)
THEOREM Invariance == Spec => []IInv
<1>1. Init => IInv
  BY CallsAssumption DEF Init, IInv, TypeOK, Running, NoIndexPanic, Labels, Ended,
     NoEnd, EndType, NoResult, FullResult, Errors
<1>2. IInv /\ [Next]_vars => IInv'
  <2>1. ASSUME IInv, UNCHANGED vars PROVE IInv'
    BY <2>1 DEF vars, IInv, TypeOK, Running, AdmittedCall, Balance, NoIndexPanic,
       checkCapacity
  <2> QED
    BY <2>1, EnterKeepsIInv, FastKeepsIInv, GatherKeepsIInv, LastKeepsIInv DEF Next
<1> QED
  BY <1>1, <1>2, PTL DEF Spec

(* Every variable keeps to its domain; in particular dst holds bytes and   *)
(* every call that returns does so with a well-formed FullResult.          *)
THEOREM TypeCorrect == Spec => []TypeOK
<1>1. IInv => TypeOK
  BY DEF IInv
<1> QED
  BY <1>1, Invariance, PTL

(* No input, padding, option, provider or block size makes a call write    *)
(* past the end of dst: neither the unchecked calls behind the preflight   *)
(* nor the checked ones index out of range.                                *)
THEOREM NeverPanics == Spec => []NoIndexPanic
<1>1. IInv => NoIndexPanic
  BY DEF IInv
<1> QED
  BY <1>1, Invariance, PTL

-----------------------------------------------------------------------------
(* KeepsPromise: the answer is Decode(call), whichever loops computed it.  *)

Stop       == StopPosition(call, end)
Read       == AlphabetBefore(call, Stop)
Where      == SignificantBefore(call, Stop)
Values     == Sextets(call, Where)
Taken      == Rank(Read, src)
Written    == Len(dst) \div 3
ChunkAt(q) == IF q = 0 THEN 0 ELSE Where[4 * q]

(* A running call is at a place of the promised computation: it has not    *)
(* met the stop position, what it wrote are the bytes of whole groups of   *)
(* the promised values, and the characters it consumed hold those values   *)
(* and the ones in its buffer.                                             *)
Follows ==
  /\ end.srcLen > 0
  /\ src < Stop
  /\ Len(dst) = 3 * Written
  /\ dst = BytesOfChunks(SubSeq(Values, 1, 4 * Written))
  /\ checkCapacity => Len(dst) <= call.cap
  /\ pc = "fast"   => Taken = 4 * Written /\ src = ChunkAt(Written)
  /\ pc = "gather" => /\ chunk = ChunkAt(Written)
                      /\ Taken = 4 * Written + Len(buffer)
                      /\ buffer = SubSeq(Values, 4 * Written + 1, Taken)
                      /\ Len(buffer) = 4 => src = ChunkAt(Written + 1)

Delimited == end = FindEnd(call.input, call.options)

PInv ==
  /\ Running  => Delimited /\ Follows
  /\ Returned => Delimited /\ KeepsPromise

-----------------------------------------------------------------------------

LEMMA Promised ==
  ASSUME TypeOK, AdmittedCall
  PROVE  /\ Stop \in Nat /\ Stop > 0 /\ Stop <= end.srcLen + 1
         /\ end.srcLen \in Nat /\ end.srcLen <= Len(call.input) /\ Len(call.input) \in Nat
         /\ Read \in SUBSET Nat /\ IsFiniteSet(Read)
         /\ \A m \in Nat : m + 1 \in Read <=> m + 1 < Stop /\ Value(m) <= 63
         /\ Values \in Seq(0..63) /\ Len(Values) \in Nat
         /\ Rank(Read, 0) = 0 /\ Rank(Read, Stop - 1) = Len(Values)
         /\ \A m \in Nat : Rank(Read, m) \in Nat /\ Rank(Read, m) <= Len(Values)
         /\ \A m \in Nat : m + 1 \in Read =>
              /\ Rank(Read, m + 1) \in 1..Len(Values)
              /\ Where[Rank(Read, m + 1)] = m + 1
              /\ Values[Rank(Read, m + 1)] = Value(m)
<1>1. /\ call.input \in CharTexts /\ Len(call.input) \in Nat
      /\ end.srcLen \in Nat /\ end.srcLen <= Len(call.input)
  <2>1. call.input \in CharTexts
    BY DEF TypeOK, CallType, CharTexts
  <2>2. Len(call.input) \in Nat /\ TrailingPads(call.input) \in Nat
    BY <2>1, LenProperties DEF TrailingPads, CharTexts
  <2>3. end.srcLen \in Nat
    BY DEF TypeOK, EndType
  <2> QED
    BY <2>1, <2>2, <2>3 DEF AdmittedCall
<1>2. /\ Stop \in Nat /\ Stop > 0 /\ Stop <= end.srcLen + 1
      /\ Read \in SUBSET Nat /\ IsFiniteSet(Read)
      /\ \A i \in Nat : i \in Read <=> /\ 1 <= i /\ i < Stop
                                      /\ IsAlphabet(call.options, call.input[i])
      /\ Values \in Seq(0..63) /\ Len(Values) \in Nat
      /\ Rank(Read, 0) = 0 /\ Rank(Read, Stop - 1) = Len(Values)
      /\ \A m \in Nat : Rank(Read, m) \in Nat /\ Rank(Read, m) <= Len(Values)
      /\ \A i \in Read : /\ Rank(Read, i) \in 1..Len(Values)
                        /\ Where[Rank(Read, i)] = i
                        /\ Values[Rank(Read, i)] = ToValue(call.options, call.input[i])
  BY <1>1, PayloadFacts DEF Stop, Read, Where, Values
<1>3. \A m \in Nat : ToValue(call.options, call.input[m + 1]) = Value(m)
  BY DEF Value, At
<1>4. \A m \in Nat : IsAlphabet(call.options, call.input[m + 1]) <=> Value(m) <= 63
  BY <1>3 DEF IsAlphabet
<1>5. \A m \in Nat : m + 1 \in Nat /\ 1 <= m + 1
  OBVIOUS
<1>6. \A m \in Nat : m + 1 \in Read <=> m + 1 < Stop /\ Value(m) <= 63
  BY <1>2, <1>4, <1>5
<1>7. \A m \in Nat : m + 1 \in Read =>
        /\ Rank(Read, m + 1) \in 1..Len(Values)
        /\ Where[Rank(Read, m + 1)] = m + 1
        /\ Values[Rank(Read, m + 1)] = Value(m)
  BY <1>2, <1>3
<1> QED
  BY <1>1, <1>2, <1>6, <1>7

(* What the character at offset m is to the promise: a value, something to *)
(* step over, or the stop position.                                        *)
LEMMA CharacterAt ==
  ASSUME TypeOK, AdmittedCall, NEW m \in Nat, m < Stop, m < end.srcLen
  PROVE  /\ Value(m) <= 63 => /\ m + 1 < Stop
                              /\ Rank(Read, m + 1) = Rank(Read, m) + 1
                              /\ Rank(Read, m) + 1 \in 1..Len(Values)
                              /\ Where[Rank(Read, m) + 1] = m + 1
                              /\ Values[Rank(Read, m) + 1] = Value(m)
         /\ Value(m) > 63 /\ (IsSpace(call.options, At(m)) \/ garbage)
              => m + 1 < Stop /\ Rank(Read, m + 1) = Rank(Read, m)
         /\ Value(m) > 64 /\ ~ garbage => Stop = m + 1
<1>1. /\ Stop \in Nat /\ Stop > 0 /\ Stop <= end.srcLen + 1 /\ end.srcLen \in Nat
      /\ Read \in SUBSET Nat /\ IsFiniteSet(Read)
      /\ m + 1 \in Read <=> m + 1 < Stop /\ Value(m) <= 63
      /\ m + 1 \in Read => /\ Rank(Read, m + 1) \in 1..Len(Values)
                           /\ Where[Rank(Read, m + 1)] = m + 1
                           /\ Values[Rank(Read, m + 1)] = Value(m)
  BY Promised
<1>2. Value(m) \in Nat
  BY <1>1, PayloadCharacters
<1>3. /\ Stop <= end.srcLen => /\ ~ IsAlphabet(call.options, call.input[Stop])
                               /\ ~ IsIgnorable(call.options, call.input[Stop])
      /\ \A i \in 1..(Stop - 1) : \/ IsAlphabet(call.options, call.input[i])
                                 \/ IsIgnorable(call.options, call.input[i])
  BY <1>1, StopProperties DEF Stop
<1>4. /\ IsAlphabet(call.options, call.input[m + 1]) <=> Value(m) <= 63
      /\ IsSpace(call.options, At(m)) <=> Value(m) = 64
      /\ IsIgnorable(call.options, call.input[m + 1])
           <=> ~ (Value(m) <= 63) /\ (Value(m) = 64 \/ garbage)
  BY DEF IsAlphabet, IsSpace, IsIgnorable, Value, At, garbage
<1>5. m + 1 <= Stop
  BY <1>1
<1>6. Value(m) <= 63 \/ Value(m) = 64 \/ garbage => m + 1 < Stop
  <2>1. ASSUME m + 1 = Stop, Value(m) <= 63 \/ Value(m) = 64 \/ garbage PROVE FALSE
    <3>1. Stop <= end.srcLen
      BY <1>1, <2>1
    <3> QED
      BY <1>2, <1>3, <1>4, <2>1, <3>1
  <2> QED
    BY <1>1, <1>5, <2>1
<1>7. Rank(Read, m + 1) = IF m + 1 \in Read THEN Rank(Read, m) + 1 ELSE Rank(Read, m)
  BY <1>1, RankStep
<1>8. Value(m) > 64 /\ ~ garbage => Stop = m + 1
  <2>1. ASSUME Value(m) > 64, ~ garbage, m + 1 < Stop PROVE FALSE
    <3>1. m + 1 \in 1..(Stop - 1)
      BY <1>1, <2>1
    <3> QED
      BY <1>2, <1>3, <1>4, <2>1, <3>1
  <2> QED
    BY <1>1, <1>5, <2>1
<1> QED
  BY <1>1, <1>2, <1>4, <1>6, <1>7, <1>8

(* The promised values depend on the arguments and the payload only.       *)
LEMMA PromiseFixed ==
  ASSUME UNCHANGED <<call, end>>
  PROVE  /\ Stop' = Stop /\ Read' = Read /\ Where' = Where /\ Values' = Values
         /\ \A q : ChunkAt(q)' = ChunkAt(q)
BY DEF Stop, Read, Where, Values, ChunkAt

(* Writing the next group of promised values keeps dst what it should be.  *)
LEMMA GroupWritten ==
  ASSUME TypeOK, AdmittedCall, Follows, 4 * Written + 4 <= Len(Values),
         dst' = dst \o ChunkBytes(Quartet(Values, Written)), UNCHANGED <<call, end>>
  PROVE  /\ Written \in Nat /\ Written' = Written + 1
         /\ Len(dst') = Len(dst) + 3 /\ Len(dst') = 3 * Written'
         /\ dst' = BytesOfChunks(SubSeq(Values', 1, 4 * Written'))
<1>1. Values \in Seq(0..63) /\ Values' = Values
  BY Promised, PromiseFixed
<1>2. dst \in Seq(0..255) /\ Len(dst) \in Nat
  BY LenProperties DEF TypeOK
<1>3. Written \in Nat /\ Len(dst) = 3 * Written
  BY <1>2 DEF Written, Follows
<1> DEFINE c == ChunkBytes(Quartet(Values, Written))
<1>4. c \in Seq(0..255) /\ Len(c) = 3
  BY <1>1, <1>3, GroupProperties
<1> HIDE DEF c
<1>5. Len(dst \o c) = Len(dst) + Len(c)
  BY ONLY <1>2, <1>4, ConcatProperties
<1>6. Len(dst') = Len(dst) + 3
  BY <1>4, <1>5 DEF c
<1>7. Written' = Written + 1
  <2>1. Len(dst') = 3 * (Written + 1)
    BY <1>3, <1>6
  <2>2. Written' = Len(dst') \div 3
    BY DEF Written
  <2> QED
    BY <1>3, <2>1, <2>2
<1>8. dst' = BytesOfChunks(SubSeq(Values, 1, 4 * (Written + 1)))
  BY <1>1, <1>3, BytesOfOneMore DEF Follows
<1> QED
  BY <1>1, <1>3, <1>6, <1>7, <1>8

(* The four-character loop reads a whole group.                            *)
LEMMA FourRead ==
  ASSUME TypeOK, AdmittedCall, Follows, FourAhead, NEW q \in Nat, Taken = 4 * q
  PROVE  /\ src + 4 < Stop
         /\ Rank(Read, src + 4) = 4 * q + 4
         /\ 4 * q + 4 <= Len(Values)
         /\ Where[4 * q + 4] = src + 4
         /\ Quartet(Values, q)
              = <<Value(src), Value(src + 1), Value(src + 2), Value(src + 3)>>
<1>1. /\ src \in Nat /\ src + 4 <= end.srcLen /\ end.srcLen \in Nat /\ src < Stop
      /\ Stop \in Nat /\ Values \in Seq(0..63) /\ Len(Values) \in Nat
  BY Promised DEF FourAhead, Follows, TypeOK
<1>2. /\ Value(src) <= 63 /\ Value(src + 1) <= 63
      /\ Value(src + 2) <= 63 /\ Value(src + 3) <= 63
  <2>1. /\ src \in src..(src + 3) /\ src + 1 \in src..(src + 3)
        /\ src + 2 \in src..(src + 3) /\ src + 3 \in src..(src + 3)
    BY <1>1
  <2> QED
    BY <2>1 DEF FourAhead
<1>3. Rank(Read, src) = 4 * q
  BY DEF Taken
<1>4. /\ src + 1 < Stop /\ Rank(Read, src + 1) = 4 * q + 1
      /\ Values[4 * q + 1] = Value(src)
  <2>1. src < end.srcLen
    BY <1>1
  <2> QED
    BY <1>1, <1>2, <1>3, <2>1, CharacterAt
<1>5. /\ src + 2 < Stop /\ Rank(Read, src + 2) = 4 * q + 2
      /\ Values[4 * q + 2] = Value(src + 1)
  <2>1. src + 1 < end.srcLen /\ src + 1 \in Nat /\ (src + 1) + 1 = src + 2
        /\ (4 * q + 1) + 1 = 4 * q + 2
    BY <1>1
  <2> QED
    BY <1>2, <1>4, <2>1, CharacterAt
<1>6. /\ src + 3 < Stop /\ Rank(Read, src + 3) = 4 * q + 3
      /\ Values[4 * q + 3] = Value(src + 2)
  <2>1. src + 2 < end.srcLen /\ src + 2 \in Nat /\ (src + 2) + 1 = src + 3
        /\ (4 * q + 2) + 1 = 4 * q + 3
    BY <1>1
  <2> QED
    BY <1>2, <1>5, <2>1, CharacterAt
<1>7. /\ src + 4 < Stop /\ Rank(Read, src + 4) = 4 * q + 4
      /\ 4 * q + 4 \in 1..Len(Values)
      /\ Where[4 * q + 4] = src + 4
      /\ Values[4 * q + 4] = Value(src + 3)
  <2>1. src + 3 < end.srcLen /\ src + 3 \in Nat /\ (src + 3) + 1 = src + 4
        /\ (4 * q + 3) + 1 = 4 * q + 4
    BY <1>1
  <2> QED
    BY <1>2, <1>6, <2>1, CharacterAt
<1>8. 4 * q + 4 <= Len(Values)
  BY <1>1, <1>7
<1>9. Quartet(Values, q) = <<Values[4 * q + 1], Values[4 * q + 2],
                           Values[4 * q + 3], Values[4 * q + 4]>>
  BY <1>1, <1>8, GroupProperties
<1> QED
  BY <1>4, <1>5, <1>6, <1>7, <1>8, <1>9

LEMMA DecodesPayload ==
  ASSUME TypeOK, Delimited, Follows PROVE Decode(call) = DecodePayload(call, end)
<1>1. end.srcLen # 0
  BY DEF Follows, TypeOK, EndType
<1>2. end = FindEnd(call.input, call.options)
  BY DEF Delimited
<1> QED
  BY <1>1, <1>2 DEF Decode

(* A destination with no room for the next group holds all it can.         *)
LEMMA ReturnsTooSmall ==
  ASSUME TypeOK, AdmittedCall, Delimited, Follows, checkCapacity, ~ Room(3),
         4 * Written + 4 <= Len(Values),
         Return("OutputBufferTooSmall", ChunkAt(Written), Len(dst), FALSE),
         UNCHANGED <<call, end, dst>>
  PROVE  KeepsPromise'
<1>1. Len(dst) \in Nat /\ call.cap \in Nat /\ Len(Values) \in Nat
  BY Promised, LenProperties DEF TypeOK, CallType
<1>2. Written \in Nat /\ Len(dst) = 3 * Written /\ 3 * Written <= call.cap
  BY <1>1 DEF Written, Follows
<1> DEFINE chunks == Len(Values) \div 4
           fit    == IF call.entry # "details" /\ call.cap \div 3 < chunks
                     THEN call.cap \div 3 ELSE chunks
           raw    == [error |-> "OutputBufferTooSmall", inputCount |-> ChunkAt(Written),
                      outputCount |-> 3 * Written, paddingError |-> FALSE]
<1>3. call.cap \div 3 = Written
  <2>1. call.cap < 3 * Written + 3
    BY <1>1, <1>2 DEF Room
  <2> QED
    BY <1>1, <1>2, <2>1
<1>4. Written < chunks
  BY <1>1, <1>2
<1>5. fit = Written
  BY <1>3, <1>4 DEF checkCapacity
<1>6. Decode(call) = [result |-> Finish(call, end, raw),
                      bytes |-> BytesOfChunks(SubSeq(Values, 1, 4 * Written))]
  <2>1. Decode(call) = DecodePayload(call, end)
    BY DecodesPayload
  <2>2. fit < chunks
    BY <1>4, <1>5
  <2>3. DecodePayload(call, end)
          = [result |-> Finish(call, end,
                          [error |-> "OutputBufferTooSmall", inputCount |-> ChunkAt(fit),
                           outputCount |-> 3 * fit, paddingError |-> FALSE]),
             bytes |-> BytesOfChunks(SubSeq(Values, 1, 4 * fit))]
    BY <2>2 DEF DecodePayload, Stop, Where, Values, ChunkAt
  <2> HIDE DEF fit, chunks
  <2> QED
    BY <1>5, <2>1, <2>3
<1>7. res' = Finish(call, end, raw)
  BY <1>2 DEF Return
<1> QED
  BY <1>6, <1>7 DEF KeepsPromise, Follows

(* At the stop position, with an incomplete chunk in the buffer, nothing   *)
(* is left to read: the buffer is the promised rest.                       *)
LEMMA AtTheStop ==
  ASSUME TypeOK, AdmittedCall, Delimited, Follows, pc = "gather", Len(buffer) < 4,
         Stop = src + 1
  PROVE  /\ Stop <= end.srcLen /\ call.input[Stop] # Pad =>
              Decode(call) =
                [result |-> Finish(call, end,
                              [error |-> "InvalidBase64Character", inputCount |-> src,
                               outputCount |-> Len(dst), paddingError |-> FALSE]),
                 bytes  |-> dst]
         /\ ~ (Stop <= end.srcLen /\ call.input[Stop] # Pad) =>
              LET verdict == TailVerdict(buffer, end.equalSigns, call.options,
                                         call.lastChunk, call.cap - Len(dst))
              IN  Decode(call) =
                    IF verdict = "Decoded"
                    THEN [result |-> Finish(call, end,
                                       [error |-> "Success", inputCount |-> src,
                                        outputCount |-> Len(dst) + Len(buffer) - 1,
                                        paddingError |-> FALSE]),
                          bytes  |-> dst \o ChunkBytes(buffer)]
                    ELSE [result |-> Finish(call, end,
                                       [error |-> TailErrors[verdict],
                                        inputCount |-> IF verdict \in {"Held", "NoRoom"}
                                                       THEN chunk ELSE src,
                                        outputCount |-> Len(dst),
                                        paddingError |-> verdict \in
                                          {"Misfit", "StrictMisfit", "LonePadding"}]),
                          bytes  |-> dst]
<1>1. /\ Len(dst) \in Nat /\ Len(buffer) \in Nat /\ call.cap \in Nat
      /\ src \in Nat /\ Len(Values) \in Nat
  BY Promised, LenProperties DEF TypeOK, CallType
<1>2. Written \in Nat /\ Len(dst) = 3 * Written
  BY <1>1 DEF Written, Follows
<1>3. Taken = Len(Values)
  <2>1. Stop - 1 = src
    BY <1>1
  <2> QED
    BY <2>1, Promised DEF Taken
<1>4. /\ chunk = ChunkAt(Written)
      /\ Len(Values) = 4 * Written + Len(buffer)
      /\ buffer = SubSeq(Values, 4 * Written + 1, Len(Values))
      /\ dst = BytesOfChunks(SubSeq(Values, 1, 4 * Written))
  BY <1>3 DEF Follows
<1>5. Len(Values) \div 4 = Written
  <2>1. \A a, b \in Nat : b < 4 => (4 * a + b) \div 4 = a
    OBVIOUS
  <2>2. Len(Values) = 4 * Written + Len(buffer)
    BY <1>4
  <2> QED
    BY <1>1, <1>2, <2>1, <2>2
<1>6. ~ (call.entry # "details" /\ call.cap \div 3 < Written)
  <2>1. checkCapacity => 3 * Written <= call.cap
    BY <1>2 DEF Follows
  <2>2. 3 * Written <= call.cap => ~ (call.cap \div 3 < Written)
    BY <1>1, <1>2
  <2> QED
    BY <2>1, <2>2 DEF checkCapacity
<1>7. ~ (Written < Written)
  BY <1>2
<1> DEFINE chunks == Len(Values) \div 4
           fit    == IF call.entry # "details" /\ call.cap \div 3 < chunks
                     THEN call.cap \div 3 ELSE chunks
           last   == SubSeq(Values, 4 * chunks + 1, Len(Values))
           v      == TailVerdict(last, end.equalSigns, call.options, call.lastChunk,
                                 call.cap - 3 * chunks)
           bytes  == BytesOfChunks(SubSeq(Values, 1, 4 * fit))
           raw(error, count, n, padding) ==
             [error |-> error, inputCount |-> count, outputCount |-> n,
              paddingError |-> padding]
           result(r, written) == [result |-> Finish(call, end, r), bytes |-> written]
<1>8. chunks = Written /\ fit = Written
  BY <1>5, <1>6
<1>9. DecodePayload(call, end) =
        IF fit < chunks
        THEN result(raw("OutputBufferTooSmall", ChunkAt(fit), 3 * fit, FALSE), bytes)
        ELSE IF Stop <= end.srcLen /\ call.input[Stop] # Pad
        THEN result(raw("InvalidBase64Character", Stop - 1, 3 * fit, FALSE), bytes)
        ELSE IF v = "Decoded"
        THEN result(raw("Success", Stop - 1, 3 * fit + Len(last) - 1, FALSE),
                    bytes \o ChunkBytes(last))
        ELSE result(raw(TailErrors[v],
                        IF v \in {"Held", "NoRoom"} THEN ChunkAt(fit) ELSE Stop - 1,
                        3 * fit, v \in {"Misfit", "StrictMisfit", "LonePadding"}),
                    bytes)
  BY Zenon DEF DecodePayload, Stop, Where, Values, ChunkAt
<1>10. /\ bytes = dst /\ last = buffer /\ ChunkAt(fit) = chunk /\ Stop - 1 = src
       /\ 3 * fit = Len(dst) /\ 3 * chunks = Len(dst) /\ ~ (fit < chunks)
  <2>1. Stop - 1 = src
    BY <1>1
  <2>2. 3 * fit = Len(dst) /\ 3 * chunks = Len(dst)
    BY <1>2, <1>8
  <2> HIDE DEF chunks, fit
  <2> QED
    BY <1>4, <1>7, <1>8, <2>1, <2>2
<1> DEFINE verdict == TailVerdict(buffer, end.equalSigns, call.options,
                                  call.lastChunk, call.cap - Len(dst))
<1>11. v = verdict
  <2> HIDE DEF chunks, last
  <2> QED
    BY <1>10
<1>12. DecodePayload(call, end) =
        IF Stop <= end.srcLen /\ call.input[Stop] # Pad
        THEN result(raw("InvalidBase64Character", src, Len(dst), FALSE), dst)
        ELSE IF verdict = "Decoded"
        THEN result(raw("Success", src, Len(dst) + Len(buffer) - 1, FALSE),
                    dst \o ChunkBytes(buffer))
        ELSE result(raw(TailErrors[verdict],
                        IF verdict \in {"Held", "NoRoom"} THEN chunk ELSE src,
                        Len(dst), verdict \in {"Misfit", "StrictMisfit", "LonePadding"}),
                    dst)
  <2> HIDE DEF chunks, fit, last, v, bytes, verdict, raw, result
  <2> QED
    BY <1>9, <1>10, <1>11
<1>13. Decode(call) = DecodePayload(call, end)
  BY DecodesPayload
<1> HIDE DEF verdict
<1> QED
  BY <1>12, <1>13 DEF verdict

(* The last chunk is judged at the stop position, and the stop is no       *)
(* character but a '=' or the end of the payload.                          *)
LEMMA LastIsAtTheStop ==
  ASSUME TypeOK, AdmittedCall, Delimited, Follows, AtLastChunk
  PROVE  Stop = src + 1 /\ ~ (Stop <= end.srcLen /\ call.input[Stop] # Pad)
<1>1. /\ Stop \in Nat /\ Stop <= end.srcLen + 1 /\ end.srcLen \in Nat
      /\ src \in Nat /\ src < Stop
  BY Promised DEF TypeOK, Follows
<1>2. CASE ~ (src < end.srcLen)
  BY <1>1, <1>2
<1>3. CASE src < end.srcLen
  <2>1. At(src) = Pad
    BY <1>3 DEF AtLastChunk
  <2>2. Value(src) = 255
    BY <2>1 DEF Value, ToValue, Pad, Dash, Underscore, Space
  <2>3. ~ garbage
    <3>1. ASSUME garbage PROVE FALSE
      <4>1. call.input \in CharTexts
        BY DEF TypeOK, CallType, CharTexts
      <4>2. src + 1 \in 1..end.srcLen
        BY <1>1, <1>3
      <4>3. call.input[src + 1] # Pad
        BY <3>1, <4>1, <4>2, GarbageEndsAtPad DEF garbage, Delimited
      <4> QED
        BY <2>1, <4>3 DEF At
    <3> QED
      BY <3>1
  <2>4. Stop = src + 1
    <3>1. Value(src) > 64
      BY <2>2
    <3> QED
      BY <1>1, <1>3, <2>3, <3>1, CharacterAt
  <2> QED
    BY <2>1, <2>4 DEF At
<1> QED
  BY <1>2, <1>3

(* The chain of ifs on the last chunk computes the promised verdict.       *)
LEMMA JudgedAsPromised ==
  ASSUME TypeOK, AtLastChunk,
         NEW verdict, verdict = TailVerdict(buffer, pads, call.options, call.lastChunk,
                                            call.cap - Len(dst))
  PROVE  /\ PaddingMisfit("Loose") => verdict = "Misfit"
         /\ ~ PaddingMisfit("Loose") /\ PaddingMisfit("Strict") => verdict = "StrictMisfit"
         /\ Judged =>
              /\ HoldBack => verdict = "Held"
              /\ ~ HoldBack /\ ExtraBits => verdict = "ExtraBits"
              /\ ~ HoldBack /\ ~ ExtraBits /\ idx >= 2
                   => verdict = IF Room(idx - 1) THEN "Decoded" ELSE "NoRoom"
              /\ ~ HoldBack /\ LoneCharacter => verdict = "Remainder"
              /\ ~ HoldBack /\ LonePadding => verdict = "LonePadding"
              /\ ~ HoldBack /\ idx < 2 /\ ~ LoneCharacter /\ ~ LonePadding
                   => verdict = "Nothing"
<1>1. /\ Len(dst) \in Nat /\ Len(buffer) \in Nat /\ call.cap \in Nat
      /\ pads \in 0..2 /\ idx \in 0..3
  <2>1. /\ buffer \in Seq(0..63) /\ dst \in Seq(0..255) /\ call.cap \in Nat
        /\ end.equalSigns \in 0..2
    BY DEF TypeOK, CallType, EndType
  <2>2. Len(dst) \in Nat /\ Len(buffer) \in Nat
    BY <2>1, LenProperties
  <2>3. Len(buffer) < 4
    BY DEF AtLastChunk, idx
  <2>4. Len(buffer) \in 0..3
    <3>1. \A k \in Nat : k < 4 => k \in 0..3
      OBVIOUS
    <3> QED
      BY <2>2, <2>3, <3>1
  <2> QED
    BY ONLY <2>1, <2>2, <2>4 DEF pads, idx
<1> DEFINE n       == Len(buffer)
           misfit  == (n + pads) % 4 # 0
           loose   == n >= 2 /\ ~ garbage /\ misfit /\ call.lastChunk = "Loose" /\ pads > 0
           strict  == n >= 2 /\ ~ garbage /\ misfit /\ call.lastChunk = "Strict"
           held    == \/ /\ call.lastChunk = "StopBeforePartial"
                         /\ (n \in {2, 3} /\ n + pads < 4) \/ (n = 1 /\ pads = 0)
                      \/ call.lastChunk = "OnlyFullChunks" /\ (n >= 2 \/ pads = 0)
           extra   == n >= 2 /\ ~ garbage /\ call.lastChunk = "Strict" /\ HasExtraBits(buffer)
           noRoom  == call.cap - Len(dst) < n - 1
           lone    == n = 1 /\ ~ garbage /\ (~ IsPartial(call.lastChunk) \/ pads > 0)
           padding == n = 0 /\ ~ garbage /\ pads > 0
<1>2. verdict = IF loose THEN "Misfit"
                ELSE IF strict THEN "StrictMisfit"
                ELSE IF held THEN "Held"
                ELSE IF extra THEN "ExtraBits"
                ELSE IF n >= 2 THEN IF noRoom THEN "NoRoom" ELSE "Decoded"
                ELSE IF lone THEN "Remainder"
                ELSE IF padding THEN "LonePadding"
                ELSE "Nothing"
  BY Zenon DEF TailVerdict, garbage
<1>3. PaddingMisfit("Loose") <=> loose
  BY DEF PaddingMisfit, idx
<1>4. PaddingMisfit("Strict") <=> strict
  BY DEF PaddingMisfit, idx
<1>5. HoldBack <=> held
  <2>1. \A k \in 0..3, p \in 0..2 :
          (k + p < 4 /\ k # 0 /\ (k >= 2 \/ p = 0))
            <=> (k \in {2, 3} /\ k + p < 4) \/ (k = 1 /\ p = 0)
    OBVIOUS
  <2>2. n = idx
    BY DEF idx
  <2> HIDE DEF n
  <2> QED
    BY <1>1, <2>1, <2>2 DEF HoldBack
<1>6. (ExtraBits <=> extra) /\ (LoneCharacter <=> lone) /\ (LonePadding <=> padding)
  BY DEF ExtraBits, LoneCharacter, LonePadding, idx
<1>7. Room(idx - 1) <=> ~ noRoom
  BY <1>1 DEF Room, idx
<1>8. /\ extra => n >= 2
      /\ lone => n = 1
      /\ padding => n = 0
  OBVIOUS
<1>9. n \in Nat /\ n = idx
  BY <1>1 DEF idx
<1> HIDE DEF n, loose, strict, held, extra, noRoom, lone, padding
<1>10. /\ loose => verdict = "Misfit"
       /\ ~ loose /\ strict => verdict = "StrictMisfit"
  BY <1>2
<1>11. ASSUME ~ loose, ~ strict
       PROVE  /\ held => verdict = "Held"
              /\ ~ held /\ extra => verdict = "ExtraBits"
              /\ ~ held /\ ~ extra /\ n >= 2
                   => verdict = IF noRoom THEN "NoRoom" ELSE "Decoded"
              /\ ~ held /\ lone => verdict = "Remainder"
              /\ ~ held /\ padding => verdict = "LonePadding"
              /\ ~ held /\ n < 2 /\ ~ lone /\ ~ padding => verdict = "Nothing"
  <2>1. n = 1 => ~ (n >= 2)
    BY <1>9
  <2>2. n = 0 => ~ (n >= 2) /\ ~ (n = 1)
    BY <1>9
  <2>3. n < 2 => ~ (n >= 2)
    BY <1>9
  <2> QED
    BY <1>2, <1>8, <1>11, <2>1, <2>2, <2>3
<1> QED
  BY <1>3, <1>4, <1>5, <1>6, <1>7, <1>9, <1>10, <1>11 DEF Judged

(* Judging the last chunk gives the promised answer.                       *)
LEMMA LastKeepsPromise ==
  ASSUME IInv, PInv, Last, NoIndexPanic' PROVE PInv'
<1>1. /\ pc = "gather" /\ AtLastChunk /\ idx < 4 /\ TypeOK /\ AdmittedCall
      /\ Delimited /\ Follows
  BY DEF Last, LastMisfit, LastHeld, LastExtraBits, LastTooSmall, LastDecoded, LastRejected,
     LastEmpty, Kept, Judged, AtLastChunk, IInv, PInv, Running
<1> DEFINE verdict == TailVerdict(buffer, pads, call.options, call.lastChunk,
                                  call.cap - Len(dst))
           raw(error, count, n, padding) ==
             [error |-> error, inputCount |-> count, outputCount |-> n,
              paddingError |-> padding]
           answer(r, written) == [result |-> Finish(call, end, r), bytes |-> written]
<1>2. Decode(call) =
        IF verdict = "Decoded"
        THEN answer(raw("Success", src, Len(dst) + Len(buffer) - 1, FALSE),
                    dst \o ChunkBytes(buffer))
        ELSE answer(raw(TailErrors[verdict],
                        IF verdict \in {"Held", "NoRoom"} THEN chunk ELSE src,
                        Len(dst), verdict \in {"Misfit", "StrictMisfit", "LonePadding"}),
                    dst)
  BY <1>1, LastIsAtTheStop, AtTheStop DEF idx, pads
<1>3. /\ PaddingMisfit("Loose") => verdict = "Misfit"
      /\ ~ PaddingMisfit("Loose") /\ PaddingMisfit("Strict") => verdict = "StrictMisfit"
      /\ Judged =>
           /\ HoldBack => verdict = "Held"
           /\ ~ HoldBack /\ ExtraBits => verdict = "ExtraBits"
           /\ ~ HoldBack /\ ~ ExtraBits /\ idx >= 2
                => verdict = IF Room(idx - 1) THEN "Decoded" ELSE "NoRoom"
           /\ ~ HoldBack /\ LoneCharacter => verdict = "Remainder"
           /\ ~ HoldBack /\ LonePadding => verdict = "LonePadding"
           /\ ~ HoldBack /\ idx < 2 /\ ~ LoneCharacter /\ ~ LonePadding
                => verdict = "Nothing"
  BY <1>1, JudgedAsPromised
<1> HIDE DEF verdict
<1>4. ASSUME NEW e, NEW count, NEW written, NEW padding, Return(e, count, written, padding),
             UNCHANGED <<call, end>>,
             Decode(call) = answer(raw(e, count, written, padding), dst')
      PROVE  PInv'
  BY <1>1, <1>4 DEF Return, PInv, Running, Returned, KeepsPromise, Delimited
<1>5. /\ verdict = "Misfit" =>
           Decode(call) = answer(raw("InvalidBase64Character", src, Len(dst), TRUE), dst)
      /\ verdict = "StrictMisfit" =>
           Decode(call) = answer(raw("Base64InputRemainder", src, Len(dst), TRUE), dst)
      /\ verdict = "LonePadding" =>
           Decode(call) = answer(raw("InvalidBase64Character", src, Len(dst), TRUE), dst)
  <2>1. /\ TailErrors["Misfit"] = "InvalidBase64Character"
        /\ TailErrors["StrictMisfit"] = "Base64InputRemainder"
        /\ TailErrors["LonePadding"] = "InvalidBase64Character"
    BY DEF TailErrors
  <2>2. verdict \in {"Misfit", "StrictMisfit", "LonePadding"} =>
          Decode(call) = answer(raw(TailErrors[verdict], src, Len(dst), TRUE), dst)
    BY <1>2
  <2> HIDE DEF raw, answer
  <2> QED
    BY <2>1, <2>2
<1>6. /\ verdict = "Held" =>
           Decode(call) = answer(raw("Success", chunk, Len(dst), FALSE), dst)
      /\ verdict = "NoRoom" =>
           Decode(call) = answer(raw("OutputBufferTooSmall", chunk, Len(dst), FALSE), dst)
  <2>1. /\ TailErrors["Held"] = "Success"
        /\ TailErrors["NoRoom"] = "OutputBufferTooSmall"
    BY DEF TailErrors
  <2>2. verdict \in {"Held", "NoRoom"} =>
          Decode(call) = answer(raw(TailErrors[verdict], chunk, Len(dst), FALSE), dst)
    <3>1. verdict \in {"Held", "NoRoom"} =>
            /\ verdict # "Decoded"
            /\ (verdict \in {"Misfit", "StrictMisfit", "LonePadding"}) = FALSE
      OBVIOUS
    <3> HIDE DEF raw, answer
    <3> QED
      BY <1>2, <3>1
  <2> HIDE DEF raw, answer
  <2> QED
    BY <2>1, <2>2
<1>7. /\ verdict = "ExtraBits" =>
           Decode(call) = answer(raw("Base64ExtraBits", src, Len(dst), FALSE), dst)
      /\ verdict = "Remainder" =>
           Decode(call) = answer(raw("Base64InputRemainder", src, Len(dst), FALSE), dst)
      /\ verdict = "Nothing" =>
           Decode(call) = answer(raw("Success", src, Len(dst), FALSE), dst)
  <2>1. /\ TailErrors["ExtraBits"] = "Base64ExtraBits"
        /\ TailErrors["Remainder"] = "Base64InputRemainder"
        /\ TailErrors["Nothing"] = "Success"
    BY DEF TailErrors
  <2>2. verdict \in {"ExtraBits", "Remainder", "Nothing"} =>
          Decode(call) = answer(raw(TailErrors[verdict], src, Len(dst), FALSE), dst)
    <3>1. verdict \in {"ExtraBits", "Remainder", "Nothing"} =>
            /\ verdict # "Decoded" /\ verdict \notin {"Held", "NoRoom"}
            /\ (verdict \in {"Misfit", "StrictMisfit", "LonePadding"}) = FALSE
      OBVIOUS
    <3> HIDE DEF raw, answer
    <3> QED
      BY <1>2, <3>1
  <2> HIDE DEF raw, answer
  <2> QED
    BY <2>1, <2>2
<1> HIDE DEF raw, answer
<1>8. CASE LastMisfit
  <2>1. UNCHANGED <<call, end, dst>>
    BY <1>8 DEF LastMisfit
  <2>2. CASE /\ PaddingMisfit("Loose")
             /\ Return("InvalidBase64Character", src, Len(dst), TRUE)
    BY <1>3, <1>4, <1>5, <2>1, <2>2
  <2>3. CASE /\ PaddingMisfit("Strict")
             /\ Return("Base64InputRemainder", src, Len(dst), TRUE)
    <3>1. ~ PaddingMisfit("Loose")
      BY <2>3 DEF PaddingMisfit
    <3> QED
      BY <1>3, <1>4, <1>5, <2>1, <2>3, <3>1
  <2> QED
    BY <1>8, <2>2, <2>3 DEF LastMisfit
<1>9. CASE LastHeld
  <2>1. /\ verdict = "Held" /\ Return("Success", chunk, Len(dst), FALSE)
        /\ UNCHANGED <<call, end, dst>>
    BY <1>3, <1>9 DEF LastHeld
  <2> QED
    BY <1>4, <1>6, <2>1
<1>10. CASE LastExtraBits
  <2>1. /\ verdict = "ExtraBits" /\ Return("Base64ExtraBits", src, Len(dst), FALSE)
        /\ UNCHANGED <<call, end, dst>>
    BY <1>3, <1>10 DEF LastExtraBits, Kept
  <2> QED
    BY <1>4, <1>7, <2>1
<1>11. CASE LastTooSmall
  <2>1. /\ verdict = "NoRoom" /\ Return("OutputBufferTooSmall", chunk, Len(dst), FALSE)
        /\ UNCHANGED <<call, end, dst>>
    BY <1>3, <1>11 DEF LastTooSmall, Kept
  <2> QED
    BY <1>4, <1>6, <2>1
<1>12. CASE LastDecoded
  <2>1. Room(idx - 1)
    BY <1>12 DEF LastDecoded, NoIndexPanic
  <2>2. verdict = "Decoded"
    BY <1>3, <1>12, <2>1 DEF LastDecoded, Kept
  <2>3. /\ dst' = dst \o ChunkBytes(buffer)
        /\ Return("Success", src, Len(dst) + Len(buffer) - 1, FALSE)
        /\ UNCHANGED <<call, end>>
    BY <1>12, <2>1 DEF LastDecoded, idx
  <2>4. Decode(call)
          = answer(raw("Success", src, Len(dst) + Len(buffer) - 1, FALSE), dst')
    BY <1>2, <2>2, <2>3
  <2> QED
    BY <1>4, <2>3, <2>4
<1>13. CASE LastRejected
  <2>1. Judged /\ ~ HoldBack /\ UNCHANGED <<call, end, dst>>
    BY <1>13 DEF LastRejected, Kept
  <2>2. CASE LoneCharacter /\ Return("Base64InputRemainder", src, Len(dst), FALSE)
    BY <1>3, <1>4, <1>7, <2>1, <2>2
  <2>3. CASE LonePadding /\ Return("InvalidBase64Character", src, Len(dst), TRUE)
    BY <1>3, <1>4, <1>5, <2>1, <2>3
  <2> QED
    BY <1>13, <2>2, <2>3 DEF LastRejected
<1>14. CASE LastEmpty
  <2>1. /\ verdict = "Nothing" /\ Return("Success", src, Len(dst), FALSE)
        /\ UNCHANGED <<call, end, dst>>
    BY <1>3, <1>14 DEF LastEmpty, Kept
  <2> QED
    BY <1>4, <1>7, <2>1
<1> QED
  BY <1>8, <1>9, <1>10, <1>11, <1>12, <1>13, <1>14 DEF Last

(* The rest of the steps: the per-character loop, ...                      *)
LEMMA GatherKeepsPromise ==
  ASSUME IInv, PInv, Gather, NoIndexPanic' PROVE PInv'
<1>1. /\ pc = "gather" /\ TypeOK /\ AdmittedCall /\ Balance /\ Delimited /\ Follows
  BY DEF Gather, GatherValue, GatherSkip, GatherReject, FullTooSmall, FullChunk, Gathering,
     IInv, PInv, Running
<1>0. Values \in Seq(0..63) /\ dst \in Seq(0..255) /\ buffer \in Seq(0..63)
  BY <1>1, Promised DEF TypeOK
<1>2. /\ src \in Nat /\ end.srcLen \in Nat /\ Stop \in Nat /\ src < Stop
      /\ Len(Values) \in Nat /\ Len(dst) \in Nat /\ Len(buffer) \in Nat
      /\ Taken \in Nat /\ Taken <= Len(Values)
  BY <1>0, <1>1, Promised, LenProperties DEF TypeOK, Follows, Taken
<1>3. Written \in Nat /\ Len(dst) = 3 * Written /\ Taken = 4 * Written + Len(buffer)
  BY <1>1, <1>2 DEF Written, Follows
<1>4. chunk = ChunkAt(Written) /\ buffer = SubSeq(Values, 4 * Written + 1, Taken)
  BY <1>1 DEF Follows
<1>5. CASE GatherValue
  <2>1. /\ src < end.srcLen /\ Len(buffer) < 4 /\ Value(src) <= 63
        /\ buffer' = Append(buffer, Value(src)) /\ src' = src + 1 /\ pc' = "gather"
        /\ UNCHANGED <<call, end, chunk, dst>>
    BY <1>1, <1>5 DEF GatherValue, Gathering
  <2>2. /\ src + 1 < Stop /\ Rank(Read, src + 1) = Taken + 1
        /\ Taken + 1 \in 1..Len(Values)
        /\ Where[Taken + 1] = src + 1 /\ Values[Taken + 1] = Value(src)
    BY <1>1, <1>2, <2>1, CharacterAt DEF Taken
  <2>3. /\ Stop' = Stop /\ Read' = Read /\ Where' = Where /\ Values' = Values
        /\ Written' = Written /\ \A q : ChunkAt(q)' = ChunkAt(q)
    BY <2>1, PromiseFixed DEF Written
  <2>4. Taken' = Taken + 1
    BY <2>1, <2>2, <2>3 DEF Taken
  <2>5a. src \in 0..(end.srcLen - 1)
    BY <1>2, <2>1
  <2>5. Value(src) \in 0..63
    BY ONLY <2>5a, <1>1, <2>1, PayloadCharacters
  <2>6. Len(buffer') = Len(buffer) + 1
    BY <1>0, <2>1, <2>5, AppendProperties
  <2>7. buffer' = SubSeq(Values, 4 * Written + 1, Taken + 1)
    <3>1. /\ 4 * Written + 1 \in Nat /\ 1 <= 4 * Written + 1
          /\ 4 * Written + 1 <= Taken + 1 /\ Taken + 1 <= Len(Values)
      BY <1>2, <1>3, <2>2
    <3>2. SubSeq(Values, 4 * Written + 1, Taken + 1)
            = Append(SubSeq(Values, 4 * Written + 1, Taken), Values[Taken + 1])
      BY <1>0, <1>2, <3>1, SubSeqGrows
    <3> QED
      BY <1>4, <2>1, <2>2, <3>2
  <2>8. Len(buffer') = 4 => src' = ChunkAt(Written + 1)
    <3>1. ASSUME Len(buffer') = 4 PROVE src' = Where[4 * (Written + 1)]
      <4>1. Taken + 1 = 4 * (Written + 1)
        <5>1. \A m, w, l \in Nat : m = 4 * w + l /\ l + 1 = 4 => m + 1 = 4 * (w + 1)
          OBVIOUS
        <5>2. Len(buffer) + 1 = 4
          BY <2>6, <3>1
        <5> QED
          BY <1>2, <1>3, <5>1, <5>2
      <4> QED
        BY <2>1, <2>2, <4>1
    <3>2. Written + 1 # 0
      BY <1>3
    <3> QED
      BY <3>1, <3>2 DEF ChunkAt
  <2>9. Delimited'
    BY <1>1, <2>1 DEF Delimited
  <2>10. Taken' = 4 * Written + Len(buffer')
    BY <1>2, <1>3, <2>4, <2>6
  <2>11. checkCapacity' => Len(dst') <= call'.cap
    BY <1>1, <2>1 DEF Follows, checkCapacity
  <2>12. Follows'
    BY <1>1, <1>4, <2>1, <2>2, <2>3, <2>4, <2>7, <2>8, <2>10, <2>11 DEF Follows
  <2> QED
    BY <2>1, <2>9, <2>12 DEF PInv, Running, Returned
<1>6. CASE GatherSkip
  <2>1. /\ src < end.srcLen /\ Len(buffer) < 4 /\ Value(src) > 63
        /\ IsSpace(call.options, At(src)) \/ garbage
        /\ src' = src + 1 /\ pc' = "gather"
        /\ UNCHANGED <<call, end, chunk, buffer, dst>>
    BY <1>1, <1>6 DEF GatherSkip, Gathering, garbage
  <2>2. src + 1 < Stop /\ Rank(Read, src + 1) = Taken
    BY <1>1, <1>2, <2>1, CharacterAt DEF Taken
  <2>3. /\ Stop' = Stop /\ Read' = Read /\ Where' = Where /\ Values' = Values
        /\ Written' = Written /\ \A q : ChunkAt(q)' = ChunkAt(q)
    BY <2>1, PromiseFixed DEF Written
  <2>4. Taken' = Taken
    BY <2>1, <2>2, <2>3 DEF Taken
  <2>5. Len(buffer') # 4
    <3>1. \A k \in Nat : k < 4 => k # 4
      OBVIOUS
    <3> QED
      BY <1>2, <2>1, <3>1
  <2>6. Delimited'
    BY <1>1, <2>1 DEF Delimited
  <2>7. checkCapacity' => Len(dst') <= call'.cap
    BY <1>1, <2>1 DEF Follows, checkCapacity
  <2>8. Follows'
    BY <1>1, <1>4, <2>1, <2>2, <2>3, <2>4, <2>5, <2>7 DEF Follows
  <2> QED
    BY <2>1, <2>6, <2>8 DEF PInv, Running, Returned
<1>7. CASE GatherReject
  <2>1. /\ src < end.srcLen /\ Len(buffer) < 4 /\ Value(src) > 64 /\ ~ garbage
        /\ At(src) # Pad
        /\ Return("InvalidBase64Character", src, Len(dst), FALSE)
        /\ UNCHANGED <<call, end, src, chunk, buffer, dst>>
    BY <1>1, <1>7 DEF GatherReject, Gathering, garbage
  <2>2. Stop = src + 1
    BY <1>1, <1>2, <2>1, CharacterAt
  <2>3. Stop <= end.srcLen /\ call.input[Stop] # Pad
    BY <1>2, <2>1, <2>2 DEF At
  <2>4. Decode(call) =
          [result |-> Finish(call, end,
                        [error |-> "InvalidBase64Character", inputCount |-> src,
                         outputCount |-> Len(dst), paddingError |-> FALSE]),
           bytes  |-> dst]
    BY <1>1, <2>1, <2>2, <2>3, AtTheStop
  <2> QED
    BY <1>1, <2>1, <2>4 DEF Return, PInv, Running, Returned, KeepsPromise, Delimited
<1>8. CASE FullTooSmall
  <2>1. /\ Len(buffer) = 4 /\ checkCapacity /\ ~ Room(3)
        /\ Return("OutputBufferTooSmall", ChunkAt(Written), Len(dst), FALSE)
        /\ UNCHANGED <<call, end, src, chunk, buffer, dst>>
    BY <1>4, <1>8 DEF FullTooSmall
  <2>2. 4 * Written + 4 <= Len(Values)
    BY <1>2, <1>3, <2>1
  <2>3. KeepsPromise'
    BY <1>1, <2>1, <2>2, ReturnsTooSmall
  <2> QED
    BY <1>1, <2>1, <2>3 DEF Return, PInv, Running, Delimited
<1>9. CASE FullChunk
  <2>1. /\ Len(buffer) = 4 /\ (~ checkCapacity \/ Room(3))
        /\ Write(ChunkBytes(buffer), "fast")
        /\ UNCHANGED <<call, end, src, chunk, buffer>>
    BY <1>9 DEF FullChunk
  <2>2. dst' = dst \o ChunkBytes(buffer) /\ pc' = "fast"
    BY <2>1 DEF Write, NoIndexPanic
  <2>3. 4 * Written + 4 = Taken /\ 4 * Written + 4 <= Len(Values)
    <3>1. Taken = 4 * Written + 4
      BY <1>3, <2>1
    <3> QED
      BY <1>2, <3>1
  <2>4. buffer = Quartet(Values, Written)
    BY <1>4, <2>3 DEF Quartet
  <2>5. /\ Written' = Written + 1 /\ Len(dst') = Len(dst) + 3 /\ Len(dst') = 3 * Written'
        /\ dst' = BytesOfChunks(SubSeq(Values', 1, 4 * Written'))
    BY <1>1, <2>1, <2>2, <2>3, <2>4, GroupWritten
  <2>6. Stop' = Stop /\ Read' = Read /\ Where' = Where
    BY <2>1, PromiseFixed
  <2>7. Taken' = 4 * Written'
    <3>1. Taken' = Taken
      BY <2>1, <2>6 DEF Taken
    <3> QED
      BY <1>3, <2>3, <2>5, <3>1
  <2>8. src' = ChunkAt(Written)'
    <3>1. src = ChunkAt(Written + 1)
      BY <1>1, <2>1 DEF Follows
    <3> QED
      BY <2>1, <2>5, <2>6, <3>1 DEF ChunkAt
  <2>9. checkCapacity' => Len(dst') <= call'.cap
    BY <2>1, <2>5 DEF checkCapacity, Room
  <2>10. Delimited'
    BY <1>1, <2>1 DEF Delimited
  <2>11. Follows'
    BY <1>1, <2>1, <2>2, <2>5, <2>6, <2>7, <2>8, <2>9 DEF Follows
  <2> QED
    BY <2>2, <2>10, <2>11 DEF PInv, Running, Returned
<1> QED
  BY <1>5, <1>6, <1>7, <1>8, <1>9 DEF Gather

(* ... the four-character loop, ...                                        *)
LEMMA FastKeepsPromise ==
  ASSUME IInv, PInv, Fast, NoIndexPanic' PROVE PInv'
<1>1. /\ pc = "fast" /\ TypeOK /\ AdmittedCall /\ Delimited /\ Follows
  BY DEF Fast, FastTooSmall, FastChunk, StartChunk, IInv, PInv, Running
<1>2. Values \in Seq(0..63) /\ dst \in Seq(0..255)
  BY <1>1, Promised DEF TypeOK
<1>3. src \in Nat /\ Len(dst) \in Nat /\ Len(Values) \in Nat
  BY <1>1, <1>2, LenProperties DEF TypeOK
<1>4. Written \in Nat /\ Taken = 4 * Written /\ src = ChunkAt(Written)
  BY <1>1, <1>3 DEF Written, Follows
<1>5. CASE FastTooSmall
  <2>1. /\ FourAhead /\ checkCapacity /\ ~ Room(3)
        /\ Return("OutputBufferTooSmall", ChunkAt(Written), Len(dst), FALSE)
        /\ UNCHANGED <<call, end, src, chunk, buffer, dst>>
    BY <1>4, <1>5 DEF FastTooSmall
  <2>2. 4 * Written + 4 <= Len(Values)
    BY <1>1, <1>4, <2>1, FourRead
  <2>3. KeepsPromise'
    BY <1>1, <2>1, <2>2, ReturnsTooSmall
  <2> QED
    BY <1>1, <2>1, <2>3 DEF Return, PInv, Running, Delimited
<1>6. CASE FastChunk
  <2> DEFINE four == <<Value(src), Value(src + 1), Value(src + 2), Value(src + 3)>>
  <2>1. /\ FourAhead /\ (~ checkCapacity \/ Room(3))
        /\ Write(ChunkBytes(four), "fast") /\ src' = src + 4
        /\ UNCHANGED <<call, end, chunk, buffer, res>>
    BY <1>6 DEF FastChunk
  <2> HIDE DEF four
  <2>2. dst' = dst \o ChunkBytes(four) /\ pc' = "fast"
    BY <2>1 DEF Write, NoIndexPanic
  <2>3. /\ src + 4 < Stop /\ Rank(Read, src + 4) = 4 * Written + 4
        /\ 4 * Written + 4 <= Len(Values) /\ Where[4 * Written + 4] = src + 4
        /\ Quartet(Values, Written) = four
    BY <1>1, <1>4, <2>1, FourRead DEF four
  <2>4. /\ Written' = Written + 1 /\ Len(dst') = Len(dst) + 3 /\ Len(dst') = 3 * Written'
        /\ dst' = BytesOfChunks(SubSeq(Values', 1, 4 * Written'))
    BY <1>1, <2>1, <2>2, <2>3, GroupWritten
  <2>5. Stop' = Stop /\ Read' = Read /\ Where' = Where
    BY <2>1, PromiseFixed
  <2>6. 4 * Written' = 4 * Written + 4 /\ Written' # 0
    BY <1>4, <2>4
  <2>7. Taken' = 4 * Written'
    BY <2>1, <2>3, <2>5, <2>6 DEF Taken
  <2>8. src' = ChunkAt(Written)'
    BY <2>1, <2>3, <2>5, <2>6 DEF ChunkAt
  <2>9. checkCapacity' => Len(dst') <= call'.cap
    BY <2>1, <2>4 DEF checkCapacity, Room
  <2>10. Delimited'
    BY <1>1, <2>1 DEF Delimited
  <2>11. Follows'
    BY <1>1, <2>1, <2>2, <2>3, <2>4, <2>5, <2>7, <2>8, <2>9 DEF Follows
  <2> QED
    BY <2>2, <2>10, <2>11 DEF PInv, Running, Returned
<1>7. CASE StartChunk
  <2>1. /\ chunk' = src /\ buffer' = << >> /\ pc' = "gather"
        /\ UNCHANGED <<call, end, src, dst, res>>
    BY <1>7 DEF StartChunk
  <2>2. /\ Stop' = Stop /\ Read' = Read /\ Where' = Where /\ Values' = Values
        /\ Written' = Written /\ Taken' = Taken
    BY <2>1, PromiseFixed DEF Written, Taken
  <2>3. SubSeq(Values, 4 * Written + 1, Taken) = << >>
    <3>1. 4 * Written + 1 \in Int /\ Taken \in Int /\ Taken < 4 * Written + 1
      BY <1>4
    <3> QED
      BY ONLY <3>1, SubSeqEmpty
  <2>4. buffer' = SubSeq(Values, 4 * Written + 1, Taken)
    BY <2>1, <2>3
  <2>5. Len(buffer') = 0
    BY <2>1
  <2>6. Taken' = 4 * Written + Len(buffer')
    BY <1>4, <2>2, <2>5
  <2>7. chunk' = ChunkAt(Written)'
    BY <1>4, <2>1, <2>2 DEF ChunkAt
  <2>8. checkCapacity' => Len(dst') <= call'.cap
    BY <1>1, <2>1 DEF Follows, checkCapacity
  <2>9. Delimited'
    BY <1>1, <2>1 DEF Delimited
  <2>10. Len(buffer') # 4
    BY <2>5
  <2>11. Follows'
    BY <1>1, <2>1, <2>2, <2>4, <2>6, <2>7, <2>8, <2>10 DEF Follows
  <2> QED
    BY <2>1, <2>9, <2>11 DEF PInv, Running, Returned
<1> QED
  BY <1>5, <1>6, <1>7 DEF Fast

(* A contiguous payload holds its values one after the other.              *)
LEMMA ContiguousPromise ==
  ASSUME TypeOK, NEW e, e = FindEnd(call.input, call.options), Contiguous(e)
  PROVE  LET s == StopPosition(call, e)
             P == AlphabetBefore(call, s)
             w == SignificantBefore(call, s)
             v == Sextets(call, w)
         IN  /\ s = e.srcLen + 1
             /\ v \in Seq(0..63) /\ Len(v) = e.srcLen
             /\ \A m \in 0..e.srcLen : Rank(P, m) = m
             /\ \A k \in 1..e.srcLen : w[k] = k /\ v[k] = Value(k - 1)
<1> DEFINE n == e.srcLen
           s == StopPosition(call, e)
           P == AlphabetBefore(call, s)
           w == SignificantBefore(call, s)
           v == Sextets(call, w)
<1>1. call.input \in CharTexts /\ n \in Nat /\ n <= Len(call.input)
  <2>1. call.input \in CharTexts
    BY DEF TypeOK, CallType, CharTexts
  <2>2. Len(call.input) \in Nat /\ TrailingPads(call.input) \in Nat
    BY <2>1, LenProperties DEF TrailingPads, CharTexts
  <2>3. e \in EndType /\ n <= Len(call.input) - TrailingPads(call.input)
    BY FindEndAdmits
  <2>4. n \in Nat
    BY <2>3 DEF EndType
  <2> HIDE DEF n
  <2> QED
    BY <2>1, <2>2, <2>3, <2>4
<1>2. /\ s \in Nat /\ s > 0 /\ s <= n + 1
      /\ P \in SUBSET Nat /\ IsFiniteSet(P)
      /\ \A i \in Nat : i \in P <=> /\ 1 <= i /\ i < s
                                    /\ IsAlphabet(call.options, call.input[i])
      /\ v \in Seq(0..63) /\ Len(v) \in Nat /\ Len(w) = Len(v)
      /\ Rank(P, 0) = 0 /\ Rank(P, s - 1) = Len(v)
      /\ \A m \in Nat : Rank(P, m) \in Nat /\ Rank(P, m) <= Len(v)
      /\ \A i \in P : /\ Rank(P, i) \in 1..Len(v)
                      /\ w[Rank(P, i)] = i
                      /\ v[Rank(P, i)] = ToValue(call.options, call.input[i])
  BY ONLY <1>1, PayloadFacts, SMTT(60)
<1>3. \A i \in 1..n : /\ ToValue(call.options, call.input[i]) = Value(i - 1)
                      /\ IsAlphabet(call.options, call.input[i])
  <2>1. ASSUME NEW i \in 1..n PROVE Value(i - 1) <= 63 /\ (i - 1) + 1 = i
    <3>1. i - 1 \in 0..(n - 1)
      BY <1>1
    <3>2. \A k \in 0..(n - 1) : Value(k) <= 63
      BY DEF Contiguous
    <3> QED
      BY <1>1, <3>1, <3>2
  <2> QED
    BY <2>1 DEF Value, At, IsAlphabet
<1>4. s = n + 1
  <2>1. s <= n => ~ IsAlphabet(call.options, call.input[s])
    BY <1>1, StopProperties
  <2>2. s \in Nat /\ s > 0 /\ s <= n + 1
    BY <1>2
  <2>3. s <= n => s \in 1..n
    BY <1>1, <2>2
  <2>4. ~ (s <= n)
    BY <1>3, <2>1, <2>3
  <2> HIDE DEF s, n
  <2> QED
    BY <1>1, <2>2, <2>4
<1> HIDE DEF s, P, w, v, n
<1>5. P = 1..n
  <2>1. P \in SUBSET Nat
    BY <1>2
  <2>2. \A i \in Nat : i \in P <=> /\ 1 <= i /\ i < s
                                   /\ IsAlphabet(call.options, call.input[i])
    BY <1>2
  <2>3. \A i \in Nat : 1 <= i /\ i < s <=> i \in 1..n
    BY <1>1, <1>4
  <2>4. \A i \in 1..n : i \in Nat
    BY <1>1
  <2>5. \A i \in Nat : i \in P <=> i \in 1..n
    BY <1>3, <2>2, <2>3
  <2> QED
    BY <2>1, <2>4, <2>5
<1>6. ASSUME NEW m \in 0..n PROVE Rank(P, m) = m
  <2>1. {j \in P : j <= m} = 1..m
    BY <1>1, <1>5
  <2>2. m \in Nat /\ Cardinality(1..m) = m
    <3>1. m \in Int /\ m - 1 + 1 = m /\ 1 \in Int
      BY <1>1
    <3>2. Cardinality(1..m) = IF 1 > m THEN 0 ELSE m - 1 + 1
      BY <3>1, FS_Interval
    <3> QED
      BY <1>1, <3>1, <3>2
  <2> QED
    BY <2>1, <2>2 DEF Rank
<1>7. Len(v) = n
  <2>1. s - 1 = n /\ n \in 0..n
    BY <1>1, <1>4
  <2> QED
    BY <1>2, <1>6, <2>1
<1>8. ASSUME NEW k \in 1..n PROVE w[k] = k /\ v[k] = Value(k - 1)
  <2>1. k \in 0..n /\ k \in P
    BY <1>1, <1>5
  <2>2. Rank(P, k) = k
    BY <1>6, <2>1
  <2> QED
    BY <1>2, <1>3, <2>1, <2>2
<1> QED
  BY <1>2, <1>4, <1>6, <1>7, <1>8 DEF s, P, w, v, n

(* The block kernels compute the bytes of whole chunks.                    *)
LEMMA BlocksAreChunks ==
  ASSUME NEW v \in Seq(0..63), NEW b \in Nat, 4 * b <= Len(v),
         \A k \in 1..Len(v) : v[k] = Value(k - 1)
  PROVE  BlockBytes(4 * b) = BytesOfChunks(SubSeq(v, 1, 4 * b))
<1> DEFINE B == BlockBytes(4 * b)
           C == BytesOfChunks(SubSeq(v, 1, 4 * b))
<1>1. Len(v) \in Nat /\ 4 * b \in Nat /\ (4 * b) \div 4 = b
  BY LenProperties
<1>2. \A i \in 0..(4 * b - 1) : Value(i) \in 0..63
  <2>1. ASSUME NEW i \in 0..(4 * b - 1) PROVE Value(i) \in 0..63
    <3>1. i + 1 \in 1..Len(v) /\ (i + 1) - 1 = i
      BY <1>1
    <3>2. v[i + 1] \in 0..63
      BY <3>1, ElementOfSeq
    <3> QED
      BY <3>1, <3>2
  <2> QED
    BY <2>1
<1>3. B \in Seq(0..255) /\ Len(B) = 3 * b
  BY <1>1, <1>2, BlockBytesType
<1>4. /\ C \in Seq(0..255) /\ Len(C) = 3 * b
      /\ \A i \in 1..(3 * b) :
           C[i] = ChunkBytes(Quartet(v, (i - 1) \div 3))[((i - 1) % 3) + 1]
  BY BytesOfChunksProperties
<1>5. ASSUME NEW i \in 1..(3 * b) PROVE B[i] = C[i]
  <2> DEFINE q == (i - 1) \div 3
             o == 4 * q
  <2>1. q \in Nat /\ q < b
    OBVIOUS
  <2>2. 4 * q + 4 <= Len(v)
    <3>1. \A x, y \in Nat : x < y => 4 * x + 4 <= 4 * y
      OBVIOUS
    <3>2. \A x, y, z \in Nat : x <= y /\ y <= z => x <= z
      OBVIOUS
    <3> HIDE DEF q
    <3>3. 4 * q + 4 \in Nat /\ 4 * q + 4 <= 4 * b
      BY <2>1, <3>1
    <3> QED
      BY <1>1, <3>2, <3>3
  <2>3. Quartet(v, q) = <<v[4 * q + 1], v[4 * q + 2], v[4 * q + 3], v[4 * q + 4]>>
    <3> HIDE DEF q
    <3> QED
      BY <2>1, <2>2, GroupProperties
  <2>4. /\ v[4 * q + 1] = Value(o) /\ v[4 * q + 2] = Value(o + 1)
        /\ v[4 * q + 3] = Value(o + 2) /\ v[4 * q + 4] = Value(o + 3)
    <3> HIDE DEF q
    <3>1. /\ 4 * q + 1 \in 1..Len(v) /\ 4 * q + 2 \in 1..Len(v)
          /\ 4 * q + 3 \in 1..Len(v) /\ 4 * q + 4 \in 1..Len(v)
      BY <1>1, <2>1, <2>2
    <3>2. /\ (4 * q + 1) - 1 = o /\ (4 * q + 2) - 1 = o + 1
          /\ (4 * q + 3) - 1 = o + 2 /\ (4 * q + 4) - 1 = o + 3
      BY <2>1
    <3> HIDE DEF o
    <3> QED
      BY <3>1, <3>2
  <2>5. B[i] = ChunkBytes(<<Value(o), Value(o + 1), Value(o + 2), Value(o + 3)>>)
                 [((i - 1) % 3) + 1]
    <3>1. i \in 1..(3 * ((4 * b) \div 4))
      BY <1>1
    <3> QED
      BY <3>1, Zenon DEF BlockBytes
  <2>6. C[i] = ChunkBytes(Quartet(v, q))[((i - 1) % 3) + 1]
    BY <1>4
  <2> HIDE DEF q, o
  <2> QED
    BY <2>3, <2>4, <2>5, <2>6
<1> HIDE DEF B, C
<1>6. B = C
  <2>1. Len(B) = Len(C) /\ \A i \in 1..Len(B) : B[i] = C[i]
    BY <1>3, <1>4, <1>5
  <2> QED
    BY <1>3, <1>4, <2>1, SeqEqual
<1> QED
  BY <1>6 DEF B, C

(* ... and entering the call.                                              *)
LEMMA EnterKeepsPromise ==
  ASSUME IInv, PInv, Enter, NoIndexPanic' PROVE PInv'
<1>1. pc = "call" /\ TypeOK /\ src = 0 /\ dst = << >>
  BY DEF Enter, Preflight, EmptyInput, StartScalar, StartContiguous, Admitted, IInv
<1>2. CASE Preflight
  BY <1>2 DEF Preflight, PInv, Running, Returned
<1> DEFINE e == FindEnd(call.input, call.options)
           s == StopPosition(call, e)
           P == AlphabetBefore(call, s)
           w == SignificantBefore(call, s)
           v == Sextets(call, w)
<1>3. CASE EmptyInput
  <2>1. /\ e.srcLen = 0 /\ end' = e /\ res' = EmptyPayload(call, e) /\ pc' = "returned"
        /\ call' = call /\ dst' = << >>
    BY <1>1, <1>3 DEF EmptyInput
  <2> HIDE DEF e
  <2>2. Decode(call') = [result |-> EmptyPayload(call, e), bytes |-> << >>]
    BY <2>1 DEF Decode, e
  <2> QED
    BY <2>1, <2>2 DEF PInv, Running, Returned, KeepsPromise, Delimited, e
<1>4. ASSUME end' = e, call' = call
      PROVE  /\ Delimited'
             /\ Stop' = s /\ Read' = P /\ Where' = w /\ Values' = v
  BY <1>4 DEF Delimited, Stop, Read, Where, Values
<1>5. call.input \in CharTexts /\ e.srcLen \in Nat /\ e.srcLen <= Len(call.input)
  <2>1. call.input \in CharTexts
    BY <1>1 DEF TypeOK, CallType, CharTexts
  <2>2. Len(call.input) \in Nat /\ TrailingPads(call.input) \in Nat
    BY <2>1, LenProperties DEF TrailingPads, CharTexts
  <2>3. e \in EndType /\ e.srcLen <= Len(call.input) - TrailingPads(call.input)
    BY <1>1, FindEndAdmits
  <2> HIDE DEF e
  <2>4. e.srcLen \in Nat
    BY <2>3 DEF EndType
  <2> QED
    BY <2>1, <2>2, <2>3, <2>4
<1> HIDE DEF e
<1>6. CASE StartScalar
  <2>1. /\ e.srcLen > 0 /\ end' = e /\ pc' = "fast" /\ call' = call
        /\ src' = 0 /\ dst' = << >>
    BY <1>1, <1>6 DEF StartScalar, e
  <2>2. s \in Nat /\ s > 0 /\ v \in Seq(0..63) /\ Rank(P, 0) = 0
    BY ONLY <1>5, PayloadFacts, SMTT(60)
  <2>3. Delimited' /\ Stop' = s /\ Read' = P /\ Where' = w /\ Values' = v
    BY <1>4, <2>1
  <2> HIDE DEF s, P, w, v
  <2>4. Len(dst') = 0 /\ Written' = 0
    BY <2>1 DEF Written
  <2>5. dst' = BytesOfChunks(SubSeq(v, 1, 4 * 0))
    <3>1. SubSeq(v, 1, 4 * 0) = << >>
      BY SubSeqEmpty
    <3>2. BytesOfChunks(<< >>) = << >>
      BY DEF BytesOfChunks
    <3> QED
      BY <2>1, <3>1, <3>2
  <2>6. checkCapacity' => Len(dst') <= call'.cap
    <3>1. call.cap \in Nat
      BY <1>1 DEF TypeOK, CallType
    <3> QED
      BY <2>1, <2>4, <3>1
  <2>7. Taken' = 0 /\ src' = ChunkAt(Written)'
    BY <2>1, <2>2, <2>3, <2>4 DEF Taken, ChunkAt
  <2>8. Follows'
    BY <2>1, <2>2, <2>3, <2>4, <2>5, <2>6, <2>7 DEF Follows
  <2> QED
    BY <2>1, <2>3, <2>8 DEF PInv, Running, Returned
<1>7. CASE StartContiguous
  <2> DEFINE n == e.srcLen
             blocks == (n \div Block) * Block
             b == blocks \div 4
  <2>1. /\ n > 0 /\ Contiguous(e) /\ end' = e /\ call' = call
        /\ Write(BlockBytes(blocks), "fast") /\ src' = blocks
    BY <1>1, <1>7 DEF StartContiguous, e
  <2>2. /\ s = n + 1 /\ v \in Seq(0..63) /\ Len(v) = n
        /\ \A m \in 0..n : Rank(P, m) = m
        /\ \A k \in 1..n : w[k] = k /\ v[k] = Value(k - 1)
    BY <1>1, <2>1, ContiguousPromise DEF e
  <2>3. Delimited' /\ Stop' = s /\ Read' = P /\ Where' = w /\ Values' = v
    BY <1>4, <2>1
  <2> HIDE DEF s, P, w, v
  <2>4. n \in Nat /\ blocks \in Nat /\ blocks <= n /\ b \in Nat /\ blocks = 4 * b
    <3>1. blocks \in Nat /\ blocks <= n
      BY <1>5, WholeBlocks
    <3>2. blocks % 4 = 0
      <4>1. Block \in Nat /\ Block > 0 /\ Block % 4 = 0
        BY BlockAssumption
      <4>2. PICK c \in Nat : Block = 4 * c
        BY <4>1
      <4>3. PICK d \in Nat : d = n \div Block
        BY <1>5, <4>1
      <4>4. blocks = 4 * (d * c)
        BY <4>2, <4>3
      <4>5. d * c \in Nat
        BY <4>2, <4>3
      <4>6. \A k \in Nat : (4 * k) % 4 = 0
        OBVIOUS
      <4> QED
        BY <4>4, <4>5, <4>6
    <3> HIDE DEF blocks
    <3> QED
      BY <1>5, <3>1, <3>2
  <2> HIDE DEF blocks, b, n
  <2>5. dst' = BlockBytes(blocks) /\ pc' = "fast"
    <3>1. dst' = dst \o BlockBytes(blocks) /\ pc' = "fast"
      BY <2>1 DEF Write, NoIndexPanic
    <3>2. \A i \in 0..(blocks - 1) : Value(i) \in 0..63
      <4>1. ASSUME NEW i \in 0..(blocks - 1) PROVE Value(i) \in 0..63
        <5>1. i + 1 \in 1..n /\ (i + 1) - 1 = i
          BY <2>4
        <5>2. v[i + 1] = Value(i)
          BY <2>2, <5>1
        <5>3. v[i + 1] \in 0..63
          BY <2>2, <5>1, ElementOfSeq
        <5> QED
          BY <5>2, <5>3
      <4> QED
        BY <4>1
    <3>3. BlockBytes(blocks) \in Seq(0..255)
      BY <2>4, <3>2, BlockBytesType
    <3>4. dst \o BlockBytes(blocks) = BlockBytes(blocks)
      BY <1>1, <3>3, ConcatEmptySeq
    <3> QED
      BY <3>1, <3>4
  <2>6. BlockBytes(blocks) = BytesOfChunks(SubSeq(v, 1, 4 * b))
    <3>1. 4 * b <= Len(v)
      BY <2>2, <2>4
    <3> QED
      BY <2>2, <2>4, <3>1, BlocksAreChunks
  <2>7. Len(dst') = 3 * b
    <3>1. 4 * b <= Len(v)
      BY <2>2, <2>4
    <3> QED
      BY <2>2, <2>4, <2>5, <2>6, <3>1, BytesOfChunksProperties
  <2>8. Written' = b
    BY <2>4, <2>7 DEF Written
  <2>9. src' < s
    BY <2>1, <2>2, <2>4
  <2>10. Taken' = 4 * b
    <3>1. blocks \in 0..n
      BY <2>4
    <3> QED
      BY <2>1, <2>2, <2>3, <2>4, <3>1 DEF Taken
  <2>11. src' = ChunkAt(Written)'
    <3>1. CASE b = 0
      BY <2>1, <2>4, <2>8, <3>1 DEF ChunkAt
    <3>2. CASE b # 0
      <4>1. 4 * b \in 1..n
        BY <2>4, <3>2
      <4> QED
        BY <2>1, <2>2, <2>3, <2>4, <2>8, <3>2, <4>1 DEF ChunkAt
    <3> QED
      BY <3>1, <3>2
  <2>12. ~ checkCapacity'
    BY <2>1 DEF Contiguous, checkCapacity
  <2>13. end'.srcLen > 0
    BY <2>1 DEF n
  <2>14. Follows'
    BY <2>3, <2>5, <2>6, <2>7, <2>8, <2>9, <2>10, <2>11, <2>12, <2>13 DEF Follows
  <2> QED
    BY <2>3, <2>5, <2>14 DEF PInv, Running, Returned
<1> QED
  BY <1>2, <1>3, <1>6, <1>7 DEF Enter

(* KeepsPromise: whatever the input, its options, the destination, the     *)
(* entry point, the provider and the block size, a call that returns has   *)
(* computed Decode(call), bytes and FullResult.                            *)
THEOREM PromiseInvariance == Spec => []PInv
<1>1. Init => PInv
  BY DEF Init, PInv, Running, Returned
<1>2. IInv /\ IInv' /\ PInv /\ [Next]_vars => PInv'
  <2> SUFFICES ASSUME IInv, IInv', PInv, [Next]_vars PROVE PInv'
    OBVIOUS
  <2>1. NoIndexPanic'
    BY DEF IInv
  <2>2. CASE Next
    BY <2>1, <2>2, EnterKeepsPromise, FastKeepsPromise, GatherKeepsPromise,
       LastKeepsPromise DEF Next
  <2>3. CASE UNCHANGED vars
    <3>1. /\ pc' = pc /\ call' = call /\ end' = end /\ src' = src /\ chunk' = chunk
          /\ buffer' = buffer /\ dst' = dst /\ res' = res
      BY <2>3 DEF vars
    <3>2. /\ Stop' = Stop /\ Read' = Read /\ Where' = Where /\ Values' = Values
          /\ Written' = Written /\ Taken' = Taken
      BY <3>1, PromiseFixed DEF Written, Taken
    <3>3. Delimited' = Delimited /\ (Running' <=> Running) /\ (Returned' <=> Returned)
      BY <3>1 DEF Delimited, Running, Returned
    <3>4. Delimited /\ Follows => Follows'
      BY <3>1, <3>2 DEF Follows, ChunkAt, checkCapacity
    <3>5. KeepsPromise => KeepsPromise'
      BY <3>1 DEF KeepsPromise, Returned
    <3> QED
      BY <3>3, <3>4, <3>5 DEF PInv
  <2> QED
    BY <2>2, <2>3
<1> QED
  BY <1>1, <1>2, Invariance, PTL DEF Spec

THEOREM KeepsItsPromise == Spec => []KeepsPromise
<1>1. PInv => KeepsPromise
  BY DEF PInv, KeepsPromise
<1> QED
  BY <1>1, PromiseInvariance, PTL

-----------------------------------------------------------------------------
(* What the promised answer says to the caller                             *)

LEMMA ReturnedFacts ==
  ASSUME TypeOK, PInv, Returned
  PROVE  /\ end = FindEnd(call.input, call.options)
         /\ res = Decode(call).result /\ dst = Decode(call).bytes
         /\ call.input \in CharTexts /\ call.cap \in Nat /\ Len(call.input) \in Nat
         /\ end \in EndType /\ end.srcLen \in Nat /\ end.equalSigns \in 0..2
         /\ end.fullInputLength \in Nat
         /\ end.srcLen <= Len(call.input) /\ end.fullInputLength <= Len(call.input)
<1>1. /\ end = FindEnd(call.input, call.options)
      /\ res = Decode(call).result /\ dst = Decode(call).bytes
  BY DEF PInv, KeepsPromise, Delimited
<1>2. call.input \in CharTexts /\ call.cap \in Nat /\ end \in EndType
  BY DEF TypeOK, CallType, CharTexts
<1>3. Len(call.input) \in Nat /\ TrailingPads(call.input) \in Nat
  BY <1>2, LenProperties DEF TrailingPads, CharTexts
<1>4. /\ end.srcLen <= Len(call.input) - TrailingPads(call.input)
      /\ end.fullInputLength <= Len(call.input)
  BY <1>1, FindEndAdmits
<1>5. end.srcLen \in Nat /\ end.fullInputLength \in Nat /\ end.equalSigns \in 0..2
  BY <1>2 DEF EndType
<1>6. end.srcLen <= Len(call.input)
  BY ONLY <1>3, <1>4, <1>5
<1> QED
  BY <1>1, <1>2, <1>3, <1>4, <1>5, <1>6

(* The promised values of a returned call (Promised, without AdmittedCall). *)
LEMMA ReturnedValues ==
  ASSUME TypeOK, PInv, Returned
  PROVE  /\ Stop \in Nat /\ Stop > 0 /\ Stop <= end.srcLen + 1
         /\ Read \in SUBSET Nat /\ IsFiniteSet(Read)
         /\ \A i \in Nat : i \in Read <=> /\ 1 <= i /\ i < Stop
                                         /\ IsAlphabet(call.options, call.input[i])
         /\ Values \in Seq(0..63) /\ Len(Values) \in Nat /\ Len(Where) = Len(Values)
         /\ Rank(Read, 0) = 0 /\ Rank(Read, Stop - 1) = Len(Values)
         /\ \A m \in Nat : Rank(Read, m) \in Nat /\ Rank(Read, m) <= Len(Values)
         /\ \A k \in 1..Len(Values) : Where[k] \in Read /\ Rank(Read, Where[k]) = k
<1>1. call.input \in CharTexts /\ end.srcLen \in Nat /\ end.srcLen <= Len(call.input)
  BY ReturnedFacts
<1> QED
  BY ONLY <1>1, PayloadFacts, SMTT(60) DEF Stop, Read, Where, Values

Complete == Len(Values) \div 4
Rest     == SubSeq(Values, 4 * Complete + 1, Len(Values))
Verdict  == TailVerdict(Rest, end.equalSigns, call.options, call.lastChunk,
                        call.cap - 3 * Complete)

LEMMA RestFacts ==
  ASSUME TypeOK, PInv, Returned
  PROVE  /\ Complete \in Nat /\ Len(Values) \in Nat
         /\ Len(Rest) \in 0..3 /\ Len(Values) = 4 * Complete + Len(Rest)
         /\ Rest \in Seq(0..63)
<1>1. Values \in Seq(0..63) /\ Len(Values) \in Nat
  BY ReturnedValues
<1>2. Complete \in Nat /\ 4 * Complete <= Len(Values) /\ Len(Values) <= 4 * Complete + 3
  <2>1. Len(Values) \in Nat
    BY <1>1
  <2> QED
    BY ONLY <2>1 DEF Complete
<1> DEFINE m == 4 * Complete + 1
           n == Len(Values)
<1>3. \A i \in m..n : Values[i] \in 0..63
  <2>1. \A i \in m..n : i \in 1..Len(Values)
    <3>1. Len(Values) \in Nat
      BY <1>1
    <3> QED
      BY ONLY <1>2, <3>1
  <2> QED
    BY <1>1, <2>1, ElementOfSeq
<1>4. m \in Int /\ n \in Int
  BY <1>1, <1>2
<1>5. /\ SubSeq(Values, m, n) \in Seq(0..63)
      /\ Len(SubSeq(Values, m, n)) = IF m <= n THEN n - m + 1 ELSE 0
  <2> HIDE DEF m, n
  <2> QED
    BY <1>3, <1>4, SubSeqProperties
<1>6. Len(Rest) = IF m <= n THEN n - m + 1 ELSE 0
  BY <1>5 DEF Rest
<1>7. n \in Nat
  BY <1>1
<1>8. Len(Rest) \in 0..3 /\ n = 4 * Complete + Len(Rest)
  <2>1. \A c, k, l \in Int :
          4 * c <= k /\ k <= 4 * c + 3 /\ l = (IF 4 * c + 1 <= k THEN k - (4 * c + 1) + 1 ELSE 0)
            => l \in 0..3 /\ k = 4 * c + l
    OBVIOUS
  <2>2. Len(Rest) \in Int /\ Complete \in Int /\ n \in Int
    BY ONLY <1>2, <1>6, <1>7
  <2> QED
    BY ONLY <1>2, <1>6, <2>1, <2>2
<1> QED
  BY <1>2, <1>5, <1>7, <1>8 DEF Rest

(* The answer of a returned call whose payload is not empty: what the tail *)
(* decoder concluded (raw), and the bytes it had written.                  *)
Concluded(raw, bytes) ==
  Outcome(call, end, Stop, Where, Values, Complete, Rest, Verdict, raw, bytes)

LEMMA AnswerCases ==
  ASSUME TypeOK, PInv, Returned, end.srcLen # 0
  PROVE  \E raw : res = Finish(call, end, raw) /\ Concluded(raw, dst)
<1>1. /\ end = FindEnd(call.input, call.options) /\ call.cap \in Nat /\ end.srcLen # 0
      /\ res = Decode(call).result /\ dst = Decode(call).bytes
  BY ReturnedFacts
<1>2. Len(Values) \in Nat
  BY ReturnedValues
<1>3. /\ Stop = StopPosition(call, end) /\ Where = SignificantBefore(call, Stop)
      /\ Values = Sextets(call, Where) /\ Complete = Len(Values) \div 4
      /\ Rest = SubSeq(Values, 4 * Complete + 1, Len(Values))
      /\ Verdict = TailVerdict(Rest, end.equalSigns, call.options, call.lastChunk,
                               call.cap - 3 * Complete)
  BY DEF Stop, Where, Values, Complete, Rest, Verdict
<1>4. HasOutcome(call, end, Stop, Where, Values, Complete, Rest, Verdict)
  BY ONLY <1>1, <1>2, <1>3, DecodeCases
<1>5. \A raw, b : DecodeAnswers(call, end, raw, b) => res = Finish(call, end, raw) /\ dst = b
  BY ONLY <1>1 DEF DecodeAnswers
<1> QED
  BY ONLY <1>4, <1>5, Zenon DEF HasOutcome, Concluded

(* Whole chunks: where the q-th ends, and how much the first q write.      *)
LEMMA ChunkFacts ==
  ASSUME TypeOK, PInv, Returned, NEW q \in Nat, q <= Complete
  PROVE  /\ ChunkStart(Where, q) \in Nat /\ ChunkStart(Where, q) < Stop
         /\ Rank(Read, ChunkStart(Where, q)) = 4 * q
         /\ WholeChunks(Values, q) \in Seq(0..255) /\ Len(WholeChunks(Values, q)) = 3 * q
<1>1. /\ Stop \in Nat /\ Stop > 0 /\ Read \in SUBSET Nat /\ Rank(Read, 0) = 0
      /\ \A i \in Nat : i \in Read <=> /\ 1 <= i /\ i < Stop
                                      /\ IsAlphabet(call.options, call.input[i])
      /\ Values \in Seq(0..63) /\ Len(Values) \in Nat
      /\ \A k \in 1..Len(Values) : Where[k] \in Read /\ Rank(Read, Where[k]) = k
  BY ReturnedValues
<1>2. 4 * q <= Len(Values) /\ (q # 0 => 4 * q \in 1..Len(Values))
  <2>1. Complete \in Nat /\ Len(Values) = 4 * Complete + Len(Rest) /\ Len(Rest) \in 0..3
    BY RestFacts
  <2>2. Len(Values) \in Nat
    BY <1>1
  <2> QED
    BY ONLY <2>1, <2>2, q \in Nat, q <= Complete
<1>3. /\ ChunkStart(Where, q) \in Nat /\ ChunkStart(Where, q) < Stop
      /\ Rank(Read, ChunkStart(Where, q)) = 4 * q
  <2>1. CASE q = 0
    BY ONLY <1>1, <2>1 DEF ChunkStart
  <2>2. CASE q # 0
    <3>1. ChunkStart(Where, q) = Where[4 * q]
      BY <2>2 DEF ChunkStart
    <3>2. Where[4 * q] \in Read /\ Rank(Read, Where[4 * q]) = 4 * q
      BY <1>1, <1>2, <2>2
    <3> QED
      BY <1>1, <3>1, <3>2
  <2> QED
    BY <2>1, <2>2
<1>4. /\ BytesOfChunks(SubSeq(Values, 1, 4 * q)) \in Seq(0..255)
      /\ Len(BytesOfChunks(SubSeq(Values, 1, 4 * q))) = 3 * q
  BY <1>1, <1>2, BytesOfChunksProperties
<1> QED
  BY <1>3, <1>4 DEF WholeChunks

(* The alphabet characters of the first m, up to the stop position.        *)
LEMMA ConsumedValues ==
  ASSUME TypeOK, PInv, Returned, NEW m \in Nat, m < Stop
  PROVE  Len(SignificantBefore(call, m + 1)) = Rank(Read, m)
<1> DEFINE P == AlphabetBefore(call, m + 1)
<1>1. P \in SUBSET Nat /\ IsFiniteSet(P) /\ SignificantBefore(call, m + 1) = Ascending(P)
  BY AlphabetBeforeType
<1>2. P = {j \in Read : j <= m}
  <2>1. \A i \in Nat : i \in Read <=> /\ 1 <= i /\ i < Stop
                                     /\ IsAlphabet(call.options, call.input[i])
    BY ReturnedValues
  <2>2. Read \in SUBSET Nat /\ Stop \in Nat
    BY ReturnedValues
  <2>3. \A i \in Nat : i \in P <=> /\ 1 <= i /\ i <= m
                                  /\ IsAlphabet(call.options, call.input[i])
    BY DEF AlphabetBefore
  <2>4. \A i \in Nat : i \in P <=> i \in Read /\ i <= m
    <3>1. \A i \in Nat : i <= m => i < Stop
      BY <2>2
    <3>2. \A i \in Nat : IsAlphabet(call.options, call.input[i]) \in BOOLEAN
      BY DEF IsAlphabet
    <3> HIDE DEF P
    <3> QED
      BY ONLY <2>1, <2>3, <3>1, <3>2, Zenon
  <2> HIDE DEF P
  <2> QED
    BY ONLY <1>1, <2>2, <2>4, Zenon
<1>3. Len(Ascending(P)) = Cardinality(P)
  <2> HIDE DEF P
  <2> QED
    BY <1>1, AscendingProperties
<1> QED
  BY <1>1, <1>2, <1>3 DEF Rank

(* What the tail decoder may have concluded, by the kind of its verdict.   *)
LEMMA ConcludedFacts ==
  ASSUME TypeOK, PInv, Returned, NEW raw, NEW bytes, Concluded(raw, bytes)
  PROVE  /\ raw \in FullResult
         /\ raw.error = "Success" => ~ raw.paddingError
         /\ raw.error = "InvalidBase64Character" /\ ~ raw.paddingError
              => Offender(call, end, Stop) /\ raw.inputCount = Stop - 1
         /\ raw.error = "OutputBufferTooSmall" =>
              /\ ~ raw.paddingError
              /\ \E q \in Nat : /\ q <= Complete
                               /\ raw.inputCount = ChunkStart(Where, q)
                               /\ raw.outputCount = 3 * q
                               /\ bytes = WholeChunks(Values, q)
                               /\ call.cap < (3 * Len(Values)) \div 4
         /\ raw.error = "Success" =>
              \/ /\ Verdict = "Decoded" /\ ~ Offender(call, end, Stop)
                 /\ raw.outputCount = 3 * Complete + Len(Rest) - 1
                 /\ bytes = WholeChunks(Values, Complete) \o ChunkBytes(Rest)
              \/ /\ Verdict \in {"Held", "Nothing"} /\ ~ Offender(call, end, Stop)
                 /\ raw.outputCount = 3 * Complete
                 /\ bytes = WholeChunks(Values, Complete)
                 /\ raw.inputCount = IF Verdict = "Held" THEN ChunkStart(Where, Complete)
                                     ELSE Stop - 1
<1>1. /\ Complete \in Nat /\ Len(Values) \in Nat /\ Len(Rest) \in 0..3
      /\ Len(Values) = 4 * Complete + Len(Rest)
  BY RestFacts
<1>2. Stop \in Nat /\ Stop - 1 \in Nat
  BY ReturnedValues
<1>3. call.cap \in Nat /\ end.equalSigns \in 0..2
  BY ReturnedFacts
<1>4. /\ Verdict \in DOMAIN TailErrors
      /\ Verdict = "NoRoom" => Len(Rest) >= 2 /\ call.cap - 3 * Complete < Len(Rest) - 1
      /\ Verdict = "Decoded" => Len(Rest) >= 2
  <2>1. call.cap - 3 * Complete \in Int
    BY <1>1, <1>3
  <2>2. Len(Rest) \in 0..3 /\ end.equalSigns \in 0..2
    BY <1>1, <1>3
  <2>3. Verdict = TailVerdict(Rest, end.equalSigns, call.options, call.lastChunk,
                              call.cap - 3 * Complete)
    BY DEF Verdict
  <2> QED
    BY ONLY <2>1, <2>2, <2>3, VerdictProperties
<1>5. \A q \in Nat : q <= Complete => ChunkStart(Where, q) \in Nat
  BY ChunkFacts
<1>6. ASSUME NEW e \in Errors, NEW c \in Nat, NEW n \in Nat, NEW p \in BOOLEAN,
             raw = Raw(e, c, n, p)
      PROVE  /\ raw \in FullResult /\ raw.error = e /\ raw.inputCount = c
             /\ raw.outputCount = n /\ raw.paddingError = p
  BY <1>6 DEF Raw, FullResult
<1>7. CASE \E q \in Nat :
             /\ q < Complete /\ call.cap < 3 * q + 3
             /\ raw = Raw("OutputBufferTooSmall", ChunkStart(Where, q), 3 * q, FALSE)
             /\ bytes = WholeChunks(Values, q)
  <2> PICK q \in Nat :
             /\ q < Complete /\ call.cap < 3 * q + 3
             /\ raw = Raw("OutputBufferTooSmall", ChunkStart(Where, q), 3 * q, FALSE)
             /\ bytes = WholeChunks(Values, q)
    BY <1>7
  <2>1. q <= Complete /\ 3 * q \in Nat
    BY <1>1
  <2>2. ChunkStart(Where, q) \in Nat
    BY <1>5, <2>1
  <2>3. call.cap < (3 * Len(Values)) \div 4
    <3>1. q < Complete /\ call.cap < 3 * q + 3
      OBVIOUS
    <3>2. \A a, b, l, r \in Nat : a < b /\ l = 4 * b + r => 3 * a + 3 <= (3 * l) \div 4
      OBVIOUS
    <3>3. (3 * Len(Values)) \div 4 \in Nat /\ 3 * q + 3 <= (3 * Len(Values)) \div 4
      BY ONLY <1>1, <3>1, <3>2, q \in Nat
    <3> QED
      BY ONLY <1>3, <3>1, <3>3, q \in Nat
  <2>4. "OutputBufferTooSmall" \in Errors /\ FALSE \in BOOLEAN
    BY DEF Errors
  <2>5. /\ raw \in FullResult /\ raw.error = "OutputBufferTooSmall"
        /\ raw.inputCount = ChunkStart(Where, q)
        /\ raw.outputCount = 3 * q /\ raw.paddingError = FALSE
    BY ONLY <1>6, <2>1, <2>2, <2>4,
       raw = Raw("OutputBufferTooSmall", ChunkStart(Where, q), 3 * q, FALSE)
  <2> QED
    BY ONLY <2>1, <2>3, <2>5, q \in Nat, bytes = WholeChunks(Values, q)
<1>8. CASE /\ Offender(call, end, Stop)
           /\ raw = Raw("InvalidBase64Character", Stop - 1, 3 * Complete, FALSE)
           /\ bytes = WholeChunks(Values, Complete)
  <2>1. /\ raw \in FullResult /\ raw.error = "InvalidBase64Character"
        /\ raw.inputCount = Stop - 1 /\ raw.paddingError = FALSE
    <3>1. "InvalidBase64Character" \in Errors /\ 3 * Complete \in Nat
      BY <1>1 DEF Errors
    <3> QED
      BY ONLY <1>2, <1>6, <1>8, <3>1
  <2> QED
    BY ONLY <1>8, <2>1
<1>9. CASE /\ ~ Offender(call, end, Stop) /\ Verdict = "Decoded"
           /\ raw = Raw("Success", Stop - 1, 3 * Complete + Len(Rest) - 1, FALSE)
           /\ bytes = WholeChunks(Values, Complete) \o ChunkBytes(Rest)
  <2>1. /\ raw \in FullResult /\ raw.error = "Success" /\ raw.paddingError = FALSE
        /\ raw.outputCount = 3 * Complete + Len(Rest) - 1
    <3>1. "Success" \in Errors /\ 3 * Complete + Len(Rest) - 1 \in Nat
      BY <1>1, <1>4, <1>9 DEF Errors
    <3> QED
      BY ONLY <1>2, <1>6, <1>9, <3>1
  <2> QED
    BY ONLY <1>9, <2>1
<1>10. CASE /\ ~ Offender(call, end, Stop) /\ Verdict # "Decoded"
            /\ raw = Raw(TailErrors[Verdict],
                         IF Verdict \in {"Held", "NoRoom"}
                         THEN ChunkStart(Where, Complete) ELSE Stop - 1,
                         3 * Complete,
                         Verdict \in {"Misfit", "StrictMisfit", "LonePadding"})
            /\ bytes = WholeChunks(Values, Complete)
  <2> DEFINE count == IF Verdict \in {"Held", "NoRoom"} THEN ChunkStart(Where, Complete)
                      ELSE Stop - 1
             padding == Verdict \in {"Misfit", "StrictMisfit", "LonePadding"}
  <2>1. count \in Nat /\ 3 * Complete \in Nat /\ Complete <= Complete
    BY <1>1, <1>2, <1>5
  <2>2. /\ TailErrors[Verdict] \in Errors
        /\ TailErrors[Verdict] = "Success" => Verdict \in {"Held", "Nothing"}
        /\ TailErrors[Verdict] = "InvalidBase64Character"
             => Verdict \in {"Misfit", "LonePadding"}
        /\ TailErrors[Verdict] = "OutputBufferTooSmall" => Verdict = "NoRoom"
    BY ONLY <1>4, <1>10 DEF TailErrors, Errors
  <2>3. /\ raw \in FullResult /\ raw.error = TailErrors[Verdict]
        /\ raw.inputCount = count /\ raw.outputCount = 3 * Complete
        /\ raw.paddingError = padding
    <3>1. padding \in BOOLEAN /\ raw = Raw(TailErrors[Verdict], count, 3 * Complete, padding)
      BY <1>10
    <3> HIDE DEF count, padding
    <3> QED
      BY ONLY <1>6, <2>1, <2>2, <3>1
  <2>4. Verdict = "NoRoom" => call.cap < (3 * Len(Values)) \div 4
    <3>1. \A b, l, r, k \in Nat : l = 4 * b + r /\ r \in 2..3 /\ k - 3 * b < r - 1
            => k < (3 * l) \div 4
      OBVIOUS
    <3>2. Len(Rest) \in Nat /\ call.cap \in Nat
      BY ONLY <1>1, <1>3
    <3>3. Verdict = "NoRoom" => Len(Rest) \in 2..3 /\ call.cap - 3 * Complete < Len(Rest) - 1
      <4>1. Verdict = "NoRoom" => Len(Rest) >= 2 /\ call.cap - 3 * Complete < Len(Rest) - 1
        BY ONLY <1>4, Zenon
      <4>2. \A r \in 0..3 : r >= 2 => r \in 2..3
        OBVIOUS
      <4>3. Len(Rest) \in 0..3
        BY <1>1
      <4> QED
        BY ONLY <4>1, <4>2, <4>3, Zenon
    <3> QED
      BY ONLY <1>1, <3>1, <3>2, <3>3
  <2>5. CASE Verdict = "NoRoom"
    BY ONLY <1>1, <1>10, <2>1, <2>2, <2>3, <2>4, <2>5 DEF TailErrors
  <2>6. CASE Verdict # "NoRoom"
    BY ONLY <1>10, <2>2, <2>3, <2>6
  <2> QED
    BY <2>5, <2>6
<1> QED
  BY ONLY <1>7, <1>8, <1>9, <1>10, Concluded(raw, bytes), Zenon DEF Concluded, Outcome

(* An answer of a payload that is not empty, reduced to the conclusion it  *)
(* was made of.                                                            *)
LEMMA AnswerFacts ==
  ASSUME TypeOK, PInv, Returned, end.srcLen # 0
  PROVE  \E raw :
           /\ Concluded(raw, dst) /\ raw \in FullResult
           /\ res.outputCount = raw.outputCount
           /\ raw.error # "Success" =>
                res.error = raw.error /\ res.paddingError = raw.paddingError
           /\ raw.error # "Success" /\ ~ raw.paddingError => res.inputCount = raw.inputCount
           /\ raw.error = "Success" =>
                \/ res.error = "Success"
                \/ /\ res.error = "InvalidBase64Character"
                   /\ call.entry # "upToBadChar" => res.paddingError
           /\ res.error = "Success" /\ ~ IsPartial(call.lastChunk)
                => res.inputCount = end.fullInputLength
           /\ res.error = "Success" /\ IsPartial(call.lastChunk) =>
                \/ res.inputCount = end.fullInputLength
                \/ /\ raw.outputCount % 3 = 0
                   /\ \/ res.inputCount = raw.inputCount
                      \/ /\ raw.inputCount < end.fullInputLength
                         /\ res.inputCount = TrimIgnorable(call.input, call.options,
                                               raw.inputCount, end.fullInputLength)
<1>1. PICK raw : res = Finish(call, end, raw) /\ Concluded(raw, dst)
  BY AnswerCases
<1>2. raw \in FullResult /\ (raw.error = "Success" => ~ raw.paddingError)
  BY <1>1, ConcludedFacts
<1>3. end \in EndType
  BY ReturnedFacts
<1> QED
  BY ONLY <1>1, <1>2, <1>3, FinishProperties

(* An InvalidBase64Character of no padding is the stop position's.         *)
THEOREM PointsAtOffender == Spec => []ErrorAtOffender
<1>1. ASSUME TypeOK, PInv PROVE ErrorAtOffender
  <2> DEFINE fine(i) == \/ IsAlphabet(call.options, At(i))
                        \/ IsIgnorable(call.options, At(i))
  <2> SUFFICES ASSUME Returned, res.error = "InvalidBase64Character", ~ res.paddingError,
                      call.entry # "upToBadChar"
               PROVE  /\ res.inputCount < Len(call.input)
                      /\ ~ fine(res.inputCount) /\ At(res.inputCount) # Pad
                      /\ \A i \in 0..(res.inputCount - 1) : fine(i)
    BY <1>1 DEF ErrorAtOffender
  <2>1. /\ end = FindEnd(call.input, call.options) /\ res = Decode(call).result
        /\ end.srcLen \in Nat /\ end.srcLen <= Len(call.input) /\ Len(call.input) \in Nat
    BY <1>1, ReturnedFacts
  <2>2. end.srcLen # 0
    <3> SUFFICES ASSUME end.srcLen = 0 PROVE FALSE
      OBVIOUS
    <3>1. res = EmptyPayload(call, end)
      BY <2>1 DEF Decode
    <3> QED
      BY <3>1 DEF EmptyPayload
  <2>3. PICK raw : /\ Concluded(raw, dst)
                   /\ raw.error # "Success" =>
                        res.error = raw.error /\ res.paddingError = raw.paddingError
                   /\ raw.error # "Success" /\ ~ raw.paddingError
                        => res.inputCount = raw.inputCount
                   /\ raw.error = "Success" =>
                        \/ res.error = "Success"
                        \/ /\ res.error = "InvalidBase64Character"
                           /\ call.entry # "upToBadChar" => res.paddingError
    BY <1>1, <2>2, AnswerFacts
  <2>4. raw.error = "InvalidBase64Character" /\ ~ raw.paddingError
    BY <2>3
  <2>5. Offender(call, end, Stop) /\ res.inputCount = Stop - 1
    BY <1>1, <2>3, <2>4, ConcludedFacts
  <2>6. /\ Stop \in 1..(end.srcLen + 1)
        /\ Stop <= end.srcLen => /\ ~ IsAlphabet(call.options, call.input[Stop])
                                 /\ ~ IsIgnorable(call.options, call.input[Stop])
        /\ \A i \in 1..(Stop - 1) : \/ IsAlphabet(call.options, call.input[i])
                                   \/ IsIgnorable(call.options, call.input[i])
    BY <2>1, StopProperties DEF Stop
  <2>7. Stop <= end.srcLen /\ call.input[Stop] # Pad
    BY <2>5 DEF Offender
  <2>8. At(res.inputCount) = call.input[Stop] /\ res.inputCount < Len(call.input)
    <3>1. (Stop - 1) + 1 = Stop /\ Stop - 1 < Len(call.input)
      BY <2>1, <2>6, <2>7
    <3> QED
      BY <2>5, <3>1 DEF At
  <2>9. \A i \in 0..(res.inputCount - 1) : fine(i)
    <3>1. \A i \in 0..((Stop - 1) - 1) : i + 1 \in 1..(Stop - 1)
      BY <2>6
    <3> QED
      BY <2>5, <2>6, <3>1 DEF At
  <2> QED
    BY <2>6, <2>7, <2>8, <2>9
<1>2. TypeOK /\ PInv => ErrorAtOffender
  BY <1>1
<1> QED
  BY <1>2, TypeCorrect, PromiseInvariance, PTL

(* A call that stops early reports consumed the characters of its bytes.   *)
THEOREM StopsAtChunk == Spec => []ResumePoint
<1>1. ASSUME TypeOK, PInv PROVE ResumePoint
  <2> DEFINE consumed == Len(SignificantBefore(call, res.inputCount + 1))
             total    == Len(SignificantBefore(call, StopPosition(call, end)))
  <2> SUFFICES ASSUME Returned, Stopped, res.inputCount # end.fullInputLength,
                      garbage /\ res.error = "Success" => pads = 0
               PROVE  /\ 3 * consumed = 4 * Len(dst)
                      /\ res.outputCount = Len(dst)
                      /\ IF res.error = "Success" THEN total - consumed < 4
                         ELSE call.cap < (3 * total) \div 4
    BY <1>1 DEF ResumePoint
  <2>1. /\ res = Decode(call).result /\ dst = Decode(call).bytes
        /\ end = FindEnd(call.input, call.options)
        /\ end.srcLen \in Nat /\ end.equalSigns \in 0..2
        /\ end.fullInputLength \in 0..Len(call.input) /\ call.input \in CharTexts
    BY <1>1, ReturnedFacts
  <2>2. /\ Stop \in Nat /\ Stop - 1 \in Nat /\ Stop - 1 < Stop /\ Stop <= end.srcLen + 1
        /\ Rank(Read, 0) = 0 /\ Rank(Read, Stop - 1) = Len(Values)
    BY <1>1, ReturnedValues
  <2>3. total = Len(Values)
    BY <1>1, ReturnedValues DEF Where, Stop
  <2>4. \A m \in Nat : m < Stop => Len(SignificantBefore(call, m + 1)) = Rank(Read, m)
    BY <1>1, ConsumedValues
  <2>5. /\ Complete \in Nat /\ Len(Values) \in Nat /\ Len(Rest) \in 0..3
        /\ Len(Values) = 4 * Complete + Len(Rest)
    BY <1>1, RestFacts
  <2>6. \A q \in Nat : q <= Complete =>
          /\ ChunkStart(Where, q) \in Nat /\ ChunkStart(Where, q) < Stop
          /\ Rank(Read, ChunkStart(Where, q)) = 4 * q
          /\ Len(WholeChunks(Values, q)) = 3 * q
    BY <1>1, ChunkFacts
  <2> HIDE DEF consumed, total
  <2>7. CASE end.srcLen = 0
    <3>1. res = EmptyPayload(call, end) /\ dst = << >>
      BY <2>1, <2>7 DEF Decode
    <3>2. res.error = "Success" /\ res.outputCount = 0
      BY <3>1 DEF EmptyPayload, Stopped
    <3>3. res.inputCount = 0
      BY <3>1, <3>2 DEF EmptyPayload
    <3>4. Stop - 1 = 0
      BY <2>1, <2>2, <2>7
    <3>5. consumed = 0 /\ total = 0
      <4>1. Len(SignificantBefore(call, 0 + 1)) = 0
        BY <2>2, <2>4, <3>4
      <4> QED
        BY <2>2, <2>3, <3>3, <3>4, <4>1 DEF consumed
    <3>6. Len(dst) = 0
      BY <3>1
    <3> QED
      BY <3>2, <3>5, <3>6
  <2>8. CASE end.srcLen # 0
    <3>1. PICK raw :
            /\ Concluded(raw, dst) /\ raw \in FullResult
            /\ res.outputCount = raw.outputCount
            /\ raw.error # "Success" =>
                 res.error = raw.error /\ res.paddingError = raw.paddingError
            /\ raw.error # "Success" /\ ~ raw.paddingError => res.inputCount = raw.inputCount
            /\ raw.error = "Success" =>
                 \/ res.error = "Success"
                 \/ /\ res.error = "InvalidBase64Character"
                    /\ call.entry # "upToBadChar" => res.paddingError
            /\ res.error = "Success" /\ IsPartial(call.lastChunk) =>
                 \/ res.inputCount = end.fullInputLength
                 \/ /\ raw.outputCount % 3 = 0
                    /\ \/ res.inputCount = raw.inputCount
                       \/ /\ raw.inputCount < end.fullInputLength
                          /\ res.inputCount = TrimIgnorable(call.input, call.options,
                                                raw.inputCount, end.fullInputLength)
      BY <1>1, <2>8, AnswerFacts
    <3>2. CASE res.error = "OutputBufferTooSmall"
      <4>1. raw.error = "OutputBufferTooSmall"
        BY <3>1, <3>2
      <4>2. ~ raw.paddingError
        BY <1>1, <3>1, <4>1, ConcludedFacts
      <4>3. PICK q \in Nat : /\ q <= Complete
                             /\ raw.inputCount = ChunkStart(Where, q)
                             /\ raw.outputCount = 3 * q
                             /\ dst = WholeChunks(Values, q)
                             /\ call.cap < (3 * Len(Values)) \div 4
        BY <1>1, <3>1, <4>1, ConcludedFacts
      <4>4. res.inputCount = ChunkStart(Where, q) /\ res.outputCount = 3 * q
        BY <3>1, <4>1, <4>2, <4>3
      <4>5. consumed = 4 * q
        BY <2>4, <2>6, <4>3, <4>4 DEF consumed
      <4>6. Len(dst) = 3 * q
        BY <2>6, <4>3
      <4> QED
        BY <2>3, <3>2, <4>3, <4>4, <4>5, <4>6
    <3>3. CASE res.error = "Success" /\ IsPartial(call.lastChunk)
      <4>1. raw.error = "Success"
        BY <3>1, <3>3
      <4>2. /\ raw.outputCount % 3 = 0
            /\ \/ res.inputCount = raw.inputCount
               \/ /\ raw.inputCount < end.fullInputLength
                  /\ res.inputCount = TrimIgnorable(call.input, call.options,
                                        raw.inputCount, end.fullInputLength)
        BY <3>1, <3>3
      <4>3. Verdict # "Decoded"
        <5>1. Verdict = "Decoded" => Len(Rest) >= 2
          <6>1. call.cap - 3 * Complete \in Int
            BY <1>1, <2>5, ReturnedFacts
          <6>2. end.equalSigns \in 0..2 /\ Len(Rest) \in 0..3
            BY <2>1, <2>5
          <6> QED
            BY ONLY <6>1, <6>2, VerdictProperties DEF Verdict
        <5>2. \A a \in Nat, r \in 2..3 : (3 * a + r - 1) % 3 # 0
          OBVIOUS
        <5>3. Verdict = "Decoded" => raw.outputCount = 3 * Complete + Len(Rest) - 1
          BY <1>1, <3>1, <4>1, ConcludedFacts
        <5>4. Len(Rest) >= 2 => Len(Rest) \in 2..3
          <6>1. \A r \in 0..3 : r >= 2 => r \in 2..3
            OBVIOUS
          <6>2. Len(Rest) \in 0..3
            BY <2>5
          <6> QED
            BY ONLY <6>1, <6>2, Zenon
        <5> QED
          BY <2>5, <4>2, <5>1, <5>2, <5>3, <5>4
      <4>4. /\ Verdict \in {"Held", "Nothing"} /\ raw.outputCount = 3 * Complete
            /\ dst = WholeChunks(Values, Complete)
            /\ raw.inputCount = IF Verdict = "Held" THEN ChunkStart(Where, Complete)
                                ELSE Stop - 1
        BY <1>1, <3>1, <4>1, <4>3, ConcludedFacts
      <4>5. Verdict = "Nothing" => Len(Rest) = 0
        <5>1. call.cap - 3 * Complete \in Int
          BY <1>1, <2>5, ReturnedFacts
        <5>2. end.equalSigns \in 0..2 /\ Len(Rest) \in 0..3
          BY <2>1, <2>5
        <5>3. Verdict = "Nothing" =>
                /\ Len(Rest) < 2
                /\ Len(Rest) = 1 => IgnoreGarbage(call.options)
                                    /\ (IsPartial(call.lastChunk) => end.equalSigns # 0)
          BY ONLY <5>1, <5>2, VerdictProperties DEF Verdict
        <5>4. IgnoreGarbage(call.options) => end.equalSigns = 0
          BY <3>3 DEF garbage, pads
        <5>5. \A r \in 0..3 : r < 2 /\ r # 1 => r = 0
          OBVIOUS
        <5> QED
          BY ONLY <3>3, <5>2, <5>3, <5>4, <5>5, Zenon
      <4>6. raw.inputCount \in Nat /\ raw.inputCount < Stop /\ Rank(Read, raw.inputCount) = 4 * Complete
        <5>1. Complete <= Complete
          BY <2>5
        <5>2. CASE Verdict = "Held"
          BY <2>5, <2>6, <4>4, <5>1, <5>2
        <5>3. CASE Verdict = "Nothing"
          BY <2>2, <2>5, <4>4, <4>5, <5>3
        <5> QED
          BY <4>4, <5>2, <5>3
      <4>7. consumed = Len(SignificantBefore(call, raw.inputCount + 1))
        <5>1. CASE res.inputCount = raw.inputCount
          BY <5>1 DEF consumed
        <5>2. CASE /\ raw.inputCount < end.fullInputLength
                   /\ res.inputCount = TrimIgnorable(call.input, call.options,
                                         raw.inputCount, end.fullInputLength)
          <6>1. SignificantBefore(call, res.inputCount + 1)
                  = SignificantBefore(call, raw.inputCount + 1)
            BY <2>1, <4>6, <5>2, TrimKeepsValues
          <6> QED
            BY <6>1 DEF consumed
        <5> QED
          BY <4>2, <5>1, <5>2
      <4>8. consumed = 4 * Complete
        BY <2>4, <4>6, <4>7
      <4>9. Len(dst) = 3 * Complete /\ res.outputCount = 3 * Complete
        <5>1. Complete <= Complete
          BY <2>5
        <5> QED
          BY <2>5, <2>6, <3>1, <4>4, <5>1
      <4>10. total - consumed < 4
        <5>1. \A a \in Nat, r \in 0..3 : (4 * a + r) - 4 * a < 4
          OBVIOUS
        <5> QED
          BY <2>3, <2>5, <4>8, <5>1
      <4> QED
        BY <2>5, <3>3, <4>8, <4>9, <4>10
    <3> QED
      BY <3>2, <3>3 DEF Stopped
  <2> QED
    BY <2>7, <2>8
<1>2. TypeOK /\ PInv => ResumePoint
  BY <1>1
<1> QED
  BY <1>2, TypeCorrect, PromiseInvariance, PTL

(* A text without '=' inside and without an offender is read to its end.   *)
LEMMA WholeText ==
  ASSUME TypeOK, PInv, Returned, ~ InteriorPad(call), ~ Offender(call, end, Stop)
  PROVE  Stop = end.srcLen + 1 /\ Payload(call) = Values
<1>1. end = FindEnd(call.input, call.options) /\ end.srcLen \in Nat
  BY ReturnedFacts
<1>2. Stop \in Nat /\ Stop > 0 /\ Stop <= end.srcLen + 1
  BY ReturnedValues
<1>3. ~ (Stop <= end.srcLen)
  <2> SUFFICES ASSUME Stop <= end.srcLen PROVE FALSE
    OBVIOUS
  <2>1. call.input[Stop] = Pad
    BY DEF Offender
  <2>2. Stop \in 1..end.srcLen
    BY <1>1, <1>2
  <2> QED
    BY <1>1, <2>1, <2>2 DEF InteriorPad
<1>4. Stop = end.srcLen + 1
  BY <1>1, <1>2, <1>3
<1> QED
  BY <1>1, <1>4 DEF Payload, Values, Where

(* When garbage is refused, the values read are the visible characters.    *)
LEMMA VisibleValues ==
  ASSUME TypeOK, PInv, Returned, Stop = end.srcLen + 1, ~ garbage
  PROVE  BinaryLength(call.input) = (3 * Len(Values)) \div 4
<1> DEFINE P == {i \in 1..Len(call.input) : call.input[i] # Space}
<1>1. /\ end = FindEnd(call.input, call.options) /\ call.input \in CharTexts
      /\ end.srcLen \in Nat /\ Len(call.input) \in Nat /\ end.srcLen <= Len(call.input)
  BY ReturnedFacts
<1>2. BinaryLength(call.input) = (3 * Rank(P, end.srcLen)) \div 4
  BY <1>1, BinaryLengthOfPayload DEF garbage
<1>3. \A i \in 1..end.srcLen : \/ IsAlphabet(call.options, call.input[i])
                              \/ IsIgnorable(call.options, call.input[i])
  <2>1. (end.srcLen + 1) - 1 = end.srcLen
    BY <1>1
  <2> QED
    BY <1>1, <2>1, StopProperties DEF Stop
<1>4. \A i \in 1..end.srcLen : IsAlphabet(call.options, call.input[i]) <=> call.input[i] # Space
  <2> SUFFICES ASSUME NEW i \in 1..end.srcLen
               PROVE  IsAlphabet(call.options, call.input[i]) <=> call.input[i] # Space
    OBVIOUS
  <2>1. call.input[i] \in Char
    <3>1. i \in 1..Len(call.input)
      BY <1>1
    <3> QED
      BY <1>1, <3>1, ElementOfSeq DEF CharTexts
  <2>2. ToValue(call.options, call.input[i]) = 64 <=> call.input[i] = Space
    BY <2>1, OnlySpaceIsSpace
  <2>3. \/ IsAlphabet(call.options, call.input[i])
        \/ ToValue(call.options, call.input[i]) = 64
    BY <1>3 DEF IsIgnorable, IsSpace, garbage
  <2>4. ToValue(call.options, call.input[i]) = 64 => ~ IsAlphabet(call.options, call.input[i])
    BY DEF IsAlphabet
  <2> QED
    BY ONLY <2>2, <2>3, <2>4, Zenon
<1>5. {j \in P : j <= end.srcLen} = {j \in Read : j <= end.srcLen}
  <2>1. /\ Read \in SUBSET Nat
        /\ \A i \in Nat : i \in Read <=> /\ 1 <= i /\ i < end.srcLen + 1
                                        /\ IsAlphabet(call.options, call.input[i])
    BY ReturnedValues
  <2>2. \A i \in Nat : i <= end.srcLen /\ 1 <= i => i \in 1..end.srcLen /\ i < end.srcLen + 1
                                                   /\ i \in 1..Len(call.input)
    BY <1>1
  <2>3. \A i \in Nat : i \in P => 1 <= i
    OBVIOUS
  <2>4. \A i \in Nat : i <= end.srcLen => (i \in P <=> i \in Read)
    BY <1>4, <2>1, <2>2, <2>3
  <2>5. P \in SUBSET Nat
    OBVIOUS
  <2> HIDE DEF P
  <2> QED
    BY ONLY <2>1, <2>4, <2>5
<1>6. Rank(P, end.srcLen) = Len(Values)
  <2>1. Rank(Read, Stop - 1) = Len(Values) /\ Stop - 1 = end.srcLen
    BY <1>1, ReturnedValues
  <2> QED
    BY <1>5, <2>1 DEF Rank
<1> QED
  BY <1>2, <1>6

(* A successful answer that is not partial, of a text without '=' inside:  *)
(* all its values, in whole chunks and an incomplete one.                  *)
LEMMA DecodedText ==
  ASSUME TypeOK, PInv, Returned, end.srcLen # 0,
         res.error = "Success", ~ IsPartial(call.lastChunk), ~ InteriorPad(call)
  PROVE  /\ Stop = end.srcLen + 1 /\ Payload(call) = Values
         /\ res.inputCount = end.fullInputLength
         /\ res.outputCount = Len(dst) /\ Len(dst) = (3 * Len(Values)) \div 4
         /\ \/ /\ Verdict = "Decoded" /\ Len(Rest) \in 2..3
               /\ dst = WholeChunks(Values, Complete) \o ChunkBytes(Rest)
            \/ /\ Verdict = "Nothing" /\ Len(Rest) \in 0..1
               /\ dst = WholeChunks(Values, Complete)
<1>1. PICK raw :
        /\ Concluded(raw, dst) /\ raw \in FullResult
        /\ res.outputCount = raw.outputCount
        /\ raw.error # "Success" => res.error = raw.error
        /\ res.error = "Success" /\ ~ IsPartial(call.lastChunk)
             => res.inputCount = end.fullInputLength
  BY AnswerFacts
<1>2. raw.error = "Success"
  BY <1>1
<1>3. \/ /\ Verdict = "Decoded" /\ ~ Offender(call, end, Stop)
         /\ raw.outputCount = 3 * Complete + Len(Rest) - 1
         /\ dst = WholeChunks(Values, Complete) \o ChunkBytes(Rest)
      \/ /\ Verdict \in {"Held", "Nothing"} /\ ~ Offender(call, end, Stop)
         /\ raw.outputCount = 3 * Complete
         /\ dst = WholeChunks(Values, Complete)
  BY <1>1, <1>2, ConcludedFacts
<1>4. Stop = end.srcLen + 1 /\ Payload(call) = Values
  BY <1>3, WholeText
<1>5. /\ Complete \in Nat /\ Len(Values) \in Nat /\ Len(Rest) \in 0..3
      /\ Len(Values) = 4 * Complete + Len(Rest) /\ Rest \in Seq(0..63)
  BY RestFacts
<1>6. Len(WholeChunks(Values, Complete)) = 3 * Complete
      /\ WholeChunks(Values, Complete) \in Seq(0..255)
  BY <1>5, ChunkFacts
<1>7. /\ Verdict = "Held" => IsPartial(call.lastChunk)
      /\ Verdict = "Decoded" => Len(Rest) >= 2
      /\ Verdict = "Nothing" => Len(Rest) < 2
  <2>1. call.cap - 3 * Complete \in Int
    BY <1>5, ReturnedFacts
  <2>2. end.equalSigns \in 0..2 /\ Len(Rest) \in 0..3
    BY <1>5, ReturnedFacts
  <2> QED
    BY ONLY <2>1, <2>2, VerdictProperties DEF Verdict
<1>8. \A a \in Nat, r \in 0..3 :
        /\ r >= 2 => r \in 2..3 /\ 3 * a + r - 1 = (3 * (4 * a + r)) \div 4
        /\ r < 2  => r \in 0..1 /\ 3 * a = (3 * (4 * a + r)) \div 4
  OBVIOUS
<1>9. CASE /\ Verdict = "Decoded"
           /\ raw.outputCount = 3 * Complete + Len(Rest) - 1
           /\ dst = WholeChunks(Values, Complete) \o ChunkBytes(Rest)
  <2>1. Len(Rest) \in 2..3 /\ 3 * Complete + Len(Rest) - 1 = (3 * Len(Values)) \div 4
    BY ONLY <1>5, <1>7, <1>8, <1>9
  <2>2. ChunkBytes(Rest) \in Seq(0..255) /\ Len(ChunkBytes(Rest)) = Len(Rest) - 1
    <3>1. Len(Rest) \in 2..4
      <4>1. \A r \in 2..3 : r \in 2..4
        OBVIOUS
      <4> QED
        BY ONLY <2>1, <4>1
    <3> QED
      BY <1>5, <3>1, ChunkBytesType
  <2>3. Len(dst) = 3 * Complete + Len(Rest) - 1
    <3>1. Len(WholeChunks(Values, Complete) \o ChunkBytes(Rest))
            = Len(WholeChunks(Values, Complete)) + Len(ChunkBytes(Rest))
      BY <1>6, <2>2, ConcatProperties
    <3>2. \A a \in Nat, r \in 0..3 : 3 * a + (r - 1) = 3 * a + r - 1
      OBVIOUS
    <3>3. Len(dst) = 3 * Complete + (Len(Rest) - 1)
      BY ONLY <1>6, <1>9, <2>2, <3>1
    <3> QED
      BY ONLY <1>5, <3>2, <3>3
  <2> QED
    BY ONLY <1>1, <1>4, <1>9, <2>1, <2>3, res.error = "Success", ~ IsPartial(call.lastChunk)
<1>10. CASE /\ Verdict \in {"Held", "Nothing"}
            /\ raw.outputCount = 3 * Complete
            /\ dst = WholeChunks(Values, Complete)
  <2>1. Verdict = "Nothing"
    BY <1>7, <1>10
  <2>2. Len(Rest) \in 0..1 /\ 3 * Complete = (3 * Len(Values)) \div 4
    BY ONLY <1>5, <1>7, <1>8, <2>1
  <2> QED
    BY ONLY <1>1, <1>4, <1>6, <1>10, <2>1, <2>2, res.error = "Success", ~ IsPartial(call.lastChunk)
<1> QED
  BY ONLY <1>3, <1>9, <1>10

(* An empty payload accepted without padding: nothing to decode.           *)
LEMMA EmptyText ==
  ASSUME TypeOK, PInv, Returned, end.srcLen = 0, res.error = "Success"
  PROVE  /\ Stop = end.srcLen + 1 /\ Payload(call) = Values /\ Len(Values) = 0
         /\ res.outputCount = 0 /\ dst = << >>
         /\ ~ garbage => end.equalSigns = 0
<1>1. /\ end = FindEnd(call.input, call.options) /\ end.equalSigns \in 0..2
      /\ res = Decode(call).result /\ dst = Decode(call).bytes
  BY ReturnedFacts
<1>2. res = EmptyPayload(call, end) /\ dst = << >>
  BY <1>1 DEF Decode
<1>3. res.outputCount = 0 /\ (~ garbage => end.equalSigns = 0)
  BY <1>1, <1>2 DEF EmptyPayload, garbage
<1>4. Stop = 1 /\ Rank(Read, 0) = 0 /\ Rank(Read, Stop - 1) = Len(Values)
  <2>1. /\ Stop \in Nat /\ Stop > 0 /\ Stop <= end.srcLen + 1
        /\ Rank(Read, 0) = 0 /\ Rank(Read, Stop - 1) = Len(Values)
    BY ReturnedValues
  <2> QED
    BY <2>1
<1>5. Stop = end.srcLen + 1
  BY <1>4
<1>6. Payload(call) = Values
  BY <1>1, <1>5 DEF Payload, Values, Where
<1> QED
  BY <1>2, <1>3, <1>4, <1>5, <1>6

(* A full decode that succeeds has decoded the whole text and announced it *)
(* right.                                                                  *)
THEOREM DecodesWholeText == Spec => []DecodesEverything
<1>1. ASSUME TypeOK, PInv PROVE DecodesEverything
  <2> SUFFICES ASSUME Returned, res.error = "Success", ~ IsPartial(call.lastChunk),
                      ~ InteriorPad(call)
               PROVE  /\ res.outputCount = Len(dst)
                      /\ Len(dst) = (3 * Len(Payload(call))) \div 4
                      /\ ~ garbage => Len(dst) = BinaryLength(call.input)
                      /\ end.srcLen > 0 => res.inputCount = end.fullInputLength
    BY <1>1 DEF DecodesEverything
  <2>1. CASE end.srcLen = 0
    <3>1. /\ Stop = end.srcLen + 1 /\ Payload(call) = Values /\ Len(Values) = 0
          /\ res.outputCount = 0 /\ dst = << >>
      BY <1>1, <2>1, EmptyText
    <3>2. Len(dst) = 0 /\ (3 * 0) \div 4 = 0
      BY <3>1
    <3>3. ~ garbage => BinaryLength(call.input) = (3 * Len(Values)) \div 4
      BY <1>1, <3>1, VisibleValues
    <3> QED
      BY <2>1, <3>1, <3>2, <3>3
  <2>2. CASE end.srcLen # 0
    <3>1. /\ Stop = end.srcLen + 1 /\ Payload(call) = Values
          /\ res.inputCount = end.fullInputLength
          /\ res.outputCount = Len(dst) /\ Len(dst) = (3 * Len(Values)) \div 4
      BY <1>1, <2>2, DecodedText
    <3>2. ~ garbage => BinaryLength(call.input) = (3 * Len(Values)) \div 4
      BY <1>1, <3>1, VisibleValues
    <3> QED
      BY <3>1, <3>2
  <2> QED
    BY <2>1, <2>2
<1>2. TypeOK /\ PInv => DecodesEverything
  BY <1>1
<1> QED
  BY <1>2, TypeCorrect, PromiseInvariance, PTL

-----------------------------------------------------------------------------
(* Strict decoding is canonical                                            *)

(* The bytes of group q are those of the chunk of these four values, and   *)
(* the canonical encoding has these values there.                          *)
GroupBytes(b, q, v1, v2, v3, v4) ==
  /\ ByteOf(b, 3 * q + 1) = v1 * 4 + v2 \div 16
  /\ ByteOf(b, 3 * q + 2) = (v2 % 16) * 16 + v3 \div 4
  /\ ByteOf(b, 3 * q + 3) = (v3 % 4) * 64 + v4

GroupValues(b, q, v1, v2, v3, v4) ==
  /\ Canonical(b, 4 * q + 1) = v1 /\ Canonical(b, 4 * q + 2) = v2
  /\ Canonical(b, 4 * q + 3) = v3 /\ Canonical(b, 4 * q + 4) = v4

LEMMA CanonicalGroup ==
  ASSUME NEW b, NEW q \in Nat,
         NEW v1 \in 0..63, NEW v2 \in 0..63, NEW v3 \in 0..63, NEW v4 \in 0..63,
         GroupBytes(b, q, v1, v2, v3, v4)
  PROVE  GroupValues(b, q, v1, v2, v3, v4)
<1> DEFINE x == ByteOf(b, 3 * q + 1)
           y == ByteOf(b, 3 * q + 2)
           z == ByteOf(b, 3 * q + 3)
<1>1. /\ v1 = x \div 4 /\ v2 = (x % 4) * 16 + y \div 16
      /\ v3 = (y % 16) * 4 + z \div 64 /\ v4 = z % 64
  <2> HIDE DEF x, y, z
  <2>1. /\ x = v1 * 4 + v2 \div 16 /\ y = (v2 % 16) * 16 + v3 \div 4
        /\ z = (v3 % 4) * 64 + v4
    BY DEF x, y, z, GroupBytes
  <2>2. v1 \in 0..63 /\ v2 \in 0..63 /\ v3 \in 0..63 /\ v4 \in 0..63
    OBVIOUS
  <2>3. Splits(v1, v2, v3, v4, x, y, z)
    BY ONLY <2>1, <2>2, BytesSplit
  <2> QED
    BY ONLY <2>3 DEF Splits
<1>2. \A i \in 1..4 : (4 * q + i - 1) \div 4 = q
  OBVIOUS
<1>3. /\ (4 * q + 1) % 4 = 1 /\ (4 * q + 2) % 4 = 2
      /\ (4 * q + 3) % 4 = 3 /\ (4 * q + 4) % 4 = 0
  OBVIOUS
<1>4. /\ (4 * q + 1 - 1) \div 4 = q /\ (4 * q + 2 - 1) \div 4 = q
      /\ (4 * q + 3 - 1) \div 4 = q /\ (4 * q + 4 - 1) \div 4 = q
  BY <1>2
<1>5. Canonical(b, 4 * q + 1) = x \div 4
  BY ONLY <1>3, <1>4 DEF Canonical
<1>6. Canonical(b, 4 * q + 2) = (x % 4) * 16 + y \div 16
  BY ONLY <1>3, <1>4 DEF Canonical
<1>7. Canonical(b, 4 * q + 3) = (y % 16) * 4 + z \div 64
  BY ONLY <1>3, <1>4 DEF Canonical
<1>8. Canonical(b, 4 * q + 4) = z % 64
  BY ONLY <1>3, <1>4 DEF Canonical
<1> HIDE DEF x, y, z
<1> QED
  BY ONLY <1>1, <1>5, <1>6, <1>7, <1>8 DEF GroupValues

(* The values v are c chunks and n more values, last, of which no bit is   *)
(* lost; b are their bytes.                                                *)
Text(v, c, n, last, b) ==
  /\ Len(v) = 4 * c + n /\ Len(last) = n
  /\ \A i \in 1..n : last[i] = v[4 * c + i]
  /\ n = 0 => b = WholeChunks(v, c)
  /\ n # 0 => b = WholeChunks(v, c) \o ChunkBytes(last) /\ ~ HasExtraBits(last)

(* Such values are the canonical encoding of their bytes.                  *)
LEMMA CanonicalText ==
  ASSUME NEW v \in Seq(0..63), NEW c \in Nat, NEW n \in {0, 2, 3},
         NEW last \in Seq(0..63), NEW b, Text(v, c, n, last, b)
  PROVE  v = CanonicalSextets(b)
<1> USE DEF Text
<1> DEFINE W == WholeChunks(v, c)
           T == ChunkBytes(last)
           t == IF n = 0 THEN 0 ELSE n - 1
<1>1. /\ W \in Seq(0..255) /\ Len(W) = 3 * c
      /\ \A i \in 1..(3 * c) :
           W[i] = ChunkBytes(Quartet(v, (i - 1) \div 3))[((i - 1) % 3) + 1]
  <2>1. 4 * c <= Len(v)
    OBVIOUS
  <2> QED
    BY <2>1, BytesOfChunksProperties DEF WholeChunks
<1>2. n # 0 => /\ T \in Seq(0..255) /\ Len(T) = n - 1
               /\ T[1] = last[1] * 4 + last[2] \div 16
               /\ n = 3 => T[2] = (last[2] % 16) * 16 + last[3] \div 4
  <2> SUFFICES ASSUME n # 0
               PROVE  /\ T \in Seq(0..255) /\ Len(T) = n - 1
                      /\ T[1] = last[1] * 4 + last[2] \div 16
                      /\ n = 3 => T[2] = (last[2] % 16) * 16 + last[3] \div 4
    OBVIOUS
  <2>1. Len(last) \in 2..4 /\ (n = 3 => Len(last) > 2)
    OBVIOUS
  <2>2. T \in Seq(0..255) /\ Len(T) = Len(last) - 1
    BY <2>1, ChunkBytesType
  <2>3. /\ T[1] = last[1] * 4 + last[2] \div 16
        /\ Len(last) > 2 => T[2] = (last[2] % 16) * 16 + last[3] \div 4
    BY <2>1, ChunkByteByByte
  <2> QED
    BY ONLY <2>1, <2>2, <2>3, Len(last) = n
<1>3. /\ b = IF n = 0 THEN W ELSE W \o T
  OBVIOUS
<1>4. n # 0 => ~ HasExtraBits(last)
  OBVIOUS
<1> HIDE DEF W, T, t
<1>5. Len(b) = 3 * c + t /\ \A i \in 1..(3 * c) : b[i] = W[i]
  <2>1. CASE n = 0
    BY <1>1, <1>3, <2>1 DEF t
  <2>2. CASE n # 0
    <3>0. W \in Seq(0..255) /\ T \in Seq(0..255)
      BY <1>1, <1>2, <2>2
    <3>1. /\ Len(W \o T) = Len(W) + Len(T)
          /\ \A i \in 1..(Len(W) + Len(T)) :
               (W \o T)[i] = IF i <= Len(W) THEN W[i] ELSE T[i - Len(W)]
      BY ONLY <3>0, ConcatProperties
    <3>2. Len(W) = 3 * c /\ Len(T) = n - 1 /\ b = W \o T /\ t = n - 1 /\ n - 1 \in Nat
      BY <1>1, <1>2, <1>3, <2>2 DEF t
    <3>3. \A i \in 1..(3 * c) : i \in 1..(3 * c + (n - 1)) /\ i <= 3 * c
      BY <3>2
    <3> QED
      BY ONLY <3>1, <3>2, <3>3
  <2> QED
    BY <2>1, <2>2
<1>6. n # 0 => b[3 * c + 1] = T[1] /\ (n = 3 => b[3 * c + 2] = T[2])
  <2> SUFFICES ASSUME n # 0 PROVE b[3 * c + 1] = T[1] /\ (n = 3 => b[3 * c + 2] = T[2])
    OBVIOUS
  <2>0. W \in Seq(0..255) /\ T \in Seq(0..255)
    BY <1>1, <1>2
  <2>1. \A i \in 1..(Len(W) + Len(T)) :
          (W \o T)[i] = IF i <= Len(W) THEN W[i] ELSE T[i - Len(W)]
    BY ONLY <2>0, ConcatProperties
  <2>2. Len(W) = 3 * c /\ Len(T) = n - 1 /\ b = W \o T
    BY <1>1, <1>2, <1>3
  <2>3. /\ 3 * c + 1 \in 1..(3 * c + (n - 1)) /\ ~ (3 * c + 1 <= 3 * c)
        /\ (3 * c + 1) - 3 * c = 1
        /\ n = 3 => /\ 3 * c + 2 \in 1..(3 * c + (n - 1)) /\ ~ (3 * c + 2 <= 3 * c)
                    /\ (3 * c + 2) - 3 * c = 2
    OBVIOUS
  <2> QED
    BY ONLY <2>1, <2>2, <2>3
<1>7. \A i \in 1..(4 * c + n) : v[i] \in 0..63
  BY ElementOfSeq
<1>8. ASSUME NEW q \in Nat, q < c
      PROVE  /\ Canonical(b, 4 * q + 1) = v[4 * q + 1] /\ Canonical(b, 4 * q + 2) = v[4 * q + 2]
             /\ Canonical(b, 4 * q + 3) = v[4 * q + 3] /\ Canonical(b, 4 * q + 4) = v[4 * q + 4]
  <2> DEFINE g == Quartet(v, q)
  <2>1. 4 * q + 4 <= Len(v)
    BY <1>8
  <2>2. g \in Seq(0..63) /\ Len(g) = 4 /\ \A i \in 1..4 : g[i] = v[4 * q + i]
    BY <2>1, GroupProperties
  <2> HIDE DEF g
  <2>3. g[1] = v[4 * q + 1] /\ g[2] = v[4 * q + 2] /\ g[3] = v[4 * q + 3] /\ g[4] = v[4 * q + 4]
    BY <2>2
  <2>4. g[1] \in 0..63 /\ g[2] \in 0..63 /\ g[3] \in 0..63 /\ g[4] \in 0..63
    <3>1. /\ 4 * q + 1 \in 1..(4 * c + n) /\ 4 * q + 2 \in 1..(4 * c + n)
          /\ 4 * q + 3 \in 1..(4 * c + n) /\ 4 * q + 4 \in 1..(4 * c + n)
      BY <1>8
    <3> QED
      BY <1>7, <2>3, <3>1
  <2>5. /\ ChunkBytes(g)[1] = g[1] * 4 + g[2] \div 16
        /\ ChunkBytes(g)[2] = (g[2] % 16) * 16 + g[3] \div 4
        /\ ChunkBytes(g)[3] = (g[3] % 4) * 64 + g[4]
    <3>1. Len(g) \in 2..4 /\ Len(g) > 2 /\ Len(g) > 3
      BY <2>2
    <3> QED
      BY <2>2, <3>1, ChunkByteByByte
  <2>6. /\ 3 * q + 1 \in 1..(3 * c) /\ ((3 * q + 1) - 1) \div 3 = q /\ (((3 * q + 1) - 1) % 3) + 1 = 1
        /\ 3 * q + 2 \in 1..(3 * c) /\ ((3 * q + 2) - 1) \div 3 = q /\ (((3 * q + 2) - 1) % 3) + 1 = 2
        /\ 3 * q + 3 \in 1..(3 * c) /\ ((3 * q + 3) - 1) \div 3 = q /\ (((3 * q + 3) - 1) % 3) + 1 = 3
    BY <1>8
  <2>7. /\ b[3 * q + 1] = ChunkBytes(g)[1] /\ b[3 * q + 2] = ChunkBytes(g)[2]
        /\ b[3 * q + 3] = ChunkBytes(g)[3]
    BY ONLY <1>1, <1>5, <2>6 DEF g
  <2>8. /\ ByteOf(b, 3 * q + 1) = b[3 * q + 1] /\ ByteOf(b, 3 * q + 2) = b[3 * q + 2]
        /\ ByteOf(b, 3 * q + 3) = b[3 * q + 3]
    <3>1. 3 * q + 1 <= Len(b) /\ 3 * q + 2 <= Len(b) /\ 3 * q + 3 <= Len(b)
      <4>1. t \in Nat
        BY DEF t
      <4> QED
        BY <1>5, <1>8, <4>1
    <3> QED
      BY <3>1 DEF ByteOf
  <2>9. GroupBytes(b, q, g[1], g[2], g[3], g[4])
    BY ONLY <2>5, <2>7, <2>8 DEF GroupBytes
  <2>10. GroupValues(b, q, g[1], g[2], g[3], g[4])
    BY ONLY <2>4, <2>9, q \in Nat, CanonicalGroup
  <2> QED
    BY ONLY <2>3, <2>10 DEF GroupValues
<1>9. ASSUME n # 0
      PROVE  /\ Canonical(b, 4 * c + 1) = v[4 * c + 1] /\ Canonical(b, 4 * c + 2) = v[4 * c + 2]
             /\ n = 3 => Canonical(b, 4 * c + 3) = v[4 * c + 3]
  <2> DEFINE l3 == IF n = 3 THEN last[3] ELSE 0
  <2>1. last[1] = v[4 * c + 1] /\ last[2] = v[4 * c + 2] /\ (n = 3 => last[3] = v[4 * c + 3])
    <3>1. 1 \in 1..n /\ 2 \in 1..n /\ (n = 3 => 3 \in 1..n)
      BY <1>9
    <3> QED
      BY <3>1
  <2>2. last[1] \in 0..63 /\ last[2] \in 0..63 /\ l3 \in 0..63
    <3>1. /\ 4 * c + 1 \in 1..(4 * c + n) /\ 4 * c + 2 \in 1..(4 * c + n)
          /\ n = 3 => 4 * c + 3 \in 1..(4 * c + n)
      BY <1>9
    <3> QED
      BY <1>7, <2>1, <3>1
  <2>3. IF n = 2 THEN last[2] % 16 = 0 ELSE l3 % 4 = 0
    BY <1>4, <1>9 DEF HasExtraBits
  <2>4. ByteOf(b, 3 * c + 1) = last[1] * 4 + last[2] \div 16
    <3>1. 3 * c + 1 <= Len(b)
      BY <1>5, <1>9 DEF t
    <3> QED
      BY ONLY <1>2, <1>6, <1>9, <3>1 DEF ByteOf
  <2>5. ByteOf(b, 3 * c + 2) = (last[2] % 16) * 16 + l3 \div 4
    <3>1. CASE n = 2
      <4>1. ~ (3 * c + 2 <= Len(b))
        BY <1>5, <3>1 DEF t
      <4>2. ByteOf(b, 3 * c + 2) = 0
        BY <4>1 DEF ByteOf
      <4>3. l3 = 0 /\ last[2] % 16 = 0
        BY <2>3, <3>1
      <4>4. 0 * 16 + 0 \div 4 = 0
        OBVIOUS
      <4> HIDE DEF l3
      <4> QED
        BY ONLY <4>2, <4>3, <4>4
    <3>2. CASE n = 3
      <4>1. 3 * c + 2 <= Len(b)
        BY <1>5, <3>2 DEF t
      <4>2. ByteOf(b, 3 * c + 2) = T[2]
        BY ONLY <1>6, <1>9, <3>2, <4>1 DEF ByteOf
      <4> QED
        BY ONLY <1>2, <1>9, <3>2, <4>2
    <3> QED
      BY ONLY <1>9, <3>1, <3>2, n \in {0, 2, 3}
  <2>6. ByteOf(b, 3 * c + 3) = (l3 % 4) * 64 + 0
    <3>1. ~ (3 * c + 3 <= Len(b))
      BY <1>5 DEF t
    <3>2. ByteOf(b, 3 * c + 3) = 0
      BY <3>1 DEF ByteOf
    <3>3. l3 % 4 = 0
      <4>1. CASE n = 2
        <5>1. l3 = 0 /\ 0 % 4 = 0
          BY <4>1
        <5> QED
          BY <5>1
      <4>2. CASE n = 3
        BY <2>3, <4>2
      <4> QED
        BY ONLY <1>9, <4>1, <4>2, n \in {0, 2, 3}
    <3>4. 0 * 64 + 0 = 0
      OBVIOUS
    <3> HIDE DEF l3
    <3> QED
      BY ONLY <3>2, <3>3, <3>4
  <2>7. 0 \in 0..63
    OBVIOUS
  <2>8. n = 3 => l3 = last[3]
    OBVIOUS
  <2> HIDE DEF l3
  <2>9. GroupBytes(b, c, last[1], last[2], l3, 0)
    BY ONLY <2>4, <2>5, <2>6 DEF GroupBytes
  <2>10. GroupValues(b, c, last[1], last[2], l3, 0)
    BY ONLY <2>2, <2>7, <2>9, c \in Nat, CanonicalGroup
  <2> QED
    BY ONLY <2>1, <2>8, <2>10 DEF GroupValues
<1>10. ASSUME NEW i \in 1..(4 * c + n) PROVE Canonical(b, i) = v[i]
  <2> DEFINE q == (i - 1) \div 4
  <2>1. q \in Nat /\ (i = 4 * q + 1 \/ i = 4 * q + 2 \/ i = 4 * q + 3 \/ i = 4 * q + 4)
    OBVIOUS
  <2> HIDE DEF q
  <2>2. CASE q < c
    BY ONLY <1>8, <2>1, <2>2
  <2>3. CASE ~ (q < c)
    <3>1. q = c /\ n # 0 /\ i # 4 * q + 4 /\ (i = 4 * q + 3 => n = 3)
      BY <2>1, <2>3
    <3> QED
      BY ONLY <1>9, <2>1, <3>1
  <2> QED
    BY <2>2, <2>3
<1>11. (4 * Len(b) + 2) \div 3 = 4 * c + n
  <2>1. \A k \in Nat : /\ (4 * (3 * k + 0) + 2) \div 3 = 4 * k + 0
                       /\ (4 * (3 * k + 1) + 2) \div 3 = 4 * k + 2
                       /\ (4 * (3 * k + 2) + 2) \div 3 = 4 * k + 3
    OBVIOUS
  <2>2. (n = 0 /\ t = 0) \/ (n = 2 /\ t = 1) \/ (n = 3 /\ t = 2)
    BY DEF t
  <2> QED
    BY ONLY <1>5, <2>1, <2>2, c \in Nat
<1>12. CanonicalSextets(b) = [i \in 1..(4 * c + n) |-> Canonical(b, i)]
  BY ONLY <1>11, Zenon DEF CanonicalSextets, Canonical, ByteOf
<1>13. v = [i \in 1..(4 * c + n) |-> v[i]]
  <2>1. DOMAIN v = 1..(4 * c + n)
    BY LenProperties
  <2>2. v = [i \in DOMAIN v |-> v[i]]
    <3>1. v \in [1..Len(v) -> 0..63]
      BY LenProperties
    <3> QED
      BY ONLY <3>1
  <2> QED
    BY ONLY <2>1, <2>2
<1> QED
  BY ONLY <1>10, <1>12, <1>13

LEMMA RestValues ==
  ASSUME TypeOK, PInv, Returned
  PROVE  \A i \in 1..Len(Rest) : Rest[i] = Values[4 * Complete + i]
<1> DEFINE m == 4 * Complete + 1
           n == Len(Values)
           l == Len(Rest)
<1>1. /\ Complete \in Nat /\ n \in Nat /\ l \in 0..3 /\ n = 4 * Complete + l
      /\ Values \in Seq(0..63)
  BY RestFacts, ReturnedValues
<1>2. CASE l = 0
  <2>1. \A i \in 1..0 : FALSE
    OBVIOUS
  <2> HIDE DEF l
  <2> QED
    BY <1>2, <2>1 DEF l
<1>3. CASE l # 0
  <2> HIDE DEF l, n, m
  <2>1. m \in Int /\ n \in Int /\ m <= n /\ n - m + 1 = l
    BY ONLY <1>1, <1>3 DEF m
  <2>2. \A i \in m..n : i \in 1..n
    BY ONLY <1>1 DEF m
  <2>3. \A i \in m..n : Values[i] \in 0..63
    BY <1>1, <2>2, ElementOfSeq DEF n
  <2>4. \A i \in 1..(n - m + 1) : SubSeq(Values, m, n)[i] = Values[m + i - 1]
    BY <2>1, <2>3, SubSeqProperties
  <2>5. \A i \in 1..l : m + i - 1 = 4 * Complete + i
    BY ONLY <1>1 DEF m
  <2>6. Rest = SubSeq(Values, m, n)
    BY DEF Rest, m, n
  <2> QED
    BY ONLY <2>1, <2>4, <2>5, <2>6 DEF l
<1> QED
  BY <1>2, <1>3

(* Strict decoding accepts canonical text only.                            *)
THEOREM StrictAcceptsCanonical == Spec => []StrictIsCanonical
<1>1. ASSUME TypeOK, PInv PROVE StrictIsCanonical
  <2> SUFFICES ASSUME Returned, res.error = "Success", call.lastChunk = "Strict",
                      ~ IgnoreGarbage(call.options), ~ InteriorPad(call)
               PROVE  /\ Payload(call) = CanonicalSextets(dst)
                      /\ (Len(Payload(call)) + end.equalSigns) % 4 = 0
    BY <1>1 DEF StrictIsCanonical
  <2>1. ~ IsPartial(call.lastChunk) /\ ~ garbage
    BY DEF IsPartial, garbage
  <2>2. /\ Complete \in Nat /\ Len(Values) \in Nat /\ Len(Rest) \in 0..3
        /\ Len(Values) = 4 * Complete + Len(Rest) /\ Rest \in Seq(0..63)
        /\ Values \in Seq(0..63)
    BY <1>1, RestFacts, ReturnedValues
  <2>3. call.cap \in Nat /\ end.equalSigns \in 0..2
    BY <1>1, ReturnedFacts
  <2>4. \A i \in 1..Len(Rest) : Rest[i] = Values[4 * Complete + i]
    BY <1>1, RestValues
  <2>5. CASE end.srcLen = 0
    <3>1. /\ Payload(call) = Values /\ Len(Values) = 0 /\ dst = << >> /\ end.equalSigns = 0
      BY <1>1, <2>1, <2>5, EmptyText
    <3>2. (4 * Len(dst) + 2) \div 3 = 0
      <4>1. Len(dst) = 0 /\ (4 * 0 + 2) \div 3 = 0
        BY <3>1
      <4> QED
        BY ONLY <4>1
    <3>3. CanonicalSextets(dst) \in [1..0 -> Int]
      <4>1. CanonicalSextets(dst) = [i \in 1..0 |-> Canonical(dst, i)]
        BY ONLY <3>2, Zenon DEF CanonicalSextets, Canonical, ByteOf
      <4>2. \A i \in 1..0 : FALSE
        OBVIOUS
      <4> QED
        BY ONLY <4>1, <4>2
    <3>4. Values \in [1..0 -> Int]
      <4>1. Values \in [1..Len(Values) -> 0..63]
        BY <2>2, LenProperties
      <4>2. \A i \in 1..0 : FALSE
        OBVIOUS
      <4> QED
        BY ONLY <3>1, <4>1, <4>2
    <3>5. Values = CanonicalSextets(dst)
      <4>1. \A i \in 1..0 : FALSE
        OBVIOUS
      <4> QED
        BY ONLY <3>3, <3>4, <4>1
    <3>6. (0 + 0) % 4 = 0
      OBVIOUS
    <3> QED
      BY ONLY <3>1, <3>5, <3>6
  <2>6. CASE end.srcLen # 0
    <3>1. /\ Payload(call) = Values
          /\ \/ /\ Verdict = "Decoded" /\ Len(Rest) \in 2..3
                /\ dst = WholeChunks(Values, Complete) \o ChunkBytes(Rest)
             \/ /\ Verdict = "Nothing" /\ Len(Rest) \in 0..1
                /\ dst = WholeChunks(Values, Complete)
      BY <1>1, <2>1, <2>6, DecodedText
    <3>2. /\ Verdict = "Decoded" =>
               (Len(Rest) + end.equalSigns) % 4 = 0 /\ ~ HasExtraBits(Rest)
          /\ Verdict = "Nothing" => Len(Rest) # 1 /\ (Len(Rest) = 0 => end.equalSigns = 0)
      <4>1. call.cap - 3 * Complete \in Int
        BY <2>2, <2>3
      <4>2. end.equalSigns \in 0..2 /\ Len(Rest) \in 0..3
        BY <2>2, <2>3
      <4>3. call.lastChunk = "Strict" /\ ~ IgnoreGarbage(call.options)
        OBVIOUS
      <4> QED
        BY ONLY <4>1, <4>2, <4>3, VerdictProperties DEF Verdict
    <3>3. \A c, n, p \in Nat : (n + p) % 4 = 0 => (4 * c + n + p) % 4 = 0
      OBVIOUS
    <3>4. CASE /\ Verdict = "Decoded" /\ Len(Rest) \in 2..3
               /\ dst = WholeChunks(Values, Complete) \o ChunkBytes(Rest)
      <4>1. Len(Rest) \in {0, 2, 3} /\ Len(Rest) # 0 /\ Len(Rest) \in Nat
        <5>1. \A n \in 2..3 : n \in {0, 2, 3} /\ n # 0 /\ n \in Nat
          OBVIOUS
        <5> QED
          BY ONLY <3>4, <5>1
      <4>2. Values = CanonicalSextets(dst)
        <5>1. Text(Values, Complete, Len(Rest), Rest, dst)
          BY ONLY <2>2, <2>4, <3>2, <3>4, <4>1 DEF Text
        <5>2. Values \in Seq(0..63) /\ Rest \in Seq(0..63) /\ Complete \in Nat
          BY <2>2
        <5>3. \A n \in {0, 2, 3} :
                Text(Values, Complete, n, Rest, dst) => Values = CanonicalSextets(dst)
          BY ONLY <5>2, CanonicalText
        <5> QED
          BY ONLY <4>1, <5>1, <5>3, Zenon
      <4>3. (4 * Complete + Len(Rest) + end.equalSigns) % 4 = 0
        <5>1. end.equalSigns \in Nat
          BY <2>3
        <5> QED
          BY ONLY <2>2, <3>2, <3>3, <3>4, <4>1, <5>1
      <4> QED
        BY ONLY <2>2, <3>1, <4>2, <4>3
    <3>5. CASE /\ Verdict = "Nothing" /\ Len(Rest) \in 0..1
               /\ dst = WholeChunks(Values, Complete)
      <4>1. Len(Rest) = 0 /\ end.equalSigns = 0 /\ Len(Rest) \in {0, 2, 3}
        <5>1. \A n \in 0..1 : n # 1 => n = 0 /\ n \in {0, 2, 3}
          OBVIOUS
        <5> QED
          BY ONLY <3>2, <3>5, <5>1
      <4>2. Values = CanonicalSextets(dst)
        <5>1. Text(Values, Complete, Len(Rest), Rest, dst)
          BY ONLY <2>2, <2>4, <3>5, <4>1 DEF Text
        <5>2. Values \in Seq(0..63) /\ Rest \in Seq(0..63) /\ Complete \in Nat
          BY <2>2
        <5>3. \A n \in {0, 2, 3} :
                Text(Values, Complete, n, Rest, dst) => Values = CanonicalSextets(dst)
          BY ONLY <5>2, CanonicalText
        <5> QED
          BY ONLY <4>1, <5>1, <5>3, Zenon
      <4>3. (4 * Complete + Len(Rest) + end.equalSigns) % 4 = 0
        <5>1. 0 \in Nat /\ (0 + 0) % 4 = 0
          OBVIOUS
        <5> QED
          BY ONLY <2>2, <3>3, <4>1, <5>1
      <4> QED
        BY ONLY <2>2, <3>1, <4>2, <4>3
    <3> QED
      BY ONLY <3>1, <3>4, <3>5
  <2> QED
    BY <2>5, <2>6
<1>2. TypeOK /\ PInv => StrictIsCanonical
  BY <1>1
<1> QED
  BY <1>2, TypeCorrect, PromiseInvariance, PTL
=============================================================================
