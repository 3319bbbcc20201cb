----------------------------- MODULE Base64Decode -----------------------------
(***************************************************************************)
(* One Base64 decoding call of go-simdutf, loop by loop: the destination   *)
(* preflight, the delimitation of the payload, the SIMD providers' block   *)
(* path for contiguous input, the scalar decoder's four-character fast     *)
(* loop, its per-character chunk loop and its treatment of the last chunk. *)
(*                                                                         *)
(* entry is the API the caller used: "details" for Base64ToBinary and      *)
(* Base64ToBinaryDetails (unchecked writes behind a preflight), "safe" and *)
(* "upToBadChar" for Base64ToBinarySafe without and with decodeUpToBadChar *)
(* (every write checked against the destination).                          *)
(***************************************************************************)
EXTENDS Base64Promise

CONSTANTS
  Calls,   \* the calls explored
  Block    \* characters per SIMD decode block (64 in the code)

CallType == [input : Seq(Char), cap : Nat, options : Options,
             lastChunk : LastChunks,
             entry : {"details", "safe", "upToBadChar"},
             provider : {"scalar", "contiguous"}]

ASSUME CallsAssumption == Calls \subseteq CallType
ASSUME BlockAssumption == Block \in Nat /\ Block > 0 /\ Block % 4 = 0

VARIABLES
  call,    \* the arguments; never change
  pc,
  end,     \* FindEnd's answer
  src,     \* characters consumed
  chunk,   \* src when the current chunk began (srcCur)
  buffer,  \* values of the current chunk (buffer[:idx])
  dst,     \* bytes written
  res      \* the FullResult returned

vars == <<call, pc, end, src, chunk, buffer, dst, res>>

Ended  == {"returned", "panicked", "crashed"}
Labels == {"call", "fast", "gather"} \cup Ended

NoEnd    == [equalSigns |-> 0, equalLocation |-> 0, srcLen |-> 0, fullInputLength |-> 0]
NoResult == [error |-> "Success", inputCount |-> 0, outputCount |-> 0,
             paddingError |-> FALSE]

Init ==
  /\ call \in Calls
  /\ pc = "call"
  /\ end = NoEnd
  /\ src = 0 /\ chunk = 0
  /\ buffer = << >> /\ dst = << >>
  /\ res = NoResult

-----------------------------------------------------------------------------

checkCapacity == call.entry # "details"
At(i)         == call.input[i + 1]
Value(i)      == ToValue(call.options, At(i))
Room(n)       == Len(dst) + n <= call.cap

(* return FullResult{...} of the tail decoder, finished by its caller.     *)
Return(error, count, written, padding) ==
  /\ res' = Finish(call, end,
                   [error |-> error, inputCount |-> count,
                    outputCount |-> written, paddingError |-> padding])
  /\ pc' = "returned"

(* Indexing dst past its length panics; the block kernels would overrun.   *)
Write(bytes, next) ==
  IF Room(Len(bytes)) THEN dst' = dst \o bytes /\ pc' = next
                      ELSE dst' = dst /\ pc' = "crashed"

-----------------------------------------------------------------------------
(* Entering the call *)

(* Base64ToBinary and ...Details refuse a dst that might be too short.     *)
Preflight ==
  /\ pc = "call"
  /\ ~checkCapacity /\ call.cap < MaximalBinaryLength(call.input)
  /\ pc' = "panicked"
  /\ UNCHANGED <<call, end, src, chunk, buffer, dst, res>>

Admitted == pc = "call"
            /\ (checkCapacity \/ call.cap >= MaximalBinaryLength(call.input))

EmptyInput ==
  LET e == FindEnd(call.input, call.options)
  IN  /\ Admitted
      /\ e.srcLen = 0
      /\ end' = e
      /\ res' = EmptyPayload(call, e)
      /\ pc' = "returned"
      /\ UNCHANGED <<call, src, chunk, buffer, dst>>

(* The SIMD path is taken by an unchecked call whose input is at least one *)
(* block of alphabet characters and nothing else before its end.           *)
Contiguous(e) ==
  /\ call.provider = "contiguous" /\ call.entry = "details"
  /\ ~IgnoreGarbage(call.options)
  /\ Len(call.input) >= Block /\ e.srcLen >= Block
  /\ \A i \in 0..(e.srcLen - 1) : Value(i) <= 63

StartScalar ==
  LET e == FindEnd(call.input, call.options)
  IN  /\ Admitted
      /\ e.srcLen > 0 /\ ~Contiguous(e)
      /\ end' = e
      /\ pc' = "fast"
      /\ UNCHANGED <<call, src, chunk, buffer, dst, res>>

BlockBytes(n) ==
  [i \in 1..(3 * (n \div 4)) |->
     LET o == 4 * ((i - 1) \div 3)
     IN  ChunkBytes(<<Value(o), Value(o + 1), Value(o + 2), Value(o + 3)>>)
           [((i - 1) % 3) + 1]]

(* Whole blocks are decoded at once, the scalar tail decoder does the rest *)
(* and its offsets are shifted back to the whole input.                    *)
StartContiguous ==
  LET e      == FindEnd(call.input, call.options)
      blocks == (e.srcLen \div Block) * Block
  IN  /\ Admitted
      /\ e.srcLen > 0 /\ Contiguous(e)
      /\ end' = e
      /\ Write(BlockBytes(blocks), "fast")
      /\ src' = blocks
      /\ UNCHANGED <<call, chunk, buffer, res>>

-----------------------------------------------------------------------------
(* The four-character loop *)

FourAhead == src + 4 <= end.srcLen /\ \A i \in src..(src + 3) : Value(i) <= 63

(* Variant: the start of an older chunk is reported.                       *)
FastTooSmallStale ==
  /\ pc = "fast" /\ FourAhead
  /\ checkCapacity /\ ~Room(3)
  /\ Return("OutputBufferTooSmall", chunk, Len(dst), FALSE)
  /\ UNCHANGED <<call, end, src, chunk, buffer, dst>>

FastTooSmall ==
  /\ pc = "fast" /\ FourAhead
  /\ checkCapacity /\ ~Room(3)
  /\ Return("OutputBufferTooSmall", src, Len(dst), FALSE)
  /\ UNCHANGED <<call, end, src, chunk, buffer, dst>>

FastChunk ==
  /\ pc = "fast" /\ FourAhead
  /\ ~checkCapacity \/ Room(3)
  /\ Write(ChunkBytes(<<Value(src), Value(src + 1), Value(src + 2), Value(src + 3)>>),
           "fast")
  /\ src' = src + 4
  /\ UNCHANGED <<call, end, chunk, buffer, res>>

-----------------------------------------------------------------------------
(* The per-character loop *)

StartChunk ==
  /\ pc = "fast" /\ ~FourAhead
  /\ chunk' = src
  /\ buffer' = << >>
  /\ pc' = "gather"
  /\ UNCHANGED <<call, end, src, dst, res>>

Gathering == pc = "gather" /\ Len(buffer) < 4 /\ src < end.srcLen

GatherValue ==
  /\ Gathering /\ Value(src) <= 63
  /\ buffer' = Append(buffer, Value(src))
  /\ src' = src + 1
  /\ UNCHANGED <<call, pc, end, chunk, dst, res>>

(* Variant: an ignored character is not stepped over.                      *)
GatherSkipStuck ==
  /\ Gathering /\ Value(src) > 63
  /\ IsSpace(call.options, At(src)) \/ IgnoreGarbage(call.options)
  /\ UNCHANGED vars

GatherSkip ==
  /\ Gathering /\ Value(src) > 63
  /\ \/ IsSpace(call.options, At(src))
     \/ IgnoreGarbage(call.options) /\ At(src) # Pad
  /\ src' = src + 1
  /\ UNCHANGED <<call, pc, end, chunk, buffer, dst, res>>

(* Variant: the offender is counted as consumed.                           *)
GatherRejectAfter ==
  /\ Gathering /\ Value(src) > 64
  /\ ~IgnoreGarbage(call.options) /\ At(src) # Pad
  /\ Return("InvalidBase64Character", src + 1, Len(dst), FALSE)
  /\ UNCHANGED <<call, end, src, chunk, buffer, dst>>

GatherReject ==
  /\ Gathering /\ Value(src) > 64
  /\ ~IgnoreGarbage(call.options) /\ At(src) # Pad
  /\ Return("InvalidBase64Character", src, Len(dst), FALSE)
  /\ UNCHANGED <<call, end, src, chunk, buffer, dst>>

FullTooSmall ==
  /\ pc = "gather" /\ Len(buffer) = 4
  /\ checkCapacity /\ ~Room(3)
  /\ Return("OutputBufferTooSmall", chunk, Len(dst), FALSE)
  /\ UNCHANGED <<call, end, src, chunk, buffer, dst>>

FullChunk ==
  /\ pc = "gather" /\ Len(buffer) = 4
  /\ ~checkCapacity \/ Room(3)
  /\ Write(ChunkBytes(buffer), "fast")
  /\ UNCHANGED <<call, end, src, chunk, buffer, res>>

-----------------------------------------------------------------------------
(* The last chunk: fewer than four values, then the end or a '='.  In Go a *)
(* chain of ifs: an alternative excludes those before it.                  *)

idx     == Len(buffer)
pads    == end.equalSigns
garbage == IgnoreGarbage(call.options)

AtLastChunk == pc = "gather" /\ idx < 4 /\ (src < end.srcLen => At(src) = Pad)

PaddingMisfit(lastChunk) ==
  /\ ~garbage /\ call.lastChunk = lastChunk
  /\ idx >= 2 /\ (idx + pads) % 4 # 0
  /\ lastChunk = "Loose" => pads > 0

(* A partial mode hands an incomplete chunk back to the caller.            *)
HoldBack ==
  \/ /\ call.lastChunk = "StopBeforePartial"
     /\ idx + pads < 4 /\ idx # 0 /\ (idx >= 2 \/ pads = 0)
  \/ /\ call.lastChunk = "OnlyFullChunks"
     /\ idx >= 2 \/ pads = 0

Judged == AtLastChunk /\ ~PaddingMisfit("Loose") /\ ~PaddingMisfit("Strict")
Kept   == Judged /\ ~HoldBack

ExtraBits == idx >= 2 /\ ~garbage /\ call.lastChunk = "Strict" /\ HasExtraBits(buffer)

LastMisfit ==
  /\ AtLastChunk
  /\ \/ /\ PaddingMisfit("Loose")
        /\ Return("InvalidBase64Character", src, Len(dst), TRUE)
     \/ /\ PaddingMisfit("Strict")
        /\ Return("Base64InputRemainder", src, Len(dst), TRUE)
  /\ UNCHANGED <<call, end, src, chunk, buffer, dst>>

(* Variant: the characters of the chunk handed back count as consumed.     *)
LastHeldConsumed ==
  /\ Judged /\ HoldBack
  /\ Return("Success", src, Len(dst), FALSE)
  /\ UNCHANGED <<call, end, src, chunk, buffer, dst>>

LastHeld ==
  /\ Judged /\ HoldBack
  /\ src' = chunk
  /\ Return("Success", chunk, Len(dst), FALSE)
  /\ UNCHANGED <<call, end, chunk, buffer, dst>>

LastExtraBits ==
  /\ Kept /\ ExtraBits
  /\ Return("Base64ExtraBits", src, Len(dst), FALSE)
  /\ UNCHANGED <<call, end, src, chunk, buffer, dst>>

LastTooSmall ==
  /\ Kept /\ idx >= 2 /\ ~ExtraBits
  /\ checkCapacity /\ ~Room(idx - 1)
  /\ Return("OutputBufferTooSmall", chunk, Len(dst), FALSE)
  /\ UNCHANGED <<call, end, src, chunk, buffer, dst>>

LastDecoded ==
  /\ Kept /\ idx >= 2 /\ ~ExtraBits
  /\ ~checkCapacity \/ Room(idx - 1)
  /\ IF Room(idx - 1)
     THEN /\ dst' = dst \o ChunkBytes(buffer)
          /\ Return("Success", src, Len(dst) + idx - 1, FALSE)
     ELSE UNCHANGED <<dst, res>> /\ pc' = "crashed"
  /\ UNCHANGED <<call, end, src, chunk, buffer>>

LoneCharacter == idx = 1 /\ ~garbage /\ (~IsPartial(call.lastChunk) \/ pads > 0)
LonePadding   == idx = 0 /\ ~garbage /\ pads > 0

LastRejected ==
  /\ Kept
  /\ \/ /\ LoneCharacter
        /\ Return("Base64InputRemainder", src, Len(dst), FALSE)
     \/ /\ LonePadding
        /\ Return("InvalidBase64Character", src, Len(dst), TRUE)
  /\ UNCHANGED <<call, end, src, chunk, buffer, dst>>

LastEmpty ==
  /\ Kept /\ idx < 2 /\ ~LoneCharacter /\ ~LonePadding
  /\ Return("Success", src, Len(dst), FALSE)
  /\ UNCHANGED <<call, end, src, chunk, buffer, dst>>

-----------------------------------------------------------------------------

Enter  == Preflight \/ EmptyInput \/ StartScalar \/ StartContiguous
Fast   == FastTooSmall \/ FastChunk \/ StartChunk
Gather == GatherValue \/ GatherSkip \/ GatherReject \/ FullTooSmall \/ FullChunk
Last   == LastMisfit \/ LastHeld \/ LastExtraBits \/ LastTooSmall \/ LastDecoded
          \/ LastRejected \/ LastEmpty

Next == Enter \/ Fast \/ Gather \/ Last

Spec     == Init /\ [][Next]_vars
FairSpec == Spec /\ WF_vars(Next)

-----------------------------------------------------------------------------
(* Properties *)

(* Every variable keeps to its domain; bytes are bytes, values 6 bits.     *)
TypeOK ==
  /\ call \in CallType
  /\ pc \in Labels
  /\ end \in EndType
  /\ src \in Nat /\ chunk \in Nat
  /\ buffer \in Seq(0..63)
  /\ dst \in Seq(0..255)
  /\ res \in FullResult

Returned == pc = "returned"

(* The preflight against MaximalBinaryLengthFromBase64, or the checks of   *)
(* the safe calls, are enough: no write, block kernels included, is ever   *)
(* attempted past the end of dst, whatever the input and its padding.      *)
NoIndexPanic == pc # "crashed"

(* Whichever provider and entry served the call, the FullResult and the    *)
(* bytes in dst are those of Decode: cursors, blocks, the two loops and    *)
(* the shifted offsets of the SIMD path leave no trace in the answer.      *)
KeepsPromise ==
  Returned => /\ res = Decode(call).result
              /\ dst = Decode(call).bytes

(* Alphabet values of the input before its padding.                        *)
Payload(c) ==
  LET e == FindEnd(c.input, c.options)
  IN  Sextets(c, SignificantBefore(c, e.srcLen + 1))

InteriorPad(c) ==
  LET e == FindEnd(c.input, c.options)
  IN  \E i \in 1..e.srcLen : c.input[i] = Pad

(* A successful call that is not partial has decoded every alphabet        *)
(* character up to the padding, reports all the input as consumed and      *)
(* wrote what BinaryLengthFromBase64 announced, provided no '=' stands     *)
(* before other characters: that one ends the decoder's chunk loop, and    *)
(* what follows is dropped without an error, though it is announced.       *)
DecodesEverything ==
  Returned /\ res.error = "Success" /\ ~IsPartial(call.lastChunk) /\ ~InteriorPad(call)
  => /\ res.outputCount = Len(dst)
     /\ Len(dst) = (3 * Len(Payload(call))) \div 4
     /\ ~garbage => Len(dst) = BinaryLength(call.input)
     /\ end.srcLen > 0 => res.inputCount = end.fullInputLength

(* The 6-bit values of the canonical encoding of some bytes.               *)
CanonicalSextets(b) ==
  LET byte(k) == IF k <= Len(b) THEN b[k] ELSE 0
  IN  [i \in 1..((4 * Len(b) + 2) \div 3) |->
        LET k == 3 * ((i - 1) \div 4)
        IN  CASE i % 4 = 1 -> byte(k + 1) \div 4
              [] i % 4 = 2 -> (byte(k + 1) % 4) * 16 + byte(k + 2) \div 16
              [] i % 4 = 3 -> (byte(k + 2) % 16) * 4 + byte(k + 3) \div 64
              [] i % 4 = 0 -> byte(k + 3) % 64]

(* Strict decoding accepts only canonical text: the values read are those  *)
(* an encoder would produce for the bytes decoded, and '=' fills the last  *)
(* chunk.  Spaces and the choice of alphabet are all that two texts of the *)
(* same bytes can differ in.                                               *)
StrictIsCanonical ==
  Returned /\ res.error = "Success" /\ call.lastChunk = "Strict"
  /\ ~IgnoreGarbage(call.options) /\ ~InteriorPad(call)
  => /\ Payload(call) = CanonicalSextets(dst)
     /\ (Len(Payload(call)) + end.equalSigns) % 4 = 0

(* An InvalidBase64Character that is not a padding error points at the     *)
(* first character that is neither of the alphabet nor ignorable.          *)
ErrorAtOffender ==
  Returned /\ res.error = "InvalidBase64Character" /\ ~res.paddingError
  /\ call.entry # "upToBadChar"
  => LET fine(i) == \/ IsAlphabet(call.options, At(i))
                    \/ IsIgnorable(call.options, At(i))
     IN  /\ res.inputCount < Len(call.input)
         /\ ~fine(res.inputCount) /\ At(res.inputCount) # Pad
         /\ \A i \in 0..(res.inputCount - 1) : fine(i)

Stopped == \/ res.error = "OutputBufferTooSmall"
           \/ res.error = "Success" /\ IsPartial(call.lastChunk)

(* A call that stops early can be resumed: the characters reported         *)
(* consumed are exactly those of the bytes written, in whole chunks; a     *)
(* partial mode leaves less than a chunk behind, and a destination is      *)
(* called too small only when the values read cannot all fit.  (Accepting  *)
(* garbage, a lone character before an '=' is garbage too and is consumed.) *)
ResumePoint ==
  Returned /\ Stopped /\ res.inputCount # end.fullInputLength
  /\ (garbage /\ res.error = "Success" => pads = 0)
  => LET consumed == Len(SignificantBefore(call, res.inputCount + 1))
         total    == Len(SignificantBefore(call, StopPosition(call, end)))
     IN  /\ 3 * consumed = 4 * Len(dst)
         /\ res.outputCount = Len(dst)
         /\ IF res.error = "Success" THEN total - consumed < 4
            ELSE call.cap < (3 * total) \div 4

(* The decoder's outer loop has no condition ("for {"): every call ends,   *)
(* because each round consumes input or returns.                           *)
Termination == <>(pc \in Ended)

=============================================================================
