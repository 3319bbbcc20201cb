--------------------------- MODULE Base64Reference ---------------------------
(***************************************************************************)
(* The vocabulary of the Base64 codec of go-simdutf (base64_scalar.go):    *)
(* characters, options, the delimitation of the payload, the sizes callers *)
(* allocate, what is done to the decoder's raw verdict before it is        *)
(* returned, and Decode, the result of a whole call as one expression.     *)
(*                                                                         *)
(* A character is an integer that says what the tables of base64_tables.go *)
(* make of it: 0..63 is the default spelling of that 6-bit value (62 is    *)
(* '+', 63 is '/'), Dash and Underscore are the URL spellings of 62 and    *)
(* 63, Space stands for the five whitespace bytes, Pad is '=', Bad is a    *)
(* byte of no alphabet and Wide a UTF-16 unit above 0xff.  Offsets count   *)
(* characters, as in Go; input[i + 1] is Go's input[i].                    *)
(***************************************************************************)
EXTENDS Integers, Sequences, FiniteSets

Space      == 64
Pad        == 65
Bad        == 66
Dash       == 67
Underscore == 68
Wide       == 69
Char       == 0..69

Options    == {0, 1, 2, 3, 4, 5, 8, 12}
LastChunks == {"Loose", "Strict", "StopBeforePartial", "OnlyFullChunks"}
Errors     == {"Success", "InvalidBase64Character", "Base64InputRemainder",
               "Base64ExtraBits", "OutputBufferTooSmall"}
FullResult == [error : Errors, inputCount : Nat, outputCount : Nat,
               paddingError : BOOLEAN]

-----------------------------------------------------------------------------
(* Options *)

HasBit(options, bit)   == (options \div bit) % 2 = 1
IgnoreGarbage(options) == options \in {4, 5, 12}
IsPartial(lastChunk)   == lastChunk \in {"StopBeforePartial", "OnlyFullChunks"}

(***************************************************************************)
(* The value a decode table gives a character: 0..63 in the alphabet, 64   *)
(* for whitespace, 255 for the rest, '=' and wide units included.  Bit 8   *)
(* selects the table of both alphabets, else bit 1 the URL table.          *)
(***************************************************************************)
ToValue(options, c) ==
  LET both == HasBit(options, 8)
      url  == HasBit(options, 1)
  IN  CASE c \in 0..61                -> c
        [] c \in {62, 63}             -> IF both \/ ~url THEN c ELSE 255
        [] c \in {Dash, Underscore}   -> IF both \/ url THEN c - 5 ELSE 255
        [] c = Space                  -> 64
        [] OTHER                      -> 255

IsAlphabet(options, c)  == ToValue(options, c) <= 63
IsSpace(options, c)     == ToValue(options, c) = 64
IsIgnorable(options, c) == ~IsAlphabet(options, c)
                           /\ (IsSpace(options, c) \/ IgnoreGarbage(options))

-----------------------------------------------------------------------------
(* Sizes *)

(* The members of a finite set of positions as a left-to-right scan meets  *)
(* them: the k-th is the one with k of them at or before it.               *)
Ascending(positions) ==
  [k \in 1..Cardinality(positions) |->
     CHOOSE i \in positions : Cardinality({j \in positions : j <= i}) = k]

TrailingPads(input) ==
  LET n == Len(input)
  IN  IF n = 0 \/ input[n] # Pad THEN 0
      ELSE IF n > 1 /\ input[n - 1] = Pad THEN 2 ELSE 1

(* Variant: the bytes of an incomplete last chunk are forgotten.           *)
MaximalBinaryLengthWhole(input) == 3 * ((Len(input) - TrailingPads(input)) \div 4)

MaximalBinaryLength(input) ==
  LET actual == Len(input) - TrailingPads(input)
  IN  3 * (actual \div 4) + (IF actual % 4 <= 1 THEN 0 ELSE (actual % 4) - 1)

(* Everything above ' ' counts; the trailing '=' that only whitespace      *)
(* separates, two at most, do not.                                         *)
BinaryLength(input) ==
  LET where   == Ascending({i \in 1..Len(input) : input[i] # Space})
      visible == [k \in DOMAIN where |-> input[where[k]]]
  IN  (3 * (Len(visible) - TrailingPads(visible))) \div 4

-----------------------------------------------------------------------------
(* Delimiting the payload *)

EndType == [equalSigns : 0..2, equalLocation : Nat, srcLen : Nat,
            fullInputLength : Nat]

(* The offset that remains of n when the characters of S before it go.     *)
LastNotIn(input, n, S) ==
  CHOOSE k \in 0..n : /\ k = 0 \/ input[k] \notin S
                      /\ \A j \in (k + 1)..n : input[j] \in S

(* The first offset at or after k, and at most n, not at a member of S.    *)
FirstNotIn(input, k, n, S) ==
  CHOOSE i \in k..n : /\ i = n \/ input[i + 1] \notin S
                      /\ \A j \in (k + 1)..i : input[j] \in S

FindEnd(input, options) ==
  LET n     == Len(input)
      end(signs, loc, len, full) ==
        [equalSigns |-> signs, equalLocation |-> loc,
         srcLen |-> len, fullInputLength |-> full]
      n0    == LastNotIn(input, n, {Space})
      n1    == LastNotIn(input, n0 - 1, {Space})
      first == FirstNotIn(input, 0, n, Char \ {Pad})
  IN  IF IgnoreGarbage(options)
      THEN IF first < n THEN end(1, first, first, first + 1) ELSE end(0, n, n, n)
      ELSE IF n0 = 0 \/ input[n0] # Pad THEN end(0, n0, n0, n)
      ELSE IF n1 = 0 \/ input[n1] # Pad THEN end(1, n0 - 1, n1, n)
      ELSE end(2, n1 - 1, n1 - 1, n)

-----------------------------------------------------------------------------
(* Bytes *)

(* Variant: the low bits of the second value are not masked off.           *)
ChunkBytesUnmasked(s) ==
  SubSeq(<< s[1] * 4 + s[2] \div 16,
            IF Len(s) > 2 THEN s[2] * 16 + s[3] \div 4 ELSE 0,
            IF Len(s) > 3 THEN (s[3] % 4) * 64 + s[4] ELSE 0 >>, 1, Len(s) - 1)

(* The bytes of a chunk of two, three or four 6-bit values.                *)
ChunkBytes(s) ==
  SubSeq(<< s[1] * 4 + s[2] \div 16,
            IF Len(s) > 2 THEN (s[2] % 16) * 16 + s[3] \div 4 ELSE 0,
            IF Len(s) > 3 THEN (s[3] % 4) * 64 + s[4] ELSE 0 >>, 1, Len(s) - 1)

(* Variant: the check is missing for two characters.                       *)
HasExtraBitsOfThree(s) == Len(s) = 3 /\ s[3] % 4 # 0

(* Bits of the last value that reach no byte.                              *)
HasExtraBits(s) == IF Len(s) = 2 THEN s[2] % 16 # 0 ELSE s[3] % 4 # 0

-----------------------------------------------------------------------------
(* From the tail decoder's verdict to the caller's result *)

(* Variant: success leaves the count where the tail decoder stopped.       *)
PatchTailResultShort(r, end, lastChunk) ==
  [r EXCEPT !.inputCount = IF r.paddingError THEN end.equalLocation ELSE @]

PatchTailResult(r, end, lastChunk) ==
  LET count == IF r.error = "Success"
                  /\ (~IsPartial(lastChunk) \/ r.outputCount % 3 # 0)
               THEN end.fullInputLength
               ELSE IF r.paddingError THEN end.equalLocation ELSE r.inputCount
  IN  [r EXCEPT !.inputCount = count]

(* The padding present does not complete the last chunk.                   *)
PaddingMismatch(r, end, lastChunk) ==
  /\ ~IsPartial(lastChunk) /\ r.error = "Success" /\ end.equalSigns > 0
  /\ r.outputCount % 3 = 0 \/ (r.outputCount % 3) + 1 + end.equalSigns # 4

(* Where a partial call stops: past trailing ignorable characters when     *)
(* they end the input, otherwise right after the last one consumed.        *)
TrimIgnorable(input, options, count, full) ==
  LET skip    == {c \in Char : IsIgnorable(options, c)}
      forward == FirstNotIn(input, count, full, skip)
  IN  IF forward < full THEN LastNotIn(input, forward, skip) ELSE full

FinishDetails(call, end, raw) ==
  LET r == PatchTailResult(raw, end, call.lastChunk)
  IN  IF PaddingMismatch(r, end, call.lastChunk) /\ ~IgnoreGarbage(call.options)
      THEN [r EXCEPT !.error = "InvalidBase64Character",
                     !.inputCount = end.equalLocation, !.paddingError = TRUE]
      ELSE IF IsPartial(call.lastChunk) /\ r.error = "Success"
              /\ r.inputCount < end.fullInputLength
      THEN [r EXCEPT !.inputCount = TrimIgnorable(call.input, call.options,
                                      r.inputCount, end.fullInputLength)]
      ELSE r

(* Safe decoding up to a bad character checks the padding even when        *)
(* garbage is accepted, leaves the count where it is and trims nothing.    *)
FinishUpToBadChar(call, end, raw) ==
  LET r == PatchTailResult(raw, end, call.lastChunk)
  IN  IF PaddingMismatch(r, end, call.lastChunk)
      THEN [r EXCEPT !.error = "InvalidBase64Character"] ELSE r

Finish(call, end, raw) ==
  IF call.entry = "upToBadChar" THEN FinishUpToBadChar(call, end, raw)
                                ELSE FinishDetails(call, end, raw)

(* A payload of no characters: padding alone is an error, and an empty or  *)
(* blank input is consumed whole, except by upToBadChar.                   *)
EmptyPayload(call, end) ==
  LET alone == ~IgnoreGarbage(call.options) /\ end.equalSigns > 0
      whole == IF call.entry = "upToBadChar" THEN 0 ELSE end.fullInputLength
  IN  [error        |-> IF alone THEN "InvalidBase64Character" ELSE "Success",
       inputCount   |-> IF alone THEN end.equalLocation ELSE whole,
       outputCount  |-> 0,
       paddingError |-> alone /\ call.entry # "upToBadChar"]
=============================================================================
