---------------------------- MODULE Base64Promise ----------------------------
(***************************************************************************)
(* What one decoding call promises, as an expression of its arguments: the *)
(* payload's alphabet characters are taken four at a time up to the first  *)
(* character that may not be there, chunks that do not fit a checked       *)
(* destination are left, and what remains is judged by the last-chunk      *)
(* rules.  It has no cursors, no blocks and no provider: Base64Decode      *)
(* shows that every provider computes it.                                  *)
(***************************************************************************)
EXTENDS Base64Reference

(* The positions of the alphabet characters before position stop.          *)
SignificantBefore(call, stop) ==
  Ascending({i \in 1..(stop - 1) : IsAlphabet(call.options, call.input[i])})

(* The first payload position whose character is neither of the alphabet   *)
(* nor ignorable, or the position after the payload.                       *)
StopPosition(call, end) ==
  LET stops == {i \in 1..end.srcLen :
                  /\ ~IsAlphabet(call.options, call.input[i])
                  /\ ~IsIgnorable(call.options, call.input[i])}
  IN  IF stops = {} THEN end.srcLen + 1
      ELSE CHOOSE i \in stops : \A j \in stops : i <= j

Sextets(call, positions) ==
  [i \in DOMAIN positions |-> ToValue(call.options, call.input[positions[i]])]

(* The bytes of all the complete chunks among these 6-bit values.          *)
BytesOfChunks(s) ==
  [i \in 1..(3 * (Len(s) \div 4)) |->
     LET q == (i - 1) \div 3
     IN  ChunkBytes(SubSeq(s, 4 * q + 1, 4 * q + 4))[((i - 1) % 3) + 1]]

(* The verdict on a last chunk of fewer than four values: the error it is  *)
(* reported with, "Held" when a partial mode leaves it for the next call.  *)
TailVerdict(last, pads, options, lastChunk, room) ==
  LET n       == Len(last)
      garbage == IgnoreGarbage(options)
      partial == IsPartial(lastChunk)
      misfit  == (n + pads) % 4 # 0
      held    == \/ /\ lastChunk = "StopBeforePartial"
                    /\ (n \in {2, 3} /\ n + pads < 4) \/ (n = 1 /\ pads = 0)
                 \/ lastChunk = "OnlyFullChunks" /\ (n >= 2 \/ pads = 0)
  IN  IF n >= 2 /\ ~garbage /\ misfit /\ lastChunk = "Loose" /\ pads > 0
      THEN "Misfit"
      ELSE IF n >= 2 /\ ~garbage /\ misfit /\ lastChunk = "Strict"
      THEN "StrictMisfit"
      ELSE IF held
      THEN "Held"
      ELSE IF n >= 2 /\ ~garbage /\ lastChunk = "Strict" /\ HasExtraBits(last)
      THEN "ExtraBits"
      ELSE IF n >= 2
      THEN IF room < n - 1 THEN "NoRoom" ELSE "Decoded"
      ELSE IF n = 1 /\ ~garbage /\ (~partial \/ pads > 0)
      THEN "Remainder"
      ELSE IF n = 0 /\ ~garbage /\ pads > 0
      THEN "LonePadding"
      ELSE "Nothing"

TailErrors ==
  [Misfit |-> "InvalidBase64Character", StrictMisfit |-> "Base64InputRemainder",
   Held |-> "Success", ExtraBits |-> "Base64ExtraBits",
   NoRoom |-> "OutputBufferTooSmall", Decoded |-> "Success",
   Remainder |-> "Base64InputRemainder",
   LonePadding |-> "InvalidBase64Character", Nothing |-> "Success"]

(* The result of a call whose payload is end, and the bytes in dst.        *)
DecodePayload(call, end) ==
  LET stop    == StopPosition(call, end)
      where   == SignificantBefore(call, stop)
      values  == Sextets(call, where)
      chunks  == Len(values) \div 4
      fit     == IF call.entry # "details" /\ call.cap \div 3 < chunks
                 THEN call.cap \div 3 ELSE chunks
      chunkAt == IF fit = 0 THEN 0 ELSE where[4 * fit]
      last    == SubSeq(values, 4 * chunks + 1, Len(values))
      verdict == TailVerdict(last, end.equalSigns, call.options, call.lastChunk,
                             call.cap - 3 * chunks)
      bytes   == BytesOfChunks(SubSeq(values, 1, 4 * fit))
      raw(error, count, n, padding) ==
        [error |-> error, inputCount |-> count, outputCount |-> n,
         paddingError |-> padding]
      result(r, written) == [result |-> Finish(call, end, r), bytes |-> written]
  IN  IF fit < chunks
      THEN result(raw("OutputBufferTooSmall", chunkAt, 3 * fit, FALSE), bytes)
      ELSE IF stop <= end.srcLen /\ call.input[stop] # Pad
      THEN result(raw("InvalidBase64Character", stop - 1, 3 * fit, FALSE), bytes)
      ELSE IF verdict = "Decoded"
      THEN result(raw("Success", stop - 1, 3 * fit + Len(last) - 1, FALSE),
                  bytes \o ChunkBytes(last))
      ELSE result(raw(TailErrors[verdict],
                      IF verdict \in {"Held", "NoRoom"} THEN chunkAt ELSE stop - 1,
                      3 * fit, verdict \in {"Misfit", "StrictMisfit", "LonePadding"}),
                  bytes)

Decode(call) ==
  LET end == FindEnd(call.input, call.options)
  IN  IF end.srcLen = 0
      THEN [result |-> EmptyPayload(call, end), bytes |-> << >>]
      ELSE DecodePayload(call, end)
=============================================================================
