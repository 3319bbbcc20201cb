----------------------------- MODULE Base64Encode -----------------------------
(***************************************************************************)
(* One Base64 encoding call of go-simdutf, with or without line breaks.    *)
(* Three implementations lay lines out in three ways: "tail" (scalar)      *)
(* breaks inside the quartet it writes, "columns" (Westmere, Haswell,      *)
(* archsimd) encodes blocks into a fixed buffer and copies it out counting *)
(* columns, "positions" (NEON) encodes everything and breaks by index.     *)
(* Text uses the characters of Base64Reference; Space is the '\n'.         *)
(***************************************************************************)
EXTENDS Base64Promise, FiniteSets, SequencesExt

CONSTANTS
  Calls,   \* the calls explored
  Group,   \* input bytes one block kernel round consumes (12, 24 or 48)
  Load,    \* input bytes it must be able to load (16, 28 or 48)
  Buffer,  \* characters of the "columns" copy buffer (128)
  Rest     \* characters of its buffer for the remainder (72)

CallType == [input : Seq(0..255), cap : Nat, lines : BOOLEAN, lineLength : Nat,
             options : Options, provider : {"tail", "columns", "positions"}]

ASSUME CallsAssumption == Calls \subseteq CallType
ASSUME SizesAssumption ==
  /\ Group \in Nat \ {0} /\ Group % 3 = 0
  /\ Load \in Nat /\ Load >= Group
  /\ Buffer \in Nat /\ 3 * Buffer >= 4 * Group
  /\ Rest \in Nat /\ 3 * Rest >= 4 * (Load + 1)

VARIABLES
  call,   \* the arguments; never change
  pc,
  i,      \* bytes consumed
  col,    \* characters on the current line (lineOffset, col)
  dst     \* characters written

vars == <<call, pc, i, col, dst>>

Init ==
  /\ call \in Calls
  /\ pc = "call"
  /\ i = 0 /\ col = 0
  /\ dst = << >>

-----------------------------------------------------------------------------
(* Lengths *)

UsePadding(options) == (~HasBit(options, 1)) # HasBit(options, 2)

LengthFromBinary(n, options) ==
  IF UsePadding(options) THEN ((n + 2) \div 3) * 4
  ELSE (n \div 3) * 4 + (IF n % 3 = 0 THEN 0 ELSE (n % 3) + 1)

AtLeastFour(lineLength) == IF lineLength < 4 THEN 4 ELSE lineLength

(* Variant: only full lines are counted.                                   *)
LengthWithLinesFloor(n, options, lineLength) ==
  LET plain == LengthFromBinary(n, options)
  IN  plain + (plain \div AtLeastFour(lineLength))

LengthWithLines(n, options, lineLength) ==
  LET plain == LengthFromBinary(n, options)
      width == AtLeastFour(lineLength)
  IN  IF n = 0 THEN 0 ELSE plain + ((plain + width - 1) \div width) - 1

Required ==
  IF call.lines THEN LengthWithLines(Len(call.input), call.options, call.lineLength)
                ELSE LengthFromBinary(Len(call.input), call.options)

-----------------------------------------------------------------------------
(* Characters *)

(* An encode table's character for a 6-bit value.                          *)
Spell(options, v) == IF HasBit(options, 1) /\ v \in {62, 63} THEN v + 5 ELSE v

(* Variant: the second character takes the low bits of the second byte.    *)
TextOfSwapped(b, options) ==
  LET byte(k) == IF k <= Len(b) THEN b[k] ELSE 0
      values  == << byte(1) \div 4,
                    (byte(1) % 4) * 16 + (byte(2) % 16),
                    (byte(2) % 16) * 4 + (byte(3) \div 64),
                    byte(3) % 64 >>
      text    == [k \in 1..(Len(b) + 1) |-> Spell(options, values[k])]
  IN  IF UsePadding(options) THEN text \o [k \in 1..(3 - Len(b)) |-> Pad] ELSE text

(* The quartet of one to three bytes, short when there is no padding.      *)
TextOf(b, options) ==
  LET byte(k) == IF k <= Len(b) THEN b[k] ELSE 0
      values  == << byte(1) \div 4,
                    (byte(1) % 4) * 16 + (byte(2) \div 16),
                    (byte(2) % 16) * 4 + (byte(3) \div 64),
                    byte(3) % 64 >>
      text    == [k \in 1..(Len(b) + 1) |-> Spell(options, values[k])]
  IN  IF UsePadding(options) THEN text \o [k \in 1..(3 - Len(b)) |-> Pad] ELSE text

Bytes(from, n) == SubSeq(call.input, from + 1, from + n)

(* tailEncodeBase64 without lines, and the kernels: quartet after quartet. *)
Plain(from, n) ==
  FlattenSeq([q \in 1..((n + 2) \div 3) |->
    TextOf(Bytes(from + 3 * (q - 1), IF 3 * q <= n THEN 3 ELSE n - 3 * (q - 1)),
           call.options)])

(* Bytes a kernel consumes of n, when room characters are free.            *)
KernelRounds(n, room) ==
  LET rounds == {k \in 1..(n \div Group) :
                   /\ n - Group * (k - 1) >= Load
                   /\ room * 3 >= 4 * Group * k}
  IN  Group * Cardinality(rounds)

-----------------------------------------------------------------------------
(* Writing *)

width == AtLeastFour(call.lineLength)

(* Writing past dst panics.                                                *)
Write(text, next) ==
  IF Len(dst) + Len(text) <= call.cap
  THEN dst' = dst \o text /\ pc' = next
  ELSE dst' = dst /\ pc' = "crashed"

(* One quartet, broken where the line is full.                             *)
Folded(text) ==
  LET left == width - col
  IN  IF left < Len(text)
      THEN SubSeq(text, 1, left) \o <<Space>> \o SubSeq(text, left + 1, Len(text))
      ELSE text

(* Variant: the characters before the break still count.                   *)
ColumnAfterWhole(text) == col + Len(text)

ColumnAfter(text) ==
  LET left == width - col
  IN  IF left < Len(text) THEN Len(text) - left ELSE col + Len(text)

(* Variant: the column carries over from one buffer as it was before it.   *)
CopiedForgetful(text) ==
  FlattenSeq([k \in DOMAIN text |->
    IF k > 1 /\ (k - 1) % width = 0 THEN <<Space, text[k]>> ELSE <<text[k]>>])

(* The copy loop of "columns": a newline before a character that does not  *)
(* fit, at col + k - 1 characters from the start of the line.              *)
Copied(text) ==
  FlattenSeq([k \in DOMAIN text |->
    IF col + k - 1 > 0 /\ (col + k - 1) % width = 0
    THEN <<Space, text[k]>> ELSE <<text[k]>>])

ColumnAfterCopy(text) ==
  IF text = << >> THEN col ELSE ((col + Len(text) - 1) % width) + 1

-----------------------------------------------------------------------------

Remaining == Len(call.input) - i

Refuse ==
  /\ pc = "call" /\ call.cap < Required
  /\ pc' = "panicked"
  /\ UNCHANGED <<call, i, col, dst>>

Enter ==
  /\ pc = "call" /\ call.cap >= Required
  /\ pc' = IF call.provider = "tail" THEN "tail"
           ELSE IF ~call.lines THEN "kernel" ELSE call.provider
  /\ UNCHANGED <<call, i, col, dst>>

(* Without lines: the kernel into dst, then the tail encoder.              *)
Kernel ==
  LET n == KernelRounds(Remaining, call.cap)
  IN  /\ pc = "kernel"
      /\ Write(Plain(i, n), IF n = Remaining THEN "returned" ELSE "tail")
      /\ i' = i + n
      /\ UNCHANGED <<call, col>>

(* tailEncodeBase64: three bytes, or the last one or two.                  *)
TailQuartet ==
  LET n    == IF Remaining >= 3 THEN 3 ELSE Remaining
      text == TextOf(Bytes(i, n), call.options)
  IN  /\ pc = "tail" /\ Remaining > 0
      /\ Write(IF call.lines THEN Folded(text) ELSE text, "tail")
      /\ col' = IF call.lines THEN ColumnAfter(text) ELSE col
      /\ i' = i + n
      /\ UNCHANGED call

TailEnd ==
  /\ pc = "tail" /\ Remaining = 0
  /\ pc' = "returned"
  /\ UNCHANGED <<call, i, col, dst>>

(* One round of "columns": a buffer of encoded blocks, copied out.         *)
ColumnsBuffer ==
  LET n    == KernelRounds(Remaining, Buffer)
      text == Plain(i, n)
  IN  /\ pc = "columns" /\ n > 0
      /\ Write(Copied(text), "columns")
      /\ col' = ColumnAfterCopy(text)
      /\ i' = i + n
      /\ UNCHANGED call

(* The kernel takes no more: the rest through a second, smaller buffer.    *)
ColumnsRest ==
  LET text == Plain(i, Remaining)
  IN  /\ pc = "columns" /\ KernelRounds(Remaining, Buffer) = 0
      /\ IF Len(text) > Rest THEN pc' = "crashed" /\ UNCHANGED dst
                             ELSE Write(Copied(text), "returned")
      /\ col' = ColumnAfterCopy(text)
      /\ i' = Len(call.input)
      /\ UNCHANGED call

(* "positions": the whole plain text, a newline at every width characters. *)
Positions ==
  LET text == Plain(0, Len(call.input))
  IN  /\ pc = "positions"
      /\ Write(FlattenSeq([k \in DOMAIN text |->
                 IF k > 1 /\ (k - 1) % width = 0
                 THEN <<Space, text[k]>> ELSE <<text[k]>>]), "returned")
      /\ i' = Len(call.input)
      /\ UNCHANGED <<call, col>>

Next == Refuse \/ Enter \/ Kernel \/ TailQuartet \/ TailEnd
        \/ ColumnsBuffer \/ ColumnsRest \/ Positions

Spec == Init /\ [][Next]_vars

-----------------------------------------------------------------------------
(* Properties *)

(* A line is never longer than its width; text is characters.              *)
TypeOK ==
  /\ call \in CallType
  /\ pc \in {"call", "kernel", "tail", "columns", "positions",
             "returned", "panicked", "crashed"}
  /\ i \in 0..Len(call.input)
  /\ col \in 0..width
  /\ dst \in Seq(Char)

Returned == pc = "returned"

(* The length the caller sized dst with is enough for every provider, line *)
(* length and padding, newlines included, and is what is returned.         *)
LengthExact == pc # "crashed" /\ (Returned => Len(dst) = Required)

(* The three ways to break lines give one layout: no empty line, no        *)
(* newline at the end, every line but the last of the same width; without  *)
(* its newlines, the text has the length of the plain encoding.            *)
OneLayout ==
  Returned =>
    LET newlines == {k \in DOMAIN dst : dst[k] = Space}
    IN  /\ newlines = IF call.lines
                      THEN {k \in DOMAIN dst : k % (width + 1) = 0} ELSE {}
        /\ dst # << >> => dst[Len(dst)] # Space
        /\ Len(dst) - Cardinality(newlines)
             = LengthFromBinary(Len(call.input), call.options)

(* What was encoded decodes to the input, newlines and all, under the same *)
(* options: by the loose rules always, by the strict ones when the text is *)
(* padded or needs none.  All of it is consumed, except that accepting     *)
(* garbage ends the payload right after the first '='.                     *)
RoundTrip ==
  Returned =>
    \A lastChunk \in {"Loose"} \cup
         (IF UsePadding(call.options) \/ Len(call.input) % 3 = 0
          THEN {"Strict"} ELSE {}) :
      LET back == Decode([input |-> dst, cap |-> Len(call.input),
                          options |-> call.options, lastChunk |-> lastChunk,
                          entry |-> "safe", provider |-> "scalar"])
      IN  /\ back.bytes = call.input
          /\ back.result.error = "Success"
          /\ IF IgnoreGarbage(call.options)
             THEN \A k \in (back.result.inputCount + 1)..Len(dst) : dst[k] \in {Pad, Space}
             ELSE back.result.inputCount = Len(dst)
=============================================================================
