----------------------------- MODULE Transcode ------------------------------
(***************************************************************************)
(* One validation or conversion call of go-simdutf: ASCII, UTF-8, UTF-16,  *)
(* UTF-32 and Latin-1 in, any of them out, in every variant the package    *)
(* offers.  A call checks its destination, may hand a prefix of the input  *)
(* to a vector kernel, and lets the scalar loop finish.  The vector        *)
(* kernels are assembly: what the wrappers rely on is all that is modelled *)
(* of them.  Positions are numbers of units consumed, as in the code.      *)
(***************************************************************************)
EXTENDS Detection, UnicodeReference

CONSTANTS
  Calls,   \* the calls explored
  Group,   \* units a vector kernel takes at a time (4 to 64)
  Block    \* bytes of the ASCII block a scalar loop skips at once (16)

Encodings == {"ascii", "latin1", "utf8", "utf16", "utf32"}

(* "ascii16" is UTF-16 that must be ASCII; "bytes" is input of no known    *)
(* encoding.                                                               *)
Sources == Encodings \cup {"ascii16", "bytes"}

(* The variant: plain answers a number or a truth value, errors a Result;  *)
(* valid trusts its input, safe stops where dst is full, replacement and   *)
(* wellFormed put U+FFFD for a lone surrogate, swap changes the byte order;*)
(* the inspections trim, detect and autodetect only look at their input.   *)
Inspections == {"trim", "detect", "autodetect"}

Modes == {"plain", "errors", "valid", "safe", "replacement", "wellFormed", "swap"}
           \cup Inspections

Faults == {"Success", "HeaderBits", "TooShort", "TooLong", "Overlong",
           "TooLarge", "Surrogate"}

CallType == [provider : {"scalar", "kernel"}, mode : Modes,
             from : Sources, to : Encodings \cup {"none"},
             swapped : BOOLEAN,   \* the UTF-16 side is not in native order; in
                                  \* detection, what is little-endian is not
             inPlace : BOOLEAN,   \* input and dst are the same slice
             text : Seq(Nat), room : Nat]

(* What the package exports, conversion by conversion.                     *)
Offered(f) ==
  /\ f.to # "ascii" /\ (f.to = f.from => f.mode \in {"wellFormed", "swap"})
  /\ f.mode \in {"wellFormed", "swap"} => f.from = "utf16" /\ f.to = "utf16"
  /\ f.mode = "replacement" => f.from = "utf16" /\ f.to = "utf8"
  /\ f.mode = "safe" => f.from \in {"latin1", "utf16"} /\ f.to = "utf8" /\ ~ f.swapped
  /\ f.mode = "safe" => f.provider = "scalar"
  /\ f.from \in {"ascii", "ascii16"} => f.to = "none"
  /\ f.from = "ascii16" => f.mode = "plain"
  /\ f.from = "bytes" <=> f.mode \in {"detect", "autodetect"}
  /\ f.mode = "trim" => f.from \in {"utf8", "utf16"}
  /\ f.mode \in Inspections => f.to = "none" /\ f.provider = "scalar"
  /\ f.from = "latin1" => f.to # "none" /\ f.mode \in {"plain", "safe"}
  /\ f.to = "none" => f.mode \in {"plain", "errors"} \cup Inspections
  /\ f.swapped => /\ f.mode # "swap"
                  /\ {f.from, f.to} \cap {"utf16", "ascii16", "bytes"} # {}
  /\ f.inPlace => f.mode \in {"wellFormed", "swap"}

(* Units are bytes and 16-bit words; what is past the last code point is   *)
(* all the same to UTF-32, whose words are numbers.                        *)
IsUnit(encoding, u) ==
  IF encoding \in {"utf16", "ascii16"} THEN u <= 65535 ELSE encoding = "utf32" \/ u <= 255

ASSUME CallsAssumption ==
  \A c \in Calls : /\ c \in CallType /\ Offered(c)
                   /\ \A i \in DOMAIN c.text : IsUnit(c.from, c.text[i])
ASSUME SizesAssumption == Group \in Nat \ {0} /\ Block \in Nat \ {0, 1}

VARIABLES
  call,   \* the arguments; never change
  pc,
  base,   \* units the vector kernel took
  pos,    \* units consumed
  out,    \* units written to dst
  res     \* the answer

vars == << call, pc, base, pos, out, res >>

Unanswered == [error |-> "Unsaid", count |-> 0]

Init ==
  /\ call \in Calls
  /\ pc = "call"
  /\ base = 0 /\ pos = 0
  /\ out = << >>
  /\ res = Unanswered

-----------------------------------------------------------------------------
(* Reading and writing *)

Swap(w) == IF call.swapped THEN ReverseBytes16(w) ELSE w

(* The words as the code looks at them. *)
Words(t) == IF call.from \in {"utf16", "ascii16"} THEN [i \in DOMAIN t |-> Swap(t[i])] ELSE t

(* When dst is the input itself, what was written is what is read back.    *)
Input == Words([i \in DOMAIN call.text |->
                  IF call.inPlace /\ i <= Len(out) THEN out[i] ELSE call.text[i]])

Size == Len(call.text)

(* Units the destination must hold for t, words in native order.           *)
RequiredBy(c, t) ==
  CASE c.to = "none" \/ c.mode = "safe"           -> 0
    [] c.from = "latin1" /\ c.to = "utf8" /\ c.mode # "safe" -> utf8LengthFromLatin1(t)
    [] c.from = "utf8" /\ c.to = "utf16"             -> utf16LengthFromUTF8(t)
    [] c.from = "utf8" /\ c.to \in {"latin1", "utf32"} -> countUTF8(t)
    [] c.from = "utf16" /\ c.to = "utf32"            -> utf32LengthFromUTF16(t)
    [] c.from = "utf16" /\ c.to = "utf8" /\ c.mode = "replacement" ->
         utf8LengthFromUTF16WithReplacement(t)
    [] c.from = "utf16" /\ c.to = "utf8" /\ c.mode \in {"plain", "errors", "valid"} ->
         utf8LengthFromUTF16(t)
    [] c.from = "utf32" /\ c.to = "utf8"             -> utf8LengthFromUTF32(t)
    [] c.from = "utf32" /\ c.to = "utf16"            -> utf16LengthFromUTF32(t)
    [] OTHER                                       -> Len(t)

Required(t) == RequiredBy(call, t)

(* A code point in units of the destination; a byte keeps the low bits.    *)
Spelled(c) ==
  CASE call.to = "none"       -> << >>
    [] call.mode = "swap"     -> << ReverseBytes16(c) >>
    [] call.to = "latin1"     -> << c % 256 >>
    [] call.to = "utf8"       -> UTF8Units(c)
    [] call.to = "utf32"      -> << c >>
    [] OTHER -> LET words == UTF16Units(c) IN [i \in DOMAIN words |-> Swap(words[i])]

(* Indexing past the end of dst panics.                                    *)
Put(units, next) ==
  IF Len(out) + Len(units) <= call.room
  THEN out' = out \o units /\ pc' = next
  ELSE pc' = "overrun" /\ UNCHANGED out

(* Only the WithErrors functions name the error; a validator says yes or no. *)
Said(error) == IF call.mode = "errors" \/ (call.to = "none" /\ error = "Success")
               THEN error ELSE "Unsaid"

Answer(error, count) ==
  /\ pc' = "returned"
  /\ res' = [error |-> Said(error), count |-> count]

(* A wrapper takes a tail that wrote nothing for one that failed.          *)
Written == IF call.mode \in {"plain", "valid"} /\ Len(out) = base THEN 0 ELSE Len(out)

Succeed == Answer("Success",
             CASE call.to # "none" -> Written
               [] call.to = "none" /\ call.mode = "errors" -> Size
               [] OTHER -> 0)

(* Variant: the offset counts from where the kernel stopped.               *)
FailInTail(error) == Answer(error, IF call.mode = "errors" THEN pos - base ELSE 0)

Fail(error) == Answer(error, IF call.mode = "errors" THEN pos ELSE 0)

-----------------------------------------------------------------------------
(* Judging the character at the position *)

Verdict(t, p) ==
  CASE call.mode = "swap"                          -> "Success"
    [] call.from = "latin1"                        -> "Success"
    [] call.from \in {"ascii", "ascii16"}          -> IF t[p] > 127 THEN "TooLarge" ELSE "Success"
    [] call.from = "utf8" /\ call.to = "latin1"    -> UTF8ToLatin1Verdict(t, p)
    [] call.from = "utf8" /\ call.to # "latin1"    -> UTF8Verdict(t, p)
    [] call.from \in {"utf16", "utf32"} /\ call.to = "latin1" -> Latin1Verdict(t[p])
    [] call.from = "utf16" /\ call.to # "latin1" /\ call.mode # "swap" -> UTF16Verdict(t, p)
    [] call.from = "utf32" /\ call.to # "latin1"   -> UTF32Verdict(t[p])

(* UTF-16 and UTF-32 to Latin-1 convert everything first and judge at the end. *)
JudgedAtEnd == call.mode = "plain" /\ call.from \in {"utf16", "utf32"} /\ call.to = "latin1"

(* A trusting converter still stops at input it cannot step over: "cut"    *)
(* ends it where it is, "void" makes it answer 0.                          *)
TooWide(w) == w = 0 \/ (call.to = "latin1" /\ w > 2)

TrustedUTF8(t, p) ==
  LET w == LeadWidth(t[p])
  IN  CASE TooWide(w)                               -> "void"
        [] ~ TooWide(w) /\ p + w - 1 > Len(t)       -> "cut"
        [] OTHER -> IF call.to = "latin1" /\ Broken(t, p) THEN "void" ELSE "Success"

Trusted(t, p) ==
  CASE call.from = "utf8" -> TrustedUTF8(t, p)
    [] call.from = "utf16" /\ call.to # "latin1" ->
         IF Surrogate(t[p]) /\ p = Len(t) THEN "void" ELSE "Success"
    [] call.from = "utf32" /\ call.to = "latin1" -> IF t[p] > 255 THEN "void" ELSE "Success"
    [] OTHER -> "Success"

Judgement(t, p) == CASE JudgedAtEnd          -> "Success"
                     [] call.mode = "valid"  -> Trusted(t, p)
                     [] OTHER                -> Verdict(t, p)

Width(t, p) ==
  CASE call.from = "utf8" -> LeadWidth(t[p])
    [] call.from = "utf16" /\ call.to # "latin1" /\ call.mode # "swap" ->
         IF Pair(t, p) \/ (call.mode = "valid" /\ Surrogate(t[p])) THEN 2 ELSE 1
    [] OTHER -> 1

CodePoint(t, p) ==
  CASE call.from = "utf8" -> Assembled(t, p)
    [] call.from = "utf16" /\ Width(t, p) = 2 -> FromPair(t[p], t[p + 1])
    [] OTHER -> t[p]

(* The code point at p as it is written.  The converters of UTF-8 to UTF-16 *)
(* go by the lead byte: four bytes become two words, and a form too long,  *)
(* which only the trusting converter takes, two words that are no pair.    *)
Converted(t, p) ==
  IF call.from = "utf8" /\ call.to = "utf16" /\ Width(t, p) = 4
  THEN LET words == UTF16Pair(CodePoint(t, p)) IN [i \in DOMAIN words |-> Swap(words[i])]
  ELSE Spelled(CodePoint(t, p))

(* Units the safe converters want free: four for any surrogate.            *)
Needed(t, p) == IF call.from = "utf16" /\ Surrogate(t[p]) THEN 4
                ELSE Len(Spelled(CodePoint(t, p)))

-----------------------------------------------------------------------------
(* Steps *)

Refuse ==
  /\ pc = "call"
  /\ call.room < Required(Words(call.text))
  /\ pc' = "panicked"
  /\ UNCHANGED << call, base, pos, out, res >>

Enter ==
  /\ pc = "call" /\ call.mode \notin Inspections
  /\ call.room >= Required(Words(call.text))
  /\ pc' = IF call.provider = "kernel" /\ Size >= Group THEN "kernel" ELSE "scalar"
  /\ UNCHANGED << call, base, pos, out, res >>

(* One look at the input and an answer.                                    *)
Inspect ==
  /\ pc = "call"
  /\ \/ /\ call.mode = "trim" /\ call.from = "utf8"
        /\ Answer("Success", trimPartialUTF8(call.text))
     \/ /\ call.mode = "trim" /\ call.from = "utf16"
        /\ Answer("Success", trimPartialUTF16(Words(call.text)))
     \/ /\ call.mode = "detect"
        /\ Answer("Success", detectEncodings(call.text, ~ call.swapped))
     \/ /\ call.mode = "autodetect"
        /\ Answer("Success", autodetectEncoding(detectEncodings(call.text, ~ call.swapped)))
  /\ UNCHANGED << call, base, pos, out >>

(* What a kernel takes without a second look: it stops before the first    *)
(* whole group that holds anything else.                                   *)
Easy(u) ==
  CASE call.mode = "swap" -> TRUE
    [] call.from = "latin1" -> call.to # "utf8" \/ u < 128
    [] call.from \in {"ascii", "ascii16", "utf8"} -> u < 128
    [] call.from \in {"utf16", "utf32"} /\ call.to = "latin1" -> u <= 255
    [] call.from \in {"utf16", "utf32"} /\ call.to = "utf8" -> u < 128
    [] call.from = "utf16" /\ call.mode # "swap" /\ call.to \notin {"latin1", "utf8"} -> ~ Surrogate(u)
    [] call.from = "utf32" /\ call.to = "utf16" -> u < 65536 /\ ~ Surrogate(u)
    [] call.from = "utf32" /\ call.to = "none" -> u < 128

KernelStops ==
  {n \in pos .. Size : /\ (n - pos) % Group = 0
                       /\ \A i \in pos + 1 .. n : Easy(Input[i])
                       /\ \/ n + Group > Size
                          \/ \E i \in n + 1 .. n + Group : ~ Easy(Input[i])}

RestAfter(n) == SubSeq(Words(call.text), n + 1, Size)

(* Latin-1 to UTF-8 goes back to its kernel after every character.         *)
Resumes == call.from = "latin1" /\ call.to = "utf8"

(* The kernel's prefix, one unit out for each unit in; then the tail, whose *)
(* converter checks its own slices again.                                  *)
Kernel ==
  /\ pc = "kernel" /\ ~ Resumes /\ ~ (call.from = "utf8" /\ call.to = "none")
  /\ \E n \in KernelStops :
       LET units == IF call.to = "none" THEN << >>
                    ELSE [i \in 1 .. n |-> Spelled(Input[i])[1]]
       IN  /\ base' = n /\ pos' = n
           /\ IF n > call.room /\ call.to # "none" THEN pc' = "overrun" /\ UNCHANGED << out, res >>
              ELSE /\ out' = units
                   /\ IF n = Size /\ call.to # "none"
                      THEN Answer("Success", n)
                      ELSE /\ pc' = IF call.room - Len(units) < Required(RestAfter(n))
                                    THEN "panicked" ELSE "scalar"
                           /\ UNCHANGED res
  /\ UNCHANGED call

(* The clean groups from here, then the character that ended them; the     *)
(* units written run ahead of the units read from the first one on.        *)
ResumedKernel ==
  /\ pc = "kernel" /\ Resumes
  /\ \E n \in KernelStops :
       LET last == IF n < Size THEN n + 1 ELSE n
           units == SubSeq(Input, pos + 1, n)
                      \o (IF n < Size THEN Spelled(Input[last]) ELSE << >>)
       IN  Put(units, IF last = Size THEN "scalar" ELSE "kernel") /\ pos' = last
  /\ UNCHANGED << call, base, res >>

(* The UTF-8 validators have a kernel for all of UTF-8.  It finds no error  *)
(* in a run of whole groups, whose end may fall inside a character.        *)
CleanTo(n) ==
  \E s \in 0 .. n :
    /\ \A p \in 1 .. s :
         IF Continuation(Input[p])
         THEN \E q \in 1 .. p - 1 : q + LeadWidth(Input[q]) > p
         ELSE UTF8Verdict(SubSeq(Input, 1, s), p) = "Success"
    /\ n > s => /\ LeadWidth(Input[s + 1]) > n - s
                /\ \A p \in s + 2 .. n : Continuation(Input[p])

CleanRuns == {n \in 0 .. Size : n % Group = 0 /\ CleanTo(n)}

(* Back from the last byte of the clean run over at most five continuation  *)
(* bytes, to where the scalar validator starts again.                      *)
MaxRewind == 5

Rewound(n) ==
  CHOOSE s \in 0 .. n :
    /\ s < n \/ n = 0
    /\ s + 1 + MaxRewind >= n
    /\ n > 0 => \/ s = 0 \/ s + 1 + MaxRewind = n
                \/ ~ Continuation(Input[s + 1])
    /\ \A r \in s + 1 .. n - 1 : Continuation(Input[r + 1])

UTF8Kernel ==
  /\ pc = "kernel" /\ call.from = "utf8" /\ call.to = "none"
  /\ \E n \in CleanRuns : base' = Rewound(n) /\ pos' = Rewound(n)
  /\ pc' = "scalar"
  /\ UNCHANGED << call, out, res >>

-----------------------------------------------------------------------------
(* The scalar loop *)

Looping == pc = "scalar" /\ pos < Size

Here == pos + 1

BlockSize == IF call.mode = "valid" /\ call.to # "latin1" THEN Block \div 2 ELSE Block

BlockAhead == /\ call.from \in {"ascii", "utf8"}
              /\ pos + BlockSize <= Size
              /\ \A i \in Here .. pos + BlockSize : Input[i] < 128

(* Variant: a validator that found an ASCII block does not step over it.   *)
AsciiBlockStuck ==
  /\ Looping /\ BlockAhead
  /\ Put(IF call.to = "none" THEN << >>
         ELSE [i \in 1 .. BlockSize |-> Spelled(Input[pos + i])[1]], "scalar")
  /\ pos' = IF call.to = "none" THEN pos ELSE pos + BlockSize
  /\ UNCHANGED << call, base, res >>

AsciiBlock ==
  /\ Looping /\ BlockAhead
  /\ Put(IF call.to = "none" THEN << >>
         ELSE [i \in 1 .. BlockSize |-> Spelled(Input[pos + i])[1]], "scalar")
  /\ pos' = pos + BlockSize
  /\ UNCHANGED << call, base, res >>

(* Variant: a character that fits exactly is left out.                     *)
NoRoomToSpare == call.mode = "safe" /\ call.room - Len(out) <= Needed(Input, Here)

(* convertUTF16ToUTF8Safe looks for room before it judges a surrogate.     *)
NoRoom == call.mode = "safe" /\ call.room - Len(out) < Needed(Input, Here)

Judged(verdict) == Looping /\ ~ BlockAhead /\ ~ NoRoom /\ Judgement(Input, Here) = verdict

Character ==
  /\ Judged("Success")
  /\ Put(Converted(Input, Here), "scalar")
  /\ pos' = pos + Width(Input, Here)
  /\ UNCHANGED << call, base, res >>

Full ==
  /\ Looping /\ NoRoom
  /\ Succeed
  /\ UNCHANGED << call, base, pos, out >>

(* Variant: U+FFFD is stored in native order whatever the storage is.      *)
SubstituteNative ==
  /\ call.mode \in {"replacement", "wellFormed"}
  /\ Judged("Surrogate")
  /\ Put(IF call.to = "utf16" THEN << Replacement >> ELSE Spelled(Replacement), "scalar")
  /\ pos' = pos + 1
  /\ UNCHANGED << call, base, res >>

(* A pair keeps its two words, a lone surrogate becomes U+FFFD.            *)
Substitute ==
  /\ call.mode \in {"replacement", "wellFormed"}
  /\ Judged("Surrogate")
  /\ Put(Spelled(Replacement), "scalar")
  /\ pos' = pos + 1
  /\ UNCHANGED << call, base, res >>

Reject ==
  /\ call.mode \in {"plain", "errors", "safe"}
  /\ \E error \in Faults \ {"Success"} : Judged(error) /\ Fail(error)
  /\ UNCHANGED << call, base, pos, out >>

GiveUp ==
  /\ Judged("void") /\ Fail("Unsaid")
  /\ UNCHANGED << call, base, pos, out >>

CutShort ==
  /\ Judged("cut") /\ Succeed
  /\ UNCHANGED << call, base, pos, out >>

(* tooLarge gathers the bits of every unit the tail converted.             *)
LateReject == JudgedAtEnd /\ \E i \in base + 1 .. Size : Input[i] > 255

Conclude ==
  /\ pc = "scalar" /\ pos = Size
  /\ IF LateReject THEN Fail("TooLarge") ELSE Succeed
  /\ UNCHANGED << call, base, pos, out >>

Next == \/ Refuse \/ Inspect \/ Enter \/ Kernel \/ ResumedKernel \/ UTF8Kernel
        \/ AsciiBlock \/ Character \/ Full \/ Substitute
        \/ Reject \/ GiveUp \/ CutShort \/ Conclude

Spec == Init /\ [][Next]_vars /\ WF_vars(Next)

-----------------------------------------------------------------------------
(* Properties *)

(* Types; no unit is wider than its encoding, and the loop stays inside.   *)
TypeOK ==
  /\ call \in CallType
  /\ pc \in {"call", "kernel", "scalar", "returned", "panicked", "overrun"}
  /\ pos \in base .. Size
  /\ out \in Seq(Nat) /\ \A i \in DOMAIN out : IsUnit(call.to, out[i])
  /\ res \in [error : Faults \cup {"Unsaid"}, count : Nat]

Returned == pc = "returned"
WordsIn  == Words(call.text)
Source   == Reading(call.from, call.to, WordsIn)

(* The words that were written, back in native order. *)
WordsOut == [i \in DOMAIN out |-> IF call.to = "utf16" THEN Swap(out[i]) ELSE out[i]]
Target   == Reading(call.to, call.to, WordsOut)

(* A call panics only before it has written anything, and only because dst *)
(* is shorter than its length function said: no index runs past the end of *)
(* dst, ill-formed input included.  Only the converters that trust UTF-16  *)
(* may be led out of dst, and only by input that breaks their condition.   *)
PanicsBeforeWriting ==
  /\ pc = "panicked" => out = << >> /\ call.room < Required(WordsIn)
  /\ pc = "overrun" => call.mode = "valid" /\ call.from = "utf16" /\ ~ Source.whole

(* Scalar or through a kernel, in either byte order: a checking function   *)
(* accepts exactly the well-formed inputs its destination can hold, writes *)
(* text that reads back as the same code points, and otherwise names the   *)
(* fault and the position of the first character that is not one, what is  *)
(* before it converted.  A trusting function does the same for such input. *)
ConvertsExactly ==
  Returned /\ call.mode \in {"plain", "errors", "valid"} =>
    IF Source.whole
    THEN /\ call.to # "none" => Target.whole /\ Target.points = Source.points
         /\ res = [error |-> Said("Success"),
                   count |-> CASE call.to # "none" -> Len(out)
                               [] call.to = "none" /\ call.mode = "errors" -> Size
                               [] OTHER -> 0]
    ELSE /\ call.mode = "plain" => res = Unanswered
         /\ call.mode = "errors" =>
              /\ res = [error |-> Fault(call.from, call.to, WordsIn, Source.stop + 1),
                        count |-> Source.stop]
              /\ call.to # "none" => Target.whole /\ Target.points = Source.points

(* Replacing conversion and repair, in place too, read as the input with   *)
(* each lone surrogate replaced by U+FFFD; the repair moves no word.       *)
Repairs ==
  Returned /\ call.mode \in {"replacement", "wellFormed"} =>
    /\ Target.whole /\ Target.points = Repaired(call.from, WordsIn)
    /\ call.mode = "wellFormed" =>
         /\ Len(out) = Size
         /\ \A i \in 1 .. Size :
              WordsOut[i] \in {WordsIn[i]} \cup (IF Surrogate(WordsIn[i]) THEN {Replacement} ELSE {})

(* A safe converter that does not refuse its input stops in front of the   *)
(* first character that does not fit, never inside one.                    *)
SafeStopsWhole ==
  Returned /\ call.mode = "safe" /\ (res.count > 0 \/ Source.whole) =>
    /\ res.count = Len(out) /\ Target.whole
    /\ Target.points = SubSeq(Source.points, 1, Len(Target.points))
    /\ Len(Target.points) < Len(Source.points) =>
         Len(out) + Len(UTF8Units(Source.points[Len(Target.points) + 1])) > call.room

(* A safe converter answers the number of bytes it wrote: "converts        *)
(* complete UTF-16 code points which fit in dst and returns the number of  *)
(* bytes written" (utf16_convert.go:160).                                  *)
SafeCountsWritten == Returned /\ call.mode = "safe" => res.count = Len(out)

(* The length functions are exact for every input that is converted whole. *)
LengthExact ==
  Returned /\ pos = Size /\ call.to # "none" /\ (call.mode = "safe" => call.room >= 4 * Size)
           /\ (Source.whole \/ call.mode \in {"replacement", "wellFormed", "swap"}) =>
    Len(out) = (IF call.mode = "safe"
                THEN IF call.from = "latin1" THEN utf8LengthFromLatin1(WordsIn)
                     ELSE utf8LengthFromUTF16(WordsIn)
                ELSE Required(WordsIn))

(* Cutting the last character of a text anywhere and trimming what is left *)
(* keeps exactly the whole characters before it: a caller that feeds a     *)
(* text in pieces splits no character and drops none.                      *)
TrimsExactly ==
  Returned /\ call.mode = "trim" =>
    LET rest == SubSeq(WordsIn, Source.stop + 1, Size)
    IN  Source.whole \/ Truncated(call.from, rest) => res.count = Source.stop

(* Detection reports the mark if the bytes begin with one, the longest; it *)
(* reports otherwise every encoding, and only those, that the bytes are a  *)
(* whole text of (UTF-32 in the order of the machine).  The guess is one   *)
(* of what is reported, none only when nothing is, UTF-8 when it is one.   *)
DetectsReadable ==
  Returned /\ call.mode \in {"detect", "autodetect"} =>
    LET encodings == ReadableAs(call.text, call.swapped)
    IN  IF call.mode = "detect"
        THEN res.count = BitsOf(encodings)
        ELSE IF encodings = {} THEN res.count = 0
        ELSE /\ \E e \in encodings : res.count = BitsOf({e})
             /\ "UTF8" \in encodings => res.count = BitsOf({"UTF8"})

(* Every call ends. *)
Termination == <>(pc \in {"returned", "panicked", "overrun"})
=============================================================================
