------------------------------ MODULE Unicode ------------------------------
(***************************************************************************)
(* The code units of the four text encodings as the scalar code reads and  *)
(* writes them: which byte opens a character and how long it says it is,   *)
(* how a code point is assembled and how it is spelled, what judges a      *)
(* character, and the length functions a caller sizes a destination with.  *)
(* Bytes, words and code points are integers; shifts and masks are written *)
(* as \div and %.                                                          *)
(***************************************************************************)
EXTENDS Integers, Sequences, FiniteSets

Surrogate(c) == 55296 <= c /\ c <= 57343
High(c)      == 55296 <= c /\ c <= 56319
Low(c)       == 56320 <= c /\ c <= 57343

Replacement == 65533

(* The two bytes of a 16-bit word change places. *)
ReverseBytes16(w) == (w % 256) * 256 + w \div 256

----------------------------------------------------------------------------
(* UTF-8 *)

Continuation(b) == b \div 64 = 2

(* The number of bytes the leading byte announces; 0 for a byte that cannot lead. *)
LeadWidth(b) == CASE b < 128      -> 1
                  [] b \div 32 = 6  -> 2
                  [] b \div 16 = 14 -> 3
                  [] b \div 8 = 30  -> 4
                  [] OTHER        -> 0

(* The announced character runs out of input or lacks a continuation byte. *)
Broken(t, p) == \/ p + LeadWidth(t[p]) - 1 > Len(t)
                \/ \E i \in 1 .. LeadWidth(t[p]) - 1 : ~ Continuation(t[p + i])

(* Taken at its word, whatever the continuation bytes are. *)
Assembled(t, p) ==
    CASE LeadWidth(t[p]) = 1 -> t[p]
      [] LeadWidth(t[p]) = 2 -> (t[p] % 32) * 64 + (t[p + 1] % 64)
      [] LeadWidth(t[p]) = 3 -> (t[p] % 16) * 4096 + (t[p + 1] % 64) * 64 + (t[p + 2] % 64)
      [] LeadWidth(t[p]) = 4 -> (t[p] % 8) * 262144 + (t[p + 1] % 64) * 4096
                                  + (t[p + 2] % 64) * 64 + (t[p + 3] % 64)

ShortestOf == << 0, 128, 2048, 65536 >>

(* The order of the tests is the code's: form, then length, then range. *)
UTF8Verdict(t, p) ==
    LET w == LeadWidth(t[p])
        c == Assembled(t, p)
    IN  CASE w = 0 /\ Continuation(t[p])   -> "TooLong"
          [] w = 0 /\ ~ Continuation(t[p]) -> "HeaderBits"
          [] w > 0 /\ Broken(t, p)         -> "TooShort"
          [] OTHER -> CASE c < ShortestOf[w]                -> "Overlong"
                        [] c >= ShortestOf[w] /\ Surrogate(c) -> "Surrogate"
                        [] c > 1114111                      -> "TooLarge"
                        [] OTHER                            -> "Success"

(* A Latin-1 destination refuses the long forms before looking at the rest of them. *)
UTF8ToLatin1Verdict(t, p) ==
    IF LeadWidth(t[p]) \in {3, 4} THEN "TooLarge"
    ELSE IF UTF8Verdict(t, p) = "Success" /\ Assembled(t, p) > 255 THEN "TooLarge"
    ELSE UTF8Verdict(t, p)

(* Variant: the supplementary planes are spelled with three bytes.         *)
UTF8UnitsOfThree(c) ==
    CASE c < 128           -> << c >>
      [] c \in 128 .. 2047 -> << 192 + c \div 64, 128 + (c % 64) >>
      [] OTHER -> << 224 + c \div 4096, 128 + ((c \div 64) % 64), 128 + (c % 64) >>

UTF8Units(c) ==
    CASE c < 128                 -> << c >>
      [] 128 <= c /\ c < 2048    -> << 192 + c \div 64, 128 + (c % 64) >>
      [] 2048 <= c /\ c < 65536  -> << 224 + c \div 4096, 128 + ((c \div 64) % 64), 128 + (c % 64) >>
      [] OTHER -> << 240 + ((c \div 262144) % 16), 128 + ((c \div 4096) % 64),
                     128 + ((c \div 64) % 64), 128 + (c % 64) >>

----------------------------------------------------------------------------
(* UTF-16, over words already in native order, and UTF-32 *)

Pair(t, p) == High(t[p]) /\ p < Len(t) /\ Low(t[p + 1])

UTF16Verdict(t, p) == IF Surrogate(t[p]) /\ ~ Pair(t, p) THEN "Surrogate" ELSE "Success"

(* The two differences are 16-bit: they wrap when the words are no pair. *)
FromPair(high, low) ==
    ((high - 55296) % 65536) * 1024 + ((low - 56320) % 65536) + 65536

(* Two words for any code point: the differences are 32-bit and the words  *)
(* 16-bit, so that below the supplementary planes the first one wraps.     *)
UTF16Pair(c) ==
    << (55296 + (c - 65536) \div 1024) % 65536, 56320 + ((c - 65536) % 1024) >>

UTF16Units(c) == IF c < 65536 THEN << c >> ELSE UTF16Pair(c)

UTF32Verdict(c) == CASE c > 1114111  -> "TooLarge"
                     [] Surrogate(c) -> "Surrogate"
                     [] OTHER        -> "Success"

Latin1Verdict(c) == IF c > 255 THEN "TooLarge" ELSE "Success"

----------------------------------------------------------------------------
(* The length functions: they count over the whole input and validate nothing. *)

countUTF8(t) == Cardinality({i \in DOMAIN t : ~ Continuation(t[i])})

(* The positions holding a unit from n up. *)
From(t, n) == {i \in DOMAIN t : t[i] >= n}

(* Variant: one unit for every character, pairs forgotten.                 *)
utf16LengthFromUTF8Single(t) == countUTF8(t)

utf16LengthFromUTF8(t) == countUTF8(t) + Cardinality(From(t, 240))

utf32LengthFromUTF16(t) == Cardinality({i \in DOMAIN t : ~ Low(t[i])})

(* A surrogate counts for two bytes: half of the four a pair takes. *)
utf8LengthFromUTF16(t) ==
    Len(t) + Cardinality(From(t, 128))
           + Cardinality({i \in From(t, 2048) : ~ Surrogate(t[i])})

(* Variant: a pair is taken for five bytes.                                *)
utf8LengthFromUTF16WithReplacementLoose(t) ==
    Len(t) + Cardinality(From(t, 128)) + Cardinality(From(t, 2048))
           - Cardinality({i \in DOMAIN t : Pair(t, i)})

(* With replacement, a pair takes four bytes and a lone surrogate three. *)
utf8LengthFromUTF16WithReplacement(t) ==
    Len(t) + Cardinality(From(t, 128)) + Cardinality(From(t, 2048))
           - 2 * Cardinality({i \in DOMAIN t : Pair(t, i)})

utf8LengthFromUTF32(t) ==
    Len(t) + Cardinality(From(t, 128)) + Cardinality(From(t, 2048))
           + Cardinality(From(t, 65536))

utf16LengthFromUTF32(t) == Len(t) + Cardinality(From(t, 65536))

utf8LengthFromLatin1(t) == Len(t) + Cardinality(From(t, 128))
=============================================================================
