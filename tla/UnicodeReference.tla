-------------------------- MODULE UnicodeReference --------------------------
(***************************************************************************)
(* What a text means, from the definitions of the encodings and not from   *)
(* the code: the table of well-formed UTF-8 sequences, surrogate pairs,    *)
(* the scalar values; what a text reads as up to its first ill-formed      *)
(* character, what is wrong there, and what it reads as once every lone    *)
(* surrogate is replaced.                                                  *)
(***************************************************************************)
EXTENDS Integers, Sequences

Within(x, low, high) == low <= x /\ x <= high

Tail8(b) == Within(b, 128, 191)

UTF8Character(s) ==
  \/ Len(s) = 1 /\ s[1] < 128
  \/ Len(s) = 2 /\ Within(s[1], 194, 223) /\ Tail8(s[2])
  \/ /\ Len(s) = 3 /\ Tail8(s[3])
     /\ \/ s[1] = 224 /\ Within(s[2], 160, 191)
        \/ Within(s[1], 225, 239) /\ s[1] # 237 /\ Tail8(s[2])
        \/ s[1] = 237 /\ Within(s[2], 128, 159)
  \/ /\ Len(s) = 4 /\ Tail8(s[3]) /\ Tail8(s[4])
     /\ \/ s[1] = 240 /\ Within(s[2], 144, 191)
        \/ Within(s[1], 241, 243) /\ Tail8(s[2])
        \/ s[1] = 244 /\ Within(s[2], 128, 143)

Scalar(c) == c < 55296 \/ (57343 < c /\ c <= 1114111)

(* s is one whole character of the encoding. *)
IsCharacter(encoding, s) ==
  \/ encoding = "utf8" /\ UTF8Character(s)
  \/ /\ encoding = "utf16"
     /\ \/ Len(s) = 1 /\ s[1] <= 65535 /\ Scalar(s[1])
        \/ Len(s) = 2 /\ Within(s[1], 55296, 56319) /\ Within(s[2], 56320, 57343)
  \/ encoding = "utf32" /\ Len(s) = 1 /\ Scalar(s[1])
  \/ encoding = "latin1" /\ Len(s) = 1 /\ s[1] <= 255
  \/ encoding \in {"ascii", "ascii16"} /\ Len(s) = 1 /\ s[1] <= 127

(* The code point a character stands for. *)
Meaning(encoding, s) ==
  CASE Len(s) = 1 -> s[1]
    [] Len(s) = 2 /\ encoding = "utf8" -> (s[1] - 192) * 64 + (s[2] - 128)
    [] Len(s) = 2 /\ encoding = "utf16" -> 65536 + (s[1] - 55296) * 1024 + (s[2] - 56320)
    [] Len(s) = 3 -> (s[1] - 224) * 4096 + (s[2] - 128) * 64 + (s[3] - 128)
    [] Len(s) = 4 -> (s[1] - 240) * 262144 + (s[2] - 128) * 4096
                       + (s[3] - 128) * 64 + (s[4] - 128)

Holds(encoding, c) == encoding = "latin1" => c <= 255

(* The characters that start at p and the other encoding can hold: one at most. *)
CharactersAt(from, to, t, p) ==
  {s \in {SubSeq(t, p, q) : q \in p .. (IF p + 3 < Len(t) THEN p + 3 ELSE Len(t))} :
     IsCharacter(from, s) /\ Holds(to, Meaning(from, s))}

(* The code points before the first position where no character starts.    *)
Reading(from, to, t) ==
  LET Read[p \in 1 .. Len(t) + 1] ==
        IF p > Len(t) THEN [points |-> << >>, stop |-> Len(t), whole |-> TRUE]
        ELSE IF CharactersAt(from, to, t, p) = {}
        THEN [points |-> << >>, stop |-> p - 1, whole |-> FALSE]
        ELSE LET s == CHOOSE s \in CharactersAt(from, to, t, p) : TRUE
                 rest == Read[p + Len(s)]
             IN  [rest EXCEPT !.points = << Meaning(from, s) >> \o @]
  IN  Read[1]

(* The same with U+FFFD for every unit that starts no character.           *)
Repaired(from, t) ==
  LET Read[p \in 1 .. Len(t) + 1] ==
        IF p > Len(t) THEN << >>
        ELSE IF CharactersAt(from, from, t, p) = {} THEN << 65533 >> \o Read[p + 1]
        ELSE LET s == CHOOSE s \in CharactersAt(from, from, t, p) : TRUE
             IN  << Meaning(from, s) >> \o Read[p + Len(s)]
  IN  Read[1]

(* The lead at p is not followed by the continuation bytes it calls for.   *)
CutOff(t, p) ==
  \E i \in 1 .. (CASE t[p] < 224 -> 1 [] Within(t[p], 224, 239) -> 2 [] OTHER -> 3) :
    IF p + i > Len(t) THEN TRUE ELSE ~ Tail8(t[p + i])

(* Why no character that the destination can hold starts at p.             *)
Fault(from, to, t, p) ==
  CASE from = "utf8" /\ Tail8(t[p]) -> "TooLong"
    [] from = "utf8" /\ t[p] >= 248 -> "HeaderBits"
    [] from = "utf8" /\ Within(t[p], 192, 247) ->
         IF to = "latin1" /\ t[p] >= 224 THEN "TooLarge"
         ELSE IF CutOff(t, p) THEN "TooShort"
         ELSE IF \/ t[p] \in {192, 193}
                 \/ t[p] = 224 /\ t[p + 1] < 160
                 \/ t[p] = 240 /\ t[p + 1] < 144 THEN "Overlong"
         ELSE IF t[p] = 237 /\ t[p + 1] >= 160 THEN "Surrogate"
         ELSE "TooLarge"
    [] from = "utf16" /\ to # "latin1" -> "Surrogate"
    [] from = "utf32" /\ to # "latin1" /\ t[p] <= 1114111 /\ ~ Scalar(t[p]) -> "Surrogate"
    [] OTHER -> "TooLarge"
----------------------------------------------------------------------------
(* A character that was cut off: something completes s to one.  The bytes  *)
(* tried lie in every range a second byte can be restricted to.            *)
Completions(encoding) ==
  IF encoding = "utf8" THEN UNION {[1 .. k -> {128, 144, 160, 191}] : k \in 1 .. 3}
  ELSE {<< 56320 >>}

Truncated(encoding, s) == \E x \in Completions(encoding) : IsCharacter(encoding, s \o x)

(* U+FEFF in front of a text tells its encoding.                           *)
MarkOf == [UTF8 |-> << 239, 187, 191 >>,
           UTF16LE |-> << 255, 254 >>, UTF16BE |-> << 254, 255 >>,
           UTF32LE |-> << 255, 254, 0, 0 >>, UTF32BE |-> << 0, 0, 254, 255 >>]

MarksOn(t) ==
  {e \in DOMAIN MarkOf : \A i \in DOMAIN MarkOf[e] : i <= Len(t) /\ t[i] = MarkOf[e][i]}

(* UTF-16LE by its odd bytes: leading and trailing surrogates come in pairs. *)
Readable16(t) ==
  LET n == Len(t) \div 2
      Leads == {i \in 1 .. n : t[2 * i] \in 216 .. 219}
      Trails == {i \in 1 .. n : t[2 * i] \in 220 .. 223}
  IN  Len(t) % 2 = 0 /\ Trails = {i + 1 : i \in Leads}

(* Four bytes, least significant first, are a scalar value.                *)
Scalar32(b) == /\ b[4] = 0 /\ b[3] <= 16
               /\ b[3] = 0 => b[2] \notin 216 .. 223

Readable32(t, bigEndian) ==
  /\ Len(t) % 4 = 0
  /\ \A i \in 1 .. Len(t) \div 4 :
       LET b == SubSeq(t, 4 * i - 3, 4 * i)
       IN  Scalar32(IF bigEndian THEN << b[4], b[3], b[2], b[1] >> ELSE b)

ReadableAs(t, bigEndian) ==
  IF MarksOn(t) # {}
  THEN {CHOOSE e \in MarksOn(t) : \A d \in MarksOn(t) : Len(MarkOf[d]) <= Len(MarkOf[e])}
  ELSE {e \in {"UTF8", "UTF16LE", "UTF32LE"} :
          CASE e = "UTF8"    -> Reading("utf8", "utf8", t).whole
            [] e = "UTF16LE" -> Readable16(t)
            [] e = "UTF32LE" -> Readable32(t, bigEndian)}

(* A set of encodings as the sum of the bits encoding.go gives them.       *)
BitOf == [UTF8 |-> 1, UTF16LE |-> 2, UTF16BE |-> 4, UTF32LE |-> 8, UTF32BE |-> 16]

BitsOf(encodings) ==
  LET Bit(e) == IF e \in encodings THEN BitOf[e] ELSE 0
  IN  Bit("UTF8") + Bit("UTF16LE") + Bit("UTF16BE") + Bit("UTF32LE") + Bit("UTF32BE")
=============================================================================
