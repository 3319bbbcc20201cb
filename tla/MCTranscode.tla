----------------------------- MODULE MCTranscode -----------------------------
(***************************************************************************)
(* Units on both sides of every boundary the code tests.  UTF-8: all byte  *)
(* strings over Bytes up to three long, all four-byte strings behind a     *)
(* four-byte lead, and characters, whole and broken, after one another so  *)
(* that a block, a group or an error comes after what was converted.       *)
(* UTF-16 and UTF-32: all strings over the boundary words, in both byte    *)
(* orders.  Destinations one short of, as long as, and longer than what is *)
(* required; for the safe converters every length that matters.            *)
(***************************************************************************)
EXTENDS Transcode

Strings(units, n) == UNION {[1 .. k -> units] : k \in 0 .. n}

Ascii == 65
Bytes == {Ascii, 128, 143, 144, 159, 160, 191, 193, 194, 195, 196, 224, 237, 240, 244, 248}
Tails == {Ascii, 128, 143, 144, 191}

FourBytes == {<< a, b, c, d >> : a \in {240, 241, 244}, b \in Tails, c \in {Ascii, 128}, d \in {Ascii, 191}}

Pieces == {<< >>, << Ascii >>, << Ascii, 66 >>, << 195, 169 >>, << 226, 130, 172 >>,
           << 240, 159, 152, 128 >>, << 224, 159, 128 >>, << 237, 160, 128 >>,
           << 195 >>, << 226, 130 >>, << 240, 159, 152 >>, << 128 >>, << 255 >>}
Prefixes == {<< >>, << Ascii, 66, 67 >>, << Ascii, 66, 67, 68 >>}

Texts8 == Strings(Bytes \ {191, 196, 143}, 2) \cup [1 .. 3 -> Bytes \ {144, 191, 196, 248}]
            \cup FourBytes
            \cup {p \o q \o r : p \in Prefixes, q \in Pieces, r \in Pieces}

Words16 == {Ascii, 233, 2047, 2048, 55295, 55296, 56319, 56320, 57343, 57344}
Texts16 == Strings(Words16, 2) \cup [1 .. 3 -> {Ascii, 233, 2048, 56319, 56320}]

Words32 == {Ascii, 127, 128, 255, 256, 2047, 2048, 55295, 55296, 57343, 57344, 65535, 65536,
            1114111, 1114112}
Texts32 == Strings(Words32, 2) \cup [1 .. 3 -> {Ascii, 233, 57343, 1114111, 1114112}]

Texts1 == Strings({Ascii, 127, 128, 255}, 5)

(* Bytes that marks, surrogates and the bounds of UTF-32 are made of.      *)
DetectBytes == {0, 16, 17, Ascii, 216, 220, 239, 254, 255}
Marks == {<< 239, 187, 191 >>, << 255, 254 >>, << 254, 255 >>, << 255, 254, 0, 0 >>, << 0, 0, 254, 255 >>}
TextsOfBytes == Strings(DetectBytes, 3) \cup [1 .. 4 -> DetectBytes \ {239}]
                  \cup {m \o s : m \in Marks, s \in Strings({0, Ascii}, 4)}
                  \cup {p \o q : p, q \in [1 .. 4 -> {0, 216, 220}]}

TextsOf(from) == CASE from = "utf8" -> Texts8
                   [] from \in {"utf16", "ascii16"} -> Texts16
                   [] from = "bytes" -> TextsOfBytes
                   [] from = "utf32" -> Texts32
                   [] from \in {"latin1", "ascii"} -> Texts1

(* The conversions there are. *)
Conversions ==
  {f \in [mode : Modes, from : Sources, to : Encodings \cup {"none"},
          swapped : BOOLEAN, inPlace : BOOLEAN, provider : {"scalar", "kernel"}] : Offered(f)}

(* t is in native order; a swapped call finds it the other way round. *)
Stored(f, t) == IF f.swapped /\ f.from \in {"utf16", "ascii16"} THEN [i \in DOMAIN t |-> ReverseBytes16(t[i])] ELSE t

Rooms(f, t) ==
  IF f.mode = "safe" THEN 0 .. 3 * Len(t) + 1
  ELSE IF f.inPlace \/ f.to = "none" THEN {Len(t)}
  ELSE {n \in {RequiredBy(f, t) - 1, RequiredBy(f, t)} : n >= 0}

MCCalls ==
  UNION {UNION {[mode : {f.mode}, from : {f.from}, to : {f.to}, swapped : {f.swapped},
                 inPlace : {f.inPlace}, provider : {f.provider},
                 text : {Stored(f, t)}, room : Rooms(f, t)] : t \in TextsOf(f.from)} : f \in Conversions}

(* The calls of the safe converters alone. *)
MCSafeCalls == {c \in MCCalls : c.mode = "safe"}
=============================================================================
