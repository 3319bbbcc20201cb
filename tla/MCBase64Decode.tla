--------------------------- MODULE MCBase64Decode ---------------------------
(***************************************************************************)
(* Base64Decode on small calls.  Letters are 'A' (0) and 'R' (17, whose    *)
(* low bits become extra bits in a last chunk).  Texts are all the strings *)
(* up to ShortLen, and short tails behind one or two SIMD blocks,          *)
(* contiguous or broken by whitespace; they behave alike under every       *)
(* alphabet, so they run under the options of TextOptions only.  URL texts *)
(* hold the characters the alphabets differ on and run under all options.  *)
(***************************************************************************)
EXTENDS Base64Decode

CONSTANTS ShortLen, TailLen, TextOptions

Letters    == {0, 17, Space, Pad, Bad}
Strings(n) == UNION {[1..k -> Letters] : k \in 0..n}

Leads    == {<<0, 17, 0, 17>>, <<0, Space, 17, 0, 17>>, <<0, 17, 0, 17, 0, 0, 17, 0>>}
URLTexts == {<<Dash, 62, 0, 0>>, <<62, 63, 62, 63, Dash>>, <<0, 17, Underscore, 0>>,
             <<Dash, Dash, Underscore, Underscore, Pad>>, <<Wide, 0, 0>>,
             <<0, 0, Wide, Pad>>, <<0, 0, 17, Wide>>}
Texts    == Strings(ShortLen) \cup {l \o t : l \in Leads, t \in Strings(TailLen)}

Need(i) == MaximalBinaryLength(i)

CallsOn(i, options) ==
  [input : {i}, cap : 0..Need(i), options : options, lastChunk : LastChunks,
   entry : {"safe", "upToBadChar"}, provider : {"scalar"}]
  \cup
  [input : {i}, cap : {n \in 0..Need(i) : n + 1 >= Need(i)}, options : options,
   lastChunk : LastChunks, entry : {"details"}, provider : {"scalar", "contiguous"}]

MCCalls == UNION {CallsOn(i, TextOptions) : i \in Texts}
           \cup UNION {CallsOn(i, Options) : i \in URLTexts}
=============================================================================
