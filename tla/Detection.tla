----------------------------- MODULE Detection ------------------------------
(***************************************************************************)
(* What encoding some bytes are in, and how much of a text that was cut    *)
(* off is whole: CheckBOM, DetectEncodings, AutodetectEncoding and the     *)
(* TrimPartial functions.  An Encoding is the code's bit set.              *)
(***************************************************************************)
EXTENDS Unicode

Unspecified == 0
UTF8    == 1
UTF16LE == 2
UTF16BE == 4
UTF32LE == 8
UTF32BE == 16

Opens(t, mark) == Len(t) >= Len(mark) /\ SubSeq(t, 1, Len(mark)) = mark

(* Variant: FF FE is taken for UTF-16 without a look at what follows.      *)
CheckBOMShort(t) ==
  CASE Opens(t, << 255, 254 >>) -> UTF16LE
    [] Opens(t, << 254, 255 >>) -> UTF16BE
    [] Opens(t, << 0, 0, 254, 255 >>) -> UTF32BE
    [] Opens(t, << 239, 187, 191 >>) -> UTF8
    [] OTHER -> Unspecified

CheckBOM(t) ==
  CASE Opens(t, << 255, 254, 0, 0 >>) -> UTF32LE
    [] Opens(t, << 255, 254 >>) /\ ~ Opens(t, << 255, 254, 0, 0 >>) -> UTF16LE
    [] Opens(t, << 254, 255 >>) -> UTF16BE
    [] Opens(t, << 0, 0, 254, 255 >>) -> UTF32BE
    [] Opens(t, << 239, 187, 191 >>) -> UTF8
    [] OTHER -> Unspecified

(* The bytes of unit i, the most significant first, as this machine reads them. *)
BytesOf(t, width, i, little) ==
  [k \in 1 .. width |-> IF little THEN t[width * i - k + 1] ELSE t[width * (i - 1) + k]]

nativeUTF16Units(t, little) ==
  [i \in 1 .. Len(t) \div 2 |-> LET b == BytesOf(t, 2, i, little) IN b[1] * 256 + b[2]]

(* Whatever has a first byte is past the last code point: one such word    *)
(* stands for all, as TLC's integers end at 2^31.                          *)
Beyond == 16777216

nativeUTF32Units(t, little) ==
  [i \in 1 .. Len(t) \div 4 |->
     LET b == BytesOf(t, 4, i, little)
     IN  IF b[1] > 0 THEN Beyond ELSE b[2] * 65536 + b[3] * 256 + b[4]]

(* The validators' answer for a whole input. *)
validateUTF8(t) ==
  LET From8[p \in 1 .. Len(t) + 1] ==
        p > Len(t) \/ (UTF8Verdict(t, p) = "Success" /\ From8[p + LeadWidth(t[p])])
  IN  From8[1]

validateUTF16LE(stored, little) ==
  LET t == [i \in DOMAIN stored |-> IF little THEN stored[i] ELSE ReverseBytes16(stored[i])]
      From16[p \in 1 .. Len(t) + 1] ==
        p > Len(t) \/ (UTF16Verdict(t, p) = "Success" /\ From16[p + (IF Pair(t, p) THEN 2 ELSE 1)])
  IN  From16[1]

validateUTF32(t) == \A p \in DOMAIN t : UTF32Verdict(t[p]) = "Success"

detectEncodings(t, little) ==
  IF CheckBOM(t) # Unspecified THEN CheckBOM(t)
  ELSE (IF validateUTF8(t) THEN UTF8 ELSE 0)
     + (IF Len(t) % 2 = 0 /\ validateUTF16LE(nativeUTF16Units(t, little), little) THEN UTF16LE ELSE 0)
     + (IF Len(t) % 4 = 0 /\ validateUTF32(nativeUTF32Units(t, little)) THEN UTF32LE ELSE 0)

Has(encodings, encoding) == (encodings \div encoding) % 2 = 1

autodetectEncoding(encodings) ==
  CASE Has(encodings, UTF8) -> UTF8
    [] ~ Has(encodings, UTF8) /\ Has(encodings, UTF16LE) -> UTF16LE
    [] ~ Has(encodings, UTF8) /\ ~ Has(encodings, UTF16LE) /\ Has(encodings, UTF32LE) -> UTF32LE
    [] OTHER -> encodings

----------------------------------------------------------------------------
(* Variant: a lead of three bytes one from the end is left standing.       *)
PromisesMoreThanTwoBytes(t, k) == k <= Len(t) /\ t[Len(t) - k + 1] >= << 192, 240, 240 >>[k]

(* The k-th byte from the end leads a character of more than k bytes.      *)
PromisesMore(t, k) == k <= Len(t) /\ t[Len(t) - k + 1] >= << 192, 224, 240 >>[k]

trimPartialUTF8(t) ==
  LET cuts == {k \in 1 .. 3 : PromisesMore(t, k)}
  IN  IF cuts = {} THEN Len(t) ELSE Len(t) - (CHOOSE k \in cuts : \A j \in cuts : k <= j)

(* Over words in native order. *)
trimPartialUTF16(t) == IF Len(t) > 0 /\ High(t[Len(t)]) THEN Len(t) - 1 ELSE Len(t)
=============================================================================
