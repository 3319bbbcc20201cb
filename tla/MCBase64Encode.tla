---------------------------- MODULE MCBase64Encode ----------------------------
(***************************************************************************)
(* Inputs of every length up to MaxLen, drawn from patterns whose quartets *)
(* hold the values 62 and 63 and every bit position, every width a quartet *)
(* can straddle (0 and 3 are raised to 4), every option, and destinations  *)
(* one short of, equal to and longer than what is required.  The small     *)
(* Group, Load and Buffer keep the shape of 24, 28 and 128: a kernel stops *)
(* before its input ends, and a buffer holds several groups.               *)
(***************************************************************************)
EXTENDS Base64Encode

CONSTANTS MaxLen, Widths

Patterns == {[k \in 1..MaxLen |-> IF k % 2 = 0 THEN 255 ELSE 248],
             [k \in 1..MaxLen |-> (k * 37) % 256],
             [k \in 1..MaxLen |-> IF k % 3 = 1 THEN 1 ELSE 128]}

Inputs == {SubSeq(p, 1, n) : p \in Patterns, n \in 0..MaxLen}

Sizes(n, options, lines, lineLength) ==
  LET required == IF lines THEN LengthWithLines(n, options, lineLength)
                           ELSE LengthFromBinary(n, options)
  IN  {required, required + 2} \cup (IF required = 0 THEN {} ELSE {required - 1})

MCCalls ==
  UNION {[input : {b}, cap : Sizes(Len(b), o, l, w), lines : {l}, lineLength : {w},
          options : {o}, provider : {"tail", "columns", "positions"}] :
         b \in Inputs, o \in Options, l \in BOOLEAN, w \in Widths}
=============================================================================
