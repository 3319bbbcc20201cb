------------------------------- MODULE Dispatch -------------------------------
(***************************************************************************)
(* Which provider of every operation a process runs.  The package decides  *)
(* once, in the initializer of activeImplementation: it reads the          *)
(* processor's features and two environment variables, and picks for each  *)
(* of the 93 operations one candidate of that operation's list.  From then *)
(* on every exported function calls the provider picked for it; a provider *)
(* whose kernel executes an instruction the processor lacks raises an      *)
(* invalid-opcode fault, which ends the process.                           *)
(*                                                                         *)
(* A candidate list names providers in order of preference; the lists are  *)
(* different in every build.  A provider is abstracted to its kind: each   *)
(* list holds at most one provider of a kind.                              *)
(***************************************************************************)
EXTENDS Integers, Sequences, FiniteSets

CONSTANTS
    Builds,     \* the builds considered, among those of AllBuilds
    Processors  \* the processors considered, each the set of its features

Kinds == {"scalar", "westmere", "haswell", "neon", "archsimd"}

\* Two amd64 builds, without and with GOEXPERIMENT=simd, and the other two.
AllBuilds == {"amd64", "amd64simd", "arm64", "generic"}

Features ==
    {"SSSE3", "SSE41", "SSE42", "POPCNT", "AVX2", "BMI1", "BMI2", "LZCNT", "NEON"}

(***************************************************************************)
(* A processor's vector extensions include the earlier ones.  POPCNT, BMI1,*)
(* BMI2 and LZCNT are bits of their own: processors and hypervisors exist  *)
(* that report vector extensions without them, and them without those.     *)
(***************************************************************************)
Nested(cpu) ==
    /\ "AVX2" \in cpu => "SSE42" \in cpu
    /\ "SSE42" \in cpu => "SSE41" \in cpu
    /\ "SSE41" \in cpu => "SSSE3" \in cpu

ASSUME BuildsAssumption == Builds \subseteq AllBuilds
ASSUME ProcessorsAssumption ==
    \A cpu \in Processors : cpu \subseteq Features /\ Nested(cpu)

-----------------------------------------------------------------------------
(* The operations, in the order of the fields of struct implementation. *)

ValidationOps ==
    {"validateUTF8", "validateUTF8WithErrors", "countUTF8", "latin1LengthFromUTF8",
     "utf16LengthFromUTF8", "utf32LengthFromUTF8", "validateASCII",
     "validateASCIIWithErrors", "validateUTF16LEAsASCII", "validateUTF16BEAsASCII",
     "validateUTF16LE", "validateUTF16BE", "validateUTF16LEWithErrors",
     "validateUTF16BEWithErrors", "toWellFormedUTF16LE", "toWellFormedUTF16BE",
     "validateUTF32", "validateUTF32WithErrors"}

FromBytesOps ==
    {"utf8LengthFromLatin1", "convertLatin1ToUTF8", "convertLatin1ToUTF16LE",
     "convertLatin1ToUTF16BE", "convertLatin1ToUTF32", "convertUTF8ToLatin1",
     "convertUTF8ToLatin1WithErrors", "convertValidUTF8ToLatin1",
     "convertUTF8ToUTF16LE", "convertUTF8ToUTF16BE", "convertUTF8ToUTF16LEWithErrors",
     "convertUTF8ToUTF16BEWithErrors", "convertValidUTF8ToUTF16LE",
     "convertValidUTF8ToUTF16BE", "convertUTF8ToUTF32", "convertUTF8ToUTF32WithErrors",
     "convertValidUTF8ToUTF32"}

FromUTF16Ops ==
    {"convertUTF16LEToLatin1", "convertUTF16BEToLatin1",
     "convertUTF16LEToLatin1WithErrors", "convertUTF16BEToLatin1WithErrors",
     "convertValidUTF16LEToLatin1", "convertValidUTF16BEToLatin1",
     "convertUTF16LEToUTF32", "convertUTF16BEToUTF32",
     "convertUTF16LEToUTF32WithErrors", "convertUTF16BEToUTF32WithErrors",
     "convertValidUTF16LEToUTF32", "convertValidUTF16BEToUTF32",
     "utf32LengthFromUTF16LE", "utf32LengthFromUTF16BE", "convertUTF16LEToUTF8",
     "convertUTF16BEToUTF8", "convertUTF16LEToUTF8WithErrors",
     "convertUTF16BEToUTF8WithErrors", "convertUTF16LEToUTF8WithReplacement",
     "convertUTF16BEToUTF8WithReplacement", "convertValidUTF16LEToUTF8",
     "convertValidUTF16BEToUTF8"}

UTF16HelperOps ==
    {"utf8LengthFromUTF16LE", "utf8LengthFromUTF16BE", "countUTF16LE", "countUTF16BE",
     "changeEndiannessUTF16", "utf8LengthFromUTF16LEWithReplacement",
     "utf8LengthFromUTF16BEWithReplacement"}

FromUTF32Ops ==
    {"convertUTF32ToLatin1", "convertUTF32ToLatin1WithErrors",
     "convertValidUTF32ToLatin1", "convertUTF32ToUTF8", "convertUTF32ToUTF8WithErrors",
     "convertValidUTF32ToUTF8", "convertUTF32ToUTF16LE", "convertUTF32ToUTF16BE",
     "convertUTF32ToUTF16LEWithErrors", "convertUTF32ToUTF16BEWithErrors",
     "convertValidUTF32ToUTF16LE", "convertValidUTF32ToUTF16BE", "utf8LengthFromUTF32",
     "utf16LengthFromUTF32"}

SearchOps == {"detectEncodings", "find", "findUTF16"}

Base64Ops ==
    {"maximalBinaryLengthFromBase64", "maximalBinaryLengthFromBase64UTF16",
     "binaryLengthFromBase64", "binaryLengthFromBase64UTF16", "base64ToBinary",
     "base64ToBinaryUTF16", "base64ToBinaryDetails", "base64ToBinaryDetailsUTF16",
     "base64ToBinarySafe", "base64ToBinarySafeUTF16", "binaryToBase64",
     "binaryToBase64WithLines"}

Ops == ValidationOps \cup FromBytesOps \cup FromUTF16Ops \cup UTF16HelperOps
         \cup FromUTF32Ops \cup SearchOps \cup Base64Ops

-----------------------------------------------------------------------------
(* What the process finds out about its host. *)

\* detectAMD64Features asks for seven features.  SSE4.1 is not among them.
DetectAMD64Features(cpu) ==
    cpu \cap {"SSSE3", "SSE42", "POPCNT", "BMI1", "BMI2", "AVX2", "LZCNT"}

\* arm64 always has NEON; every other architecture reports nothing.
DetectHostFeatures(build, cpu) ==
    CASE build \in {"amd64", "amd64simd"} -> DetectAMD64Features(cpu)
      [] build = "arm64" -> {"NEON"}
      [] build = "generic" -> {}

ArchsimdAVX2Available(build, cpu) == build = "amd64simd" /\ "AVX2" \in cpu

DetectSelectionInput(build, cpu) ==
    [features |-> DetectHostFeatures(build, cpu),
     archsimdAVX2 |-> ArchsimdAVX2Available(build, cpu)]

-----------------------------------------------------------------------------
(* Candidates and the choice between them. *)

Scalar == [kind |-> "scalar", required |-> {}, available |-> TRUE]
Westmere(required) == [kind |-> "westmere", required |-> required, available |-> TRUE]
Haswell == [kind |-> "haswell", required |-> {"AVX2"}, available |-> TRUE]
NEON == [kind |-> "neon", required |-> {"NEON"}, available |-> TRUE]
Archsimd(available) ==
    [kind |-> "archsimd", required |-> {"AVX2"}, available |-> available]

\* Variant: the run-time gate of the simd experiment is forgotten.
SupportedByUngated(candidate, input) ==
    candidate.available /\ candidate.required \subseteq input.features

SupportedBy(candidate, input) ==
    /\ candidate.available
    /\ candidate.kind = "archsimd" => input.archsimdAVX2
    /\ candidate.required \subseteq input.features

First(S) == CHOOSE i \in S : \A j \in S : i <= j

\* "none" stands for the panic of selectVariant.
SelectVariant(input, forced, candidates) ==
    LET usable == {i \in DOMAIN candidates : SupportedBy(candidates[i], input)}
        wanted == {i \in usable : candidates[i].kind = forced}
    IN  CASE wanted # {} -> candidates[First(wanted)].kind
          [] wanted = {} /\ usable # {} -> candidates[First(usable)].kind
          [] OTHER -> "none"

(***************************************************************************)
(* The two variables, after trimming and lower-casing: a kind, "blank"     *)
(* (unset, or nothing but space) or "unknown" (any other text).  The first *)
(* wins unless it is blank; only it may not be unknown.                    *)
(***************************************************************************)
Settings == Kinds \cup {"blank", "unknown"}

\* Variant: whatever is unknown is refused, wherever it was read.
ForcedImplementationKindStrict(force, expect) ==
    LET raw == IF force = "blank" THEN expect ELSE force
    IN  CASE raw \in Kinds -> raw
          [] raw = "blank" -> "none"
          [] OTHER -> "panic"

ForcedImplementationKind(force, expect) ==
    LET raw == IF force = "blank" THEN expect ELSE force
    IN  CASE raw \in Kinds -> raw
          [] raw \notin Kinds /\ raw # "blank" /\ force # "blank" -> "panic"
          [] OTHER -> "none"

-----------------------------------------------------------------------------
(* The archsimd providers: each getter returns nil outside the simd        *)
(* experiment, and the two UTF-8 validators return nil in it too.          *)

ArchsimdASCII ==
    {"countUTF8", "latin1LengthFromUTF8", "validateASCII", "validateASCIIWithErrors",
     "validateUTF16LEAsASCII", "validateUTF16BEAsASCII"}

ArchsimdValidation ==
    {"validateUTF16LEWithErrors", "validateUTF32", "detectEncodings"} \cup FromBytesOps

ArchsimdUTF16 == FromUTF16Ops \cup UTF16HelperOps

ArchsimdUTF32 == FromUTF32Ops

ArchsimdFind == {"find", "findUTF16"}

ArchsimdProvider(build, op) ==
    /\ build = "amd64simd"
    /\ op \in ArchsimdASCII \cup ArchsimdValidation \cup ArchsimdUTF16
                \cup ArchsimdUTF32 \cup ArchsimdFind

-----------------------------------------------------------------------------
(* The amd64 lists.  Most operations prefer scalar code: their vector      *)
(* providers are only there to be forced.                                  *)

\* Variant: the Westmere provider's feature test is dropped.
ScalarFirstUnguarded(build, op) ==
    <<Scalar, Archsimd(ArchsimdProvider(build, op)), Haswell, Westmere({})>>

ScalarFirst(build, op) ==
    <<Scalar, Archsimd(ArchsimdProvider(build, op)), Haswell, Westmere({"SSSE3"})>>

ArchsimdThenScalar(build, op) ==
    <<Archsimd(ArchsimdProvider(build, op)), Scalar, Haswell, Westmere({"SSSE3"})>>

AMD64Validation(build, op) ==
    LET archsimd == Archsimd(ArchsimdProvider(build, op))
    IN  CASE op \in {"validateUTF8", "validateUTF8WithErrors"} ->
                <<archsimd, Haswell, Scalar>>
          [] op \in {"countUTF8", "latin1LengthFromUTF8", "validateASCII",
                     "validateASCIIWithErrors", "validateUTF16LEAsASCII",
                     "validateUTF16BEAsASCII"} ->
                <<archsimd, Haswell, Westmere({}), Scalar>>
          [] op = "utf16LengthFromUTF8" -> <<Westmere({}), Scalar>>
          [] op = "utf32LengthFromUTF8" -> <<Westmere({"POPCNT"}), Scalar>>
          [] op \in {"validateUTF16LE", "validateUTF16BE", "validateUTF16BEWithErrors",
                     "toWellFormedUTF16LE"} -> <<Scalar>>
          [] op \in {"validateUTF16LEWithErrors", "validateUTF32"} -> <<archsimd, Scalar>>
          [] op = "toWellFormedUTF16BE" -> <<Westmere({"SSE42"}), Scalar>>
          [] op = "validateUTF32WithErrors" -> <<Haswell, Scalar>>

AMD64FromBytes(build, op) ==
    IF op = "utf8LengthFromLatin1" THEN ArchsimdThenScalar(build, op)
                                   ELSE ScalarFirst(build, op)

AMD64FromUTF16(build, op) == ScalarFirst(build, op)

AMD64UTF16Helpers(build, op) ==
    IF op = "countUTF16LE"
    THEN <<Westmere({"SSSE3"}), Scalar, Archsimd(ArchsimdProvider(build, op)), Haswell>>
    ELSE ScalarFirst(build, op)

AMD64FromUTF32(build, op) ==
    IF op = "convertUTF32ToLatin1WithErrors" THEN ArchsimdThenScalar(build, op)
                                             ELSE ScalarFirst(build, op)

AMD64Search(build, op) ==
    IF op = "find"
    THEN <<Haswell, Westmere({"SSSE3"}), Scalar, Archsimd(ArchsimdProvider(build, op))>>
    ELSE ScalarFirst(build, op)

(***************************************************************************)
(* The archsimd Base64 providers are available in every build: outside the *)
(* experiment they are stubs that call the scalar code, and only the       *)
(* run-time gate keeps them from being taken for vector providers.         *)
(***************************************************************************)
AMD64Base64(build, op) ==
    CASE op \in {"maximalBinaryLengthFromBase64", "maximalBinaryLengthFromBase64UTF16",
                 "base64ToBinarySafe", "base64ToBinarySafeUTF16"} -> <<Scalar>>
      [] op = "binaryLengthFromBase64" ->
            <<Haswell, Westmere({"SSSE3"}), Scalar, Archsimd(TRUE)>>
      [] OTHER -> <<Scalar, Archsimd(TRUE), Haswell, Westmere({"SSSE3"})>>

AMD64Candidates(build, op) ==
    CASE op \in ValidationOps -> AMD64Validation(build, op)
      [] op \in FromBytesOps -> AMD64FromBytes(build, op)
      [] op \in FromUTF16Ops -> AMD64FromUTF16(build, op)
      [] op \in UTF16HelperOps -> AMD64UTF16Helpers(build, op)
      [] op \in FromUTF32Ops -> AMD64FromUTF32(build, op)
      [] op \in SearchOps -> AMD64Search(build, op)
      [] op \in Base64Ops -> AMD64Base64(build, op)

-----------------------------------------------------------------------------
(* The arm64 lists. *)

ARM64Validation(op) ==
    IF op \in {"countUTF8", "latin1LengthFromUTF8", "validateASCII",
               "validateASCIIWithErrors", "validateUTF16LEAsASCII",
               "validateUTF16BEAsASCII"}
    THEN <<NEON, Scalar>>
    ELSE <<Scalar>>

ARM64FromBytes(op) ==
    IF op \in {"convertLatin1ToUTF16LE", "convertLatin1ToUTF32"}
    THEN <<NEON, Scalar>>
    ELSE <<Scalar, NEON>>

ARM64FromUTF16(op) ==
    IF op = "convertValidUTF16LEToLatin1" THEN <<NEON, Scalar>> ELSE <<Scalar, NEON>>

ARM64UTF16Helpers(op) ==
    IF op = "countUTF16BE" THEN <<NEON, Scalar>> ELSE <<Scalar, NEON>>

ARM64FromUTF32(op) ==
    IF op \in {"convertUTF32ToLatin1WithErrors", "convertValidUTF32ToLatin1"}
    THEN <<NEON, Scalar>>
    ELSE <<Scalar, NEON>>

ARM64SearchAndBase64(op) ==
    IF op \in {"maximalBinaryLengthFromBase64", "maximalBinaryLengthFromBase64UTF16",
               "base64ToBinarySafe", "base64ToBinarySafeUTF16"}
    THEN <<Scalar>>
    ELSE <<Scalar, NEON>>

ARM64Candidates(op) ==
    CASE op \in ValidationOps -> ARM64Validation(op)
      [] op \in FromBytesOps -> ARM64FromBytes(op)
      [] op \in FromUTF16Ops -> ARM64FromUTF16(op)
      [] op \in UTF16HelperOps -> ARM64UTF16Helpers(op)
      [] op \in FromUTF32Ops -> ARM64FromUTF32(op)
      [] op \in SearchOps \cup Base64Ops -> ARM64SearchAndBase64(op)

\* Everywhere else every operation is scalar.
GenericCandidates(op) == <<Scalar>>

Candidates(build, op) ==
    CASE build \in {"amd64", "amd64simd"} -> AMD64Candidates(build, op)
      [] build = "arm64" -> ARM64Candidates(op)
      [] build = "generic" -> GenericCandidates(op)

MakeImplementation(build, input, forced) ==
    [op \in Ops |-> SelectVariant(input, forced, Candidates(build, op))]

-----------------------------------------------------------------------------
(* What the providers execute, beyond the baseline of their architecture:  *)
(* read off the instructions of the assembly kernels each one reaches.     *)

POPCNTOps ==
    {"utf8LengthFromLatin1", "convertLatin1ToUTF8", "binaryLengthFromBase64",
     "binaryLengthFromBase64UTF16"}

UTF16ToUTF32Ops ==
    {"convertUTF16LEToUTF32", "convertUTF16BEToUTF32", "convertUTF16LEToUTF32WithErrors",
     "convertUTF16BEToUTF32WithErrors", "convertValidUTF16LEToUTF32",
     "convertValidUTF16BEToUTF32"}

UTF32ToUTF16Ops ==
    {"convertUTF32ToUTF16LE", "convertUTF32ToUTF16BE", "convertUTF32ToUTF16LEWithErrors",
     "convertUTF32ToUTF16BEWithErrors", "convertValidUTF32ToUTF16LE",
     "convertValidUTF32ToUTF16BE"}

Base64DecodeOps ==
    {"base64ToBinary", "base64ToBinaryUTF16", "base64ToBinaryDetails",
     "base64ToBinaryDetailsUTF16"}

ByteShuffleOps ==
    {"convertUTF16BEToLatin1", "convertUTF16BEToLatin1WithErrors",
     "convertValidUTF16BEToLatin1", "convertUTF16BEToUTF32",
     "convertUTF16BEToUTF32WithErrors", "convertValidUTF16BEToUTF32",
     "utf32LengthFromUTF16BE", "convertUTF16BEToUTF8", "convertUTF16BEToUTF8WithErrors",
     "convertUTF16BEToUTF8WithReplacement", "convertValidUTF16BEToUTF8", "countUTF16BE",
     "changeEndiannessUTF16", "convertUTF32ToLatin1", "convertUTF32ToLatin1WithErrors",
     "convertValidUTF32ToLatin1", "convertUTF32ToUTF8", "convertUTF32ToUTF8WithErrors",
     "convertValidUTF32ToUTF8", "convertUTF32ToUTF16BE",
     "convertUTF32ToUTF16BEWithErrors", "convertValidUTF32ToUTF16BE", "detectEncodings",
     "binaryToBase64", "binaryToBase64WithLines"} \cup Base64DecodeOps

\* The utf8 and utf16 length providers named after a vector family are scalar code.
LengthFromWiderOps ==
    {"utf8LengthFromUTF16LE", "utf8LengthFromUTF16BE",
     "utf8LengthFromUTF16LEWithReplacement", "utf8LengthFromUTF16BEWithReplacement",
     "utf8LengthFromUTF32", "utf16LengthFromUTF32"}

WestmereEmits(op) ==
    {f \in {"POPCNT", "SSE41", "SSSE3"} :
        \/ f = "POPCNT" /\ op \in POPCNTOps \cup {"utf32LengthFromUTF8"}
        \/ f = "SSE41" /\ op \in UTF16ToUTF32Ops \cup UTF32ToUTF16Ops
                                   \cup Base64DecodeOps \cup {"detectEncodings"}
        \/ f = "SSSE3" /\ op \in ByteShuffleOps}

HaswellEmits(op) ==
    {f \in {"AVX2", "POPCNT", "SSE41", "SSSE3"} :
        \/ f = "AVX2" /\ op \notin LengthFromWiderOps
        \/ f = "POPCNT" /\ op \in POPCNTOps
        \/ f = "SSE41" /\ op \in UTF32ToUTF16Ops \cup Base64DecodeOps
        \/ f = "SSSE3" /\ op \in {"convertUTF32ToUTF16BE",
               "convertUTF32ToUTF16BEWithErrors", "convertValidUTF32ToUTF16BE"}}

(***************************************************************************)
(* The archsimd kernels are Go code over simd/archsimd: what the compiler  *)
(* makes of them is not in the repository, and is taken to be AVX2.        *)
(***************************************************************************)
Emits(op, kind) ==
    CASE kind = "westmere" -> WestmereEmits(op)
      [] kind = "haswell" -> HaswellEmits(op)
      [] kind = "archsimd" -> {"AVX2"}
      [] kind = "neon" -> {"NEON"}
      [] kind = "scalar" -> {}

-----------------------------------------------------------------------------
VARIABLES
    host,   \* [build, cpu, force, expect]: fixed when the process starts
    pc,     \* "loading", "ready", "panicked", "faulted"
    table,  \* activeImplementation: the kind of provider of every operation
    culprit \* the operation whose call faulted, or "none"

vars == <<host, pc, table, culprit>>

Hosts ==
    {h \in [build : Builds, cpu : Processors, force : Settings, expect : Settings] :
        h.build = "arm64" <=> "NEON" \in h.cpu}

Init ==
    /\ host \in Hosts
    /\ pc = "loading"
    /\ table = << >>
    /\ culprit = "none"

\* The initializer of activeImplementation, before any code of the importer.
Load ==
    /\ pc = "loading"
    /\ LET forced == ForcedImplementationKind(host.force, host.expect)
           input == DetectSelectionInput(host.build, host.cpu)
           chosen == MakeImplementation(host.build, input, forced)
       IN  IF forced = "panic" \/ \E op \in Ops : chosen[op] = "none"
           THEN pc' = "panicked" /\ table' = table
           ELSE pc' = "ready" /\ table' = chosen
    /\ UNCHANGED <<host, culprit>>

(***************************************************************************)
(* An exported function calls the operation's provider.  A provider runs   *)
(* scalar code on input shorter than a block of its kernel, and a kernel   *)
(* may return before it reaches the instruction: reaches says whether this *)
(* input makes it execute everything it can.                               *)
(***************************************************************************)
Call(op, reaches) ==
    /\ pc = "ready"
    /\ IF reaches /\ ~ Emits(op, table[op]) \subseteq host.cpu
       THEN pc' = "faulted" /\ culprit' = op
       ELSE UNCHANGED <<pc, culprit>>
    /\ UNCHANGED <<host, table>>

Next ==
    \/ Load
    \/ \E op \in Ops, reaches \in BOOLEAN : Call(op, reaches)
    \/ pc \in {"panicked", "faulted"} /\ UNCHANGED vars

Spec == Init /\ [][Next]_vars

-----------------------------------------------------------------------------
\* The kinds of provider that exist in a build as more than a name.
KindsOf(build) ==
    CASE build = "amd64" -> {"scalar", "westmere", "haswell"}
      [] build = "amd64simd" -> {"scalar", "westmere", "haswell", "archsimd"}
      [] build = "arm64" -> {"scalar", "neon"}
      [] build = "generic" -> {"scalar"}

(***************************************************************************)
(* Type invariant.  A process that has loaded has a provider for every     *)
(* operation, of a kind its build really has: the Base64 stubs that stand  *)
(* in for archsimd outside the experiment are never taken.                 *)
(***************************************************************************)
TypeOK ==
    /\ host \in Hosts
    /\ pc \in {"loading", "ready", "panicked", "faulted"}
    /\ culprit \in Ops \cup {"none"}
    /\ IF pc \in {"ready", "faulted"}
       THEN table \in [Ops -> KindsOf(host.build)]
       ELSE table = << >>

(***************************************************************************)
(* Importing the package panics for one reason only, a value of            *)
(* SIMDUTF_FORCE_PROVIDER that names no provider: no processor leaves an   *)
(* operation without a provider, and SIMDUTF_BENCH_EXPECT_TIER can hold    *)
(* anything.                                                               *)
(***************************************************************************)
PanicsOnlyOnBadForce ==
    pc # "loading" => (pc = "panicked" <=> host.force = "unknown")

(***************************************************************************)
(* On a processor whose SSSE3 comes with SSE4.1 and POPCNT, whatever the   *)
(* two variables hold, no call executes an instruction the processor       *)
(* lacks.  (Without those two features the lists do not protect the        *)
(* process: SelectorCoversOpcodes.)                                        *)
(***************************************************************************)
Complete(cpu) == "SSSE3" \in cpu => {"SSE41", "POPCNT"} \subseteq cpu

CompleteHostsNeverFault == Complete(host.cpu) => pc # "faulted"

(***************************************************************************)
(* What docs/porting/provenance.md says of every selector: it covers the   *)
(* non-baseline instructions of the provider it admits, so that no call    *)
(* faults on any processor.                                                *)
(***************************************************************************)
SelectorCoversOpcodes == pc # "faulted"
===============================================================================
