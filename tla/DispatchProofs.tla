---------------------------- MODULE DispatchProofs ----------------------------
(***************************************************************************)
(* What the selection of providers guarantees on every processor.  The     *)
(* argument: a candidate that is supported on a host is Sound there, of a  *)
(* kind its build has and, on a complete processor, executing nothing the  *)
(* processor lacks; every list of every build holds only sound candidates  *)
(* and ends its preferences somewhere with the scalar one; so whatever     *)
(* selectVariant returns is sound, and it always returns something.        *)
(***************************************************************************)
EXTENDS Dispatch, TLAPS

Sound(build, op, c) ==
    \A cpu :
        /\ Nested(cpu)
        /\ build = "arm64" => "NEON" \in cpu
        /\ SupportedBy(c, DetectSelectionInput(build, cpu))
        => /\ c.kind \in KindsOf(build)
           /\ Complete(cpu) => Emits(op, c.kind) \subseteq cpu

\* A list a build may use: some place holds the scalar provider, every place a sound one.
Good(build, op, cs) ==
    /\ DOMAIN cs \subseteq 1..4
    /\ \E i \in DOMAIN cs : cs[i] = Scalar
    /\ \A i \in DOMAIN cs : Sound(build, op, cs[i])

AMD64Builds == {"amd64", "amd64simd"}

-----------------------------------------------------------------------------
(* The candidates. *)

\* The scalar provider is supported everywhere and needs nothing.
LEMMA ScalarSound ==
    ASSUME NEW build \in AllBuilds, NEW op
    PROVE  Sound(build, op, Scalar) /\ \A input : SupportedBy(Scalar, input)
<1>1. Scalar.kind = "scalar" /\ Scalar.required = {} /\ Scalar.available = TRUE
  BY DEF Scalar
<1>2. "scalar" \in KindsOf(build)
  BY DEF KindsOf, AllBuilds
<1>3. Emits(op, "scalar") = {}
  BY DEF Emits
<1> QED
  BY <1>1, <1>2, <1>3 DEF Sound, SupportedBy

\* An AVX2 test stands for all a Haswell kernel executes, but for POPCNT.
LEMMA HaswellSound ==
    ASSUME NEW build \in AMD64Builds, NEW op
    PROVE  Sound(build, op, Haswell)
<1> SUFFICES ASSUME NEW cpu, Nested(cpu),
                    SupportedBy(Haswell, DetectSelectionInput(build, cpu))
             PROVE  /\ Haswell.kind \in KindsOf(build)
                    /\ Complete(cpu) => Emits(op, Haswell.kind) \subseteq cpu
  BY DEF Sound
<1>1. Haswell.kind = "haswell" /\ Haswell.required = {"AVX2"}
  BY DEF Haswell
<1>2. "haswell" \in KindsOf(build)
  BY DEF KindsOf, AMD64Builds
<1>3. "AVX2" \in cpu
  BY <1>1 DEF SupportedBy, DetectSelectionInput, DetectHostFeatures,
              DetectAMD64Features, AMD64Builds
<1>4. Emits(op, "haswell") \subseteq {"AVX2", "POPCNT", "SSE41", "SSSE3"}
  BY DEF Emits, HaswellEmits
<1>5. Complete(cpu) => {"AVX2", "POPCNT", "SSE41", "SSSE3"} \subseteq cpu
  BY <1>3 DEF Complete, Nested
<1> QED
  BY <1>1, <1>2, <1>4, <1>5

\* So does a test of SSSE3, or of SSE4.2, for a Westmere kernel.
LEMMA WestmereSound ==
    ASSUME NEW build \in AMD64Builds, NEW op, NEW r \in {"SSSE3", "SSE42"}
    PROVE  Sound(build, op, Westmere({r}))
<1> SUFFICES ASSUME NEW cpu, Nested(cpu),
                    SupportedBy(Westmere({r}), DetectSelectionInput(build, cpu))
             PROVE  /\ Westmere({r}).kind \in KindsOf(build)
                    /\ Complete(cpu) => Emits(op, Westmere({r}).kind) \subseteq cpu
  BY DEF Sound
<1>1. Westmere({r}).kind = "westmere" /\ Westmere({r}).required = {r}
  BY DEF Westmere
<1>2. "westmere" \in KindsOf(build)
  BY DEF KindsOf, AMD64Builds
<1>3. r \in cpu
  BY <1>1 DEF SupportedBy, DetectSelectionInput, DetectHostFeatures,
              DetectAMD64Features, AMD64Builds
<1>4. Emits(op, "westmere") \subseteq {"POPCNT", "SSE41", "SSSE3"}
  BY DEF Emits, WestmereEmits
<1>5. Complete(cpu) => {"POPCNT", "SSE41", "SSSE3"} \subseteq cpu
  BY <1>3 DEF Complete, Nested
<1> QED
  BY <1>1, <1>2, <1>4, <1>5

\* The Westmere providers admitted without a test are baseline code.
BaselineOps ==
    {"countUTF8", "latin1LengthFromUTF8", "validateASCII", "validateASCIIWithErrors",
     "validateUTF16LEAsASCII", "validateUTF16BEAsASCII", "utf16LengthFromUTF8"}

LEMMA WestmereBaselineSound ==
    ASSUME NEW build \in AMD64Builds, NEW op \in BaselineOps
    PROVE  Sound(build, op, Westmere({}))
<1>1. Westmere({}).kind = "westmere"
  BY DEF Westmere
<1>2. "westmere" \in KindsOf(build)
  BY DEF KindsOf, AMD64Builds
<1>3. op \notin POPCNTOps \cup {"utf32LengthFromUTF8"}
  BY DEF BaselineOps, POPCNTOps
<1>4. op \notin UTF16ToUTF32Ops \cup UTF32ToUTF16Ops \cup {"detectEncodings"}
  BY DEF BaselineOps, UTF16ToUTF32Ops, UTF32ToUTF16Ops
<1>5. op \notin Base64DecodeOps
  BY DEF BaselineOps, Base64DecodeOps
<1>6. op \notin ByteShuffleOps
  BY <1>5 DEF BaselineOps, ByteShuffleOps
<1>7. Emits(op, "westmere") = {}
  BY <1>3, <1>4, <1>5, <1>6 DEF Emits, WestmereEmits
<1> QED
  BY <1>1, <1>2, <1>7 DEF Sound

\* The one Westmere provider admitted on POPCNT alone executes POPCNT alone.
LEMMA WestmerePOPCNTSound ==
    ASSUME NEW build \in AMD64Builds
    PROVE  Sound(build, "utf32LengthFromUTF8", Westmere({"POPCNT"}))
<1> DEFINE op == "utf32LengthFromUTF8"
<1> SUFFICES ASSUME NEW cpu,
                    SupportedBy(Westmere({"POPCNT"}), DetectSelectionInput(build, cpu))
             PROVE  /\ Westmere({"POPCNT"}).kind \in KindsOf(build)
                    /\ Emits(op, Westmere({"POPCNT"}).kind) \subseteq cpu
  BY DEF Sound
<1>1. /\ Westmere({"POPCNT"}).kind = "westmere"
      /\ Westmere({"POPCNT"}).required = {"POPCNT"}
  BY DEF Westmere
<1>2. "westmere" \in KindsOf(build)
  BY DEF KindsOf, AMD64Builds
<1>3. "POPCNT" \in cpu
  BY <1>1 DEF SupportedBy, DetectSelectionInput, DetectHostFeatures,
              DetectAMD64Features, AMD64Builds
<1>4. op \notin UTF16ToUTF32Ops \cup UTF32ToUTF16Ops \cup {"detectEncodings"}
  BY DEF UTF16ToUTF32Ops, UTF32ToUTF16Ops
<1>5. op \notin Base64DecodeOps
  BY DEF Base64DecodeOps
<1>6. op \notin ByteShuffleOps
  BY <1>5 DEF ByteShuffleOps
<1>7. Emits(op, "westmere") \subseteq {"POPCNT"}
  BY <1>4, <1>5, <1>6 DEF Emits, WestmereEmits
<1> QED
  BY <1>1, <1>2, <1>3, <1>7

\* The run-time gate keeps archsimd out of every build but the experiment's.
LEMMA ArchsimdSound ==
    ASSUME NEW build \in AllBuilds, NEW op, NEW available
    PROVE  Sound(build, op, Archsimd(available))
<1> SUFFICES ASSUME NEW cpu,
                    SupportedBy(Archsimd(available), DetectSelectionInput(build, cpu))
             PROVE  /\ Archsimd(available).kind \in KindsOf(build)
                    /\ Emits(op, Archsimd(available).kind) \subseteq cpu
  BY DEF Sound
<1>1. Archsimd(available).kind = "archsimd"
  BY DEF Archsimd
<1>2. build = "amd64simd" /\ "AVX2" \in cpu
  BY <1>1 DEF SupportedBy, DetectSelectionInput, ArchsimdAVX2Available
<1>3. "archsimd" \in KindsOf(build)
  BY <1>2 DEF KindsOf
<1>4. Emits(op, "archsimd") = {"AVX2"}
  BY DEF Emits
<1> QED
  BY <1>1, <1>2, <1>3, <1>4

\* NEON is the baseline of arm64.
LEMMA NEONSound ==
    ASSUME NEW op
    PROVE  Sound("arm64", op, NEON)
<1>1. NEON.kind = "neon"
  BY DEF NEON
<1>2. "neon" \in KindsOf("arm64")
  BY DEF KindsOf
<1>3. Emits(op, "neon") = {"NEON"}
  BY DEF Emits
<1> QED
  BY <1>1, <1>2, <1>3 DEF Sound

-----------------------------------------------------------------------------
(* The lists. *)

LEMMA GoodOne ==
    ASSUME NEW build \in AllBuilds, NEW op
    PROVE  Good(build, op, <<Scalar>>)
BY ScalarSound DEF Good

LEMMA GoodTwo ==
    ASSUME NEW build \in AllBuilds, NEW op, NEW c, Sound(build, op, c)
    PROVE  Good(build, op, <<c, Scalar>>) /\ Good(build, op, <<Scalar, c>>)
BY ScalarSound DEF Good

LEMMA GoodThree ==
    ASSUME NEW build \in AllBuilds, NEW op, NEW c, NEW d,
           Sound(build, op, c), Sound(build, op, d)
    PROVE  Good(build, op, <<c, d, Scalar>>)
BY ScalarSound DEF Good

LEMMA GoodFour ==
    ASSUME NEW build \in AllBuilds, NEW op, NEW c, NEW d, NEW e,
           Sound(build, op, c), Sound(build, op, d), Sound(build, op, e)
    PROVE  /\ Good(build, op, <<Scalar, c, d, e>>)
           /\ Good(build, op, <<c, Scalar, d, e>>)
           /\ Good(build, op, <<c, d, Scalar, e>>)
           /\ Good(build, op, <<c, d, e, Scalar>>)
BY ScalarSound DEF Good

\* The lists of the two amd64 builds.
LEMMA AMD64Good ==
    ASSUME NEW build \in AMD64Builds, NEW op \in Ops
    PROVE  Good(build, op, AMD64Candidates(build, op))
<1> DEFINE a == Archsimd(ArchsimdProvider(build, op))
           w == Westmere({"SSSE3"})
<1>1. build \in AllBuilds
  BY DEF AMD64Builds, AllBuilds
<1>2. Sound(build, op, a) /\ Sound(build, op, Archsimd(TRUE))
  BY <1>1, ArchsimdSound
<1>3. Sound(build, op, Haswell)
  BY HaswellSound
<1>4. Sound(build, op, w) /\ Sound(build, op, Westmere({"SSE42"}))
  BY WestmereSound
<1> HIDE DEF a, w
<1>5. /\ Good(build, op, <<Scalar, a, Haswell, w>>)
      /\ Good(build, op, <<a, Scalar, Haswell, w>>)
      /\ Good(build, op, <<w, Scalar, a, Haswell>>)
      /\ Good(build, op, <<Haswell, w, Scalar, a>>)
      /\ Good(build, op, <<Haswell, w, Scalar, Archsimd(TRUE)>>)
      /\ Good(build, op, <<Scalar, Archsimd(TRUE), Haswell, w>>)
  BY <1>1, <1>2, <1>3, <1>4, GoodFour
<1>6. Good(build, op, <<Scalar>>)
  BY <1>1, GoodOne
<1>7. Good(build, op, ScalarFirst(build, op)) /\ Good(build, op, ArchsimdThenScalar(build, op))
  BY <1>5 DEF ScalarFirst, ArchsimdThenScalar, a, w
<1>8. ASSUME op \in ValidationOps
      PROVE  Good(build, op, AMD64Validation(build, op))
  <2>2. CASE op \in {"validateUTF8", "validateUTF8WithErrors"}
    <3>1. AMD64Validation(build, op) = <<a, Haswell, Scalar>>
      BY <2>2 DEF AMD64Validation, a
    <3> QED
      BY <1>1, <1>2, <1>3, <3>1, GoodThree
  <2>3. CASE op \in BaselineOps \ {"utf16LengthFromUTF8"}
    <3>1. AMD64Validation(build, op) = <<a, Haswell, Westmere({}), Scalar>>
      BY <2>3 DEF AMD64Validation, BaselineOps, a
    <3>2. Sound(build, op, Westmere({}))
      BY <2>3, WestmereBaselineSound
    <3> QED
      BY <1>1, <1>2, <1>3, <3>1, <3>2, GoodFour
  <2>4. CASE op = "utf16LengthFromUTF8"
    <3>1. AMD64Validation(build, op) = <<Westmere({}), Scalar>>
      BY <2>4 DEF AMD64Validation
    <3>2. Sound(build, op, Westmere({}))
      BY <2>4, WestmereBaselineSound DEF BaselineOps
    <3> QED
      BY <1>1, <3>1, <3>2, GoodTwo
  <2>5. CASE op = "utf32LengthFromUTF8"
    <3>1. AMD64Validation(build, op) = <<Westmere({"POPCNT"}), Scalar>>
      BY <2>5 DEF AMD64Validation
    <3>2. Sound(build, op, Westmere({"POPCNT"}))
      BY <2>5, WestmerePOPCNTSound
    <3> QED
      BY <1>1, <3>1, <3>2, GoodTwo
  <2>6. CASE op \in {"validateUTF16LE", "validateUTF16BE", "validateUTF16BEWithErrors",
                     "toWellFormedUTF16LE"}
    <3>1. AMD64Validation(build, op) = <<Scalar>>
      BY <2>6 DEF AMD64Validation
    <3> QED
      BY <1>6, <3>1
  <2>7. CASE op \in {"validateUTF16LEWithErrors", "validateUTF32"}
    <3>1. AMD64Validation(build, op) = <<a, Scalar>>
      BY <2>7 DEF AMD64Validation, a
    <3> QED
      BY <1>1, <1>2, <3>1, GoodTwo
  <2>8. CASE op = "toWellFormedUTF16BE"
    <3>1. AMD64Validation(build, op) = <<Westmere({"SSE42"}), Scalar>>
      BY <2>8 DEF AMD64Validation
    <3> QED
      BY <1>1, <1>4, <3>1, GoodTwo
  <2>9. CASE op = "validateUTF32WithErrors"
    <3>1. AMD64Validation(build, op) = <<Haswell, Scalar>>
      BY <2>9 DEF AMD64Validation
    <3> QED
      BY <1>1, <1>3, <3>1, GoodTwo
  <2> QED
    BY <1>8, <2>2, <2>3, <2>4, <2>5, <2>6, <2>7, <2>8, <2>9 DEF ValidationOps, BaselineOps
<1>9. Good(build, op, AMD64FromBytes(build, op))
  BY <1>7 DEF AMD64FromBytes
<1>10. Good(build, op, AMD64FromUTF16(build, op))
  BY <1>7 DEF AMD64FromUTF16
<1>11. Good(build, op, AMD64UTF16Helpers(build, op))
  BY <1>5, <1>7 DEF AMD64UTF16Helpers, a, w
<1>12. Good(build, op, AMD64FromUTF32(build, op))
  BY <1>7 DEF AMD64FromUTF32
<1>13. Good(build, op, AMD64Search(build, op))
  BY <1>5, <1>7 DEF AMD64Search, a, w
<1>14. Good(build, op, AMD64Base64(build, op))
  BY <1>5, <1>6 DEF AMD64Base64, w
<1> QED
  BY <1>8, <1>9, <1>10, <1>11, <1>12, <1>13, <1>14 DEF AMD64Candidates, Ops

\* The lists of arm64.
LEMMA ARM64Good ==
    ASSUME NEW op \in Ops
    PROVE  Good("arm64", op, ARM64Candidates(op))
<1>1. "arm64" \in AllBuilds
  BY DEF AllBuilds
<1>2. Good("arm64", op, <<Scalar>>)
  BY <1>1, GoodOne
<1>3. Good("arm64", op, <<NEON, Scalar>>) /\ Good("arm64", op, <<Scalar, NEON>>)
  BY <1>1, NEONSound, GoodTwo
<1>4. ARM64Candidates(op) \in {<<Scalar>>, <<NEON, Scalar>>, <<Scalar, NEON>>}
  <2> HIDE DEF Scalar, NEON
  <2> QED
    BY DEF ARM64Candidates, Ops, ARM64Validation, ARM64FromBytes, ARM64FromUTF16,
           ARM64UTF16Helpers, ARM64FromUTF32, ARM64SearchAndBase64
<1> QED
  BY <1>2, <1>3, <1>4

\* Every list of every build.
LEMMA CandidatesGood ==
    ASSUME NEW build \in AllBuilds, NEW op \in Ops
    PROVE  Good(build, op, Candidates(build, op))
<1>1. CASE build \in AMD64Builds
  <2>1. Candidates(build, op) = AMD64Candidates(build, op)
    BY <1>1 DEF Candidates, AMD64Builds
  <2> QED
    BY <1>1, <2>1, AMD64Good
<1>2. CASE build = "arm64"
  BY <1>2, ARM64Good DEF Candidates
<1>3. CASE build = "generic"
  BY <1>3, GoodOne DEF Candidates, GenericCandidates
<1> QED
  BY <1>1, <1>2, <1>3 DEF AllBuilds, AMD64Builds

-----------------------------------------------------------------------------
(* The choice. *)

\* A set of places in a list has a first one.
LEMMA FirstInSet ==
    ASSUME NEW S \in SUBSET (1..4), S # {}
    PROVE  First(S) \in S /\ \A j \in S : First(S) <= j
<1>1. \E i \in S : \A j \in S : i <= j
  <2>1. CASE 1 \in S
    BY <2>1
  <2>2. CASE 1 \notin S /\ 2 \in S
    BY <2>2
  <2>3. CASE 1 \notin S /\ 2 \notin S /\ 3 \in S
    BY <2>3
  <2>4. CASE 1 \notin S /\ 2 \notin S /\ 3 \notin S
    <3>1. \A i \in S : i = 4
      <4>1. \A i \in 1..4 : i \in {1, 2, 3, 4}
        OBVIOUS
      <4> QED
        BY <2>4, <4>1
    <3>2. PICK i \in S : TRUE
      OBVIOUS
    <3>3. i = 4 /\ \A j \in S : i <= j
      BY <3>1, <3>2
    <3> QED
      BY <3>3
  <2> QED
    BY <2>1, <2>2, <2>3, <2>4
<1> QED
  BY <1>1 DEF First

(***************************************************************************)
(* selectVariant, for every list of at most four candidates: it fails only *)
(* when no candidate is supported; what it returns is the kind of a        *)
(* supported candidate; that is the kind asked for when a candidate of     *)
(* that kind is supported, and otherwise the kind of the first supported   *)
(* candidate, as if nothing had been asked for.                            *)
(***************************************************************************)
THEOREM SelectVariantCorrect ==
    ASSUME NEW input, NEW forced, NEW cs, DOMAIN cs \subseteq 1..4,
           \E i \in DOMAIN cs : SupportedBy(cs[i], input)
    PROVE  /\ \E i \in DOMAIN cs :
                 /\ SupportedBy(cs[i], input)
                 /\ SelectVariant(input, forced, cs) = cs[i].kind
           /\ (\E i \in DOMAIN cs : SupportedBy(cs[i], input) /\ cs[i].kind = forced)
                 => SelectVariant(input, forced, cs) = forced
           /\ ~ (\E i \in DOMAIN cs : SupportedBy(cs[i], input) /\ cs[i].kind = forced)
                 => \E i \in DOMAIN cs :
                      /\ SupportedBy(cs[i], input)
                      /\ \A j \in DOMAIN cs : SupportedBy(cs[j], input) => i <= j
                      /\ SelectVariant(input, forced, cs) = cs[i].kind
<1> DEFINE usable == {i \in DOMAIN cs : SupportedBy(cs[i], input)}
           wanted == {i \in usable : cs[i].kind = forced}
<1>1. usable \in SUBSET (1..4) /\ wanted \in SUBSET (1..4) /\ usable # {}
  OBVIOUS
<1>2. First(usable) \in usable /\ \A j \in usable : First(usable) <= j
  BY <1>1, FirstInSet
<1>3. CASE wanted # {}
  <2>1. First(wanted) \in wanted
    BY <1>1, <1>3, FirstInSet
  <2>2. SelectVariant(input, forced, cs) = cs[First(wanted)].kind
    BY <1>3 DEF SelectVariant
  <2> QED
    BY <1>3, <2>1, <2>2
<1>4. CASE wanted = {}
  <2>1. SelectVariant(input, forced, cs) = cs[First(usable)].kind
    BY <1>1, <1>4 DEF SelectVariant
  <2> QED
    BY <1>2, <1>4, <2>1
<1> QED
  BY <1>3, <1>4

\* On a host, every operation gets a sound provider, whatever is forced.
LEMMA ChosenSound ==
    ASSUME NEW h \in Hosts, NEW forced, NEW op \in Ops
    PROVE  LET k == MakeImplementation(h.build, DetectSelectionInput(h.build, h.cpu),
                                       forced)[op]
           IN  /\ k \in KindsOf(h.build)
               /\ k # "none"
               /\ Complete(h.cpu) => Emits(op, k) \subseteq h.cpu
<1> DEFINE input == DetectSelectionInput(h.build, h.cpu)
           cs == Candidates(h.build, op)
<1>1. h.build \in AllBuilds /\ Nested(h.cpu) /\ (h.build = "arm64" => "NEON" \in h.cpu)
  BY BuildsAssumption, ProcessorsAssumption DEF Hosts
<1>2. Good(h.build, op, cs)
  BY <1>1, CandidatesGood
<1>3. MakeImplementation(h.build, input, forced)[op] = SelectVariant(input, forced, cs)
  BY DEF MakeImplementation
<1> HIDE DEF cs, input
<1>4. \E i \in DOMAIN cs : SupportedBy(cs[i], input)
  BY <1>1, <1>2, ScalarSound DEF Good
<1>5. PICK i \in DOMAIN cs :
        /\ SupportedBy(cs[i], input)
        /\ SelectVariant(input, forced, cs) = cs[i].kind
  BY <1>2, <1>4, SelectVariantCorrect DEF Good
<1>6. Sound(h.build, op, cs[i])
  BY <1>2 DEF Good
<1>7. /\ cs[i].kind \in KindsOf(h.build)
      /\ Complete(h.cpu) => Emits(op, cs[i].kind) \subseteq h.cpu
  BY <1>1, <1>5, <1>6 DEF Sound, input
<1>8. "none" \notin KindsOf(h.build)
  BY <1>1 DEF KindsOf, AllBuilds
<1> QED
  BY <1>3, <1>5, <1>7, <1>8 DEF input

\* Which value makes the choice of a forced provider panic.
LEMMA ForcedPanics ==
    ASSUME NEW force \in Settings, NEW expect \in Settings
    PROVE  ForcedImplementationKind(force, expect) = "panic" <=> force = "unknown"
BY DEF ForcedImplementationKind, Settings, Kinds

-----------------------------------------------------------------------------
(* The process. *)

\* The table of a process that has loaded is what Load computed for its host.
Loaded ==
    pc \in {"ready", "faulted"} =>
        table = MakeImplementation(host.build, DetectSelectionInput(host.build, host.cpu),
                                   ForcedImplementationKind(host.force, host.expect))

IInv == TypeOK /\ Loaded /\ PanicsOnlyOnBadForce /\ CompleteHostsNeverFault

LEMMA InitIInv == Init => IInv
BY DEF Init, IInv, TypeOK, Loaded, PanicsOnlyOnBadForce, CompleteHostsNeverFault

\* Loading succeeds unless the force is bad, and its table is typed.
LEMMA LoadIInv == IInv /\ Load => IInv'
<1> SUFFICES ASSUME IInv, Load PROVE IInv'
  OBVIOUS
<1> DEFINE forced == ForcedImplementationKind(host.force, host.expect)
           input == DetectSelectionInput(host.build, host.cpu)
           chosen == MakeImplementation(host.build, input, forced)
<1>1. host \in Hosts /\ table = << >> /\ culprit \in Ops \cup {"none"} /\ pc = "loading"
  BY DEF IInv, TypeOK, Load
<1>2. host.force \in Settings /\ host.expect \in Settings
  BY <1>1 DEF Hosts
<1>3. \A op \in Ops : chosen[op] \in KindsOf(host.build) /\ chosen[op] # "none"
  BY <1>1, ChosenSound
<1>4. chosen \in [Ops -> KindsOf(host.build)]
  BY <1>3 DEF MakeImplementation
<1>5. forced = "panic" <=> host.force = "unknown"
  BY <1>2, ForcedPanics
<1> HIDE DEF chosen, forced, input
<1>6. /\ IF forced = "panic" THEN pc' = "panicked" /\ table' = table
                              ELSE pc' = "ready" /\ table' = chosen
      /\ UNCHANGED <<host, culprit>>
  BY <1>3 DEF Load, forced, input, chosen
<1>7. TypeOK'
  BY <1>1, <1>4, <1>6 DEF TypeOK
<1>8. Loaded'
  BY <1>6 DEF Loaded, forced, input, chosen
<1>9. PanicsOnlyOnBadForce' /\ CompleteHostsNeverFault'
  BY <1>5, <1>6 DEF PanicsOnlyOnBadForce, CompleteHostsNeverFault
<1> QED
  BY <1>7, <1>8, <1>9 DEF IInv

\* A call faults on incomplete processors only.
LEMMA CallIInv ==
    ASSUME IInv, NEW op \in Ops, NEW reaches \in BOOLEAN, Call(op, reaches)
    PROVE  IInv'
<1> DEFINE k == table[op]
<1>1. host \in Hosts /\ pc = "ready" /\ table \in [Ops -> KindsOf(host.build)]
  BY DEF IInv, TypeOK, Call
<1>2. k = MakeImplementation(host.build, DetectSelectionInput(host.build, host.cpu),
                             ForcedImplementationKind(host.force, host.expect))[op]
  BY <1>1 DEF IInv, Loaded
<1>3. Complete(host.cpu) => Emits(op, k) \subseteq host.cpu
  BY <1>1, <1>2, ChosenSound
<1>4. /\ \/ pc' = "faulted" /\ culprit' = op /\ ~ Emits(op, k) \subseteq host.cpu
         \/ UNCHANGED <<pc, culprit>>
      /\ UNCHANGED <<host, table>>
  BY DEF Call
<1>5. TypeOK'
  BY <1>1, <1>4 DEF IInv, TypeOK
<1>6. Loaded'
  BY <1>1, <1>4 DEF IInv, Loaded
<1>7. PanicsOnlyOnBadForce'
  BY <1>1, <1>4 DEF IInv, PanicsOnlyOnBadForce
<1>8. CompleteHostsNeverFault'
  BY <1>3, <1>4 DEF IInv, CompleteHostsNeverFault
<1> QED
  BY <1>5, <1>6, <1>7, <1>8 DEF IInv

LEMMA NextIInv == IInv /\ [Next]_vars => IInv'
<1> SUFFICES ASSUME IInv, [Next]_vars PROVE IInv'
  OBVIOUS
<1>1. CASE Load
  BY <1>1, LoadIInv
<1>2. CASE \E op \in Ops, reaches \in BOOLEAN : Call(op, reaches)
  BY <1>2, CallIInv
<1>3. CASE UNCHANGED vars
  BY <1>3 DEF vars, IInv, TypeOK, Loaded, PanicsOnlyOnBadForce, CompleteHostsNeverFault
<1> QED
  BY <1>1, <1>2, <1>3 DEF Next

LEMMA IInvAlways == Spec => []IInv
BY InitIInv, NextIInv, PTL DEF Spec

(***************************************************************************)
(* On any set of processors, every operation of a loaded process has a     *)
(* provider of a kind that its build really has.                           *)
(***************************************************************************)
THEOREM TypeCorrect == Spec => []TypeOK
<1>1. IInv => TypeOK
  BY DEF IInv
<1> QED
  BY <1>1, IInvAlways, PTL

(***************************************************************************)
(* No processor, and no value of SIMDUTF_BENCH_EXPECT_TIER, makes the      *)
(* import panic.                                                           *)
(***************************************************************************)
THEOREM PanicsOnlyOnBadForceAlways == Spec => []PanicsOnlyOnBadForce
<1>1. IInv => PanicsOnlyOnBadForce
  BY DEF IInv
<1> QED
  BY <1>1, IInvAlways, PTL

(***************************************************************************)
(* On every processor whose SSSE3 comes with SSE4.1 and POPCNT no call     *)
(* faults, whatever is forced: the two features are all that the lists'    *)
(* tests leave uncovered.                                                  *)
(***************************************************************************)
THEOREM CompleteHostsNeverFaultAlways == Spec => []CompleteHostsNeverFault
<1>1. IInv => CompleteHostsNeverFault
  BY DEF IInv
<1> QED
  BY <1>1, IInvAlways, PTL
===============================================================================
