# TLA+ for go-simdutf

go-simdutf is a Go port of the simdutf library: validation, conversion and
repair of Unicode text, and Base64, each with a scalar implementation and with
SIMD implementations behind the same API. Beside the library the repository
holds the tools of the port itself: a command that provisions the frozen
benchmark corpora, one that renders and publishes the port plan, and one that
collects the evidence on which a SIMD implementation is allowed to be used.

This directory holds TLA+ modules that model the parts of it where something
can go wrong over several steps, TLC configurations that check them on small
instances, and proofs, checked by the TLA+ proof system, of what matters most
for every instance. `PROJECT.json` is the machine-readable index: components,
runs, mutants, the source lines behind every definition, findings, hazards and
theorems.

    tlc -workers 2 -config MCPublish.cfg MCPublish     # a run
    tlapm PublishProofs.tla                            # a proof module

The modules read in this order: `Base64Reference`, `Base64Promise`, `Base64Decode`,
`Base64Encode`; `Unicode`, `Detection`, `UnicodeReference`, `Transcode`;
`ReferenceProofs`, the lemmas about the operators of all of these, and on it
`Base64DecodeProofs`, `Base64EncodeProofs` and `TranscodeProofs`; `Dispatch`,
`DispatchProofs`; `FetchCorpora`, `FetchCorporaProofs`; `Publish`,
`PublishProofs`; `EvidenceRegistry`, `PortLifecycle`, `ReturnIndex`, `Completion`,
`EvidenceProofs`.

## 1. The system

### The library (package simdutf, the root directory)

Every exported function calls its operation's *provider*: a function value
chosen once per process by CPU detection, build tags, `SIMDUTF_FORCE_PROVIDER`
and, where that is blank, `SIMDUTF_BENCH_EXPECT_TIER`. A provider is of one of
five kinds, scalar, westmere, haswell, neon or archsimd; a vector provider
gives a prefix of the input to an assembly kernel and the rest to the scalar
code, and shifts what the scalar code answers back to the whole input. No
operation keeps state between calls, and calls share only read-only tables; the
state of interest is what a loop has consumed, written and decided so far. What
is hard in it: errors that must carry the exact offset whichever implementation
found them; destinations too short, exactly long enough or not checked at all;
loops without a counter; a hand-over between kernel and tail in the middle of
a character or a line; repair in place.

| component | sources | state of one call | operations | correct when |
|---|---|---|---|---|
| Base64 decoding | `base64.go`, `base64_scalar.go`, `base64_tables.go` | cursor, start of the chunk, values gathered, bytes written | Base64ToBinary, ...Details, ...Safe, lengths | never writes past dst; same answer whatever the provider; errors and resume points exact; strict mode accepts only canonical text; ends |
| Base64 SIMD decoding | `base64_amd64.go`, `base64_arm64.go`, `base64_archsimd.go` | same | contiguous path, hand-over to the tail decoder | no trace of the path in the answer |
| Base64 encoding | `base64_scalar.go`, `base64_amd64.go`, ... | position, column, copy buffer | BinaryToBase64, ...WithLines, lengths | exactly the announced length; one layout for all providers; the decoder gives the bytes back |
| Base64 kernels | `*.s` | registers | one block | (pure: left to the differential tests) |
| UTF-8, UTF-16, UTF-32, Latin-1, ASCII | `utf8*.go`, `utf16*.go`, `utf32*.go`, `latin1*.go`, `ascii*.go` | position, output | validate, convert in seven variants, lengths, repair, byte swap | converts exactly; refuses before writing; names the first fault and its position; repairs all and only lone halves; ends |
| Text SIMD providers | `*_amd64.go`, `*_arm64.go`, ... | prefix done by the kernel | wrappers around kernels | same answers as the scalar code |
| Dispatch and CPU detection | `dispatch*.go`, `cpu_amd64.go` | the provider table | detect features, read two variables, choose, call | every operation has a provider whose instructions the CPU has; forcing is honoured where possible; import panics on a bad value only |
| Encoding detection | `detect*.go`, `encoding.go` | none | CheckBOM, DetectEncodings, AutodetectEncoding | what is reported is a valid reading, or its mark is there |
| find and count helpers | `find*.go`, `count_utf8*.go` | none | one-loop functions | (pure) |

### The port's tools

| component | sources | state | operations | correct when |
|---|---|---|---|---|
| Corpus provisioning | `internal/cmd/fetch-corpora/main.go` | the corpora and SHA256SUMS on disk, temporary files | verify, delete, fetch with retries, verify, rename; checksums | nothing unverified at the destination; success certifies; faults heal; no litter |
| Artifact publication | `internal/portplan/cmd/simdutf-portplan/main.go` | out, out.previous, temporary directories | write, set aside, rename, roll back, delete backup | readers find a whole set or none; a set is never lost |
| Evidence registry | `internal/portplan/evidence_core.go` | registered evidence and its indexes, the state of each cell and row | add in two phases | a rejected record leaves nothing; histories are unbranched; a selected cell stands on the whole chain of its proofs |
| Evidence ingestion, return index | `internal/portplan/evidence_ingest.go`, `cmd/simdutf-evidence` | files still to be ingested | passes to a fixpoint, sweep, completeness gate | the verdict does not depend on the order of files |
| Campaign, qualification, completion | `internal/portplan/*.go` | reads the registry | gates | only complete evidence passes |
| Port plan inputs and rendering | `internal/portplan/*.go` | none | parse, render | (pure) |

The tools interact through files only, the library's parts by calls. CI starts
fetch-corpora before benchmarks and saves the tree in a cache after success;
several jobs or a developer may run it on one root. simdutf-portplan publishes
the plan from which simdutf-evidence reads what to demand.

### Hazards

`PROJECT.json` lists them at their lines. In short: bounds that are checked
once and relied on for the rest of a call; early exits that must report where a
*chunk* or *character* began and not where the cursor is; offsets shifted
between kernel and tail; repair in place; lengths that are not additive where a
pair is split; answers about files used after another process has changed
them; renames of which the second fails; deletions in several system calls;
files that a crash leaves empty and that look present ever after; evidence
presented in an order that says nothing about what depends on what, checked
against a registry that grows meanwhile, and audited at the end by other code
than admitted it; a feature test and the instructions behind it, written in two
files by hand for each of 93 operations; a text cut anywhere, of which the whole
characters must be kept.

## 2. The modules and the code

### Base64Reference, Base64Promise, Base64Decode

`Base64Reference` is the vocabulary: a character is an integer that says what
the decoding tables make of it (0..63, the URL spellings, whitespace, `=`, a
byte of no alphabet, a unit above 0xff), so one model serves byte and UTF-16
input. It holds FindEnd (where the payload ends and how much padding follows),
the two length functions and the finishing of a raw verdict, operator by
function. `Base64Promise` states what a call *promises* as one expression of its
arguments, `Decode(call)`, without cursors or loops: it is the abstract
specification of the decoder. `Base64Decode` is the code:

| state | in the code |
|---|---|
| `end` | findEnd's result |
| `src`, `chunk`, `buffer` | `src`, `srcCur`, `buffer[:idx]` of base64TailDecode |
| `dst`, `res` | the written prefix of dst; the FullResult |
| `pc` | preflight, four-character loop, chunk loop, end |

The actions are the branches: Preflight, EmptyInput, StartScalar,
StartContiguous (the SIMD path: all whole blocks at once, then the tail),
FastChunk and FastTooSmall, the chunk loop (GatherValue, GatherSkip,
GatherReject, FullChunk, FullTooSmall) and the last chunk (LastMisfit ..
LastEmpty). An index past dst is modelled by what it is, a crash.

That `res` and `dst` of every call that returns are those of `Decode(call)` is
the refinement `KeepsPromise`, an invariant because the abstract specification
takes a single step.

### Base64Encode

Three ways in which implementations break lines, chosen by `provider`: inside
the quartet being written (scalar), by copying a buffer out and counting columns
(Westmere, Haswell, archsimd), and by index after everything was encoded (NEON).
All start from one specification of the text, `OneLayout`.

### Unicode, UnicodeReference, Transcode

`Unicode` translates what the scalar code does with units: lead bytes,
continuation checks, assembly and spelling of code points, the judgement of a
character, the length functions. `UnicodeReference` is independent of it: the
Unicode standard's table of well-formed sequences, pairs and scalar values, and
`Reading`, the code points a text has up to its first fault. `Transcode` is one
call of any validation, conversion, repair or byte swap. `call` holds source and
target encoding, variant (`plain`, `errors`, `valid`, `safe`, `replacement`,
`wellFormed`, `swap`), byte order, text, room in dst and how much of the text a
kernel takes.

| action | in the code |
|---|---|
| Refuse | the panic on a short destination at the entry |
| Enter | the choice between kernel and scalar code |
| Kernel, ResumedKernel, UTF8Kernel | the wrappers: what was converted, Latin-1 resumed until no group is left, the validators' rewind of at most five bytes to a character's start |
| AsciiBlock | a block skipped at once |
| Character, Full, Substitute, Reject, GiveUp, CutShort | the branches of the scalar loop |
| Conclude | its end, with the late TooLarge of the Latin-1 converters |

What a character becomes is `Converted`: its code point spelled in the target
encoding, except in the converter from UTF-8 to UTF-16 that trusts its input,
which makes two words of every four-byte lead, the ones of an ill-formed text
included (`UTF16Pair`, with the wrap-around of the subtraction).

After a kernel the scalar tail runs as the function it is: it checks what is
left of the destination once more and its count and error position are moved by
what the kernel consumed and wrote (`base`).

### Detection

What encoding bytes are in, and how much of a text that was cut off is whole.
An Encoding is the code's bit set, and the bytes become units in the order of
the machine, as in the code: on a big-endian machine the units handed to the
UTF-16LE validator are swapped back and the ones of UTF-32 are not, so that
there the bit called UTF32LE means the machine's order. A word of four bytes
whose first is not zero is one value, `Beyond` every code point, because TLC's
integers end at 2^31. `Transcode` runs these functions as calls of their own
(modes `trim`, `detect`, `autodetect`, action Inspect) beside the conversions,
and `UnicodeReference` says independently which bytes are readable as what.
Find, FindUTF16 and the counting kernels are left out.

### Dispatch

A provider is its kind and the instructions beyond the architecture's baseline
that its kernel executes (`Emits`, read off the assembly). `Load` is the package
initializer: features (`DetectAMD64Features`: seven bits, SSE4.1 not among
them), the two variables (`ForcedImplementationKind`), the candidate list of
each operation in each of four builds (amd64 without and with
GOEXPERIMENT=simd, arm64, the rest), the choice (`SelectVariant`: the first
supported candidate of the wanted kind, else the first supported). `Call` is an
exported function: on an input long enough for the kernel (`reaches`) it faults
when an instruction is missing. The code of simd/archsimd kernels is Go, which
the compiler turns into instructions; they are taken to be AVX2.

Two things met on the way: outside the experiment the archsimd Base64 providers
are stubs which are nevertheless *available*, so only the run-time test of the
experiment keeps them from being chosen (TypeOK says that they never are); and
the Westmere repair of big-endian UTF-16 asks for SSE4.2 although its kernel
executes nothing beyond the baseline.

### FetchCorpora

Processes run the command on one root. A file is what verification can tell of
it; `dst` and `sums` are shared, `pc`, `cur`, `seen`, `tries`, `tmp` belong to
a process. Each system call that touches shared state is a step of its own, so
what a process *saw* of a file (`seen`) may be stale when it acts: Open,
Decide, Remove, Get, Copy, Check, Install, then Stat, Create, Fill for
SHA256SUMS. A Fault makes a call fail, and Crash ends a process without its
deferred cleanup; Rerun is a new run after one that failed. Only client.Get,
the file system and the process's death are not the repository's code; they
appear as the choice of an outcome.

### Publish

The same way: `out` and `backup` (out.previous) are shared, `tmp` is the
process's temporary directory. Begin .. Verify are the steps of `publish`, one
system call each; RemoveAll(backup) is three (files go one by one, then the
directory), because it can die or be overtaken in the middle. rename(2) of a
directory fails on a non-empty one.

### EvidenceRegistry, ReturnIndex

A campaign freezes a list of commands, and what each must output. A record says
what one output of one command was; some records move a row or a backend cell
from one state to the next and name other records as proofs. `EvidenceRegistry`
models ValidateEvidenceRecordV1 on one campaign: `Campaign` is the frozen list,
`Record` says what the record behind each receipt identity holds.

| state | in the code |
|---|---|
| `registered` | `receipts`, and with it `keys` and `contents` |
| `states` | `states`, by subject and storage |

`Register` is one accepted record: the envelope, what the artifact's kind asks
for (`validateArtifactSemantics`: identities of host and sources, the command's
exit, the benchmark pair), the transition (`validateState`), then `validateAdd`
and `commitAdd`. Everything a record asks of others is an operator of the record
and of a set of receipts, so the same operator says what the code checks
(against `registered`) and what a set of records would have to be (against all of
them). Three things are narrower or wider in the code than one expects and are
modelled as they are. The table of row transitions is a Go map looked up without
asking whether the state is there (`RowSuccessor`), so that a row in a state it
does not hold may go to the empty state `NoState`, and from there to itself. The
frozen topology allows one benchmark of each source per row, cell *and batch*
(`BenchmarkAssumption`), while the check of a comparison (`benchmarkProofs`)
looks for those of the row and cell. And a state subject starts where its
command says it does. Abstracted: envelope fields to `fits`, an artifact's bytes
to `sound`, `frozen`, `pair` and `outcome` (the verdict of the statistics).

`ReturnIndex` composes it with the loops of `simdutf-evidence return-index`:
`files` is the directory in name order, `done`, `pass`, `at`, `progress` are the
loops' variables. Skip, Accept and Refuse are the body of the inner loop,
NextPass and LastPass its ends, Sweep the loop that looks for the error to
report (it calls the same function, so it would register), Complete and Gate
RenderReturnIndexV1.

### PortLifecycle

What a reader of the evidence may rely on when he forgets the evidence: each row
goes through five stages, each cell through four or aside to not_applicable,
one step at a time, never back, and the verdict comes and is final. A row may
lose its stage, before its first step or after its last, and gets none again:
that is what the code's table leaves of the lifecycle. ReturnIndex implements
it: `Lifecycle` is INSTANCE PortLifecycle with the registry's states of rows and
cells, and with the loops' result as the verdict, and `FollowsLifecycle` is its specification as a property of ReturnIndex. Its
liveness half is `<>(verdict # "open")` and not a fairness condition, which
the refinement could inherit only through an ENABLED that the mapping changes.

### Completion

The closing audit, ValidateCompletionV1 (`completion.go`), in which the
registry's `states` play no part: it derives the chain of transitions of every
planned row and cell from the receipts once more, with its own rules, looks at
their proofs, that no proof serves two subjects, that the family was published,
and that every record is of something planned. A completion document lists the
receipts of each chain, and the audit compares them with the ones it derives, so
the model's document says only what it is free to say, how each cell ended;
`Completable(R)` is that some document passes. One family and one campaign; the
frozen inputs are taken as they are regenerated; `Plan` is the frozen
classification, cell by cell.

## 3. What the runs check

| run | distinct states | instance | shows |
|---|---|---|---|
| base64_decode | 412,272 | all texts of up to 4 characters over {A, R, space, =, bad} and tails of up to 2 behind one or two blocks; URL and wide units under all options; every last-chunk mode, entry and provider; destinations around what is needed | TypeOK, NoIndexPanic, KeepsPromise, DecodesEverything, StrictIsCanonical, ErrorAtOffender, ResumePoint, Termination |
| base64_encode | 152,544 | every length to 13, three patterns, widths 0,4..7,9,16, dst one short, exact, longer | TypeOK, LengthExact, OneLayout, RoundTrip |
| transcode | 909,844 | about 270,000 calls: all UTF-8 strings to three bytes over 16 boundary bytes, four-byte characters around their limits, well- and ill-formed pieces after one another; all UTF-16 and UTF-32 strings over boundary words, both byte orders; every variant; dst one short, exact, longer; for detection and trimming all strings to three bytes over 9, all of four over 8, marks with text behind them, strings of eight over {0, 216, 220} | TypeOK, PanicsBeforeWriting, ConvertsExactly, Repairs, SafeStopsWhole, LengthExact, TrimsExactly, DetectsReadable, Termination |
| transcode_safe | - | the safe converters | SafeCountsWritten **fails**: see 5 |
| dispatch | 3,676 | ten processors from a baseline x86-64 to a Haswell with and without POPCNT or BMI, and one arm64; four builds; every setting of both variables | TypeOK, PanicsOnlyOnBadForce, CompleteHostsNeverFault |
| dispatch_opcodes | - | same | SelectorCoversOpcodes **fails**: see 5 |
| fetch_corpora | 346,438 | 2 processes, the 2 frozen corpora, 3 attempts, 3 faults | TypeOK, CertifiedTogether, TempsCleanedUp, NothingUnverified, SelfHeals |
| fetch_checksums | - | 1 process | ChecksumsWork **fails**: see 5 |
| publish | 62,762 | 3 processes, 2 versions, 4 runs, 3 faults, symmetric | TypeOK, OutNeverTorn, SuccessSettles, NothingLost |
| return_index | 79,332 | 28 commands, a row with a cell to be selected and one not applicable, and two row commands more whose records may move a row that has ended, has not begun, or has no state; 130 directories: the evidence by command, by kind, backwards and with its parts in every order, without one record, with one twice, with 31 records that are not as they should be | TypeOK, UnbranchedHistory, SelectedStandsOnProofs, VerdictOfTheSet, CompletableWhenSettled, FollowsLifecycle |
| return_schema | - | same | RowRecordsInSchema **fails**: see 5 |
| batches | 6,432 | 13 commands, one cell benchmarked in two batches; 24 directories: either batch first, each comparison before or after its benchmarks, backwards, and with a comparison of the other batch's benchmarks | BatchesShareNoCell |

Each property has a mutant in `PROJECT.json`: a definition of the model with a
plausible mistake (a dropped check, a stale cursor, a swapped order), written
as a *Variant* just before it. TLC finds the property violated when the variant
takes the definition's place.

**Bounds, and why they are enough.** *Base64Decode*: the fast loop takes 4
characters and a chunk has 4, so a text of 4 with tails of 2 behind 4, 5 and 8
reaches every combination of loop, chunk fill (0..4), padding (0..2 and more)
and block boundary; `Block` is 64 in the code and 4 here, the smallest that
keeps "a multiple of four"; nothing in the wrapper depends on more. The proofs
hold for every Block. *Base64Encode*: Group, Load, Buffer, Rest are 3, 4, 8, 8
for 12..48, 16..48, 128, 72: the kernel still stops before the end of its input
and the buffer still holds several groups that do not divide the widths.
*Transcode*: Group 2 for 4..64, Block 4 for 16: a group may end inside a
character and a block may follow one; the alphabet has the units on both sides
of every comparison in the code. *FetchCorpora*: three faults exhaust the
attempts or combine a crash with two failures; two corpora reach the order of
the entries; the proofs have no such bound. *Publish*: three runs overlap and a
fourth comes after; a failed rename, a failed rollback and a crash need three
faults. *ReturnIndex*: two of the twelve identity commands, one of a source and
one of the host; every kind of evidence and every state of a row and of a cell
occurs, and dependencies are nested as deeply as the code's (seven levels, so a
directory in reverse order takes several passes); among the directories are rows
that lose their state and records that move nothing. `batches` has the commands
that a benchmark of a cell cannot do without, twice. The proofs hold for every
campaign and directory. *Completion* looks at every registry these directories
build up; among the records that are amiss are the ones the registry takes and
the audit does not (a qualification claimed early, a proof used for two
subjects, an old source). *Detection*: four bytes are a UTF-32 word, two UTF-16
words or a UTF-8 character, eight two words with a pair in either order; the
alphabets hold the bytes of the marks and both sides of every limit. *Dispatch*:
the processors are the real ones that separate the features, and masks that
hypervisors present; the proofs hold for every set of processors.

`VerdictOfTheSet` is ReturnIndex's abstract specification: whether the command
succeeds is a property of the directory without an order, `Consistent` and
`Complete`. It is said of campaigns that benchmark each row and cell in one
batch (`OneBatch`), which nothing in the code demands: with two, what is
registered first decides. `BatchesShareNoCell` says what becomes of the others.

**Fairness.** Base64Decode, Transcode and ReturnIndex assume WF of the next
step: the code is a sequential function that runs until it returns. The verdict
that FollowsLifecycle promises comes from it. FetchCorpora assumes WF of
every process's step, and of Rerun: `fetch-corpora` is a step of CI jobs, which
are run again when they fail, and the action's cache is saved only after
success; without reruns nothing heals. Faults are bounded, so they are
eventually over. Publish, Base64Encode and Dispatch assume nothing.

## 4. What is proved

For every value of the constants, with the named ASSUMEs of the modules
(`CallsAssumption`, `BlockAssumption`, `ProcsAssumption`, ...: domains,
positivity and what the package lets a caller ask for, nothing else).

* `Base64DecodeProofs`: `TypeCorrect` and `NeverPanics`. That an unchecked
  call never indexes past dst is not inductive: dst is compared once with
  MaximalBinaryLengthFromBase64, before the padding is looked at. The invariant
  carries two facts to the last write: the payload ends before the padding that
  the check discounted (`AdmittedCall`), and `Balance`, four characters
  consumed for every three bytes written. The lemmas `FindEndProperties`
  and `MaximalIsEnough` of `ReferenceProofs` connect them.

  `KeepsItsPromise`: whatever provider, entry, block size, destination and
  last-chunk mode, the answer is `Decode(call)`. The inductive invariant `PInv`
  says where a running call is in the promised computation (`Follows`): before
  the stop position, with the bytes of the first q groups of the promised
  values written, and in the buffer the values of the group begun. Positions
  and values are related by their rank among the alphabet characters read
  (`RankStep`, `AscendingProperties`), so a skipped space moves the cursor and
  not the rank. `JudgedAsPromised` shows that the last-chunk code gives the
  verdict of `TailVerdict`, error path by error path, and `BlocksAreChunks` that
  a block kernel writes the same bytes as its chunks.

  From the promise, by the cases of what the tail decoder may conclude
  (`ConcludedFacts`, `FinishProperties`): `DecodesWholeText`,
  `StrictAcceptsCanonical`, `PointsAtOffender` and `StopsAtChunk`. That the
  announced length is the decoded one is `BinaryLengthOfPayload`: the padding
  BinaryLengthFromBase64 discounts is what FindEnd strips, with spaces around
  either.
* `Base64EncodeProofs`: `TypeCorrect`, `WritesAnnounced` (LengthExact),
  `LaysOutLines` (OneLayout) and `DecodesBack` (RoundTrip), for every input, line length, padding option, block
  size and buffer of SizesAssumption. `Laid(d, w, q, r)` says that d is q full
  lines of w characters, each with its newline, and a last line of r: its length
  and the places of its newlines follow. The three ways of breaking lines each
  continue a layout, which is what makes them agree: a quartet broken inside
  (`SplitLaid`), a buffer copied out counting columns from wherever the last one
  ended (`CopyLaid`, by `RunLaid` and `BreakLaid` over the joined pieces), and
  breaks by index, which are the copy from column 0. The column a provider keeps
  is the r of its layout.

  The invariant `Inv` adds that width * q + r is what LengthFromBinary announces
  for the bytes consumed, and that bytes are consumed in groups of three until
  the last ones (`Whole`, which needs Group % 3 = 0), so that the announcements
  of the parts add up (`AnnouncedAdds`) and padding can only come at the end.
  No step then writes past dst: what is announced for a prefix, with its
  newlines, is at most what is announced for the whole (`LinesFit`, where the
  division of LengthWithLines is unfolded). "columns" writes its remainder
  through a buffer of its own, and that it suffices is a fact about constants:
  fewer than Load bytes are left when a kernel takes no more
  (`KernelRoundsType`), and 3 * Rest >= 4 * (Load + 1) holds them padded
  (`LengthBounds`), as it does for the code's sizes.

  `DecodesBack` (RoundTrip) brings the encoder and the promise of the decoder
  together. `Inv` counts characters and does not say which; the strengthening
  is `Spelled`, what is written is the start of the canonical encoding of the
  input, as far as the bytes consumed announce it, newlines apart
  (`Spells(dst, Run(0, Announced(i)))`). Each way of breaking lines keeps it for
  its own reason: a broken quartet and a copied buffer put newlines between
  characters and change none (`SplitSpells`, `CopySpells`), and texts of
  consecutive groups join (`SpellsJoin`, `RunJoin`). It is stated by the places
  of the characters and not by filtering the newlines out, for a filter is a
  recursive definition. At the end the text shows the canonical values of the
  input (`ReturnedShows`), and `ShownDecodes` of `ReferenceProofs` says
  that such a text is decoded to the bytes: the payload and its padding are
  found whatever spaces are between (`ShownEnd`), the values are the sextets of
  the bytes (`ShownValues`, `EncodedBytes`), the last group is what its
  remaining bytes split into, with no bit left over (`FinishFits`).
* `DispatchProofs`: `SelectVariantCorrect` (the choice is a supported candidate,
  the wanted one when there is one), `TypeCorrect`, `PanicsOnlyOnBadForceAlways`,
  `CompleteHostsNeverFaultAlways`. Every candidate of every list is `Sound`, its
  feature test covers its instructions on a processor that is `Complete`, and
  every list is `Good`: sound throughout, with a scalar candidate. The inductive
  invariant adds to the properties that a loaded table is what was chosen (`Loaded`).
* `FetchCorporaProofs`: `TypeCorrect`, `Certified`, `Unverified`, `NoTempLeft`.
  A process may report success while another, which looked earlier, is about to delete
  the file, so CertifiedTogether is not inductive. `PastMeansGood` is: when
  every process is past an entry or has just seen it good, it is good, for
  nobody is left who would remove it.
* `PublishProofs`: `TypeCorrect`, `NeverTorn`, `NeverLost`, `Settles`. The
  argument is `OneHolder`: rename fails on a directory that is not empty, so at
  most one process is between setting the old set aside and having emptied or
  restored it, and `HolderState` says what is where while it is.
* `EvidenceProofs`, the registry: `TypeCorrect`, `Unbranched`, `SelectedStands`.
  Histories do not branch because legal transitions only climb, the loss of a
  row's state being the highest rank: `Climbing` adds to the invariant that no
  registered transition goes beyond where its subject is. Records from the empty
  state to itself move nothing and stay out of the history. That a selected cell has all of its evidence is shown backwards
  from the last transition, which needs two things to hold of *every*
  registered record: what it was accepted on is still there (`Grounded`), and
  each transition has its predecessor (`Connected`).
* `EvidenceProofs`, the command: `IndexTypeCorrect`, `Implements`,
  `IndexUnbranched`, `IndexSelectedStands`. return-index is a run of the
  registry, so the theorems above carry over. That the sweep registers nothing
  is a counting argument (`Settling`): either the last pass registered nothing,
  and then what is left is still refused, or there were as many passes as
  records, each of which registered one. `LifecycleFollowed` is the safety half
  of the refinement of PortLifecycle: a registered record advances at most one
  subject by one legal stage. Nothing need be assumed about where subjects
  start, because a first transition that is not legal is refused.

  `OrderIndependent` is VerdictOfTheSet. When the command succeeds every record
  was registered on a part of what there is in the end (`Accounted`), and what
  a part supports the whole supports (`SupportStays`). The check of a benchstat
  is the one that is not monotone, for it wants exactly one benchmark of each
  source: the proof needs `BenchmarkAssumption`, which validateBenchmarkTopologyV1
  demands of the frozen commands, and `OneBatch`, the hypothesis of the property:
  together there is no second one for a row and cell. The other way round, a consistent set leaves nothing refused
  (`ConsistentIsRegistered`): a record needs streams, identities, benchmarks and
  proofs of lower kinds only, and among the transitions that are left the one
  from the lowest state is where its subject is.
  `BatchesApart` is BatchesShareNoCell, with no hypothesis on batches. A
  registered comparison of its own batch's benchmarks had these as the only ones
  of the cell then and has them still registered (`Compares`); a second batch's
  comparison would need both pairs to be the only ones when the later was
  registered. Completeness gives each batch its comparison.
* `EvidenceProofs`, the audit: `Agreement`, CompletableWhenSettled for every campaign and
  plan. From the registry to the audit: an accepted transition keeps for good
  what it was accepted on (`AllTaken`); the state of a subject was reached by a
  transition, whose predecessor is registered (`Preceded`,
  `BackToTheBuild`), down to the start; and an unbranched history
  leaves no room for others (`Alone`). From the audit to the registry: the last
  transition of a closed chain has no successor, so the subject is where it ends
  (`EndOfChain`).

* `TranscodeProofs`: `TypeCorrect`, `NeverOverruns` (PanicsBeforeWriting),
  `LengthsExact`, `ConvertsAll` (ConvertsExactly), `SafeStops`, `RepairsAll`,
  `TrimsAll` and `DetectsAll`: every safety property of the run, for calls with
  any text, destination, group and block. `CallsAssumption` says what a call may
  be: the variants the package exports (`Offered`) over units of the width of
  the encoding (`IsUnit`).

  The reference `Reading` is a recursive function, which to the prover is any
  function that satisfies its equation. `ReadingExists` shows that there is one:
  a function is built from the end of the text backwards, one position at a time,
  and the induction is the well-foundedness of the naturals (`Backward`) applied
  to a set of positions, not a schema. From it comes `ReadingIsAfter`, the
  equation as a rule, and everything else is about one character at a time. The
  code and the reference judge a character in different words, the one by ranges of the
  assembled code point, the other by the standard's table of bytes; `Right` says
  that they agree at every unit of every text, fault by fault, in every mode.

  Each property then has an invariant of the loop, whatever actions got there.
  `LinkInv`: unless a trusting converter got a text it cannot trust, what was
  written reads as what the consumed units read as, and what is left reads on
  from there. `BudgetInv`: what was written and what the length function counts
  of the rest is at most what it counted of the whole, which was compared with
  dst once, and just that for a text that is converted whole; a kernel never
  parts a pair, which is what makes the count additive there. `ToldInv`: the error and the
  position are those of the first fault of the whole text, whatever part a kernel
  took and however far a validator went back to a character's start (`Clean`).
  `HaltInv`: a safe converter that stopped had no room for the next character.
  `RepairInv`: a repair in place reads back its own output, and still what is
  written and what is left repaired make the repaired text, because a replaced
  unit pairs with nothing. `TrimInv` and `DetectInv` say which function of
  the text was answered, and constant lemmas say what it is: a text that is whole
  up to a position promises nothing behind it (`Settled`), so the trim finds the
  open character only; the validators walk a text (`Walk`) to the end just when
  `Reading` does (`Validates8`); surrogates come in pairs when walked just when
  they do as two sets (`PairsAre`, `Reads16`), in either order of the machine
  (`Words16`, `Reads32`); and the marks on one text are at most the two that begin FF FE
  (`MarksApart`), of which the longer is found (`MarkFound`).

Only model-checked: liveness (Termination, SelfHeals and the verdict of
FollowsLifecycle), of which the proof system has no proofs here. Every
invariant a run checks is a theorem.

## 5. Where the code and its documents disagree

* **transcode_safe.** The safe UTF-16 to UTF-8 conversion answers 0 at a lone
  surrogate although what came before it is already in dst; its comment says it
  returns the number of bytes written.
* **dispatch_opcodes.** The porting policy says that every selector is a superset
  of the non-baseline instructions of its provider. The Westmere candidates ask
  for SSSE3 alone, while the kernel of binaryLengthFromBase64, first choice
  there, executes POPCNT; forced, three more execute POPCNT and
  seventeen SSE4.1. On a Core 2 a call faults.
* **fetch_checksums.** SHA256SUMS left empty by a crash inside os.WriteFile is
  kept by every later run, though it is written so that `shasum -c` works.
* **return_schema.** legalRowTransition compares `map[a]` with b, and a Go map
  answers "" for a state it does not hold: a record that moves a row from
  `complete` to "", or from "" to "", is legal and registered. The schema of the
  records admits four states before and four after a row transition, "" not
  among them.

Met while modelling, and no finding of a run: an `=` before the end of the text
stops the Base64 decoder and drops the rest without an error (`AAAA=A` decodes to
three bytes with Success while BinaryLengthFromBase64 announces more), which
KeepsPromise states and DecodesEverything excepts; a corpus that cannot be opened
or read for a moment is deleted as if it were corrupt and fetched again; the
converters that trust their UTF-16 input may index past dst when it is
ill-formed (Go panics), the ones that trust UTF-8 never do, for each lead byte
that makes them write is counted by the length function; for truncated UTF-8
after a vectorised group a trusting converter answers 0 where the scalar code
answers the prefix; utf8LengthFromUTF16WithReplacement is not additive over a
split pair, and no kernel splits one; a publication that fails to delete its
backup reports an error after the new set is in place.

In the registry: benchmarkProofsV1 looks for benchmarks of the record's row,
cell and operation whatever their batch, while validateBenchmarkTopologyV1 pairs
them by batch. Of two batches of one cell, a comparison is taken only while just one
benchmark of each source is registered, the ones it names; so the verdict of
such a directory may depend on the order, and it is accepted only when some
comparison names benchmarks of another batch than its own. The output of a return_index command is itself required, so
it must be there before the command that checks it succeeds; the output of a
state_transition command may be returned as raw evidence, and completeness
holds without the transition; the check that a state which is not terminal has
no disposition does not cover direct_built and hard_gates_green (completion.go
refuses them later); not_applicable takes any qualification; a row may rest on
evidence of the old source, and two subjects on one proof. So a directory may
pass return-index that no completion document can close; `Objectionable` lists
the ways, and CompletableWhenSettled says that there are no others.

## 6. What is not modelled, and the plan

Left out for good: the assembly kernels and the instructions of a block (pure
functions of one block, compared with the scalar code by the repository's
differential tests and fuzzers); generated tables; rendering and parsing of the
port plan; the validation of a frozen command list, of memberships and
classifications (one pure check of one input each); the statistics of a
qualification (floating point); completion_build.go, which builds a fixture;
find and count loops; tests, benchmarks, vendored data.

The plan, the most important first.

1. Base64: decoder, promise, encoder; proofs of types and bounds. *Done.*
2. Corpus provisioning and publication, with their proofs. *Done.*
3. Text conversion in every variant. *Done*, without
   ValidateUTF16AsASCII's and the counting kernels.
4. `EvidenceRegistry` with its proofs. *Done* for return-index; raw trees
   streamed into a registry (evidence_ingest.go) are left.
5. `ReturnIndex`, composed with it, its abstract specification
   `PortLifecycle`, and their proofs. *Done.*
6. `Completion`: the closing audit over the registry, with the proof that the
   two agree. *Done* for one family; qualification is left out as above.
7. `Dispatch` with its proofs. *Done.*
8. `Detection` and trimming. *Done* as calls of one text. A `Stream` that feeds
   a text in pieces, trimmed and carried over, is left.
9. The decoder keeps its promise, the encoder writes what it announces, and the
   one reads back what the other wrote. *Done.*
10. Every safety property of Transcode, detection and trimming included, for
   every text. *Done.* Left: liveness, and `Stream` of item 8.
