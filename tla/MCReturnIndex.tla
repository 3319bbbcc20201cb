---------------------------- MODULE MCReturnIndex ----------------------------
(***************************************************************************)
(* A campaign about a row that goes to complete and its two cells, one all *)
(* the way to selected and one not applicable, with a source and a host    *)
(* identity, and two row commands, one bound to start from a cell's state, *)
(* whose artifacts are raw evidence unless they say otherwise.  The        *)
(* listings are its evidence in many orders, with records missing, twice,  *)
(* or other than they should be.                                           *)
(***************************************************************************)
EXTENDS ReturnIndex, Completion, SequencesExt

Cmd(action, role, key, row, cell) ==
  [action |-> action, role |-> role, key |-> key, row |-> row, cell |-> cell,
   batch |-> "one", initial |-> IF key = "row" THEN "snapshot_planned" ELSE "eligible"]

A(action, role) == Cmd(action, role, "cell", "r", "a")
B(action, role) == Cmd(action, role, "cell", "r", "b")
R(action)       == Cmd(action, "direct", "row", "r", "a")

Frozen ==
  [commit |-> A("source_commit", "new"), uname |-> A("host_uname", "host"),
   object |-> A("go_object_build", "object"), objdump |-> A("go_objdump", "object"),
   test |-> A("go_test_focused", "new"), race |-> A("go_test_race", "new"),
   fuzz |-> A("go_fuzz_replay", "direct"),
   built |-> A("state_transition", "direct"), green |-> A("state_transition", "direct"),
   candidate |-> A("state_transition", "direct"),
   old |-> A("go_benchmark", "old"), quiet |-> A("quiet_affinity_recheck", "direct"),
   new |-> A("go_benchmark", "new"), guard |-> A("provider_guard", "direct"),
   stat |-> A("benchstat", "new"), selector |-> A("selector_test", "selector"),
   final |-> A("final_selector_test", "selector"), terminal |-> A("state_transition", "direct"),
   na |-> B("not_applicable", "direct"), testB |-> B("go_test_focused", "new"),
   guardB |-> B("provider_guard", "direct"),
   private |-> R("state_transition"), scalar |-> R("state_transition"),
   index |-> R("return_index"), published |-> R("state_transition"),
   complete |-> R("state_transition"), spare |-> R("state_transition"),
   odd |-> [R("state_transition") EXCEPT !.initial = "eligible"]]

MCIdentityNeeded == {<<"source_commit", "new">>, <<"host_uname", "host">>}

-----------------------------------------------------------------------------
(* Records *)

(* Receipts are strings, for TLC's sake: a command, an output and, where   *)
(* the record is not what it should be, a tag.                             *)
Name(c, kind) == c \o "/" \o kind
Id(c)  == Name(c, Artifact(c))
Ids(C) == {Id(c) : c \in C}

Plain(c, kind) ==
  [command |-> c, output |-> kind, fits |-> TRUE, sound |-> TRUE, frozen |-> TRUE,
   subject |-> "none", from |-> "", to |-> "", disposition |-> "", qualification |-> "",
   proofs |-> {}, pair |-> <<Id("old"), Id("new")>>, outcome |-> "pass"]

Step(c, a, b, proofs) ==
  [Plain(c, Artifact(c)) EXCEPT
     !.subject = IF Frozen[c].key = "row" THEN "row" ELSE "backend_cell",
     !.from = a, !.to = b, !.proofs = proofs,
     !.disposition = IF b \in {"selected", "direct_only", "not_applicable"} THEN b ELSE "",
     !.qualification = IF b = "selected" THEN "pass" ELSE ""]
Outcome(stat)           == [Plain("stat", "benchstat") EXCEPT !.outcome = stat]
Fate(b, claim, proofs)  == [Step("terminal", "dispatch_candidate", b, proofs) EXCEPT
                              !.qualification = claim]

Built == {"object", "objdump", "test"}
Gates == Built \cup {"race", "fuzz"}
Guard == {"old", "new", "stat", "guard", "selector"}
WithStat(tag) == Ids(Guard \ {"stat"}) \cup {Id("stat") \o tag}

ArtifactOf(c) ==
  CASE c = "built"     -> Step(c, "eligible", "direct_built", Ids(Built))
    [] c = "green"     -> Step(c, "direct_built", "hard_gates_green", Ids(Gates))
    [] c = "candidate" -> Step(c, "hard_gates_green", "dispatch_candidate", Ids({"green"}))
    [] c = "terminal"  -> Step(c, "dispatch_candidate", "selected", Ids(Guard \cup {"final"}))
    [] c = "na"        -> Step(c, "eligible", "not_applicable", {})
    [] c = "private"   -> Step(c, "snapshot_planned", "scalar_private", {})
    [] c = "scalar"    -> Step(c, "scalar_private", "scalar_green", {})
    [] c = "published" -> Step(c, "scalar_green", "family_published", Ids({"index"}))
    [] c = "complete"  -> Step(c, "family_published", "complete", Ids({"index"}))
    [] OTHER           -> Plain(c, Artifact(c))

Expected ==
  {<<Name(c, kind), Plain(c, kind)>> : c \in DOMAIN Frozen, kind \in Streams}
    \cup {<<Id(c), ArtifactOf(c)>> : c \in DOMAIN Frozen}

RowMoves == {"private", "scalar", "published", "complete"}

(* What may stand in the place of a record: <<its receipt, tag, record>>.  *)
Amiss ==
  {<<Id("test"), " unsound", [Plain("test", "test") EXCEPT !.sound = FALSE]>>,
   <<Id("race"), " misfit", [Plain("race", "race") EXCEPT !.fits = FALSE]>>,
   <<Id("test"), " again", Plain("test", "test")>>,
   <<Id("uname"), " other host", [Plain("uname", "identity") EXCEPT !.frozen = FALSE]>>,
   <<Id("built"), " no test", Step("built", "eligible", "direct_built", Ids(Built \ {"test"}))>>,
   <<Id("built"), " test of b", Step("built", "eligible", "direct_built",
                                     Ids((Built \ {"test"}) \cup {"testB"}))>>,
   <<Id("built"), " selected", [Step("built", "eligible", "direct_built", Ids(Built)) EXCEPT
                                  !.disposition = "selected", !.qualification = "pass"]>>,
   <<Id("green"), " built", Step("green", "eligible", "direct_built", Ids(Built))>>,
   <<Id("green"), " not applicable", Step("green", "eligible", "not_applicable", {})>>,
   <<Id("scalar"), " private", Step("scalar", "snapshot_planned", "scalar_private", {})>>,
   <<Id("private"), " with test", Step("private", "snapshot_planned", "scalar_private",
                                         Ids({"test"}))>>,
   <<Id("na"), " passes", [Step("na", "eligible", "not_applicable", {}) EXCEPT
                             !.qualification = "pass"]>>,
   <<Id("stat"), " swapped", [Outcome("pass") EXCEPT !.pair = <<Id("new"), Id("old")>>]>>,
   <<Id("stat"), " stale", Outcome("stale")>>,
   <<Id("stat"), " fails", Outcome("fail")>>,
   <<Id("stat"), " unclear", Outcome("inconclusive")>>,
   <<Id("terminal"), " guard of b", Fate("selected", "pass",
                                         Ids((Guard \ {"guard"}) \cup {"guardB", "final"}))>>,
   <<Id("terminal"), " not final", Fate("selected", "pass", Ids(Guard))>>,
   <<Id("terminal"), " overruled", Fate("direct_only", "fail", Ids(Guard))>>,
   <<Id("terminal"), " fails", Fate("direct_only", "fail", WithStat(" fails"))>>,
   <<Id("terminal"), " unclear", Fate("direct_only", "inconclusive", WithStat(" unclear"))>>,
   <<Id("terminal"), " against", Fate("selected", "pass", WithStat(" fails") \cup Ids({"final"}))>>,
   <<Id("terminal"), " raw", Plain("terminal", "state-transition")>>,
   <<Id("spare"), " undone", Step("spare", "complete", "", {})>>,
   <<Id("spare"), " still", Step("spare", "", "", {})>>,
   <<Id("odd"), " still", Step("odd", "", "", {})>>,
   <<Id("odd"), " struck", Step("odd", "eligible", "", {})>>}
  \cup {<<Id(c), " raw", Plain(c, "state-transition")>> : c \in RowMoves}

(* Those that others stand on, or that stand on others, otherwise than     *)
(* they should; they are listed backwards too.                             *)
Entangled == {" again", " no test", " test of b", " built", " not applicable", " private",
              " with test", " swapped", " stale", " guard of b", " not final", " overruled",
              " against", " undone", " struck"}

Entries == Expected \cup {<<x[1] \o x[2], x[3]>> : x \in Amiss}
Table   == LET entries == {e : e \in Entries}
           IN  [r \in {e[1] : e \in entries} |-> (CHOOSE e \in entries : e[1] = r)[2]]

-----------------------------------------------------------------------------
(* Listings *)

Identity == <<"commit", "uname">>
Direct   == <<"object", "objdump", "test", "race", "fuzz">>
Cell     == <<"built", "green", "candidate", "terminal">>
Bench    == <<"old", "quiet", "new", "guard", "stat", "selector", "final">>
Rest     == <<"na", "testB", "guardB", "private", "scalar", "index", "published", "complete",
              "spare", "odd">>
CommandOrder == Identity \o Direct \o Cell \o Bench \o Rest

OutputsOf(c) ==
  <<Name(c, "stdout"), Name(c, "stderr"), Name(c, "exit"), Name(c, "argv-env"), Id(c)>>
InOrder(cs) == FlattenSeq([i \in DOMAIN cs |-> OutputsOf(cs[i])])
Base        == InOrder(CommandOrder)

(* The artifacts first, then the streams.                                  *)
ByKind == LET artifacts == Ids(DOMAIN Frozen)
          IN  SelectSeq(Base, LAMBDA r : r \in artifacts)
                \o SelectSeq(Base, LAMBDA r : r \notin artifacts)

Shuffled == {InOrder(p[1] \o p[2] \o p[3] \o p[4] \o Rest) :
               p \in {q \in [1..4 -> {Identity, Direct, Cell, Bench}] : IsInjective(q)}}

Without(listing, r)    == SelectSeq(listing, LAMBDA q : q # r)
With(listing, r, tag)  == [i \in DOMAIN listing |-> IF listing[i] = r THEN r \o tag ELSE listing[i]]
Both(listing)          == {listing, Reverse(listing)}
StatAnd(listing, tag, terminal) ==
  With(With(listing, Id("stat"), tag), Id("terminal"), terminal)

(* No record moves the row, or what the tags of spare and odd make it do.  *)
RawRow(listing) == [i \in DOMAIN listing |-> IF listing[i] \in Ids(RowMoves)
                                             THEN listing[i] \o " raw" ELSE listing[i]]
RowEnds(listing, tag, oddTag) == With(With(listing, Id("spare"), tag), Id("odd"), oddTag)

Explored ==
  LET base == Base
  IN  {<< >>} \cup Both(base) \cup Both(ByKind) \cup Shuffled
        \cup {Without(base, r) : r \in Ids(DOMAIN Frozen)}
        \cup {Without(base, Name(c, "exit")) : c \in {"commit", "old", "race", "index"}}
        \cup {Without(base, Name("final", "argv-env")), Without(base, Name("na", "stderr"))}
        \cup {With(base, x[1], x[2]) : x \in Amiss}
        \cup {Reverse(With(base, x[1], x[2])) : x \in {y \in Amiss : y[2] \in Entangled}}
        \cup Both(Without(With(base, Id("terminal"), " guard of b"), Id("guard")))
        \cup {StatAnd(base, s[1], s[2]) : s \in {<<" fails", " fails">>, <<" unclear", " unclear">>,
                                              <<" fails", " against">>}}
        \cup Both(RowEnds(base, " undone", " still")) \cup Both(RowEnds(base, " still", " still"))
        \cup Both(RawRow(RowEnds(base, " still", " struck"))) \cup {RawRow(base)}
        \cup {<<Name("commit", "exit")>>,
              <<Id("commit"), Name("commit", "argv-env"), Name("commit", "exit")>>}
        \cup {<<Id("test")>> \o base, Append(base, Name("commit", "stdout"))}
        \cup UNION {{Append(base, x[1] \o x[2]), <<x[1] \o x[2]>> \o base} :
                      x \in {y \in Amiss : y[2] \in {" again", " built", " overruled"}}}

Directories == {listing : listing \in Explored}

-----------------------------------------------------------------------------
(* TLC evaluates what is substituted for a constant at each use, and a     *)
(* definition once; behind a LET its coverage does not follow the tables   *)
(* to every use either.                                                    *)
MCCampaign == LET frozen == Frozen IN frozen
MCCommands == DOMAIN Frozen
MCReceipts == DOMAIN Table
MCRecord   == LET table == Table IN table
MCListings == Directories
MCPlan     == [a |-> [row |-> "r", outcome |-> "eligible"],
               b |-> [row |-> "r", outcome |-> "not_applicable"]]
=============================================================================
