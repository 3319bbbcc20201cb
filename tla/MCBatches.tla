------------------------------ MODULE MCBatches ------------------------------
(***************************************************************************)
(* A campaign that benchmarks one cell in two batches, as the frozen       *)
(* topology allows.  The listings are its evidence in several orders, each *)
(* comparison of its own batch's benchmarks or of the other batch's.       *)
(***************************************************************************)
EXTENDS ReturnIndex, SequencesExt

Cmd(action, role, batch) ==
  [action |-> action, role |-> role, key |-> "cell", row |-> "r", cell |-> "a",
   batch |-> batch, initial |-> "eligible"]

Batches == {"one", "two"}

(* Command -> <<action, role>>; a batch's commands carry its name.         *)
OfBatch == [old |-> <<"go_benchmark", "old">>, quiet |-> <<"quiet_affinity_recheck", "direct">>,
            new |-> <<"go_benchmark", "new">>, guard |-> <<"provider_guard", "direct">>,
            stat |-> <<"benchstat", "new">>, selector |-> <<"selector_test", "selector">>]
BenchOrder == <<"old", "quiet", "new", "guard", "stat", "selector">>

In(c, batch) == c \o " " \o batch

Frozen ==
  LET commands == {<<In(c, b), Cmd(OfBatch[c][1], OfBatch[c][2], b)>> :
                     c \in DOMAIN OfBatch, b \in Batches}
                    \cup {<<"commit", Cmd("source_commit", "new", "one")>>}
  IN  [c \in {x[1] : x \in commands} |-> (CHOOSE x \in commands : x[1] = c)[2]]

Name(c, kind) == c \o "/" \o kind
Id(c)         == Name(c, Artifact(c))
Pair(batch)   == <<Id(In("old", batch)), Id(In("new", batch))>>
Other(batch)  == IF batch = "one" THEN "two" ELSE "one"

Plain(c, kind) ==
  [command |-> c, output |-> kind, fits |-> TRUE, sound |-> TRUE, frozen |-> TRUE,
   subject |-> "none", from |-> "", to |-> "", disposition |-> "", qualification |-> "",
   proofs |-> {}, pair |-> Pair(Frozen[c].batch), outcome |-> "pass"]

Stat(batch) == In("stat", batch)

Entries ==
  UNION {{<<Name(c, kind), Plain(c, kind)>> : kind \in Outputs(c)} : c \in DOMAIN Frozen}
    \cup {<<Id(Stat(b)) \o " of the other",
            [Plain(Stat(b), "benchstat") EXCEPT !.pair = Pair(Other(b))]>> : b \in Batches}
Table == LET entries == Entries
         IN  [r \in {e[1] : e \in entries} |-> (CHOOSE e \in entries : e[1] = r)[2]]

-----------------------------------------------------------------------------
(* Listings *)

OutputsOf(c) ==
  <<Name(c, "stdout"), Name(c, "stderr"), Name(c, "exit"), Name(c, "argv-env"), Id(c)>>
InOrder(cs)  == FlattenSeq([i \in DOMAIN cs |-> OutputsOf(cs[i])])
Run(batch)   == [i \in DOMAIN BenchOrder |-> In(BenchOrder[i], batch)]
StatFirst(b) == <<Stat(b)>> \o SelectSeq(Run(b), LAMBDA c : c # Stat(b))

Orders == {<<"commit">> \o Run(b) \o rest : b \in Batches, rest \in {Run("one"), Run("two"),
                                                        StatFirst("one"), StatFirst("two")}}
Whole  == {InOrder(cs) : cs \in {o \in Orders : IsInjective(o)}}

Astray(listing, b) == [i \in DOMAIN listing |->
                         IF listing[i] = Id(Stat(b)) THEN listing[i] \o " of the other"
                                                     ELSE listing[i]]

Directories ==
  LET listings == Whole \cup {Reverse(l) : l \in Whole}
  IN  listings \cup {Astray(l, b) : l \in listings, b \in Batches}

MCCampaign       == LET frozen == Frozen IN frozen
MCCommands       == DOMAIN Frozen
MCIdentityNeeded == {<<"source_commit", "new">>}
MCReceipts       == DOMAIN Table
MCRecord         == LET table == Table IN table
MCListings       == {listing : listing \in Directories}
=============================================================================
