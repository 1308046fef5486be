---------------------------- MODULE Measurements ----------------------------
(***************************************************************************)
(* What is stored about the answers of a week and what is computed from    *)
(* it: the brands with their terms and domains, the execution runs with    *)
(* the mentions and citations found in their answers, and the rows of      *)
(* weekly_snapshot.  How the worker gets its answers is the subject of     *)
(* WorkerDaemon and BatchRunner; here a poll, an answer and an aggregation *)
(* are one step each and their data is kept.                               *)
(***************************************************************************)
EXTENDS ResponseParser, WeekLabels

CONSTANTS
    Brands,
    Infos,         \* by brand: the [terms, domains, own] it may be given
    Seeded,        \* by brand: what it has been given before, or None
    Prompts,
    BrandType,     \* prompt.brand_type, None for a prompt of the Settings page
    Answers,       \* by prompt: the [text, citations] a CLI may return
    Providers,
    Active,        \* the providers that are active at first
    ThisWeek,      \* the label of the week that is measured
    EarlierRuns,   \* the runs of the weeks before: [week, prompt, provider]
    LoadOrders,    \* orders in which SELECT may return the brands
    MaxEdits       \* administrator requests (a bound)

VARIABLES
    brands,            \* brand, brand_alias and brand_domain; None: no row
    edits,             \* number of edits of brands so far (history)
    changedAt,         \* its value when a brand was last changed (history)
    activePrompts,
    activeProviders,
    run,               \* execution_run with its mention and citation rows
    snapshots          \* weekly_snapshot

vars == <<brands, edits, changedAt, activePrompts, activeProviders, run, snapshots>>

M == INSTANCE Metrics WITH Null <- None

Weeks == {ThisWeek} \cup {r.week : r \in EarlierRuns}

Run == EarlierRuns \cup
       [week : {ThisWeek}, prompt : Prompts, provider : Providers]

(* The tables are finite, and NULL is no value of theirs. *)
ASSUME TablesAssumption ==
    /\ IsFiniteSet(Run) /\ IsFiniteSet(Brands) /\ IsFiniteSet(Providers)
    /\ None \notin Int /\ None \notin Brands /\ None \notin Providers
    /\ Active \subseteq Providers
    /\ \A r \in EarlierRuns : r.prompt \in Prompts
    /\ \A b \in Brands : None \notin Infos[b]
    /\ Seeded = [b \in Brands |-> Seeded[b]]
    /\ \A b \in Brands : Seeded[b] \in Infos[b] \cup {None}
    /\ \A b \in Brands : \A info \in Infos[b] : IsFiniteSet(info.terms)
    /\ MaxEdits \in Nat

(* A SELECT of the brands returns each of them once. *)
ASSUME OrdersAssumption ==
    /\ LoadOrders # {}
    /\ \A order \in LoadOrders :
          /\ order \in [1 .. Cardinality(Brands) -> Brands]
          /\ IsInjective(order)
          /\ Range(order) = Brands

(* Texts and lists are finite, and a keyword is of one tone or of none.     *)
ASSUME AnswersAssumption ==
    \A p \in Prompts : \A answer \in Answers[p] :
        /\ answer # None
        /\ answer.text \in Seq(Range(answer.text))
        /\ answer.citations \in Seq(Range(answer.citations))
        /\ \A i \in DOMAIN answer.text : answer.text[i].tone \in Tones \cup {"none"}

(* A week is given by its label. *)
ASSUME WeeksAssumption ==
    \A w \in Weeks : MondayOfWeek(w) \in Nat /\ LabelForDate(MondayOfWeek(w)) = w

NoRow == [status |-> "absent", raw |-> None, mentions |-> <<>>,
          citations |-> <<>>, list |-> None, asOf |-> 0]

RunsOf(week) == {r \in Run : r.week = week /\ run[r].status # "absent"}

Succeeded(week) == {r \in RunsOf(week) : run[r].status = "success"}

(* load_brand_infos(): a list, in whatever order the rows come. *)
LoadBrandInfos(order) ==
    LET known == Subsequence(order, {i \in DOMAIN order : brands[order[i]] # None})
    IN  [i \in DOMAIN known |->
            [brand |-> known[i],
             terms |-> brands[known[i]].terms,
             domains |-> brands[known[i]].domains]]

(* A term without a letter, which build_alias_pattern() refuses. *)
Unsearchable(list) == \E i \in DOMAIN list : <<>> \in list[i].terms

(***************************************************************************)
(* Aggregation                                                             *)
(***************************************************************************)

(* Mutant: a comparison with OWN_BRAND that NULL fails as well. *)
IsMarketQuestionNotNull(p) == BrandType[p] \notin {None, "own_brand"}

(* brand_type IS DISTINCT FROM OWN_BRAND *)
IsMarketQuestion(p) == BrandType[p] # "own_brand"

(* Mutant: the rows of a provider count the questions for the own brand. *)
RunScopeAllQuestions(week, scope) ==
    {r \in Succeeded(week) :
        scope = None => IsMarketQuestion(r.prompt) /\ scope \in {None, r.provider}}

(* run_scope: all providers if scope is None *)
RunScope(week, scope) ==
    {r \in Succeeded(week) :
        IsMarketQuestion(r.prompt) /\ scope \in {None, r.provider}}

(* The rows of mention for some runs. *)
Mentions(runs) ==
    UNION {{[run |-> r, brand |-> m.brand, order |-> m.order, sentiment |-> m.sentiment] :
               m \in Range(run[r].mentions)} : r \in runs}

MentionsOf(b, runs) == {m \in Mentions(runs) : m.brand = b}

OrderSum(mentions) == SumFunction([m \in mentions |-> m.order])

(* The rows of citation for some runs. *)
Citations(runs) ==
    UNION {{[run |-> r, place |-> i, brand |-> run[r].citations[i].brand] :
               i \in DOMAIN run[r].citations} : r \in runs}

Counts(b, runs) ==
    LET mine == MentionsOf(b, runs)
        withTone(t) == Cardinality({m \in mine : m.sentiment = t})
    IN  [mentions |-> Cardinality(mine),
         total |-> Cardinality(Mentions(runs)),
         orderSum |-> OrderSum(mine),
         positive |-> withTone("positive"),
         neutral |-> withTone("neutral"),
         negative |-> withTone("negative"),
         cited |-> Cardinality({c \in Citations(runs) : c.brand = b}),
         allCited |-> Cardinality(Citations(runs))]

(* The rows aggregate_week() writes for a week. *)
ComputeSnapshots(week) ==
    {[week |-> week, brand |-> b, provider |-> scope,
      metrics |-> M!CalculateSnapshotMetrics(Counts(b, RunScope(week, scope))),
      totalRuns |-> Cardinality(RunScope(week, scope))] :
        b \in {b \in Brands : brands[b] # None},
        scope \in activeProviders \cup {None}}

RowsOf(week) == {s \in snapshots : s.week = week}

(* The snapshot of the week is the one its rows would give now. *)
IsFresh(week) == RowsOf(week) = ComputeSnapshots(week)

(***************************************************************************)
(* Steps                                                                   *)
(***************************************************************************)

(* _execute_one() with an answer: a term that cannot be searched for fails *)
(* the run after its text was assigned.                                    *)
Executed(row, answer) ==
    IF Unsearchable(row.list)
    THEN [row EXCEPT !.status = "failed", !.raw = answer, !.list = None]
    ELSE LET parsed == ParseResponse(answer, row.list)
         IN  [row EXCEPT !.status = "success", !.raw = answer, !.list = None,
                         !.mentions = parsed.mentions,
                         !.citations = parsed.citations]

(* The weeks before have been measured and aggregated, this one not yet. *)
Init ==
    /\ brands = Seeded
    /\ edits = 0
    /\ changedAt = [b \in Brands |-> 0]
    /\ activePrompts = Prompts
    /\ activeProviders = Active
    /\ \E answer \in [EarlierRuns -> UNION {Answers[p] : p \in Prompts}],
          order \in LoadOrders :
          /\ \A r \in EarlierRuns : answer[r] \in Answers[r.prompt]
          /\ run = [r \in Run |->
                IF r \in EarlierRuns
                THEN Executed([NoRow EXCEPT !.list = LoadBrandInfos(order)], answer[r])
                ELSE NoRow]
    /\ snapshots = UNION {ComputeSnapshots(w) : w \in Weeks \ {ThisWeek}}

Edited(b) ==
    /\ edits < MaxEdits
    /\ edits' = edits + 1
    /\ changedAt' = IF b = None THEN changedAt
                    ELSE [changedAt EXCEPT ![b] = edits + 1]

(* create_brand() or update_brand(), which replaces whole lists; a request *)
(* that changes nothing is left out, here and below                        *)
EditBrand(b, info) ==
    /\ brands[b] # info
    /\ Edited(b)
    /\ brands' = [brands EXCEPT ![b] = info]
    /\ UNCHANGED <<activePrompts, activeProviders, run, snapshots>>

DeactivatePrompt(p) ==
    /\ p \in activePrompts
    /\ Edited(None)
    /\ activePrompts' = activePrompts \ {p}
    /\ UNCHANGED <<brands, activeProviders, run, snapshots>>

UpdateLlmProvider(v) ==
    /\ Edited(None)
    /\ activeProviders' = IF v \in activeProviders THEN activeProviders \ {v}
                          ELSE activeProviders \cup {v}
    /\ UNCHANGED <<brands, activePrompts, run, snapshots>>

SetRuns(S, row(_)) ==
    /\ S # {}
    /\ run' = [r \in Run |-> IF r \in S THEN row(r) ELSE run[r]]
    /\ UNCHANGED <<brands, edits, changedAt, activePrompts, activeProviders, snapshots>>

TriggerBatch ==
    SetRuns({r \in Run : /\ r.week = ThisWeek
                         /\ run[r].status = "absent"
                         /\ r.prompt \in activePrompts
                         /\ r.provider \in activeProviders},
            LAMBDA r : [NoRow EXCEPT !.status = "pending"])

(* Mutant: every run of the batch is queued again, with what was found in *)
(* its last answer.                                                        *)
ResumeBatchAll(week) ==
    SetRuns(RunsOf(week), LAMBDA r : [run[r] EXCEPT !.status = "pending"])

ResumeBatch(week) ==
    SetRuns({r \in RunsOf(week) : run[r].status = "failed"},
            LAMBDA r : [run[r] EXCEPT !.status = "pending"])

(* Mutant: the list is loaded once, at the start of the daemon. *)
PollWithFirstList(order) ==
    LET known == Subsequence(order, {i \in DOMAIN order : Seeded[order[i]] # None})
        first == [i \in DOMAIN known |-> [brand |-> known[i],
                                          terms |-> Seeded[known[i]].terms,
                                          domains |-> Seeded[known[i]].domains]]
    IN  SetRuns({r \in Run : run[r].status = "pending"},
                LAMBDA r : [run[r] EXCEPT !.status = "running", !.asOf = edits,
                                          !.list = first])

(* The list is loaded once per poll and belongs to every run claimed in it. *)
Poll(order) ==
    SetRuns({r \in Run : run[r].status = "pending"},
            LAMBDA r : [run[r] EXCEPT !.status = "running", !.asOf = edits,
                                      !.list = LoadBrandInfos(order)])

Execute(r, answer) ==
    /\ run[r].status = "running"
    /\ SetRuns({r}, LAMBDA x : Executed(run[x], answer))

ExecutionFails(r) ==
    /\ run[r].status = "running"
    /\ SetRuns({r}, LAMBDA x : [run[x] EXCEPT !.status = "failed", !.list = None])

(* aggregate_week(), for a batch that is complete *)
AggregateWeek(week) ==
    /\ RunsOf(week) # {}
    /\ \A r \in RunsOf(week) : run[r].status \in {"success", "failed"}
    /\ snapshots' = (snapshots \ RowsOf(week)) \cup ComputeSnapshots(week)
    /\ UNCHANGED <<brands, edits, changedAt, activePrompts, activeProviders, run>>

Next ==
    \/ \E b \in Brands : \E info \in Infos[b] : EditBrand(b, info)
    \/ \E p \in Prompts : DeactivatePrompt(p)
    \/ \E v \in Providers : UpdateLlmProvider(v)
    \/ TriggerBatch
    \/ \E w \in Weeks : ResumeBatch(w) \/ AggregateWeek(w)
    \/ \E order \in LoadOrders : Poll(order)
    \/ \E r \in Run : ExecutionFails(r) \/ \E a \in Answers[r.prompt] : Execute(r, a)

Spec == Init /\ [][Next]_vars

(***************************************************************************)
(* Properties                                                              *)
(***************************************************************************)

Mention == [brand : Brands, order : 1 .. Cardinality(Brands), sentiment : Tones]

(* Types: a run has mentions and citations only if it succeeded, and holds  *)
(* a list of brands exactly while it is executed.                           *)
MeasurementTypeOK ==
    /\ \A b \in Brands : brands[b] \in Infos[b] \cup {None}
    /\ edits \in 0 .. MaxEdits
    /\ activePrompts \subseteq Prompts
    /\ activeProviders \subseteq Providers
    /\ \A r \in Run :
          /\ run[r].status \in {"absent", "pending", "running", "success", "failed"}
          /\ run[r].asOf \in 0 .. edits
          /\ IF run[r].status = "running"
             THEN \A i \in DOMAIN run[r].list : run[r].list[i].brand \in Brands
             ELSE run[r].list = None
          /\ run[r].mentions \in Seq(Mention)
          /\ run[r].status # "success" =>
                run[r].mentions = <<>> /\ run[r].citations = <<>>

(* Where a brand of now is found in a stored answer. *)
Found(r, b) == UNION {Spans(run[r].raw.text, t) : t \in brands[b].terms}

(* The order of the mentions of an answer is a ranking of different brands *)
(* from 1, and who comes first in the text is ranked first; only brands    *)
(* found at one place may be ranked either way.                            *)
OrderIsARanking ==
    \A r \in Run : LET ms == run[r].mentions IN
        \A i, j \in DOMAIN ms :
            /\ ms[i].order = i
            /\ ms[i].brand = ms[j].brand => i = j
            /\ (/\ i < j
                /\ changedAt[ms[i].brand] <= run[r].asOf
                /\ changedAt[ms[j].brand] <= run[r].asOf)
               => \A s \in Found(r, ms[j].brand) :
                     \E t \in Found(r, ms[i].brand) : t[1] <= s[1]

ScopeRows(week, scope) == {s \in RowsOf(week) : s.provider = scope}

SumOver(rows, value(_)) == SumFunction([s \in rows |-> value(s)])

Near(n, rows) == 2 * n - 200000 \in -rows .. rows

ScopeAddsUp(rows) ==
    \/ Near(SumOver(rows, LAMBDA x : x.metrics.sov), Cardinality(rows))
    \/ \A x \in rows : x.metrics.sov = 0

MetricsAddUp(m) ==
    IF m.avgRank = None
    THEN {m.positive, m.neutral, m.negative} = {None}
    ELSE /\ m.avgRank \in 1000 .. 1000 * Cardinality(Brands)
         /\ Near(m.positive + m.neutral + m.negative, 3)

CitationsFit(rows) ==
    \/ \A x \in rows : x.metrics.citationShare = None
    \/ /\ \A x \in rows : x.metrics.citationShare # None
       /\ 2 * SumOver(rows, LAMBDA x : x.metrics.citationShare)
             <= 200000 + Cardinality(rows)

(* The shares of voice of a scope add up to 100%, up to half a thousandth  *)
(* for each brand, or all are zero; so do the sentiments of a brand, which *)
(* are there exactly if it has a rank, and its rank is one a brand can     *)
(* have.  The shares of the citations, of which some belong to nobody, are *)
(* all there or none, and add up to 100% at most.                          *)
ScopesAddUp ==
    \A s \in snapshots : /\ ScopeAddsUp(ScopeRows(s.week, s.provider))
                         /\ CitationsFit(ScopeRows(s.week, s.provider))
                         /\ MetricsAddUp(s.metrics)

(* In a fresh snapshot whose runs are all of providers with rows of their  *)
(* own, the runs of the parts are those of the whole, and the share of a   *)
(* brand over all providers is no smaller than its smallest share at a     *)
(* provider whose answers name somebody, and no larger than its largest.   *)
WholeIsBetweenParts ==
    \A w \in Weeks :
        {r.provider : r \in Succeeded(w)} \subseteq activeProviders /\ IsFresh(w)
        => \A s \in ScopeRows(w, None) :
            LET parts == {x \in RowsOf(w) : x.brand = s.brand /\ x.provider # None}
                shares == {x.metrics.sov : x \in {x \in parts :
                              Mentions(RunScope(w, x.provider)) # {}}}
            IN  /\ SumOver(parts, LAMBDA x : x.totalRuns) = s.totalRuns
                /\ IF shares = {} THEN s.metrics.sov = 0
                   ELSE \E low, high \in shares : s.metrics.sov \in low .. high
=============================================================================
