----------------------------- MODULE WeeklyViews -----------------------------
(***************************************************************************)
(* What the read-only endpoints answer from the tables of Measurements:    *)
(* dashboard, trends, weekly report, answers about the own brands, the     *)
(* export and the channels of a brand.  Some read weekly_snapshot, some    *)
(* the runs themselves, the dashboard and the report both.                 *)
(***************************************************************************)
EXTENDS Measurements

OwnBrands == {b \in Brands : brands[b] # None /\ brands[b].own}

(* llm_provider_id IS NULL *)
TotalRows(week) == ScopeRows(week, None)

(* compute_own_sov_sum(): None if the week has no snapshot of an own brand *)
OwnSovSum(week) ==
    LET rows == {s \in TotalRows(week) : s.brand \in OwnBrands}
    IN  IF OwnBrands # {} /\ rows = {} THEN None
        ELSE SumOver(rows, LAMBDA s : s.metrics.sov)

OrZero(sum) == IF sum = None THEN 0 ELSE sum

(* The rows of the export: the mentions of the successful runs of a week.  *)
MentionRows(week) == Mentions(Succeeded(week))

DashboardSummary(week) ==
    LET total == OrZero(OwnSovSum(week))
        before == OwnSovSum(PreviousWeekLabel(week))
        competitors == {s \in TotalRows(week) : s.brand \notin OwnBrands}
    IN  [totalSov |-> total,
         rank |-> 1 + Cardinality({s \in competitors : s.metrics.sov > total}),
         ranked |-> 1 + Cardinality(competitors),
         sovDelta |-> IF before = None THEN None ELSE total - before,
        negatives |-> Cardinality({m \in MentionRows(week) :
                          m.brand \in OwnBrands /\ m.sentiment = "negative"})]

(* compute_trends(): by brand the shares of the last weeks, None where the *)
(* week has no row of the brand                                            *)
Trends(end, count) ==
    LET weeks == RecentWeekLabels(end, count)
    IN  [b \in {b \in Brands : brands[b] # None} |->
            [i \in 1 .. count |->
                LET point == {s \in TotalRows(weeks[i]) : s.brand = b}
                IN  IF point = {} THEN None
                    ELSE (CHOOSE s \in point : TRUE).metrics.sov]]

Entries(rows, p) == {m \in rows : m.run.prompt = p}

(* Mutant: a prompt counts as measured when a run of it has ended. *)
MeasuredEnded(week) ==
    {p \in activePrompts : /\ IsMarketQuestion(p)
                           /\ \E r \in RunsOf(week) : /\ r.prompt = p
                                                      /\ run[r].status # "pending"}

(* The prompts a weekly report judges. *)
Measured(week) ==
    {p \in activePrompts : /\ IsMarketQuestion(p)
                           /\ \E r \in Succeeded(week) : r.prompt = p}

(* The average order of some entries as a pair of sum and number, so that  *)
(* it can be compared without rounding.                                    *)
AvgOrder(entries) == <<OrderSum(entries), Cardinality(entries)>>

Lower(a, b) == a[1] * b[2] < b[1] * a[2]

WeeklyReport(week) ==
    LET rows == MentionRows(week)
        own(p) == {m \in Entries(rows, p) : m.brand \in OwnBrands}
        rival(p, b) == {m \in Entries(rows, p) : m.brand = b /\ b \notin OwnBrands}
        count(S) == Cardinality({r \in RunsOf(week) : run[r].status \in S})
        unexposed == {p \in Measured(week) : own(p) = {}}
    IN  [runs |-> Cardinality(RunsOf(week)),
         success |-> count({"success"}),
         failed |-> count({"failed"}),
         ownSov |-> OrZero(OwnSovSum(week)),
         unexposed |-> unexposed,
         negativeOnly |-> {p \in Measured(week) \ unexposed :
                              \A m \in own(p) : m.sentiment = "negative"},
         rivalAhead |-> {p \in Measured(week) : \E b \in Brands :
                              /\ rival(p, b) # {}
                              /\ \/ own(p) = {}
                                 \/ Lower(AvgOrder(rival(p, b)), AvgOrder(own(p)))}]

(* get_own_brand_answers() *)
OwnBrandAnswers(week) ==
    LET rows == MentionRows(week)
    IN  {[run |-> r, named |-> {m \in rows : m.run = r /\ m.brand \in OwnBrands}] :
            r \in {r \in Succeeded(week) : BrandType[r.prompt] = "own_brand"}}

(* get_prompt_detail(): the runs of a prompt with all matches of the brands *)
(* of now in their answers; there is none, but an error, while a term       *)
(* cannot be searched for.                                                  *)
PromptDetail(p, week) ==
    LET list == LoadBrandInfos(CHOOSE order \in LoadOrders : TRUE)
        shown == {r \in RunsOf(week) : r.prompt = p}
        highlights(r) == IF run[r].raw = None THEN {}
                         ELSE AliasMatches(run[r].raw.text, list)
    IN  IF Unsearchable(list) /\ \E r \in shown : run[r].raw # None THEN {}
        ELSE {[run |-> r, status |-> run[r].status, highlights |-> highlights(r),
               mentions |-> run[r].mentions, citations |-> run[r].citations] :
                 r \in shown}

(* get_brand_overview(): by active channel the share of the snapshot next  *)
(* to what is in the runs now                                              *)
BrandOverview(b, week) ==
    LET row(v) == {s \in ScopeRows(week, v) : s.brand = b}
        cited(v) == UNION {Range(run[r].citations) :
                           r \in {r \in Succeeded(week) : r.provider = v}}
    IN  [v \in activeProviders |->
            [sov |-> IF row(v) = {} THEN None
                     ELSE (CHOOSE s \in row(v) : TRUE).metrics.sov,
             mentions |-> Cardinality({m \in MentionRows(week) :
                                m.brand = b /\ m.run.provider = v}),
             pages |-> {c.url : c \in {c \in cited(v) : c.brand = b}}]]

(***************************************************************************)
(* Properties                                                              *)
(***************************************************************************)

(* In the detail view the brands highlighted in an answer, found anew from *)
(* the brands of the moment, are those stored as mentioned, except where a *)
(* brand was edited after the run was claimed.                             *)
MissedOnlyIfEditedSince ==
    \A p \in Prompts, w \in Weeks : \A shown \in PromptDetail(p, w) :
        shown.status = "success" =>
            \A b \in {b \in Brands : changedAt[b] <= run[shown.run].asOf} :
                (\E h \in shown.highlights : h.brand = b)
                <=> \E i \in DOMAIN shown.mentions : shown.mentions[i].brand = b

(* Every successful answer of a week is either counted in its snapshot or  *)
(* listed with the answers about the own brands, also those to questions   *)
(* without a brand type, so that the numbers of the report add up.         *)
EveryAnswerIsCountedOnce ==
    \A w \in Weeks : IsFresh(w) =>
        \A s \in TotalRows(w) :
            s.totalRuns + Cardinality(OwnBrandAnswers(w)) = WeeklyReport(w).success

(* A share of one mention is rounded to 0.000% if there are more. *)
MostShown == 200000

ShowsEveryMention(week, scope) ==
    Cardinality(Mentions(RunScope(week, scope))) <= MostShown

(* If the snapshot is fresh and all questions it counts are still active,  *)
(* the report shows an own share of zero exactly if it calls every         *)
(* question it judges unexposed, unless it rounds the share to zero, and a *)
(* judged question that is exposed is never one where the own brands are   *)
(* nowhere in the export.                                                  *)
UnexposedMeansNoShare ==
    \A w \in Weeks : LET report == WeeklyReport(w) IN
        /\ \A p \in report.unexposed :
              /\ \E r \in Succeeded(w) : r.prompt = p
              /\ ~ \E m \in MentionRows(w) : m.run.prompt = p /\ m.brand \in OwnBrands
        /\ (/\ IsFresh(w)
            /\ {r.prompt : r \in RunScope(w, None)} \subseteq activePrompts)
           => /\ report.ownSov # 0 => report.unexposed # Measured(w)
              /\ report.unexposed # Measured(w) /\ ShowsEveryMention(w, None)
                    => report.ownSov # 0

(* The change the dashboard shows is the difference of the last two points *)
(* of the own brands in the trends, and none if the first is missing.      *)
DeltaMatchesTrends ==
    \A w \in Weeks :
        LET trends == Trends(w, 2)
            sum(i) == SumFunction([b \in OwnBrands |-> OrZero(trends[b][i])])
        IN  DashboardSummary(w).sovDelta =
                IF OwnBrands # {} /\ \A b \in OwnBrands : trends[b][1] = None
                THEN None ELSE sum(2) - sum(1)

(* The trends of the last three weeks, asked for on any day, show at each   *)
(* point the row of the brand for the week that day was in, or the day one *)
(* or two weeks before, over every New Year; there is one such row at most.*)
TrendsShowTheirWeeks ==
    \A d \in Days : LET trends == Trends(LabelForDate(d), 3) IN
        \A b \in DOMAIN trends, i \in 1 .. 3 :
            LET rows == {s \in TotalRows(LabelForDate(d - 7 * (3 - i))) : s.brand = b}
            IN  IF rows = {} THEN trends[b][i] = None
                ELSE {s.metrics.sov : s \in rows} = {trends[b][i]}

(* In a fresh snapshot a channel of an own brand shows a share exactly if   *)
(* it shows more mentions than the answers of the channel to questions     *)
(* about the own brands have, which the share leaves out, unless the share *)
(* is rounded to zero.                                                     *)
ShareIsEarned ==
    \A w \in Weeks, b \in OwnBrands : IsFresh(w) =>
        LET shown == BrandOverview(b, w) IN
        \A v \in activeProviders :
            LET answers == {a \in OwnBrandAnswers(w) :
                               a.run.provider = v /\ \E m \in a.named : m.brand = b}
                more == shown[v].mentions > Cardinality(answers)
            IN  /\ shown[v].sov > 0 => more
                /\ more /\ ShowsEveryMention(w, v) => shown[v].sov > 0
=============================================================================
