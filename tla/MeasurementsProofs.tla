------------------------- MODULE MeasurementsProofs -------------------------
(***************************************************************************)
(* Theorems about WeekLabels, for every date of the calendar, and about    *)
(* Measurements and WeeklyViews: what is known of the stored answers, and  *)
(* what the numbers computed from them add up to, for any brands, answers  *)
(* and edits.                                                              *)
(***************************************************************************)
EXTENDS WeeklyViews, CalculationProofs

(* A year has at least 365 days, give or take one that the rules for leap   *)
(* years shift.                                                            *)
LEMMA NewYearBounds ==
    ASSUME NEW y \in Nat \ {0}
    PROVE  /\ NewYear(y) \in Nat
           /\ NewYear(y) >= 365 * (y - 1) /\ NewYear(y) <= 366 * (y - 1)
  BY DEF NewYear

LEMMA NewYearGrows ==
    ASSUME NEW y \in Nat \ {0}, NEW z \in Nat \ {0}, y <= z
    PROVE  NewYear(z) >= NewYear(y) + 365 * (z - y) - 1
  BY DEF NewYear

LEMMA FirstMondayBounds ==
    ASSUME NEW y \in Nat \ {0}
    PROVE  /\ FirstMonday(y) \in Int /\ FirstMonday(y) % 7 = 0
           /\ FirstMonday(y) >= NewYear(y) - 3 /\ FirstMonday(y) <= NewYear(y) + 3
<1> DEFINE x == NewYear(y) + 3
<1>1. x \in Nat
  BY NewYearBounds
<1>2. x - (x % 7) \in Int /\ (x - (x % 7)) % 7 = 0 /\ x % 7 \in 0 .. 6
  BY <1>1
<1> QED
  BY <1>1, <1>2, NewYearBounds DEF FirstMonday

LEMMA FirstMondayGrows ==
    ASSUME NEW y \in Nat \ {0}, NEW z \in Nat \ {0}, y < z
    PROVE  FirstMonday(y) + 350 < FirstMonday(z)
<1>1. NewYear(z) >= NewYear(y) + 365 * (z - y) - 1
  BY NewYearGrows
<1>2. NewYear(z) \in Nat /\ NewYear(y) \in Nat
  BY NewYearBounds
<1> QED
  BY <1>1, <1>2, FirstMondayBounds

LEMMA FirstMondayOfYearOne == FirstMonday(1) = 0
  BY DEF FirstMonday, NewYear

(* Every date is in an ISO year, and in one only.                           *)
LEMMA IsoYearExists ==
    ASSUME NEW d \in Nat
    PROVE  \E y \in Nat \ {0} : InIsoYear(d, y)
<1> DEFINE S == {n \in Nat : d < FirstMonday(n + 1)}
<1>1. S \in SUBSET Nat /\ d + 1 \in S
  <2>1. d + 2 \in Nat \ {0}
    OBVIOUS
  <2>2. FirstMonday(d + 2) >= 365 * (d + 1) - 3 /\ FirstMonday(d + 2) \in Int
    BY <2>1, FirstMondayBounds, NewYearBounds
  <2>3. (d + 1) + 1 = d + 2
    OBVIOUS
  <2> QED
    BY <2>2, <2>3
<1>2. PICK y \in S : \A n \in S : y <= n
  BY <1>1, LeastNumber
<1>3. y # 0
  BY <1>2, FirstMondayOfYearOne
<1>4. y - 1 \in Nat /\ y - 1 \notin S /\ (y - 1) + 1 = y
  BY <1>2, <1>3
<1>5. FirstMonday(y) <= d
  BY <1>4, <1>3, FirstMondayBounds
<1> QED
  BY <1>2, <1>3, <1>5 DEF InIsoYear

LEMMA IsoYearIsUnique ==
    ASSUME NEW d \in Int, NEW y \in Nat \ {0}, NEW z \in Nat \ {0},
           InIsoYear(d, y), InIsoYear(d, z)
    PROVE  y = z
<1>1. /\ FirstMonday(y) <= d /\ d < FirstMonday(y + 1)
      /\ FirstMonday(z) <= d /\ d < FirstMonday(z + 1)
  BY DEF InIsoYear
<1>2. /\ FirstMonday(y) \in Int /\ FirstMonday(y + 1) \in Int
      /\ FirstMonday(z) \in Int /\ FirstMonday(z + 1) \in Int
  BY FirstMondayBounds
<1>3. ~(y < z)
  <2> SUFFICES ASSUME y < z PROVE FALSE
    OBVIOUS
  <2>1. y + 1 = z \/ y + 1 < z
    OBVIOUS
  <2>2. FirstMonday(y + 1) <= FirstMonday(z)
    BY <1>2, <2>1, FirstMondayGrows
  <2> QED
    BY <1>1, <1>2, <2>2
<1>4. ~(z < y)
  <2> SUFFICES ASSUME z < y PROVE FALSE
    OBVIOUS
  <2>1. z + 1 = y \/ z + 1 < y
    OBVIOUS
  <2>2. FirstMonday(z + 1) <= FirstMonday(y)
    BY <1>2, <2>1, FirstMondayGrows
  <2> QED
    BY <1>1, <1>2, <2>2
<1> QED
  BY <1>3, <1>4

(* Years(d) holds the ISO year of d, and no year before the first.          *)
LEMMA IsoYearIsFound ==
    ASSUME NEW d \in Nat, NEW y \in Nat \ {0}, InIsoYear(d, y)
    PROVE  IsoYear(d) = y
<1>1. /\ FirstMonday(y) <= d /\ d < FirstMonday(y + 1)
      /\ FirstMonday(y) \in Int /\ FirstMonday(y + 1) \in Int
  BY FirstMondayBounds DEF InIsoYear
<1>2. FirstMonday(y) >= 365 * (y - 1) - 3
  BY FirstMondayBounds, NewYearBounds
<1>3. FirstMonday(y + 1) <= 366 * y + 3
  BY FirstMondayBounds, NewYearBounds
<1>4. d >= 365 * (y - 1) - 3 /\ d < 366 * y + 3
  BY <1>1, <1>2, <1>3
<1>5. y \in Years(d)
  BY <1>4 DEF Years
<1>6. \A z \in Years(d) : InIsoYear(d, z) => z = y
  <2> SUFFICES ASSUME NEW z \in Years(d), InIsoYear(d, z) PROVE z = y
    OBVIOUS
  <2>1. z \in Nat
    BY DEF Years
  <2>2. z # 0
    <3> SUFFICES ASSUME z = 0 PROVE FALSE
      OBVIOUS
    <3>1. d < FirstMonday(0 + 1)
      BY DEF InIsoYear
    <3> QED
      BY <3>1, FirstMondayOfYearOne
  <2> QED
    BY <2>1, <2>2, IsoYearIsUnique
<1> QED
  BY <1>5, <1>6 DEF IsoYear

LEMMA IsoYearCorrect ==
    ASSUME NEW d \in Nat
    PROVE  IsoYear(d) \in Nat \ {0} /\ InIsoYear(d, IsoYear(d))
  BY IsoYearExists, IsoYearIsFound

(* All days of a week have the label of its Monday.                         *)
LEMMA LabelOfMonday ==
    ASSUME NEW d \in Nat
    PROVE  /\ d - (d % 7) \in Nat
           /\ LabelForDate(d - (d % 7)) = LabelForDate(d)
           /\ MondayOfWeek(LabelForDate(d)) = d - (d % 7)
<1> DEFINE m == d - (d % 7)
           y == IsoYear(d)
           f == FirstMonday(y)
           g == FirstMonday(y + 1)
<1>1. y \in Nat \ {0} /\ f \in Int /\ g \in Int /\ f % 7 = 0 /\ g % 7 = 0
      /\ f <= d /\ d < g
  BY IsoYearCorrect, FirstMondayBounds DEF InIsoYear
<1> HIDE DEF y, f, g
<1>2. m \in Nat /\ f <= m /\ m < g
  BY <1>1
<1>3. (m - f) \div 7 = (d - f) \div 7 /\ f + 7 * ((d - f) \div 7) = m
  BY <1>1
<1>4. IsoYear(m) = y
  BY <1>1, <1>2, IsoYearIsFound DEF InIsoYear, f, g
<1> QED
  BY <1>1, <1>2, <1>3, <1>4 DEF LabelForDate, MondayOfWeek, y, f

LEMMA PreviousIsSevenDaysBefore ==
    ASSUME NEW d \in Nat, d >= 7
    PROVE  PreviousWeekLabel(LabelForDate(d)) = LabelForDate(d - 7)
<1> DEFINE e == d - 7
<1>1. e \in Nat /\ e % 7 = d % 7
  OBVIOUS
<1>2. (d - (d % 7)) - 7 = e - (e % 7)
  BY <1>1
<1> HIDE DEF e
<1>3. LabelForDate(e - (e % 7)) = LabelForDate(e)
  BY <1>1, LabelOfMonday
<1> QED
  BY <1>2, <1>3, LabelOfMonday DEF PreviousWeekLabel, e

LEMMA WeekBeforeIsBefore ==
    ASSUME NEW d \in Nat, d >= 7
    PROVE  Before(LabelForDate(d - 7), LabelForDate(d))
<1> DEFINE e == d - 7
           y == IsoYear(d)
           z == IsoYear(e)
<1>1. /\ y \in Nat \ {0} /\ z \in Nat \ {0} /\ e \in Nat
      /\ FirstMonday(y) <= d /\ d < FirstMonday(y + 1)
      /\ FirstMonday(z) <= e /\ e < FirstMonday(z + 1)
      /\ FirstMonday(y) \in Int /\ FirstMonday(z) \in Int
      /\ FirstMonday(y + 1) \in Int /\ FirstMonday(z + 1) \in Int
  BY IsoYearCorrect, FirstMondayBounds DEF InIsoYear
<1> HIDE DEF y, z
<1>2. z <= y
  <2> SUFFICES ASSUME y < z PROVE FALSE
    BY <1>1
  <2>1. y + 1 = z \/ y + 1 < z
    BY <1>1
  <2>2. FirstMonday(y + 1) <= FirstMonday(z)
    BY <1>1, <2>1, FirstMondayGrows
  <2> QED
    BY <1>1, <2>2
<1>3. LabelForDate(d) = [year |-> y, week |-> (d - FirstMonday(y)) \div 7 + 1]
  BY DEF LabelForDate, y
<1>4. LabelForDate(d - 7) = [year |-> z, week |-> ((d - 7) - FirstMonday(z)) \div 7 + 1]
  BY DEF LabelForDate, z
<1>5. y = z => ((d - 7) - FirstMonday(z)) \div 7 + 1 < (d - FirstMonday(y)) \div 7 + 1
  BY <1>1
<1> QED
  BY <1>1, <1>2, <1>3, <1>4, <1>5 DEF Before

(* The weeks of a chart, however many there are (week_utils.py,             *)
(* recent_week_labels).                                                    *)
LEMMA RecentWeeks ==
    ASSUME NEW d \in Nat, NEW count \in Nat \ {0}, 7 * count <= d + 7,
           NEW i \in 1 .. count
    PROVE  RecentWeekLabels(LabelForDate(d), count)[i] = LabelForDate(d - 7 * (count - i))
<1> DEFINE e == d - 7 * (count - i)
<1>1. e \in Nat /\ e % 7 = d % 7
  <2>1. PICK k \in Nat : k = count - i
    OBVIOUS
  <2>2. 7 * k <= d
    BY <2>1
  <2>3. d - 7 * k \in Nat /\ (d - 7 * k) % 7 = d % 7
    BY <2>2
  <2> QED
    BY <2>1, <2>3
<1>2. (d - (d % 7)) - 7 * (count - i) = e - (e % 7)
  BY <1>1
<1> HIDE DEF e
<1>3. LabelForDate(e - (e % 7)) = LabelForDate(e)
  BY <1>1, LabelOfMonday
<1> QED
  BY <1>2, <1>3, LabelOfMonday DEF RecentWeekLabels, e

(* The labels of weeks follow each other over every New Year, whether the   *)
(* year has 52 weeks or 53 (week_utils.py).                                *)
THEOREM WeeksFollowEachOther ==
    ASSUME NEW d \in Days
    PROVE  LET recent == RecentWeekLabels(LabelForDate(d), 3)
           IN  /\ recent[3] = LabelForDate(d)
               /\ \A i \in {1, 2} : /\ recent[i] = PreviousWeekLabel(recent[i + 1])
                                    /\ Before(recent[i], recent[i + 1])
<1> DEFINE recent == RecentWeekLabels(LabelForDate(d), 3)
<1>1. d \in Nat /\ d >= 14
  BY DaysAssumption
<1>2. \A i \in 1 .. 3 : recent[i] = LabelForDate(d - 7 * (3 - i))
  BY <1>1, RecentWeeks
<1> HIDE DEF recent
<1>3. /\ recent[1] = LabelForDate(d - 14) /\ recent[2] = LabelForDate(d - 7)
      /\ recent[3] = LabelForDate(d)
  <2>1. 7 * (3 - 1) = 14 /\ 7 * (3 - 2) = 7 /\ 7 * (3 - 3) = 0 /\ d - 0 = d
    BY <1>1
  <2> QED
    BY <1>2, <2>1
<1>4. /\ PreviousWeekLabel(LabelForDate(d)) = LabelForDate(d - 7)
      /\ Before(LabelForDate(d - 7), LabelForDate(d))
  BY <1>1, PreviousIsSevenDaysBefore, WeekBeforeIsBefore
<1>5. /\ PreviousWeekLabel(LabelForDate(d - 7)) = LabelForDate(d - 14)
      /\ Before(LabelForDate(d - 14), LabelForDate(d - 7))
  <2>1. d - 7 \in Nat /\ d - 7 >= 7 /\ (d - 7) - 7 = d - 14
    BY <1>1
  <2> QED
    BY <2>1, PreviousIsSevenDaysBefore, WeekBeforeIsBefore
<1>6. /\ recent[1] = PreviousWeekLabel(recent[1 + 1]) /\ Before(recent[1], recent[1 + 1])
      /\ recent[2] = PreviousWeekLabel(recent[2 + 1]) /\ Before(recent[2], recent[2 + 1])
  BY <1>3, <1>4, <1>5
<1> QED
  BY <1>3, <1>4, <1>6 DEF recent

-----------------------------------------------------------------------------
(* The unique key of weekly_snapshot: aggregate_week() deletes the rows of  *)
(* its week before it inserts new ones.                                    *)
OneRowPerKey ==
    \A s, t \in snapshots :
        s.week = t.week /\ s.brand = t.brand /\ s.provider = t.provider => s = t

LEMMA ComputedOncePerKey ==
    ASSUME NEW week
    PROVE  \A s, t \in ComputeSnapshots(week) :
              /\ s.week = week
              /\ s.brand = t.brand /\ s.provider = t.provider => s = t
  BY DEF ComputeSnapshots

LEMMA KeysStayUnique == Spec => []OneRowPerKey
<1>1. Init => OneRowPerKey
  <2> SUFFICES ASSUME Init, NEW s \in snapshots, NEW t \in snapshots,
                      s.week = t.week, s.brand = t.brand, s.provider = t.provider
               PROVE  s = t
    BY DEF OneRowPerKey
  <2>1. PICK v \in Weeks, w \in Weeks :
             s \in ComputeSnapshots(v) /\ t \in ComputeSnapshots(w)
    BY DEF Init
  <2> QED
    BY <2>1, ComputedOncePerKey
<1>2. OneRowPerKey /\ [Next]_vars => OneRowPerKey'
  <2> SUFFICES ASSUME OneRowPerKey, [Next]_vars PROVE OneRowPerKey'
    OBVIOUS
  <2>1. ASSUME NEW week \in Weeks, AggregateWeek(week) PROVE OneRowPerKey'
    <3>1. snapshots' = (snapshots \ RowsOf(week)) \cup ComputeSnapshots(week)
      BY <2>1 DEF AggregateWeek
    <3>2. \A s \in snapshots \ RowsOf(week) : s.week # week
      BY DEF RowsOf
    <3> QED
      BY <3>1, <3>2, ComputedOncePerKey DEF OneRowPerKey
  <2>2. CASE UNCHANGED snapshots
    BY <2>2 DEF OneRowPerKey
  <2> QED
    BY <2>1, <2>2 DEF Next, vars, EditBrand, DeactivatePrompt, UpdateLlmProvider,
       SetRuns, TriggerBatch, ResumeBatch, Poll, Execute, ExecutionFails
<1> QED
  BY <1>1, <1>2, PTL DEF Spec

(* The points of the trends are the shares of the weeks they stand for, for *)
(* all days of the calendar (trend_service.py, week_utils.py,              *)
(* aggregation.py).                                                        *)
THEOREM TrendsAreRight == Spec => []TrendsShowTheirWeeks
<1>1. OneRowPerKey => TrendsShowTheirWeeks
  <2> SUFFICES ASSUME OneRowPerKey, NEW d \in Days,
                      NEW b \in {b \in Brands : brands[b] # None}, NEW i \in 1 .. 3
               PROVE  LET point == Trends(LabelForDate(d), 3)[b][i]
                          rows == {s \in TotalRows(LabelForDate(d - 7 * (3 - i))) :
                                      s.brand = b}
                      IN  IF rows = {} THEN point = None
                          ELSE {s.metrics.sov : s \in rows} = {point}
    BY DEF TrendsShowTheirWeeks, Trends
  <2> DEFINE week == LabelForDate(d - 7 * (3 - i))
             rows == {s \in TotalRows(week) : s.brand = b}
  <2>1. RecentWeekLabels(LabelForDate(d), 3)[i] = week
    BY DaysAssumption, RecentWeeks
  <2> HIDE DEF week
  <2>2. Trends(LabelForDate(d), 3)[b][i]
           = IF rows = {} THEN None ELSE (CHOOSE s \in rows : TRUE).metrics.sov
    <3> DEFINE weeks == RecentWeekLabels(LabelForDate(d), 3)
               at(a, k) == {s \in TotalRows(weeks[k]) : s.brand = a}
               point(a, k) == IF at(a, k) = {} THEN None
                              ELSE (CHOOSE s \in at(a, k) : TRUE).metrics.sov
    <3>1. Trends(LabelForDate(d), 3)
             = [a \in {a \in Brands : brands[a] # None} |-> [k \in 1 .. 3 |-> point(a, k)]]
      BY DEF Trends
    <3>2. at(b, i) = rows
      BY <2>1
    <3> HIDE DEF at, rows
    <3>3. point(b, i) = IF rows = {} THEN None ELSE (CHOOSE s \in rows : TRUE).metrics.sov
      BY <3>2
    <3> HIDE DEF point
    <3> QED
      BY <3>1, <3>3
  <2>3. \A s, t \in rows : s = t
    BY DEF OneRowPerKey, TotalRows, ScopeRows, RowsOf
  <2>4. CASE rows # {}
    <3>1. PICK s : s \in rows
      BY <2>4
    <3> HIDE DEF rows
    <3>2. rows = {s} /\ (CHOOSE x \in rows : TRUE) = s
      BY <2>3, <3>1
    <3>3. {x.metrics.sov : x \in rows} = {s.metrics.sov}
      BY <3>2
    <3> QED
      BY <2>2, <2>4, <3>2, <3>3 DEF rows, week
  <2> QED
    BY <2>2, <2>4 DEF week
<1> QED
  BY <1>1, KeysStayUnique, PTL

-----------------------------------------------------------------------------
LEMMA OneRowPerRun ==
    ASSUME NEW S, IsFiniteSet(S), NEW named, NEW T,
           T = {[run |-> r, named |-> named[r]] : r \in S}
    PROVE  IsFiniteSet(T) /\ Cardinality(T) = Cardinality(S)
<1> DEFINE f == [r \in S |-> [run |-> r, named |-> named[r]]]
<1>1. f \in Surjection(S, T)
  BY DEF Surjection
<1>2. f \in Injection(S, T)
  <2>1. \A r \in S : f[r].run = r
    OBVIOUS
  <2>2. f \in [S -> T]
    OBVIOUS
  <2>3. \A a, b \in DOMAIN f : f[a] = f[b] => a = b
    BY <2>1
  <2> QED
    BY <2>2, <2>3 DEF Injection, IsInjective
<1> QED
  BY <1>1, <1>2, FS_Surjection

(* An answer is counted in the snapshot, or listed with the answers about   *)
(* the own brands, whatever the type of its question is and however many   *)
(* there are (aggregation.py, report_service.py).                          *)
THEOREM AnswersAreCountedOnce == Spec => []EveryAnswerIsCountedOnce
<1>1. EveryAnswerIsCountedOnce
  <2> SUFFICES ASSUME NEW w \in Weeks, IsFresh(w), NEW s \in TotalRows(w)
               PROVE  s.totalRuns + Cardinality(OwnBrandAnswers(w)) = WeeklyReport(w).success
    BY DEF EveryAnswerIsCountedOnce
  <2> DEFINE market == RunScope(w, None)
             own == {r \in Succeeded(w) : BrandType[r.prompt] = "own_brand"}
  <2>1. s \in ComputeSnapshots(w) /\ s.provider = None
    BY DEF IsFresh, TotalRows, ScopeRows
  <2>2. s.totalRuns = Cardinality(market)
    BY <2>1 DEF ComputeSnapshots
  <2>3. IsFiniteSet(Succeeded(w)) /\ IsFiniteSet(market) /\ IsFiniteSet(own)
    BY TablesAssumption, FS_Subset DEF Succeeded, RunsOf, RunScope
  <2>4. Succeeded(w) = market \cup own /\ market \cap own = {}
    BY DEF RunScope, IsMarketQuestion
  <2>5. Cardinality(Succeeded(w)) = Cardinality(market) + Cardinality(own)
    <3>1. Cardinality(market \cap own) = 0
      BY <2>4, FS_EmptySet
    <3>2. Cardinality(market \cup own)
             = Cardinality(market) + Cardinality(own) - Cardinality(market \cap own)
      BY <2>3, FS_Union
    <3>3. Cardinality(market) \in Nat /\ Cardinality(own) \in Nat
      BY <2>3, FS_CardinalityType
    <3> HIDE DEF market, own
    <3> QED
      BY <2>4, <3>1, <3>2, <3>3
  <2>6. Cardinality(OwnBrandAnswers(w)) = Cardinality(own)
    <3> DEFINE named == [r \in own |->
                           {m \in MentionRows(w) : m.run = r /\ m.brand \in OwnBrands}]
    <3>1. OwnBrandAnswers(w) = {[run |-> r, named |-> named[r]] : r \in own}
      BY DEF OwnBrandAnswers
    <3> HIDE DEF named, own
    <3> QED
      BY <2>3, <3>1, OneRowPerRun
  <2>7. WeeklyReport(w).success = Cardinality(Succeeded(w))
    <3>1. {r \in RunsOf(w) : run[r].status \in {"success"}} = Succeeded(w)
      BY DEF Succeeded
    <3> QED
      BY <3>1 DEF WeeklyReport
  <2> QED
    BY <2>2, <2>5, <2>6, <2>7
<1> QED
  BY <1>1, PTL

-----------------------------------------------------------------------------
(***************************************************************************)
(* The stored answers: the inductive invariant.                            *)
(***************************************************************************)
Known == {b \in Brands : brands[b] # None}

(* The list a run holds or held: each of its brands once, and a brand that  *)
(* was not edited after stamp is in it as it is now, and with its terms.   *)
ListIsAsOf(list, stamp) ==
    /\ IsBrandList(list)
    /\ \A i \in DOMAIN list : list[i].brand \in Known
    /\ \A b \in Brands : changedAt[b] <= stamp =>
          /\ \A i \in DOMAIN list : list[i].brand = b => list[i].terms = brands[b].terms
          /\ b \in Known => \E i \in DOMAIN list : list[i].brand = b

IsAnswer(raw) == raw # None /\ IsText(raw.text) /\ IsFiniteSet(DOMAIN raw.citations)

Fields == {"status", "raw", "mentions", "citations", "list", "asOf"}

IsRow(row) == row = [f \in Fields |-> row[f]]

(* Its mentions and citations are what the list of the poll it was claimed  *)
(* in gives.                                                               *)
IsParsed(row) ==
    /\ IsAnswer(row.raw)
    /\ \E list : /\ ListIsAsOf(list, row.asOf)
                 /\ row.mentions = ParseResponse(row.raw, list).mentions
                 /\ row.citations = ParseResponse(row.raw, list).citations

RowOK(row) ==
    /\ IsRow(row)
    /\ row.status \in {"absent", "pending", "running", "success", "failed"}
    /\ row.asOf \in 0 .. edits
    /\ IF row.status = "running" THEN ListIsAsOf(row.list, row.asOf) ELSE row.list = None
    /\ IF row.status = "success" THEN IsParsed(row)
       ELSE row.mentions = <<>> /\ row.citations = <<>>

BrandsOK ==
    /\ brands = [b \in Brands |-> brands[b]]
    /\ \A b \in Brands : brands[b] \in Infos[b] \cup {None}
    /\ changedAt \in [Brands -> 0 .. edits]
    /\ edits \in 0 .. MaxEdits
    /\ activePrompts \subseteq Prompts
    /\ activeProviders \subseteq Providers

RunsOK == run = [r \in Run |-> run[r]] /\ \A r \in Run : RowOK(run[r])

LEMMA LoadedListIsAsOfNow ==
    ASSUME BrandsOK, NEW order \in LoadOrders
    PROVE  ListIsAsOf(LoadBrandInfos(order), edits)
<1> DEFINE K == {i \in DOMAIN order : brands[order[i]] # None}
           known == Subsequence(order, K)
           list == LoadBrandInfos(order)
<1>1. /\ order \in [1 .. Cardinality(Brands) -> Brands]
      /\ \A i, j \in DOMAIN order : order[i] = order[j] => i = j
      /\ \A b \in Brands : \E i \in DOMAIN order : order[i] = b
  BY OrdersAssumption DEF IsInjective, Range
<1>2. K \in SUBSET Int /\ IsFiniteSet(K)
  <2>1. Cardinality(Brands) \in Nat
    BY TablesAssumption, FS_CardinalityType
  <2>2. IsFiniteSet(1 .. Cardinality(Brands))
    BY <2>1, FS_Interval
  <2>3. K \subseteq 1 .. Cardinality(Brands)
    BY <1>1
  <2>4. \A n \in 1 .. Cardinality(Brands) : n \in Int
    BY <2>1
  <2> HIDE DEF K
  <2>5. K \in SUBSET Int
    BY <2>3, <2>4
  <2>6. IsFiniteSet(K)
    BY <2>2, <2>3, FS_Subset
  <2> QED
    BY <2>5, <2>6
<1>3. \A i \in K : i \in DOMAIN order /\ order[i] \in Known
  BY <1>1 DEF Known
<1>4. \A b \in Known : \E i \in K : order[i] = b
  BY <1>1 DEF Known
<1>5. list = [i \in DOMAIN known |-> [brand |-> known[i], terms |-> brands[known[i]].terms,
                                      domains |-> brands[known[i]].domains]]
  BY DEF LoadBrandInfos
<1> HIDE DEF K
<1>6. PICK n \in Nat : \E at \in [1 .. n -> K] :
         /\ known = [k \in 1 .. n |-> order[at[k]]]
         /\ \A i \in K : \E k \in 1 .. n : at[k] = i
         /\ \A i, j \in 1 .. n : i < j => at[i] < at[j]
  BY <1>2, SubsequenceKeepsOrder
<1>7. PICK at \in [1 .. n -> K] :
         /\ known = [k \in 1 .. n |-> order[at[k]]]
         /\ \A i \in K : \E k \in 1 .. n : at[k] = i
         /\ \A i, j \in 1 .. n : i < j => at[i] < at[j]
  BY <1>6
<1> HIDE DEF list, known
<1>8. /\ DOMAIN list = 1 .. n
      /\ \A i \in 1 .. n : /\ list[i].brand = order[at[i]]
                           /\ list[i].terms = brands[order[at[i]]].terms
                           /\ at[i] \in K
  BY <1>5, <1>7
<1>9. \A i \in 1 .. n : list[i].brand \in Known /\ list[i].terms = brands[list[i].brand].terms
  BY <1>3, <1>8
<1>10. \A b \in Known : IsFiniteSet(brands[b].terms)
  BY TablesAssumption DEF BrandsOK, Known
<1>11. \A i, j \in 1 .. n : list[i].brand = list[j].brand => i = j
  <2> SUFFICES ASSUME NEW i \in 1 .. n, NEW j \in 1 .. n, i < j,
                      list[i].brand = list[j].brand
               PROVE  FALSE
    OBVIOUS
  <2>1. at[i] \in K /\ at[j] \in K /\ at[i] < at[j]
    BY <1>7
  <2>2. order[at[i]] = order[at[j]]
    BY <1>8
  <2>3. at[i] \in DOMAIN order /\ at[j] \in DOMAIN order
    BY <1>3, <2>1
  <2>4. at[i] = at[j]
    BY <1>1, <2>2, <2>3
  <2>5. at[i] \in Int
    BY <1>2, <2>1
  <2> QED
    BY <2>1, <2>4, <2>5
<1>12. \A b \in Known : \E i \in 1 .. n : list[i].brand = b
  BY <1>4, <1>7, <1>8
<1>13. IsBrandList(list)
  BY <1>8, <1>9, <1>10, <1>11 DEF IsBrandList
<1> QED
  BY <1>8, <1>9, <1>12, <1>13 DEF ListIsAsOf, list

(* An answer is parsed, or its run fails. *)
LEMMA ExecutedIsOK ==
    ASSUME NEW row, IsRow(row), row.asOf \in 0 .. edits, ListIsAsOf(row.list, row.asOf),
           row.mentions = <<>>, row.citations = <<>>, NEW answer, IsAnswer(answer)
    PROVE  RowOK(Executed(row, answer))
<1> DEFINE parsed == ParseResponse(answer, row.list)
           m == parsed.mentions
           c == parsed.citations
           failed == [row EXCEPT !.status = "failed", !.raw = answer, !.list = None]
           success == [row EXCEPT !.status = "success", !.raw = answer, !.list = None,
                                  !.mentions = m, !.citations = c]
<1>1. Executed(row, answer) = IF Unsearchable(row.list) THEN failed ELSE success
  BY DEF Executed
<1> HIDE DEF m, c
<1>2. /\ IsRow(failed) /\ failed.status = "failed" /\ failed.list = None
      /\ failed.asOf = row.asOf /\ failed.mentions = <<>> /\ failed.citations = <<>>
  BY DEF IsRow, Fields
<1>3. /\ IsRow(success) /\ success.status = "success" /\ success.list = None
      /\ success.asOf = row.asOf /\ success.raw = answer
      /\ success.mentions = m /\ success.citations = c
  BY DEF IsRow, Fields
<1> HIDE DEF failed, success
<1>4. RowOK(failed)
  BY <1>2 DEF RowOK
<1>5. IsParsed(success)
  BY <1>3 DEF IsParsed, m, c
<1>6. RowOK(success)
  BY <1>3, <1>5 DEF RowOK
<1> QED
  BY <1>1, <1>4, <1>6

LEMMA AnswersAreAnswers ==
    ASSUME NEW p \in Prompts, NEW answer \in Answers[p]
    PROVE  IsAnswer(answer)
<1>1. /\ answer # None /\ IsText(answer.text)
      /\ answer.citations \in Seq(Range(answer.citations))
  BY AnswersAssumption DEF IsText
<1>2. IsFiniteSet(DOMAIN answer.citations)
  <2>1. PICK n \in Nat : DOMAIN answer.citations = 1 .. n
    BY <1>1, LenProperties
  <2>2. 1 \in Int /\ n \in Int
    OBVIOUS
  <2> QED
    BY <2>1, <2>2, FS_Interval
<1> QED
  BY <1>1, <1>2 DEF IsAnswer

LEMMA InitIsOK == Init => BrandsOK /\ RunsOK
<1> SUFFICES ASSUME Init PROVE BrandsOK /\ RunsOK
  OBVIOUS
<1>1. BrandsOK
  BY TablesAssumption DEF BrandsOK, Init
<1>2. PICK answer \in [EarlierRuns -> UNION {Answers[p] : p \in Prompts}],
           order \in LoadOrders :
         run = [r \in Run |->
                   IF r \in EarlierRuns
                   THEN Executed([NoRow EXCEPT !.list = LoadBrandInfos(order)], answer[r])
                   ELSE NoRow]
  BY DEF Init
<1> DEFINE first == [NoRow EXCEPT !.list = LoadBrandInfos(order)]
<1>3. edits = 0 /\ edits \in 0 .. edits
  BY DEF Init
<1>4. /\ IsRow(NoRow) /\ NoRow.status = "absent" /\ NoRow.list = None
      /\ NoRow.mentions = <<>> /\ NoRow.citations = <<>> /\ NoRow.asOf = 0
  BY DEF NoRow, IsRow, Fields
<1>5. /\ IsRow(first) /\ first.list = LoadBrandInfos(order)
      /\ first.mentions = <<>> /\ first.citations = <<>> /\ first.asOf = edits
  BY <1>3, <1>4 DEF IsRow, Fields
<1>6. RowOK(NoRow)
  BY <1>3, <1>4 DEF RowOK
<1> HIDE DEF first
<1>7. \A a : IsAnswer(a) => RowOK(Executed(first, a))
  BY <1>1, <1>3, <1>5, LoadedListIsAsOfNow, ExecutedIsOK
<1>8. \A r \in EarlierRuns : IsAnswer(answer[r])
  BY AnswersAreAnswers
<1>9. \A r \in Run : run[r] = IF r \in EarlierRuns THEN Executed(first, answer[r]) ELSE NoRow
  BY <1>2 DEF first
<1>10. run = [r \in Run |-> run[r]]
  BY <1>2
<1> QED
  BY <1>1, <1>6, <1>7, <1>8, <1>9, <1>10 DEF RunsOK

(* An edit gives its brand a new stamp, and no list of before claims to     *)
(* have it as it is then.                                                  *)
LEMMA EditKeepsLists ==
    ASSUME BrandsOK, NEW b \in Brands, NEW info \in Infos[b], EditBrand(b, info),
           NEW list, NEW stamp \in 0 .. edits, ListIsAsOf(list, stamp)
    PROVE  ListIsAsOf(list, stamp)'
<1>1. /\ brands' = [brands EXCEPT ![b] = info] /\ edits' = edits + 1
      /\ b # None => changedAt' = [changedAt EXCEPT ![b] = edits + 1]
  BY DEF EditBrand, Edited
<1>2. b # None /\ info # None
  BY TablesAssumption
<1>3. /\ changedAt'[b] = edits + 1 /\ brands'[b] = info
      /\ \A c \in Brands : c # b => changedAt'[c] = changedAt[c] /\ brands'[c] = brands[c]
  BY <1>1, <1>2 DEF BrandsOK
<1>4. ~(changedAt'[b] <= stamp)
  BY <1>3 DEF BrandsOK
<1>5. Known' = Known \cup {b}
  BY <1>2, <1>3 DEF Known
<1>6. \A c \in Brands : changedAt'[c] <= stamp =>
         /\ c # b /\ changedAt[c] <= stamp
         /\ brands'[c] = brands[c] /\ (c \in Known' <=> c \in Known)
  BY <1>3, <1>4, <1>5
<1> QED
  BY <1>5, <1>6 DEF ListIsAsOf

LEMMA EditKeepsRows ==
    ASSUME BrandsOK, NEW b \in Brands, NEW info \in Infos[b], EditBrand(b, info),
           NEW row, RowOK(row)
    PROVE  RowOK(row)'
<1>1. row.asOf \in 0 .. edits /\ edits \in Nat
  BY DEF RowOK, BrandsOK
<1>2. edits' = edits + 1
  BY DEF EditBrand, Edited
<1>3. row.asOf \in 0 .. edits'
  BY <1>1, <1>2
<1>4. \A list : ListIsAsOf(list, row.asOf) => ListIsAsOf(list, row.asOf)'
  BY <1>1, EditKeepsLists
<1>5. IsParsed(row) => IsParsed(row)'
  BY <1>4 DEF IsParsed
<1> QED
  BY <1>3, <1>4, <1>5 DEF RowOK

LEMMA OthersKeepRows ==
    ASSUME NEW row, RowOK(row), edits' \in Nat, edits' >= edits, edits \in Nat,
           UNCHANGED <<brands, changedAt>>
    PROVE  RowOK(row)'
<1>1. \A list, stamp : ListIsAsOf(list, stamp) => ListIsAsOf(list, stamp)'
  BY DEF ListIsAsOf, Known
<1>2. IsParsed(row) => IsParsed(row)'
  BY <1>1 DEF IsParsed
<1>3. row.asOf \in 0 .. edits'
  BY DEF RowOK
<1> QED
  BY <1>1, <1>2, <1>3 DEF RowOK

(* A step that changes some rows, each to one that is right.                *)
LEMMA RunsStayOK ==
    ASSUME BrandsOK, RunsOK, NEW S \in SUBSET Run, NEW new,
           \A r \in S : RowOK(new[r]),
           run' = [r \in Run |-> IF r \in S THEN new[r] ELSE run[r]],
           UNCHANGED <<brands, edits, changedAt, activePrompts, activeProviders>>
    PROVE  BrandsOK' /\ RunsOK'
<1>1. BrandsOK'
  BY DEF BrandsOK
<1>2. ASSUME NEW r \in Run PROVE RowOK(run[r])'
  <2>1. PICK row : row = run'[r]
    OBVIOUS
  <2>2. RowOK(row)
    BY <2>1 DEF RunsOK
  <2>3. RowOK(row)'
    BY <2>2, OthersKeepRows DEF BrandsOK
  <2> QED
    BY <2>1, <2>3
<1>3. run' = [r \in Run |-> run'[r]]
  OBVIOUS
<1> QED
  BY <1>1, <1>2, <1>3 DEF RunsOK

LEMMA EditsAreOK ==
    ASSUME BrandsOK, RunsOK,
           \/ \E b \in Brands : \E info \in Infos[b] : EditBrand(b, info)
           \/ \E p \in Prompts : DeactivatePrompt(p)
           \/ \E v \in Providers : UpdateLlmProvider(v)
    PROVE  BrandsOK' /\ RunsOK'
<1>1. /\ edits \in Nat /\ edits' = edits + 1 /\ edits' \in 0 .. MaxEdits
      /\ run' = run
  <2>1. edits' = edits + 1 /\ edits < MaxEdits /\ run' = run
    BY DEF EditBrand, DeactivatePrompt, UpdateLlmProvider, Edited
  <2> QED
    BY <2>1, TablesAssumption DEF BrandsOK
<1>2. ASSUME \A row : RowOK(row) => RowOK(row)' PROVE RunsOK'
  <2> SUFFICES ASSUME NEW r \in Run PROVE RowOK(run[r])'
    BY <1>1 DEF RunsOK
  <2>1. PICK row : row = run[r]
    OBVIOUS
  <2>2. RowOK(row)'
    BY <1>2, <2>1 DEF RunsOK
  <2> QED
    BY <1>1, <2>1, <2>2
<1>3. ASSUME NEW b \in Brands, NEW info \in Infos[b], EditBrand(b, info)
      PROVE  BrandsOK' /\ RunsOK'
  <2>1. RunsOK'
    BY <1>2, <1>3, EditKeepsRows
  <2>2. /\ brands' = [brands EXCEPT ![b] = info] /\ b # None
        /\ changedAt' = [changedAt EXCEPT ![b] = edits + 1]
        /\ UNCHANGED <<activePrompts, activeProviders>>
    BY <1>3, TablesAssumption DEF EditBrand, Edited
  <2>3. changedAt' \in [Brands -> 0 .. edits']
    BY <1>1, <2>2 DEF BrandsOK
  <2>4. /\ brands' = [c \in Brands |-> brands'[c]]
        /\ \A c \in Brands : brands'[c] \in Infos[c] \cup {None}
    BY <2>2 DEF BrandsOK
  <2> QED
    BY <1>1, <2>1, <2>2, <2>3, <2>4 DEF BrandsOK
<1>4. ASSUME \/ \E p \in Prompts : DeactivatePrompt(p)
             \/ \E v \in Providers : UpdateLlmProvider(v)
      PROVE  BrandsOK' /\ RunsOK'
  <2>1. /\ UNCHANGED <<brands, changedAt>>
        /\ activePrompts' \subseteq activePrompts
        /\ activeProviders' \subseteq activeProviders \cup Providers
    BY <1>4 DEF DeactivatePrompt, UpdateLlmProvider, Edited
  <2>2. RunsOK'
    BY <1>1, <1>2, <2>1, OthersKeepRows
  <2>3. changedAt \in [Brands -> 0 .. edits']
    BY <1>1 DEF BrandsOK
  <2> QED
    BY <1>1, <2>1, <2>2, <2>3 DEF BrandsOK
<1> QED
  BY <1>3, <1>4

LEMMA WorkIsOK ==
    ASSUME BrandsOK, RunsOK,
           \/ TriggerBatch
           \/ \E w \in Weeks : ResumeBatch(w)
           \/ \E order \in LoadOrders : Poll(order)
           \/ \E r \in Run : ExecutionFails(r) \/ \E a \in Answers[r.prompt] : Execute(r, a)
    PROVE  BrandsOK' /\ RunsOK'
<1>1. \A r \in Run : RowOK(run[r])
  BY DEF RunsOK
<1>2. CASE TriggerBatch
  <2> DEFINE new == [r \in Run |-> [NoRow EXCEPT !.status = "pending"]]
             S == {r \in Run : /\ r.week = ThisWeek /\ run[r].status = "absent"
                               /\ r.prompt \in activePrompts
                               /\ r.provider \in activeProviders}
  <2>1. /\ run' = [r \in Run |-> IF r \in S THEN new[r] ELSE run[r]]
        /\ UNCHANGED <<brands, edits, changedAt, activePrompts, activeProviders>>
    BY <1>2 DEF TriggerBatch, SetRuns
  <2>2. \A r \in Run : RowOK(new[r])
    BY DEF RowOK, NoRow, IsRow, Fields, BrandsOK
  <2> HIDE DEF new
  <2> QED
    BY <2>1, <2>2, RunsStayOK
<1>3. ASSUME NEW w \in Weeks, ResumeBatch(w) PROVE BrandsOK' /\ RunsOK'
  <2> DEFINE new == [r \in Run |-> [run[r] EXCEPT !.status = "pending"]]
             S == {r \in RunsOf(w) : run[r].status = "failed"}
  <2>1. /\ run' = [r \in Run |-> IF r \in S THEN new[r] ELSE run[r]]
        /\ UNCHANGED <<brands, edits, changedAt, activePrompts, activeProviders>>
    BY <1>3 DEF ResumeBatch, SetRuns, RunsOf
  <2>2. \A r \in S : RowOK(new[r]) /\ r \in Run
    BY <1>1 DEF RowOK, IsRow, Fields, RunsOf
  <2> HIDE DEF new, S
  <2> QED
    BY <2>1, <2>2, RunsStayOK
<1>4. ASSUME NEW order \in LoadOrders, Poll(order) PROVE BrandsOK' /\ RunsOK'
  <2> DEFINE new == [r \in Run |-> [run[r] EXCEPT !.status = "running", !.asOf = edits,
                                                  !.list = LoadBrandInfos(order)]]
             S == {r \in Run : run[r].status = "pending"}
  <2>1. /\ run' = [r \in Run |-> IF r \in S THEN new[r] ELSE run[r]]
        /\ UNCHANGED <<brands, edits, changedAt, activePrompts, activeProviders>>
    BY <1>4 DEF Poll, SetRuns
  <2>2. ListIsAsOf(LoadBrandInfos(order), edits)
    BY LoadedListIsAsOfNow
  <2>3. ASSUME NEW r \in S PROVE RowOK(new[r])
    <3> DEFINE list == LoadBrandInfos(order)
               row == [run[r] EXCEPT !.status = "running", !.asOf = edits, !.list = list]
    <3> HIDE DEF list
    <3>1. /\ IsRow(run[r]) /\ run[r].status = "pending"
          /\ run[r].mentions = <<>> /\ run[r].citations = <<>>
      BY <1>1 DEF RowOK
    <3>2. /\ IsRow(row) /\ row.status = "running" /\ row.asOf = edits /\ row.list = list
          /\ row.mentions = <<>> /\ row.citations = <<>>
      BY <3>1 DEF IsRow, Fields
    <3>3. new[r] = row
      BY DEF list
    <3> HIDE DEF row, new
    <3>4. edits \in 0 .. edits
      BY DEF BrandsOK
    <3> QED
      BY <2>2, <3>2, <3>3, <3>4 DEF RowOK, list
  <2> HIDE DEF new
  <2> QED
    BY <2>1, <2>3, RunsStayOK
<1>5. ASSUME NEW x \in Run, ExecutionFails(x) PROVE BrandsOK' /\ RunsOK'
  <2> DEFINE new == [r \in Run |-> [run[r] EXCEPT !.status = "failed", !.list = None]]
             S == {x}
  <2>1. /\ run' = [r \in Run |-> IF r \in S THEN new[r] ELSE run[r]]
        /\ UNCHANGED <<brands, edits, changedAt, activePrompts, activeProviders>>
        /\ run[x].status = "running"
    BY <1>5 DEF ExecutionFails, SetRuns
  <2>2. RowOK(new[x])
    <3> DEFINE row == [run[x] EXCEPT !.status = "failed", !.list = None]
    <3>1. /\ IsRow(run[x]) /\ run[x].asOf \in 0 .. edits
          /\ run[x].mentions = <<>> /\ run[x].citations = <<>>
      BY <1>1, <2>1 DEF RowOK
    <3>2. /\ IsRow(row) /\ row.status = "failed" /\ row.asOf = run[x].asOf
          /\ row.list = None /\ row.mentions = <<>> /\ row.citations = <<>>
      BY <3>1 DEF IsRow, Fields
    <3>3. new[x] = row
      OBVIOUS
    <3> HIDE DEF row, new
    <3> QED
      BY <3>1, <3>2, <3>3 DEF RowOK
  <2>3. S \in SUBSET Run /\ \A r \in S : RowOK(new[r])
    BY <2>2
  <2> HIDE DEF new, S
  <2> QED
    BY <2>1, <2>3, RunsStayOK
<1>6. ASSUME NEW x \in Run, NEW a \in Answers[x.prompt], Execute(x, a)
      PROVE  BrandsOK' /\ RunsOK'
  <2> DEFINE new == [r \in Run |-> Executed(run[r], a)]
             S == {x}
  <2>1. /\ run' = [r \in Run |-> IF r \in S THEN new[r] ELSE run[r]]
        /\ UNCHANGED <<brands, edits, changedAt, activePrompts, activeProviders>>
        /\ run[x].status = "running"
    BY <1>6 DEF Execute, SetRuns
  <2>2. x.prompt \in Prompts
    BY TablesAssumption DEF Run
  <2>3. IsAnswer(a)
    BY <2>2, AnswersAreAnswers
  <2>4. RowOK(Executed(run[x], a))
    BY <1>1, <2>1, <2>3, ExecutedIsOK DEF RowOK
  <2>5. S \in SUBSET Run /\ \A r \in S : RowOK(new[r])
    BY <2>4
  <2> HIDE DEF new, S
  <2> QED
    BY <2>1, <2>5, RunsStayOK
<1> QED
  BY <1>2, <1>3, <1>4, <1>5, <1>6

LEMMA AnswersStayParsed == Spec => [](BrandsOK /\ RunsOK)
<1>1. BrandsOK /\ RunsOK /\ [Next]_vars => (BrandsOK /\ RunsOK)'
  <2> SUFFICES ASSUME BrandsOK, RunsOK, [Next]_vars PROVE BrandsOK' /\ RunsOK'
    OBVIOUS
  <2>1. CASE UNCHANGED <<brands, edits, changedAt, activePrompts, activeProviders, run>>
    <3>1. BrandsOK'
      BY <2>1 DEF BrandsOK
    <3>2. \A row : RowOK(row) => RowOK(row)'
      BY <2>1, OthersKeepRows DEF BrandsOK
    <3>3. \A r \in Run : RowOK(run[r])'
      BY <2>1, <3>2 DEF RunsOK
    <3> QED
      BY <2>1, <3>1, <3>3 DEF RunsOK
  <2>2. CASE \E w \in Weeks : AggregateWeek(w)
    BY <2>1, <2>2 DEF AggregateWeek
  <2>3. CASE UNCHANGED vars
    BY <2>1, <2>3 DEF vars
  <2> QED
    BY <2>2, <2>3, EditsAreOK, WorkIsOK DEF Next
<1> QED
  BY <1>1, InitIsOK, PTL DEF Spec

(* The mentions of a run are a ranking of brands that have a row.           *)
RanksBrands(ms) ==
    /\ \E c \in 0 .. Cardinality(Brands) : ms = [i \in 1 .. c |-> ms[i]]
    /\ \A i \in DOMAIN ms : /\ ms[i] \in Mention
                            /\ ms[i].order = i
                            /\ ms[i].brand \in Known
    /\ \A i, j \in DOMAIN ms : ms[i].brand = ms[j].brand => i = j

LEMMA RankingsRankBrands ==
    ASSUME NEW ms, NEW list, NEW stamp, IsRanking(ms, list), ListIsAsOf(list, stamp)
    PROVE  RanksBrands(ms)
<1>1. PICK c \in Nat : ms = [i \in 1 .. c |-> ms[i]]
  BY DEF IsRanking
<1>2. DOMAIN ms = 1 .. c
  BY <1>1
<1>3. ASSUME NEW i \in 1 .. c PROVE ms[i].brand \in Known /\ ms[i].brand \in Brands
  <2>1. PICK k \in DOMAIN list : list[k].brand = ms[i].brand
    BY <1>2 DEF IsRanking
  <2> QED
    BY <2>1 DEF ListIsAsOf, Known
<1>4. c <= Cardinality(Brands) /\ Cardinality(Brands) \in Nat
  <2> DEFINE f == [i \in 1 .. c |-> ms[i].brand]
  <2>1. f \in Injection(1 .. c, Brands)
    BY <1>2, <1>3 DEF IsRanking, Injection, IsInjective
  <2>2. Cardinality(1 .. c) <= Cardinality(Brands)
    BY <2>1, TablesAssumption, FS_Injection
  <2>3. Cardinality(1 .. c) = c
    <3>1. 1 \in Int /\ c \in Int /\ c - 1 + 1 = c
      OBVIOUS
    <3> QED
      BY <3>1, FS_Interval
  <2> QED
    BY <2>2, <2>3, TablesAssumption, FS_CardinalityType
<1>5. ASSUME NEW i \in 1 .. c PROVE ms[i] \in Mention /\ ms[i].order = i
  <2>1. /\ ms[i] = [brand |-> ms[i].brand, order |-> i, sentiment |-> ms[i].sentiment]
        /\ ms[i].sentiment \in Tones
    BY <1>2 DEF IsRanking
  <2>2. i \in 1 .. Cardinality(Brands) /\ ms[i].brand \in Brands
    BY <1>3, <1>4
  <2> QED
    BY <2>1, <2>2 DEF Mention
<1>6. \A i, j \in DOMAIN ms : ms[i].brand = ms[j].brand => i = j
  BY DEF IsRanking
<1> QED
  BY <1>1, <1>2, <1>3, <1>4, <1>5, <1>6 DEF RanksBrands

LEMMA RowsRankBrands ==
    ASSUME RunsOK, NEW r \in Run
    PROVE  RanksBrands(run[r].mentions)
<1>1. RowOK(run[r])
  BY DEF RunsOK
<1>2. CASE run[r].status = "success"
  <2>1. PICK list : /\ IsText(run[r].raw.text) /\ ListIsAsOf(list, run[r].asOf)
                    /\ run[r].mentions = ParseResponse(run[r].raw, list).mentions
    BY <1>1, <1>2 DEF RowOK, IsParsed, IsAnswer
  <2>2. IsRanking(run[r].mentions, list)
    <3>1. IsRanking(ParseResponse(run[r].raw, list).mentions, list)
      BY <2>1, MentionsAreARanking DEF ListIsAsOf
    <3> QED
      BY <2>1, <3>1
  <2> QED
    BY <2>1, <2>2, RankingsRankBrands
<1>3. CASE run[r].status # "success"
  <2>1. run[r].mentions = <<>>
    BY <1>1, <1>3 DEF RowOK
  <2>2. <<>> = [i \in 1 .. 0 |-> <<>>[i]] /\ DOMAIN <<>> = {}
    OBVIOUS
  <2>3. 0 \in 0 .. Cardinality(Brands)
    BY TablesAssumption, FS_CardinalityType
  <2> QED
    BY <2>1, <2>2, <2>3 DEF RanksBrands
<1> QED
  BY <1>2, <1>3

(* The types of the tables, for any number of brands, answers and edits:    *)
(* orders of mention are bounded by the number of brands, and a list is     *)
(* held exactly while a run is executed (batch_runner.py,                  *)
(* parsing/pipeline.py).                                                   *)
THEOREM MeasurementTypes == Spec => []MeasurementTypeOK
<1>1. BrandsOK /\ RunsOK => MeasurementTypeOK
  <2> SUFFICES ASSUME BrandsOK, RunsOK PROVE MeasurementTypeOK
    OBVIOUS
  <2>1. ASSUME NEW r \in Run
        PROVE  /\ run[r].status \in {"absent", "pending", "running", "success", "failed"}
               /\ run[r].asOf \in 0 .. edits
               /\ IF run[r].status = "running"
                  THEN \A i \in DOMAIN run[r].list : run[r].list[i].brand \in Brands
                  ELSE run[r].list = None
               /\ run[r].status # "success" =>
                     run[r].mentions = <<>> /\ run[r].citations = <<>>
    <3>1. RowOK(run[r])
      BY DEF RunsOK
    <3> QED
      BY <3>1 DEF RowOK, ListIsAsOf, Known
  <2>2. ASSUME NEW r \in Run PROVE run[r].mentions \in Seq(Mention)
    <3> DEFINE ms == run[r].mentions
    <3>1. RanksBrands(ms)
      BY RowsRankBrands
    <3> HIDE DEF ms
    <3>2. PICK c \in 0 .. Cardinality(Brands) : ms = [i \in 1 .. c |-> ms[i]]
      BY <3>1 DEF RanksBrands
    <3>3. c \in Nat /\ ms \in [1 .. c -> Mention]
      BY <3>1, <3>2 DEF RanksBrands
    <3>4. ms \in Seq(Mention)
      BY <3>3, SeqDef
    <3> QED
      BY <3>4 DEF ms
  <2> QED
    BY <2>1, <2>2 DEF MeasurementTypeOK, BrandsOK
<1> QED
  BY <1>1, AnswersStayParsed, PTL

LEMMA ParsedWith ==
    ASSUME RunsOK, NEW r \in Run, run[r].status = "success"
    PROVE  \E list : /\ ListIsAsOf(list, run[r].asOf)
                     /\ NamesWhoIsFound(run[r].mentions, run[r].raw.text, list)
                     /\ RanksByPlace(run[r].mentions, run[r].raw.text, list)
<1>1. RowOK(run[r])
  BY DEF RunsOK
<1>2. PICK list : /\ IsText(run[r].raw.text) /\ ListIsAsOf(list, run[r].asOf)
                  /\ run[r].mentions = ParseResponse(run[r].raw, list).mentions
  BY <1>1 DEF RowOK, IsParsed, IsAnswer
<1>3. LET ms == ParseResponse(run[r].raw, list).mentions
      IN  /\ NamesWhoIsFound(ms, run[r].raw.text, list)
          /\ RanksByPlace(ms, run[r].raw.text, list)
  BY <1>2, MentionsAreARanking DEF ListIsAsOf
<1> QED
  BY <1>2, <1>3

(* Who is found first in an answer is ranked first, whatever the text, the  *)
(* terms of the brands and the edits since (brand_matching.py, pipeline.py).*)
THEOREM OrdersAreRankings == Spec => []OrderIsARanking
<1>1. BrandsOK /\ RunsOK => OrderIsARanking
  <2> SUFFICES ASSUME BrandsOK, RunsOK, NEW r \in Run, NEW i \in DOMAIN run[r].mentions,
                      NEW j \in DOMAIN run[r].mentions
               PROVE  LET ms == run[r].mentions IN
                      /\ ms[i].order = i
                      /\ ms[i].brand = ms[j].brand => i = j
                      /\ (/\ i < j
                          /\ changedAt[ms[i].brand] <= run[r].asOf
                          /\ changedAt[ms[j].brand] <= run[r].asOf)
                         => \A s \in Found(r, ms[j].brand) :
                               \E t \in Found(r, ms[i].brand) : t[1] <= s[1]
    BY DEF OrderIsARanking
  <2> DEFINE ms == run[r].mentions
             text == run[r].raw.text
  <2>1. RanksBrands(ms)
    BY RowsRankBrands
  <2> HIDE DEF ms
  <2>2. ms[i].order = i /\ (ms[i].brand = ms[j].brand => i = j)
    BY <2>1 DEF RanksBrands, ms
  <2>3. ASSUME i < j, changedAt[ms[i].brand] <= run[r].asOf,
               changedAt[ms[j].brand] <= run[r].asOf
        PROVE  NoLater(Found(r, ms[i].brand), Found(r, ms[j].brand))
    <3>1. run[r].status = "success"
      <4>1. ms # <<>>
        BY DEF ms
      <4> QED
        BY <4>1 DEF RunsOK, RowOK, ms
    <3>2. PICK list : ListIsAsOf(list, run[r].asOf) /\ RanksByPlace(ms, text, list)
      BY <3>1, ParsedWith DEF ms
    <3>3. /\ ms[i].brand \in Known /\ ms[j].brand \in Known
          /\ i \in DOMAIN ms /\ j \in DOMAIN ms
      BY <2>1 DEF RanksBrands, ms
    <3>4. PICK k \in DOMAIN list : list[k].brand = ms[i].brand
      BY <2>3, <3>2, <3>3 DEF ListIsAsOf, Known
    <3>5. PICK l \in DOMAIN list : list[l].brand = ms[j].brand
      BY <2>3, <3>2, <3>3 DEF ListIsAsOf, Known
    <3>6. list[k].terms = brands[ms[i].brand].terms /\ list[l].terms = brands[ms[j].brand].terms
      BY <2>3, <3>2, <3>3, <3>4, <3>5 DEF ListIsAsOf, Known
    <3>7. NoLater(Places(text, list[k].terms), Places(text, list[l].terms))
      BY <2>3, <3>2, <3>3, <3>4, <3>5 DEF RanksByPlace
    <3> QED
      BY <3>6, <3>7 DEF Found, Places
  <2> QED
    BY <2>2, <2>3 DEF NoLater, ms
<1> QED
  BY <1>1, AnswersStayParsed, PTL

IsHighlighted(b, text, list) == \E h \in AliasMatches(text, list) : h.brand = b

HasPlace(b, text, list) ==
    \E k \in DOMAIN list : list[k].brand = b /\ Places(text, list[k].terms) # {}

LEMMA Highlighted ==
    ASSUME NEW text, NEW list, NEW b
    PROVE  IsHighlighted(b, text, list) <=> HasPlace(b, text, list)
<1> USE DEF IsHighlighted, HasPlace
<1>1. ASSUME NEW h \in AliasMatches(text, list), h.brand = b
      PROVE  \E k \in DOMAIN list : list[k].brand = b /\ Places(text, list[k].terms) # {}
  <2>1. PICK k \in DOMAIN list : \E span \in Places(text, list[k].terms) :
           h = [rank |-> k, brand |-> list[k].brand, start |-> span[1], end |-> span[2]]
    BY DEF AliasMatches, Places
  <2> QED
    BY <1>1, <2>1
<1>2. ASSUME NEW k \in DOMAIN list, list[k].brand = b, Places(text, list[k].terms) # {}
      PROVE  \E h \in AliasMatches(text, list) : h.brand = b
  BY <1>2, EveryPlaceIsMatched
<1> QED
  BY <1>1, <1>2

(* The detail view and the stored mentions differ only about brands that    *)
(* were edited since (report_service.py, brand_matching.py).               *)
THEOREM OnlyEditsAreMissed == Spec => []MissedOnlyIfEditedSince
<1>1. BrandsOK /\ RunsOK => MissedOnlyIfEditedSince
  <2> SUFFICES ASSUME BrandsOK, RunsOK, NEW p \in Prompts, NEW w \in Weeks,
                      NEW shown \in PromptDetail(p, w), shown.status = "success",
                      NEW b \in Brands, changedAt[b] <= run[shown.run].asOf
               PROVE  (\E h \in shown.highlights : h.brand = b)
                      <=> \E i \in DOMAIN shown.mentions : shown.mentions[i].brand = b
    BY DEF MissedOnlyIfEditedSince
  <2> DEFINE order == CHOOSE order \in LoadOrders : TRUE
             now == LoadBrandInfos(order)
             highlights(r) == IF run[r].raw = None THEN {}
                              ELSE AliasMatches(run[r].raw.text, now)
  <2>1. PICK r \in RunsOf(w) :
           shown = [run |-> r, status |-> run[r].status, highlights |-> highlights(r),
                    mentions |-> run[r].mentions, citations |-> run[r].citations]
    BY DEF PromptDetail
  <2>2. order \in LoadOrders
    BY OrdersAssumption
  <2> HIDE DEF order
  <2>3. ListIsAsOf(now, edits)
    BY <2>2, LoadedListIsAsOfNow
  <2> HIDE DEF now
  <2>4. /\ r \in Run /\ run[r].status = "success" /\ shown.mentions = run[r].mentions
        /\ shown.highlights = highlights(r) /\ shown.run = r
    BY <2>1 DEF RunsOf
  <2>5. RowOK(run[r])
    BY <2>4 DEF RunsOK
  <2>6. shown.highlights = AliasMatches(run[r].raw.text, now)
    BY <2>4, <2>5 DEF RowOK, IsParsed, IsAnswer
  <2>7. PICK list : /\ ListIsAsOf(list, run[r].asOf)
                    /\ NamesWhoIsFound(run[r].mentions, run[r].raw.text, list)
    BY <2>4, ParsedWith
  <2>8. changedAt[b] <= run[r].asOf /\ changedAt[b] <= edits
    BY <2>4 DEF BrandsOK
  <2> DEFINE places == Places(run[r].raw.text, brands[b].terms)
  <2>9. (\E h \in shown.highlights : h.brand = b) <=> b \in Known /\ places # {}
    <3>1. (\E h \in shown.highlights : h.brand = b)
             <=> \E k \in DOMAIN now : /\ now[k].brand = b
                                       /\ Places(run[r].raw.text, now[k].terms) # {}
      <4>1. IsHighlighted(b, run[r].raw.text, now) <=> HasPlace(b, run[r].raw.text, now)
        BY Highlighted
      <4> QED
        BY <2>6, <4>1 DEF IsHighlighted, HasPlace
    <3>2. /\ \A k \in DOMAIN now : now[k].brand \in Known
          /\ \A k \in DOMAIN now : now[k].brand = b => now[k].terms = brands[b].terms
          /\ b \in Known => \E k \in DOMAIN now : now[k].brand = b
      BY <2>3, <2>8 DEF ListIsAsOf
    <3> QED
      BY <3>1, <3>2
  <2>10. Mentioned(run[r].mentions, b) <=> b \in Known /\ places # {}
    <3>1. RanksBrands(run[r].mentions)
      BY <2>4, RowsRankBrands
    <3>2. Mentioned(run[r].mentions, b) => b \in Known
      BY <3>1 DEF RanksBrands, Mentioned
    <3>3. b \in Known => \E k \in DOMAIN list : /\ list[k].brand = b
                                                /\ list[k].terms = brands[b].terms
      BY <2>7, <2>8 DEF ListIsAsOf
    <3> QED
      BY <2>7, <3>2, <3>3 DEF NamesWhoIsFound
  <2> QED
    BY <2>4, <2>9, <2>10 DEF Mentioned
<1> QED
  BY <1>1, AnswersStayParsed, PTL

-----------------------------------------------------------------------------
(***************************************************************************)
(* What is counted: the mentions of some runs.                             *)
(***************************************************************************)
IsMention(m, R) ==
    /\ m.run \in R
    /\ m.brand \in Known
    /\ m.order \in 1 .. Cardinality(Brands)
    /\ m.sentiment \in Tones

LEMMA MentionsAreFinite ==
    ASSUME RunsOK, NEW R \in SUBSET Run
    PROVE  IsFiniteSet(Mentions(R))
<1> DEFINE of(r) == {[run |-> r, brand |-> m.brand, order |-> m.order,
                      sentiment |-> m.sentiment] : m \in Range(run[r].mentions)}
           sets == {of(r) : r \in R}
<1>1. Mentions(R) = UNION sets
  BY DEF Mentions
<1>2. ASSUME NEW r \in R PROVE IsFiniteSet(of(r))
  <2> DEFINE ms == run[r].mentions
             f == [i \in DOMAIN ms |-> [run |-> r, brand |-> ms[i].brand,
                                        order |-> ms[i].order, sentiment |-> ms[i].sentiment]]
  <2>1. RanksBrands(ms)
    BY RowsRankBrands
  <2> HIDE DEF ms
  <2>2. PICK c \in 0 .. Cardinality(Brands) : DOMAIN ms = 1 .. c
    BY <2>1 DEF RanksBrands
  <2>3. Cardinality(Brands) \in Nat
    BY TablesAssumption, FS_CardinalityType
  <2>4. IsFiniteSet(DOMAIN ms)
    BY <2>2, <2>3, FS_Interval
  <2>5. of(r) = {f[i] : i \in DOMAIN ms}
    BY DEF Range, ms
  <2> HIDE DEF f, of
  <2> QED
    BY <2>4, <2>5, ImageIsFinite
<1>3. IsFiniteSet(sets)
  <2> DEFINE g == [r \in R |-> of(r)]
  <2>1. IsFiniteSet(R)
    BY TablesAssumption, FS_Subset
  <2>2. sets = {g[r] : r \in R}
    OBVIOUS
  <2> HIDE DEF g, sets
  <2> QED
    BY <2>1, <2>2, ImageIsFinite
<1>4. \A T \in sets : IsFiniteSet(T)
  BY <1>2
<1> HIDE DEF sets
<1> QED
  BY <1>1, <1>3, <1>4, FS_UNION

LEMMA MentionsAreRows ==
    ASSUME NEW R, NEW m
    PROVE  m \in Mentions(R) <=>
              \E r \in R : \E i \in DOMAIN run[r].mentions :
                 m = [run |-> r, brand |-> run[r].mentions[i].brand,
                      order |-> run[r].mentions[i].order,
                      sentiment |-> run[r].mentions[i].sentiment]
  BY DEF Mentions, Range

LEMMA MentionsAreMentions ==
    ASSUME RunsOK, NEW R \in SUBSET Run, NEW m \in Mentions(R)
    PROVE  IsMention(m, R)
<1>1. PICK r \in R : \E i \in DOMAIN run[r].mentions :
         m = [run |-> r, brand |-> run[r].mentions[i].brand,
              order |-> run[r].mentions[i].order,
              sentiment |-> run[r].mentions[i].sentiment]
  BY MentionsAreRows
<1>2. PICK i \in DOMAIN run[r].mentions :
         m = [run |-> r, brand |-> run[r].mentions[i].brand,
              order |-> run[r].mentions[i].order,
              sentiment |-> run[r].mentions[i].sentiment]
  BY <1>1
<1>3. RanksBrands(run[r].mentions)
  BY RowsRankBrands
<1>4. run[r].mentions[i] \in Mention /\ run[r].mentions[i].brand \in Known
  BY <1>3 DEF RanksBrands
<1> QED
  BY <1>2, <1>4 DEF IsMention, Mention

(* A brand is mentioned once in an answer. *)
LEMMA OneMentionPerBrand ==
    ASSUME RunsOK, NEW R \in SUBSET Run, NEW l \in Mentions(R), NEW m \in Mentions(R),
           l.run = m.run, l.brand = m.brand
    PROVE  l = m
<1>1. PICK r \in R : \E i \in DOMAIN run[r].mentions :
         m = [run |-> r, brand |-> run[r].mentions[i].brand,
              order |-> run[r].mentions[i].order,
              sentiment |-> run[r].mentions[i].sentiment]
  BY MentionsAreRows
<1>2. PICK s \in R : \E i \in DOMAIN run[s].mentions :
         l = [run |-> s, brand |-> run[s].mentions[i].brand,
              order |-> run[s].mentions[i].order,
              sentiment |-> run[s].mentions[i].sentiment]
  BY MentionsAreRows
<1>3. r = s
  BY <1>1, <1>2
<1>4. \A i, j \in DOMAIN run[r].mentions :
         run[r].mentions[i].brand = run[r].mentions[j].brand => i = j
  BY RowsRankBrands DEF RanksBrands
<1> QED
  BY <1>1, <1>2, <1>3, <1>4

LEMMA MentionsOfPart ==
    ASSUME NEW Q, NEW R \in SUBSET Q
    PROVE  Mentions(R) = {m \in Mentions(Q) : m.run \in R}
<1>1. \A m \in Mentions(R) : m \in Mentions(Q) /\ m.run \in R
  BY DEF Mentions
<1>2. \A m \in Mentions(Q) : m.run \in R => m \in Mentions(R)
  BY DEF Mentions
<1> QED
  BY <1>1, <1>2

LEMMA Rounding ==
    ASSUME NEW num \in Nat, NEW den \in Nat \ {0}
    PROVE  LET r == M!RoundHalfUp(num, den)
           IN  /\ r \in Nat
               /\ 2 * (den * r) <= 2 * num + den
               /\ 2 * num < 2 * (den * r) + den
<1> DEFINE a == 2 * num + den
           d == 2 * den
           r == a \div d
<1>1. a \in Nat /\ a \in Int /\ d \in Nat \ {0}
  OBVIOUS
<1> HIDE DEF a, d
<1>2. r \in Nat /\ d * r <= a /\ a < d * r + d
  BY <1>1, Division
<1> HIDE DEF r
<1>3. d * r = 2 * (den * r)
  BY <1>2 DEF d
<1>4. den * r \in Int
  BY <1>2
<1>5. 2 * (den * r) <= 2 * num + den /\ 2 * num + den < 2 * (den * r) + 2 * den
  BY <1>2, <1>3 DEF a, d
<1>6. 2 * num < 2 * (den * r) + den
  BY <1>4, <1>5
<1> QED
  BY <1>2, <1>5, <1>6 DEF M!RoundHalfUp, a, d, r

LEMMA RunsCiteFinitely ==
    ASSUME RunsOK, NEW r \in Run
    PROVE  IsFiniteSet(DOMAIN run[r].citations)
<1>1. RowOK(run[r])
  BY DEF RunsOK
<1>2. CASE run[r].status = "success"
  <2>1. PICK list : /\ IsText(run[r].raw.text) /\ IsFiniteSet(DOMAIN run[r].raw.citations)
                    /\ run[r].citations = ParseResponse(run[r].raw, list).citations
    BY <1>1, <1>2 DEF RowOK, IsParsed, IsAnswer
  <2> QED
    BY <2>1, CitationsAreFinite
<1>3. CASE run[r].status # "success"
  <2>1. run[r].citations = <<>>
    BY <1>1, <1>3 DEF RowOK
  <2> QED
    BY <2>1, FS_EmptySet
<1> QED
  BY <1>2, <1>3

LEMMA CitationRowsAreFinite ==
    ASSUME RunsOK, NEW R \in SUBSET Run
    PROVE  IsFiniteSet(Citations(R))
<1> DEFINE row(r, i) == [run |-> r, place |-> i, brand |-> run[r].citations[i].brand]
           of(r) == {row(r, i) : i \in DOMAIN run[r].citations}
           sets == {of(r) : r \in R}
<1>1. Citations(R) = UNION sets
  BY DEF Citations
<1>2. ASSUME NEW r \in R PROVE IsFiniteSet(of(r))
  <2> DEFINE places == DOMAIN run[r].citations
             f == [i \in places |-> row(r, i)]
  <2>1. IsFiniteSet(places)
    BY RunsCiteFinitely
  <2>2. of(r) = {f[i] : i \in places}
    OBVIOUS
  <2> HIDE DEF f, of, places
  <2> QED
    BY <2>1, <2>2, ImageIsFinite
<1>3. IsFiniteSet(sets)
  <2> DEFINE g == [r \in R |-> of(r)]
  <2>1. IsFiniteSet(R)
    BY TablesAssumption, FS_Subset
  <2>2. sets = {g[r] : r \in R}
    OBVIOUS
  <2> HIDE DEF g, sets
  <2> QED
    BY <2>1, <2>2, ImageIsFinite
<1>4. \A T \in sets : IsFiniteSet(T)
  BY <1>2
<1> HIDE DEF sets
<1> QED
  BY <1>1, <1>3, <1>4, FS_UNION

(* How much a brand has of the mentions of some runs, as it is shown.       *)
Sov(b, R) == M!CalculateSnapshotMetrics(Counts(b, R)).sov

Size(R) == Cardinality(Mentions(R))

SizeOf(b, R) == Cardinality(MentionsOf(b, R))

LEMMA SizesAreNumbers ==
    ASSUME RunsOK, NEW R \in SUBSET Run
    PROVE  /\ Size(R) \in Nat
           /\ \A b : /\ IsFiniteSet(MentionsOf(b, R)) /\ SizeOf(b, R) \in Nat
                     /\ SizeOf(b, R) <= Size(R)
<1>1. IsFiniteSet(Mentions(R))
  BY MentionsAreFinite
<1>2. \A b : MentionsOf(b, R) \subseteq Mentions(R)
  BY DEF MentionsOf
<1>3. \A b : IsFiniteSet(MentionsOf(b, R)) /\ SizeOf(b, R) <= Size(R)
  BY <1>1, <1>2, FS_Subset DEF Size, SizeOf
<1> QED
  BY <1>1, <1>3, FS_CardinalityType DEF Size, SizeOf

LEMMA SizesAddUp ==
    ASSUME RunsOK, NEW R \in SUBSET Run, NEW size,
           \A b \in Known : size[b] = SizeOf(b, R)
    PROVE  SumFunctionOnSet(size, Known) = Size(R)
<1> DEFINE part == [b \in Known |-> MentionsOf(b, R)]
<1>1. IsFiniteSet(Known)
  BY TablesAssumption, FS_Subset DEF Known
<1>2. \A b \in Known : IsFiniteSet(part[b]) /\ size[b] = Cardinality(part[b])
  BY SizesAreNumbers DEF SizeOf
<1>3. \A b, c \in Known : b # c => part[b] \cap part[c] = {}
  BY DEF MentionsOf
<1>4. UNION {part[b] : b \in Known} = Mentions(R)
  BY MentionsAreMentions DEF MentionsOf, IsMention
<1> HIDE DEF part
<1> QED
  BY <1>1, <1>2, <1>3, <1>4, SumOfCardinalities DEF Size

(* The share is the rounded one, or 0 of nothing. *)
LEMMA SovIsRounded ==
    ASSUME RunsOK, NEW R \in SUBSET Run, NEW b
    PROVE  /\ Sov(b, R) \in Nat
           /\ Size(R) = 0 => Sov(b, R) = 0
           /\ Size(R) # 0 =>
                 /\ 2 * (Size(R) * Sov(b, R)) <= 200000 * SizeOf(b, R) + Size(R)
                 /\ 200000 * SizeOf(b, R) < 2 * (Size(R) * Sov(b, R)) + Size(R)
<1> DEFINE n == SizeOf(b, R)
           t == Size(R)
<1>1. n \in Nat /\ t \in Nat
  BY SizesAreNumbers
<1>2. Sov(b, R) = IF t > 0 THEN M!RoundHalfUp(n * 100000, t) ELSE 0
  <2>1. Sov(b, R) = IF t > 0 THEN M!PctOrNone(n, t) ELSE 0
    <3> DEFINE counts == Counts(b, R)
    <3>1. counts.mentions = n /\ counts.total = t
      BY DEF Counts, Size, SizeOf
    <3> HIDE DEF counts, n, t
    <3> QED
      BY <3>1 DEF Sov, M!CalculateSnapshotMetrics, counts
  <2> HIDE DEF t, n
  <2> QED
    BY <1>1, <2>1 DEF M!PctOrNone
<1> HIDE DEF n, t
<1>3. n * 100000 \in Nat /\ 2 * (n * 100000) = 200000 * n
  BY <1>1
<1>4. CASE t = 0
  BY <1>1, <1>2, <1>4 DEF t
<1>5. CASE t # 0
  <2>1. t \in Nat \ {0} /\ t > 0
    BY <1>1, <1>5
  <2>2. PICK k \in Nat : k = n * 100000
    BY <1>3
  <2> DEFINE r == M!RoundHalfUp(k, t)
  <2>3. r \in Nat /\ 2 * (t * r) <= 2 * k + t /\ 2 * k < 2 * (t * r) + t
    BY <2>1, Rounding
  <2>4. Sov(b, R) = r
    BY <1>2, <2>1, <2>2
  <2> HIDE DEF r
  <2>5. Sov(b, R) \in Nat /\ 2 * (t * Sov(b, R)) <= 200000 * n + t
        /\ 200000 * n < 2 * (t * Sov(b, R)) + t
    BY <1>3, <2>2, <2>3, <2>4
  <2> QED
    BY <1>5, <2>5 DEF n, t
<1> QED
  BY <1>4, <1>5

LEMMA ShareIsNumber ==
    ASSUME RunsOK, NEW R \in SUBSET Run, NEW b
    PROVE  Sov(b, R) \in Nat
<1>1. PICK share, of, whole : share = Sov(b, R) /\ of = SizeOf(b, R) /\ whole = Size(R)
  OBVIOUS
<1>2. share \in Nat
  BY <1>1, SovIsRounded
<1> QED
  BY <1>1, <1>2

LEMMA Shown ==
    ASSUME RunsOK, NEW R \in SUBSET Run, NEW b
    PROVE  /\ Sov(b, R) # 0 => SizeOf(b, R) # 0
           /\ SizeOf(b, R) # 0 /\ Size(R) <= MostShown => Sov(b, R) # 0
<1> DEFINE n == SizeOf(b, R)
           t == Size(R)
           s == Sov(b, R)
<1>1. n \in Nat /\ t \in Nat /\ n <= t /\ s \in Nat
  BY SizesAreNumbers, SovIsRounded
<1>2. t = 0 => s = 0
  BY SovIsRounded
<1>3. t # 0 => 2 * (t * s) <= 200000 * n + t /\ 200000 * n < 2 * (t * s) + t
  BY SovIsRounded
<1> HIDE DEF n, t, s
<1>4. ASSUME n = 0, s # 0 PROVE FALSE
  <2>1. t # 0 /\ 2 * (t * s) <= t
    BY <1>1, <1>2, <1>3, <1>4
  <2>2. t * s >= t
    <3>1. s >= 1
      BY <1>1, <1>4
    <3>2. t * (s - 1) \in Nat /\ t * s = t * (s - 1) + t
      BY <1>1, <3>1
    <3> QED
      BY <1>1, <3>2
  <2>3. t * s \in Nat
    BY <1>1
  <2> QED
    BY <1>1, <2>1, <2>2, <2>3
<1>5. ASSUME n # 0, t <= 200000, s = 0 PROVE FALSE
  BY <1>1, <1>3, <1>5
<1> QED
  BY <1>1, <1>4, <1>5 DEF MostShown, n, t, s

-----------------------------------------------------------------------------
(***************************************************************************)
(* What the numbers of a snapshot add up to.                               *)
(***************************************************************************)
LEMMA TonesAddUp ==
    ASSUME NEW S, IsFiniteSet(S), \A m \in S : m.sentiment \in Tones,
           NEW count, \A t \in Tones : count[t] = Cardinality({m \in S : m.sentiment = t})
    PROVE  /\ count["positive"] \in Nat /\ count["neutral"] \in Nat
           /\ count["negative"] \in Nat
           /\ count["positive"] + count["neutral"] + count["negative"] = Cardinality(S)
<1> DEFINE of(t) == {m \in S : m.sentiment = t}
           rest == of("neutral") \cup of("negative")
<1>1. \A t : IsFiniteSet(of(t)) /\ Cardinality(of(t)) \in Nat
  BY FS_Subset, FS_CardinalityType
<1>2. /\ count["positive"] = Cardinality(of("positive"))
      /\ count["neutral"] = Cardinality(of("neutral"))
      /\ count["negative"] = Cardinality(of("negative"))
  BY DEF Tones
<1>3. /\ of("neutral") \cap of("negative") = {} /\ of("positive") \cap rest = {}
      /\ S = of("positive") \cup rest
  BY DEF Tones
<1> HIDE DEF of
<1>4. Cardinality({}) = 0
  BY FS_EmptySet
<1>5. /\ IsFiniteSet(rest)
      /\ Cardinality(rest) = Cardinality(of("neutral")) + Cardinality(of("negative")) - 0
  BY <1>1, <1>3, <1>4, FS_Union
<1> HIDE DEF rest
<1>6. Cardinality(S) = Cardinality(of("positive")) + Cardinality(rest) - 0
  BY <1>1, <1>3, <1>4, <1>5, FS_Union
<1> QED
  BY <1>1, <1>2, <1>5, <1>6

LEMMA OrdersAreBounded ==
    ASSUME NEW S, IsFiniteSet(S), NEW n \in Nat, \A m \in S : m.order \in 1 .. n
    PROVE  /\ OrderSum(S) \in Nat
           /\ Cardinality(S) <= OrderSum(S) /\ OrderSum(S) <= n * Cardinality(S)
<1> DEFINE f == [m \in S |-> m.order]
           one == [m \in S |-> 1]
           all == [m \in S |-> n]
<1>1. OrderSum(S) = SumFunctionOnSet(f, S)
  BY DEF OrderSum, SumFunction
<1>2. \A m \in S : /\ one[m] = 1 /\ all[m] = n /\ f[m] \in Int
                   /\ one[m] \in Int /\ all[m] \in Int
                   /\ one[m] <= f[m] /\ f[m] <= all[m]
  OBVIOUS
<1> HIDE DEF f, one, all
<1>3. SumFunctionOnSet(one, S) = 1 * Cardinality(S)
  <2>1. 1 \in Int
    OBVIOUS
  <2> QED
    BY <1>2, <2>1, SumOfConstant
<1>4. SumFunctionOnSet(all, S) = n * Cardinality(S)
  <2>1. n \in Int
    OBVIOUS
  <2> QED
    BY <1>2, <2>1, SumOfConstant
<1>5. /\ SumFunctionOnSet(one, S) <= SumFunctionOnSet(f, S)
      /\ SumFunctionOnSet(f, S) <= SumFunctionOnSet(all, S)
      /\ SumFunctionOnSet(f, S) \in Int
  BY <1>2, SumMonotonic, SumType
<1>6. Cardinality(S) \in Nat
  BY FS_CardinalityType
<1> QED
  BY <1>1, <1>3, <1>4, <1>5, <1>6

(* A rounded quotient lies where the quotient does. *)
LEMMA RoundingIsBounded ==
    ASSUME NEW low \in Nat, NEW high \in Nat, NEW num \in Nat, NEW den \in Nat \ {0},
           low * den <= num, num <= high * den
    PROVE  M!RoundHalfUp(num, den) \in low .. high
<1> DEFINE r == M!RoundHalfUp(num, den)
<1>1. r \in Nat /\ 2 * (den * r) <= 2 * num + den /\ 2 * num < 2 * (den * r) + den
  BY Rounding
<1> HIDE DEF r
<1>2. ASSUME NEW u \in Nat, NEW v \in Nat, u > v PROVE den * u >= den * v + den
  <2>1. PICK k \in Nat : u = v + 1 + k
    <3>1. u - v - 1 \in Nat /\ u = v + 1 + (u - v - 1)
      BY <1>2
    <3> QED
      BY <3>1
  <2>2. den * (v + 1 + k) = den * v + den + den * k /\ den * k \in Nat
    OBVIOUS
  <2> QED
    BY <2>1, <2>2
<1>3. low * den = den * low /\ high * den = den * high
  OBVIOUS
<1>4. den * r \in Nat /\ den * low \in Nat /\ den * high \in Nat
  BY <1>1
<1>5. ASSUME r > high PROVE FALSE
  BY <1>1, <1>2, <1>3, <1>4, <1>5
<1>6. ASSUME r < low PROVE FALSE
  BY <1>1, <1>2, <1>3, <1>4, <1>6
<1>7. r \in low .. high
  BY <1>1, <1>5, <1>6
<1> QED
  BY <1>7 DEF r

(* x is a / n in thousandths of a percent. *)
IsShare(x, a, n) ==
    /\ x \in Nat
    /\ 2 * (n * x) <= 200000 * a + n
    /\ 200000 * a < 2 * (n * x) + n

(* Three rounded percentages of numbers that add up to the whole.           *)
LEMMA ThreeShares ==
    ASSUME NEW a \in Nat, NEW b \in Nat, NEW c \in Nat, NEW n \in Nat \ {0}, a + b + c = n,
           NEW x, NEW y, NEW z, IsShare(x, a, n), IsShare(y, b, n), IsShare(z, c, n)
    PROVE  Near(x + y + z, 3)
<1> USE DEF IsShare
<1> DEFINE k == 2 * (x + y + z) - 200000
<1>1. k \in Int
  OBVIOUS
<1>2. n * k = 2 * (n * x) + 2 * (n * y) + 2 * (n * z) - 200000 * n
  OBVIOUS
<1>3. /\ n * x \in Nat /\ n * y \in Nat /\ n * z \in Nat
      /\ 200000 * n = 200000 * a + 200000 * b + 200000 * c
  OBVIOUS
<1>4. n * k <= 3 * n /\ -(3 * n) < n * k
  BY <1>2, <1>3
<1> HIDE DEF k
<1>5. k <= 3
  <2> SUFFICES ASSUME k > 3 PROVE FALSE
    BY <1>1
  <2>1. n * (k - 4) \in Nat /\ n * k = n * (k - 4) + 4 * n
    BY <1>1
  <2> QED
    BY <1>4, <2>1
<1>6. k >= -3
  <2> SUFFICES ASSUME k < -3 PROVE FALSE
    BY <1>1
  <2>1. n * (-4 - k) \in Nat /\ n * k = -(n * (-4 - k)) - 4 * n
    <3>1. -4 - k \in Nat
      BY <1>1
    <3> QED
      BY <1>1, <3>1
  <2> QED
    BY <1>4, <2>1
<1> QED
  BY <1>1, <1>5, <1>6 DEF Near, k

LEMMA RoundedPct ==
    ASSUME NEW a \in Nat, NEW n \in Nat \ {0}
    PROVE  IsShare(M!PctOrNone(a, n), a, n)
<1>1. PICK k \in Nat : k = a * 100000
  OBVIOUS
<1> DEFINE r == M!RoundHalfUp(k, n)
<1>2. r \in Nat /\ 2 * (n * r) <= 2 * k + n /\ 2 * k < 2 * (n * r) + n
  BY Rounding
<1>3. M!PctOrNone(a, n) = r
  BY <1>1 DEF M!PctOrNone
<1> HIDE DEF r
<1>4. 2 * k = 200000 * a
  BY <1>1
<1> QED
  BY <1>2, <1>3, <1>4 DEF IsShare

LEMMA MetricsAreConsistent ==
    ASSUME RunsOK, NEW R \in SUBSET Run, NEW b
    PROVE  MetricsAddUp(M!CalculateSnapshotMetrics(Counts(b, R)))
<1> DEFINE mine == MentionsOf(b, R)
           n == Cardinality(mine)
           bound == Cardinality(Brands)
           count == [t \in Tones |-> Cardinality({m \in mine : m.sentiment = t})]
           metrics == M!CalculateSnapshotMetrics(Counts(b, R))
<1>1. IsFiniteSet(mine) /\ n \in Nat /\ bound \in Nat
  BY SizesAreNumbers, TablesAssumption, FS_CardinalityType DEF SizeOf
<1>2. \A m \in mine : m.order \in 1 .. bound /\ m.sentiment \in Tones
  BY MentionsAreMentions DEF MentionsOf, IsMention
<1>3. /\ metrics.avgRank = IF n > 0 THEN M!RoundHalfUp(OrderSum(mine) * 1000, n) ELSE None
      /\ metrics.positive = M!PctOrNone(count["positive"], n)
      /\ metrics.neutral = M!PctOrNone(count["neutral"], n)
      /\ metrics.negative = M!PctOrNone(count["negative"], n)
  <2> DEFINE counts == Counts(b, R)
  <2>1. /\ counts.mentions = n /\ counts.orderSum = OrderSum(mine)
        /\ counts.positive = count["positive"] /\ counts.neutral = count["neutral"]
        /\ counts.negative = count["negative"]
    BY DEF Counts, Tones
  <2>2. metrics = M!CalculateSnapshotMetrics(counts)
    OBVIOUS
  <2> HIDE DEF counts, count, mine, n, metrics
  <2> QED
    BY <2>1, <2>2 DEF M!CalculateSnapshotMetrics
<1>4. \A t \in Tones : count[t] = Cardinality({m \in mine : m.sentiment = t})
  OBVIOUS
<1> HIDE DEF count, mine, metrics
<1>5. /\ count["positive"] \in Nat /\ count["neutral"] \in Nat /\ count["negative"] \in Nat
      /\ count["positive"] + count["neutral"] + count["negative"] = n
  BY <1>1, <1>2, <1>4, TonesAddUp
<1> HIDE DEF n, bound
<1>6. OrderSum(mine) \in Nat /\ n <= OrderSum(mine) /\ OrderSum(mine) <= bound * n
  BY <1>1, <1>2, OrdersAreBounded DEF n
<1>7. CASE n = 0
  <2>1. metrics.avgRank = None
    BY <1>3, <1>7
  <2>2. metrics.positive = None /\ metrics.neutral = None /\ metrics.negative = None
    BY <1>3, <1>7 DEF M!PctOrNone
  <2> QED
    BY <2>1, <2>2 DEF MetricsAddUp, metrics
<1>8. CASE n # 0
  <2>1. n \in Nat \ {0} /\ n > 0
    BY <1>1, <1>8
  <2>2. metrics.avgRank \in 1000 .. 1000 * bound
    <3>1. PICK o \in Nat : o = OrderSum(mine) * 1000
      BY <1>6
    <3>2. 1000 * n <= o /\ o <= (1000 * bound) * n /\ 1000 * bound \in Nat
      <4>1. (1000 * bound) * n = 1000 * (bound * n) /\ bound * n \in Nat
        BY <1>1
      <4> QED
        BY <1>1, <1>6, <3>1, <4>1
    <3>3. M!RoundHalfUp(o, n) \in 1000 .. 1000 * bound
      BY <2>1, <3>2, RoundingIsBounded
    <3> QED
      BY <1>3, <2>1, <3>1, <3>3
  <2>3. metrics.avgRank # None
    BY <1>1, <2>2, TablesAssumption
  <2>4. Near(metrics.positive + metrics.neutral + metrics.negative, 3)
    <3>1. PICK a \in Nat, c \in Nat, d \in Nat :
             a = count["positive"] /\ c = count["neutral"] /\ d = count["negative"]
      BY <1>5
    <3>2. PICK x, y, z :
             x = metrics.positive /\ y = metrics.neutral /\ z = metrics.negative
      OBVIOUS
    <3>3. IsShare(x, a, n) /\ IsShare(y, c, n) /\ IsShare(z, d, n)
      BY <1>3, <2>1, <3>1, <3>2, RoundedPct
    <3>4. a + c + d = n
      BY <1>5, <3>1
    <3>5. Near(x + y + z, 3)
      BY <2>1, <3>3, <3>4, ThreeShares
    <3> QED
      BY <3>2, <3>5
  <2> QED
    BY <2>2, <2>3, <2>4 DEF MetricsAddUp, metrics, bound
<1> QED
  BY <1>7, <1>8

(* The row a week gets for a brand and a scope. *)
SnapshotRow(b, week, scope) ==
    [week |-> week, brand |-> b, provider |-> scope,
     metrics |-> M!CalculateSnapshotMetrics(Counts(b, RunScope(week, scope))),
     totalRuns |-> Cardinality(RunScope(week, scope))]

LEMMA ScopesAreRuns == ASSUME NEW week, NEW scope PROVE RunScope(week, scope) \in SUBSET Run
  BY DEF RunScope, Succeeded, RunsOf

LEMMA ComputedRows ==
    ASSUME NEW week, NEW s
    PROVE  s \in ComputeSnapshots(week) <=>
              \E b \in Known : \E scope \in activeProviders \cup {None} :
                 s = SnapshotRow(b, week, scope)
  BY DEF ComputeSnapshots, SnapshotRow, Known

LEMMA RowFields ==
    ASSUME NEW b, NEW week, NEW scope
    PROVE  /\ SnapshotRow(b, week, scope).week = week
           /\ SnapshotRow(b, week, scope).brand = b
           /\ SnapshotRow(b, week, scope).provider = scope
           /\ SnapshotRow(b, week, scope).metrics
                = M!CalculateSnapshotMetrics(Counts(b, RunScope(week, scope)))
           /\ SnapshotRow(b, week, scope).metrics.sov = Sov(b, RunScope(week, scope))
           /\ SnapshotRow(b, week, scope).totalRuns = Cardinality(RunScope(week, scope))
  BY DEF SnapshotRow, Sov

LEMMA FactorsCompare ==
    ASSUME NEW t \in Nat \ {0}, NEW x \in Int, NEW y \in Int, t * x <= t * y
    PROVE  x <= y
<1> SUFFICES ASSUME x > y PROVE FALSE
  OBVIOUS
<1>1. PICK n \in Nat : x = y + 1 + n
  <2>1. x - y - 1 \in Nat /\ x = y + 1 + (x - y - 1)
    OBVIOUS
  <2> QED
    BY <2>1
<1>2. t * (y + 1 + n) = t * y + t + t * n /\ t * n \in Nat /\ t * y \in Int
  OBVIOUS
<1> QED
  BY <1>1, <1>2

LEMMA AverageIsNear ==
    ASSUME NEW t \in Nat \ {0}, NEW k \in Nat, NEW sum \in Int,
           (2 * t) * sum <= 200000 * t + t * k, 200000 * t <= (2 * t) * sum + t * k
    PROVE  2 * sum - 200000 \in -k .. k
<1> DEFINE d == 2 * sum - 200000
<1>1. d \in Int /\ t * d = (2 * t) * sum - 200000 * t
  OBVIOUS
<1>2. t * k \in Int /\ (2 * t) * sum \in Int
  OBVIOUS
<1> HIDE DEF d
<1>3. t * d <= t * k /\ -(t * k) <= t * d
  BY <1>1, <1>2
<1>4. d <= k
  BY <1>1, <1>3, FactorsCompare
<1>5. -k <= d
  <2>1. t * (-k) = -(t * k) /\ -k \in Int
    OBVIOUS
  <2> QED
    BY <1>1, <1>3, <2>1, FactorsCompare
<1> QED
  BY <1>1, <1>4, <1>5 DEF d

OneRowEach(rows, row, B) == rows = {row[b] : b \in B} /\ \A b \in B : row[b].brand = b

Tabulates(f, row, value, B) == \A b \in B : value[b] \in Int /\ f[row[b]] = value[b]

(* The sum of a column over rows that are told apart by their brand.        *)
LEMMA SumOverBrands ==
    ASSUME NEW B, IsFiniteSet(B), NEW row, NEW rows, OneRowEach(rows, row, B),
           NEW value, NEW f, Tabulates(f, row, value, B)
    PROVE  /\ IsFiniteSet(rows) /\ Cardinality(rows) = Cardinality(B)
           /\ SumFunctionOnSet(f, rows) = SumFunctionOnSet(value, B)
<1> USE DEF OneRowEach, Tabulates
<1>1. \A a, b \in B : row[a] = row[b] => a = b
  OBVIOUS
<1>2. SumFunctionOnSet(f, rows) = SumFunctionOnSet(value, B) /\ IsFiniteSet(rows)
  BY <1>1, SumRenamed
<1>3. Cardinality(rows) = Cardinality(B)
  <2> DEFINE g == [b \in B |-> row[b]]
  <2>1. g \in Surjection(B, rows)
    BY DEF Surjection
  <2>2. g \in Injection(B, rows)
    BY <1>1 DEF Injection, IsInjective
  <2> QED
    BY <2>1, <2>2, FS_Surjection
<1> QED
  BY <1>2, <1>3

LEMMA SharesAddUp ==
    ASSUME RunsOK, NEW week, NEW scope, NEW rows,
           rows = {SnapshotRow(b, week, scope) : b \in Known}
    PROVE  ScopeAddsUp(rows)
<1> DEFINE R == RunScope(week, scope)
           t == Size(R)
           share == [b \in Known |-> Sov(b, R)]
           size == [b \in Known |-> SizeOf(b, R)]
           row == [b \in Known |-> SnapshotRow(b, week, scope)]
           f == [x \in rows |-> x.metrics.sov]
           k == Cardinality(Known)
           sum == SumFunctionOnSet(share, Known)
<1>1. R \in SUBSET Run /\ IsFiniteSet(Known) /\ k \in Nat
  BY ScopesAreRuns, TablesAssumption, FS_Subset, FS_CardinalityType DEF Known
<1>2. /\ SumOver(rows, LAMBDA x : x.metrics.sov) = SumFunctionOnSet(f, rows)
  BY DEF SumOver, SumFunction
<1>3. \A b \in Known : f[row[b]] = share[b] /\ row[b].brand = b
  BY RowFields
<1>4. rows = {row[b] : b \in Known}
  OBVIOUS
<1> HIDE DEF R, row, f
<1>5. \A b \in Known : /\ share[b] = Sov(b, R) /\ size[b] = SizeOf(b, R)
                       /\ share[b] \in Int /\ size[b] \in Nat
  BY <1>1, SovIsRounded, SizesAreNumbers
<1>6. t \in Nat
  BY <1>1, SizesAreNumbers
<1> HIDE DEF share, size
<1>7. Cardinality(rows) = k /\ SumFunctionOnSet(f, rows) = sum
  <2>1. OneRowEach(rows, row, Known)
    BY <1>3, <1>4 DEF OneRowEach
  <2>2. Tabulates(f, row, share, Known)
    BY <1>3, <1>5 DEF Tabulates
  <2> QED
    BY <1>1, <2>1, <2>2, SumOverBrands
<1>8. CASE t = 0
  <2>1. \A b \in Known : Sov(b, R) = 0
    BY <1>1, <1>8, SovIsRounded
  <2>2. \A x \in rows : x.metrics.sov = 0
    BY <2>1, RowFields DEF R
  <2> QED
    BY <2>2 DEF ScopeAddsUp
<1>9. CASE t # 0
  <2> DEFINE twice == [b \in Known |-> (2 * t) * share[b]]
             low == [b \in Known |-> 200000 * size[b]]
             half == [b \in Known |-> t]
             up == [b \in Known |-> 200000 * size[b] + t]
             over == [b \in Known |-> (2 * t) * share[b] + t]
  <2>1. \A b \in Known : /\ twice[b] = (2 * t) * share[b] /\ low[b] = 200000 * size[b]
                         /\ half[b] = t /\ up[b] = low[b] + half[b]
                         /\ over[b] = twice[b] + half[b]
    OBVIOUS
  <2>2. \A b \in Known : /\ twice[b] \in Int /\ low[b] \in Int /\ half[b] \in Int
                         /\ up[b] \in Int /\ over[b] \in Int
    BY <1>5, <1>6
  <2>3. \A b \in Known : twice[b] <= up[b] /\ low[b] <= over[b]
    <3> SUFFICES ASSUME NEW b \in Known PROVE twice[b] <= up[b] /\ low[b] <= over[b]
      OBVIOUS
    <3>1. /\ 2 * (t * share[b]) <= 200000 * size[b] + t
          /\ 200000 * size[b] < 2 * (t * share[b]) + t
      BY <1>1, <1>5, <1>9, SovIsRounded
    <3>2. 2 * (t * share[b]) = (2 * t) * share[b] /\ t * share[b] \in Int
      BY <1>5, <1>6
    <3> QED
      BY <1>5, <1>6, <3>1, <3>2
  <2> HIDE DEF twice, low, half, up, over
  <2>4. SumFunctionOnSet(size, Known) = t
    BY <1>1, <1>5, SizesAddUp
  <2>5. sum \in Int
    BY <1>1, <1>5, SumType
  <2> HIDE DEF sum, k
  <2>6. SumFunctionOnSet(twice, Known) = (2 * t) * sum
    <3>1. 2 * t \in Int
      BY <1>6
    <3> QED
      BY <1>1, <1>5, <2>1, <3>1, SumOfMultiples DEF sum
  <2>7. SumFunctionOnSet(low, Known) = 200000 * t
    <3>1. 200000 \in Int /\ \A b \in Known : size[b] \in Int
      BY <1>5
    <3> QED
      BY <1>1, <2>1, <2>4, <3>1, SumOfMultiples
  <2>8. SumFunctionOnSet(half, Known) = t * k
    <3>1. t \in Int
      BY <1>6
    <3> QED
      BY <1>1, <2>1, <3>1, SumOfConstant DEF k
  <2>9. /\ SumFunctionOnSet(up, Known) = 200000 * t + t * k
        /\ SumFunctionOnSet(over, Known) = (2 * t) * sum + t * k
    <3>1. SumFunctionOnSet(up, Known)
             = SumFunctionOnSet(low, Known) + SumFunctionOnSet(half, Known)
      BY <1>1, <2>1, <2>2, SumOfSums
    <3>2. SumFunctionOnSet(over, Known)
             = SumFunctionOnSet(twice, Known) + SumFunctionOnSet(half, Known)
      BY <1>1, <2>1, <2>2, SumOfSums
    <3> QED
      BY <2>6, <2>7, <2>8, <3>1, <3>2
  <2>10. /\ SumFunctionOnSet(twice, Known) <= SumFunctionOnSet(up, Known)
         /\ SumFunctionOnSet(low, Known) <= SumFunctionOnSet(over, Known)
    BY <1>1, <2>2, <2>3, SumMonotonic
  <2>11. (2 * t) * sum <= 200000 * t + t * k /\ 200000 * t <= (2 * t) * sum + t * k
    BY <2>6, <2>7, <2>9, <2>10
  <2>12. k \in Nat /\ t \in Nat \ {0}
    BY <1>1, <1>6, <1>9 DEF k
  <2> HIDE DEF t
  <2>13. 2 * sum - 200000 \in -k .. k
    BY <2>5, <2>11, <2>12, AverageIsNear
  <2> QED
    BY <1>2, <1>7, <2>13 DEF ScopeAddsUp, Near, k, sum
<1> QED
  BY <1>8, <1>9

LEMMA CitationSharesFit ==
    ASSUME RunsOK, NEW week, NEW scope, NEW rows,
           rows = {SnapshotRow(b, week, scope) : b \in Known}
    PROVE  CitationsFit(rows)
<1> DEFINE R == RunScope(week, scope)
           t == Cardinality(Citations(R))
           part == [b \in Known |-> {c \in Citations(R) : c.brand = b}]
           size == [b \in Known |-> Cardinality(part[b])]
           row == [b \in Known |-> SnapshotRow(b, week, scope)]
           share == [b \in Known |-> row[b].metrics.citationShare]
           f == [x \in rows |-> x.metrics.citationShare]
           k == Cardinality(Known)
           sum == SumFunctionOnSet(share, Known)
<1>1. IsFiniteSet(Citations(R)) /\ IsFiniteSet(Known) /\ k \in Nat /\ t \in Nat
  <2>1. R \in SUBSET Run
    BY ScopesAreRuns
  <2>2. IsFiniteSet(Citations(R))
    BY <2>1, CitationRowsAreFinite
  <2>3. IsFiniteSet(Known)
    BY TablesAssumption, FS_Subset DEF Known
  <2> QED
    BY <2>2, <2>3, FS_CardinalityType
<1>2. SumOver(rows, LAMBDA x : x.metrics.citationShare) = SumFunctionOnSet(f, rows)
  BY DEF SumOver, SumFunction
<1>3. \A b \in Known : /\ row[b].brand = b /\ f[row[b]] = share[b]
                       /\ row[b].metrics.citationShare = share[b]
                       /\ share[b] = M!PctOrNone(size[b], t)
  <2> SUFFICES ASSUME NEW b \in Known
               PROVE  /\ row[b].brand = b /\ f[row[b]] = share[b]
                      /\ row[b].metrics.citationShare = share[b]
                      /\ share[b] = M!PctOrNone(size[b], t)
    OBVIOUS
  <2>1. row[b] = SnapshotRow(b, week, scope) /\ row[b] \in rows
    OBVIOUS
  <2>2. row[b].brand = b /\ row[b].metrics = M!CalculateSnapshotMetrics(Counts(b, R))
    BY <2>1, RowFields
  <2>3. Counts(b, R).cited = size[b] /\ Counts(b, R).allCited = t
    BY DEF Counts
  <2>4. share[b] = row[b].metrics.citationShare /\ f[row[b]] = row[b].metrics.citationShare
    BY <2>1
  <2> HIDE DEF row, share, size, t, f, R
  <2>5. row[b].metrics.citationShare = M!PctOrNone(size[b], t)
    BY <2>2, <2>3 DEF M!CalculateSnapshotMetrics
  <2> QED
    BY <2>2, <2>4, <2>5
<1>4. rows = {row[b] : b \in Known}
  OBVIOUS
<1>5. \A b \in Known : /\ part[b] \subseteq Citations(R) /\ IsFiniteSet(part[b])
                       /\ size[b] = Cardinality(part[b]) /\ size[b] \in Nat
  BY <1>1, FS_Subset, FS_CardinalityType
<1>6. \A b, c \in Known : b # c => part[b] \cap part[c] = {}
  OBVIOUS
<1> HIDE DEF row, f, part, size, share
<1>7. SumFunctionOnSet(size, Known) \in Nat /\ SumFunctionOnSet(size, Known) <= t
  <2> DEFINE all == UNION {part[b] : b \in Known}
  <2>1. IsFiniteSet(all) /\ Cardinality(all) = SumFunctionOnSet(size, Known)
    BY <1>1, <1>5, <1>6, SumOfCardinalities
  <2>2. all \subseteq Citations(R)
    BY <1>5
  <2> HIDE DEF all
  <2> QED
    BY <1>1, <2>1, <2>2, FS_Subset, FS_CardinalityType
<1> HIDE DEF R, t
<1>8. CASE t = 0
  <2>1. \A b \in Known : share[b] = None
    BY <1>3, <1>8 DEF M!PctOrNone
  <2> QED
    BY <1>3, <1>4, <2>1 DEF CitationsFit
<1>9. CASE t # 0
  <2>1. t \in Nat \ {0}
    BY <1>1, <1>9
  <2>2. \A b \in Known : IsShare(share[b], size[b], t)
    BY <1>3, <1>5, <2>1, RoundedPct
  <2>3. \A b \in Known : share[b] \in Nat /\ share[b] # None
    BY <2>2, TablesAssumption DEF IsShare
  <2>4. Cardinality(rows) = k /\ SumFunctionOnSet(f, rows) = sum
    <3>1. OneRowEach(rows, row, Known)
      BY <1>3, <1>4 DEF OneRowEach
    <3>2. Tabulates(f, row, share, Known)
      BY <1>3, <2>3 DEF Tabulates
    <3> QED
      BY <1>1, <3>1, <3>2, SumOverBrands
  <2>5. 2 * sum <= 200000 + k
    <3> DEFINE twice == [b \in Known |-> (2 * t) * share[b]]
               low == [b \in Known |-> 200000 * size[b]]
               half == [b \in Known |-> t]
               up == [b \in Known |-> 200000 * size[b] + t]
               cited == SumFunctionOnSet(size, Known)
    <3>1. \A b \in Known : /\ twice[b] = (2 * t) * share[b] /\ low[b] = 200000 * size[b]
                           /\ half[b] = t /\ up[b] = low[b] + half[b]
      OBVIOUS
    <3>2. \A b \in Known : /\ twice[b] \in Int /\ low[b] \in Int /\ half[b] \in Int
                           /\ up[b] \in Int
      BY <1>1, <1>5, <2>3
    <3>3. \A b \in Known : twice[b] <= up[b]
      <4> SUFFICES ASSUME NEW b \in Known PROVE twice[b] <= up[b]
        OBVIOUS
      <4>1. 2 * (t * share[b]) <= 200000 * size[b] + t
        BY <2>2 DEF IsShare
      <4>2. 2 * (t * share[b]) = (2 * t) * share[b]
        BY <1>1, <2>3
      <4> QED
        BY <4>1, <4>2
    <3> HIDE DEF twice, low, half, up
    <3>4. sum \in Int
      BY <1>1, <2>3, SumType
    <3>5. SumFunctionOnSet(twice, Known) = (2 * t) * sum
      <4>1. 2 * t \in Int /\ \A b \in Known : share[b] \in Int
        BY <1>1, <2>3
      <4> QED
        BY <1>1, <3>1, <4>1, SumOfMultiples DEF sum
    <3>6. SumFunctionOnSet(low, Known) = 200000 * cited
      <4>1. 200000 \in Int /\ \A b \in Known : size[b] \in Int
        BY <1>5
      <4> QED
        BY <1>1, <3>1, <4>1, SumOfMultiples
    <3>7. SumFunctionOnSet(half, Known) = t * k
      <4>1. t \in Int
        BY <1>1
      <4> QED
        BY <1>1, <3>1, <4>1, SumOfConstant DEF k
    <3>8. SumFunctionOnSet(up, Known)
             = SumFunctionOnSet(low, Known) + SumFunctionOnSet(half, Known)
      BY <1>1, <3>1, <3>2, SumOfSums
    <3>9. SumFunctionOnSet(twice, Known) <= SumFunctionOnSet(up, Known)
      BY <1>1, <3>2, <3>3, SumMonotonic
    <3>10. cited \in Nat /\ cited <= t
      BY <1>7
    <3> HIDE DEF sum, k, cited
    <3>11. (2 * t) * sum <= 200000 * cited + t * k
      BY <3>5, <3>6, <3>7, <3>8, <3>9
    <3>12. (2 * t) * sum = t * (2 * sum) /\ t * (200000 + k) = 200000 * t + t * k
      BY <1>1, <3>4
    <3>13. t * (2 * sum) <= t * (200000 + k)
      <4>1. PICK a, z : a = t * k /\ z = (2 * t) * sum
        OBVIOUS
      <4>2. a \in Int /\ z \in Int
        BY <1>1, <3>4, <4>1
      <4>3. z <= 200000 * cited + a
        BY <3>11, <4>1
      <4>4. z <= 200000 * t + a
        BY <1>1, <3>10, <4>2, <4>3
      <4> QED
        BY <3>12, <4>1, <4>4
    <3> QED
      BY <1>1, <2>1, <3>4, <3>13, FactorsCompare
  <2>6. \A x \in rows : x.metrics.citationShare # None
    BY <1>3, <1>4, <2>3
  <2> QED
    BY <1>2, <2>4, <2>5, <2>6 DEF CitationsFit
<1> QED
  BY <1>8, <1>9

AllAddUp(S) ==
    \A s \in S : LET rows == {x \in {y \in S : y.week = s.week} : x.provider = s.provider}
                 IN  ScopeAddsUp(rows) /\ CitationsFit(rows) /\ MetricsAddUp(s.metrics)

LEMMA ComputedAddUp ==
    ASSUME RunsOK, NEW S, NEW s \in S,
           {x \in S : x.week = s.week} = ComputeSnapshots(s.week)
    PROVE  LET rows == {x \in {y \in S : y.week = s.week} : x.provider = s.provider}
           IN  ScopeAddsUp(rows) /\ CitationsFit(rows) /\ MetricsAddUp(s.metrics)
<1>1. s \in ComputeSnapshots(s.week)
  OBVIOUS
<1>2. PICK b \in Known : \E scope \in activeProviders \cup {None} :
         s = SnapshotRow(b, s.week, scope)
  BY <1>1, ComputedRows
<1>3. PICK scope \in activeProviders \cup {None} : s = SnapshotRow(b, s.week, scope)
  BY <1>2
<1> DEFINE rows == {x \in {y \in S : y.week = s.week} : x.provider = s.provider}
<1>4. rows = {SnapshotRow(c, s.week, scope) : c \in Known}
  <2>1. s.provider = scope
    BY <1>3, RowFields
  <2>2. \A x : x \in rows <=> x \in ComputeSnapshots(s.week) /\ x.provider = scope
    BY <2>1
  <2> HIDE DEF rows
  <2>3. \A x \in rows : \E c \in Known : x = SnapshotRow(c, s.week, scope)
    <3> SUFFICES ASSUME NEW x \in rows PROVE \E c \in Known : x = SnapshotRow(c, s.week, scope)
      OBVIOUS
    <3>1. PICK c \in Known : \E v \in activeProviders \cup {None} :
             x = SnapshotRow(c, s.week, v)
      BY <2>2, ComputedRows
    <3>2. PICK v \in activeProviders \cup {None} : x = SnapshotRow(c, s.week, v)
      BY <3>1
    <3>3. v = scope
      BY <2>2, <3>2, RowFields
    <3> QED
      BY <3>2, <3>3
  <2>4. \A c \in Known : SnapshotRow(c, s.week, scope) \in rows
    BY <2>2, ComputedRows, RowFields
  <2> QED
    BY <2>3, <2>4
<1> HIDE DEF rows
<1>5. ScopeAddsUp(rows) /\ CitationsFit(rows)
  BY <1>4, SharesAddUp, CitationSharesFit
<1>6. MetricsAddUp(s.metrics)
  <2>1. s.metrics = M!CalculateSnapshotMetrics(Counts(b, RunScope(s.week, scope)))
    BY <1>3, RowFields
  <2> QED
    BY <2>1, ScopesAreRuns, MetricsAreConsistent
<1> QED
  BY <1>5, <1>6 DEF rows

(* At first the weeks before have their rows, and no other week. *)
LEMMA FirstRows ==
    ASSUME Init, NEW s \in snapshots
    PROVE  RowsOf(s.week) = ComputeSnapshots(s.week)
<1>1. snapshots = UNION {ComputeSnapshots(w) : w \in Weeks \ {ThisWeek}}
  BY DEF Init
<1>2. \A w : \A x \in ComputeSnapshots(w) : x.week = w
  BY DEF ComputeSnapshots
<1>3. PICK w \in Weeks \ {ThisWeek} : s \in ComputeSnapshots(w)
  BY <1>1
<1>4. s.week = w
  BY <1>2, <1>3
<1>5. \A x : x \in ComputeSnapshots(w) <=> x \in snapshots /\ x.week = w
  BY <1>1, <1>2
<1> QED
  BY <1>4, <1>5 DEF RowsOf

(* An aggregation replaces the rows of its week and leaves the others.      *)
LEMMA AggregatedRows ==
    ASSUME NEW week, AggregateWeek(week)
    PROVE  /\ {x \in snapshots' : x.week = week} = ComputeSnapshots(week)
           /\ \A w : w # week => {x \in snapshots' : x.week = w} = RowsOf(w)
<1>1. snapshots' = (snapshots \ RowsOf(week)) \cup ComputeSnapshots(week)
  BY DEF AggregateWeek
<1>2. \A x \in ComputeSnapshots(week) : x.week = week
  BY DEF ComputeSnapshots
<1>3. \A x \in snapshots' : x.week = week <=> x \in ComputeSnapshots(week)
  BY <1>1, <1>2 DEF RowsOf
<1>4. \A x : x.week # week => (x \in snapshots' <=> x \in snapshots)
  BY <1>1, <1>2 DEF RowsOf
<1>5. ComputeSnapshots(week) \subseteq snapshots'
  BY <1>1
<1>6. {x \in snapshots' : x.week = week} = ComputeSnapshots(week)
  BY <1>3, <1>5
<1>7. ASSUME NEW w, w # week PROVE {x \in snapshots' : x.week = w} = RowsOf(w)
  BY <1>4, <1>7 DEF RowsOf
<1> QED
  BY <1>6, <1>7

(* The shares of a scope add up to 100%, up to the rounding of each row, and *)
(* so do the sentiments of a brand, for any number of brands, answers and  *)
(* edits (aggregation.py, metrics.py).                                     *)
THEOREM SnapshotsAddUp == Spec => []ScopesAddUp
<1>1. ScopesAddUp <=> AllAddUp(snapshots)
  BY DEF ScopesAddUp, AllAddUp, ScopeRows, RowsOf
<1>2. Init => AllAddUp(snapshots)
  <2> SUFFICES ASSUME Init PROVE AllAddUp(snapshots)
    OBVIOUS
  <2>1. PICK S : S = snapshots
    OBVIOUS
  <2>2. \A s \in S : {x \in S : x.week = s.week} = ComputeSnapshots(s.week)
    BY <2>1, FirstRows DEF RowsOf
  <2>3. AllAddUp(S)
    BY <2>2, InitIsOK, ComputedAddUp DEF AllAddUp
  <2> QED
    BY <2>1, <2>3
<1>3. RunsOK /\ AllAddUp(snapshots) /\ [Next]_vars => AllAddUp(snapshots')
  <2> SUFFICES ASSUME RunsOK, AllAddUp(snapshots), [Next]_vars PROVE AllAddUp(snapshots')
    OBVIOUS
  <2>1. ASSUME NEW week \in Weeks, AggregateWeek(week) PROVE AllAddUp(snapshots')
    <3>1. PICK S : S = snapshots'
      OBVIOUS
    <3>2. PICK T : T = snapshots
      OBVIOUS
    <3>3. ASSUME NEW s \in S
          PROVE  LET rows == {x \in {y \in S : y.week = s.week} : x.provider = s.provider}
                 IN  ScopeAddsUp(rows) /\ CitationsFit(rows) /\ MetricsAddUp(s.metrics)
      <4>1. CASE s.week = week
        <5>1. {x \in S : x.week = s.week} = ComputeSnapshots(s.week)
          BY <2>1, <3>1, <4>1, AggregatedRows
        <5> QED
          BY <5>1, ComputedAddUp
      <4>2. CASE s.week # week
        <5>1. {y \in S : y.week = s.week} = {y \in T : y.week = s.week}
          BY <2>1, <3>1, <3>2, <4>2, AggregatedRows DEF RowsOf
        <5>2. s \in T /\ AllAddUp(T)
          BY <3>2, <5>1
        <5> QED
          BY <5>1, <5>2 DEF AllAddUp
      <4> QED
        BY <4>1, <4>2
    <3> QED
      BY <3>1, <3>3 DEF AllAddUp
  <2>2. CASE UNCHANGED snapshots
    BY <2>2
  <2> QED
    BY <2>1, <2>2 DEF Next, vars, EditBrand, DeactivatePrompt, UpdateLlmProvider,
       SetRuns, TriggerBatch, ResumeBatch, Poll, Execute, ExecutionFails
<1>4. RunsOK /\ ScopesAddUp /\ [Next]_vars => ScopesAddUp'
  <2> SUFFICES ASSUME RunsOK, ScopesAddUp, [Next]_vars PROVE ScopesAddUp'
    OBVIOUS
  <2>1. AllAddUp(snapshots')
    BY <1>1, <1>3
  <2> QED
    BY <2>1 DEF ScopesAddUp, AllAddUp, ScopeRows, RowsOf
<1> QED
  BY <1>1, <1>2, <1>4, AnswersStayParsed, PTL DEF Spec

-----------------------------------------------------------------------------
(***************************************************************************)
(* What the views show of the snapshots.                                   *)
(***************************************************************************)
SharesAreNumbers == \A s \in snapshots : s.metrics.sov \in Nat

LEMMA ComputedShares ==
    ASSUME RunsOK, NEW week, NEW s \in ComputeSnapshots(week)
    PROVE  s.metrics.sov \in Nat
<1>1. PICK b \in Known : \E scope \in activeProviders \cup {None} :
         s = SnapshotRow(b, week, scope)
  BY ComputedRows
<1>2. PICK scope \in activeProviders \cup {None} : s = SnapshotRow(b, week, scope)
  BY <1>1
<1>3. s.metrics.sov = Sov(b, RunScope(week, scope))
  BY <1>2, RowFields
<1> QED
  BY <1>3, ScopesAreRuns, SovIsRounded

LEMMA SharesStayNumbers == Spec => []SharesAreNumbers
<1>1. Init => SharesAreNumbers
  <2> SUFFICES ASSUME Init, NEW s \in snapshots PROVE s.metrics.sov \in Nat
    BY DEF SharesAreNumbers
  <2>1. s \in ComputeSnapshots(s.week)
    BY FirstRows DEF RowsOf
  <2> QED
    BY <2>1, InitIsOK, ComputedShares
<1>2. RunsOK /\ SharesAreNumbers /\ [Next]_vars => SharesAreNumbers'
  <2> SUFFICES ASSUME RunsOK, SharesAreNumbers, [Next]_vars PROVE SharesAreNumbers'
    OBVIOUS
  <2>1. ASSUME NEW week \in Weeks, AggregateWeek(week) PROVE SharesAreNumbers'
    BY <2>1, ComputedShares DEF AggregateWeek, SharesAreNumbers
  <2>2. CASE UNCHANGED snapshots
    BY <2>2 DEF SharesAreNumbers
  <2> QED
    BY <2>1, <2>2 DEF Next, vars, EditBrand, DeactivatePrompt, UpdateLlmProvider,
       SetRuns, TriggerBatch, ResumeBatch, Poll, Execute, ExecutionFails
<1> QED
  BY <1>1, <1>2, AnswersStayParsed, PTL DEF Spec

(* The point of a brand in the trends. *)
PointRows(b, week) == {s \in TotalRows(week) : s.brand = b}

Point(b, week) ==
    IF PointRows(b, week) = {} THEN None
    ELSE (CHOOSE s \in PointRows(b, week) : TRUE).metrics.sov

OwnRows(week) == {s \in TotalRows(week) : s.brand \in OwnBrands}

LEMMA OwnBrandsAreFinite == IsFiniteSet(OwnBrands)
  BY TablesAssumption, FS_Subset DEF OwnBrands

(* A sum over the rows of the own brands is one over the own brands.        *)
LEMMA OwnRowsAreOwnBrands ==
    ASSUME OneRowPerKey, SharesAreNumbers, NEW week, NEW value,
           \A b \in OwnBrands : value[b] = OrZero(Point(b, week))
    PROVE  /\ SumOver(OwnRows(week), LAMBDA s : s.metrics.sov)
                = SumFunctionOnSet(value, OwnBrands)
           /\ SumFunctionOnSet(value, OwnBrands) \in Int
           /\ OwnRows(week) = {} <=> \A b \in OwnBrands : Point(b, week) = None
<1> DEFINE seen == {b \in OwnBrands : PointRows(b, week) # {}}
           row == [b \in seen |-> CHOOSE s \in PointRows(b, week) : TRUE]
           rows == OwnRows(week)
           f == [s \in rows |-> s.metrics.sov]
<1>1. \A b : \A s \in PointRows(b, week) : s.brand = b /\ s \in snapshots
  BY DEF PointRows, TotalRows, ScopeRows, RowsOf
<1>2. \A b : \A s, t \in PointRows(b, week) : s = t
  BY DEF PointRows, TotalRows, ScopeRows, RowsOf, OneRowPerKey
<1>3. \A b \in seen : row[b] \in PointRows(b, week)
  OBVIOUS
<1>4. \A s : s \in rows <=> s.brand \in OwnBrands /\ s \in PointRows(s.brand, week)
  BY DEF OwnRows, PointRows
<1>5. \A b \in OwnBrands : Point(b, week) = IF b \in seen THEN row[b].metrics.sov ELSE None
  BY DEF Point
<1>6. seen \subseteq OwnBrands /\ IsFiniteSet(OwnBrands) /\ IsFiniteSet(seen)
  <2>1. seen \subseteq OwnBrands
    OBVIOUS
  <2> HIDE DEF seen
  <2> QED
    BY <2>1, OwnBrandsAreFinite, FS_Subset
<1>7. \A b \in seen : row[b].metrics.sov \in Nat
  BY <1>1, <1>3 DEF SharesAreNumbers
<1>8. \A b \in OwnBrands : b \notin seen => PointRows(b, week) = {}
  OBVIOUS
<1>9. SumOver(rows, LAMBDA s : s.metrics.sov) = SumFunctionOnSet(f, rows)
  BY DEF SumOver, SumFunction
<1> HIDE DEF seen, row, rows
<1>10. \A s \in rows : s.brand \in seen /\ s = row[s.brand]
  BY <1>2, <1>3, <1>4, <1>8
<1>11. \A b \in seen : row[b] \in rows /\ row[b].brand = b
  BY <1>1, <1>3, <1>4, <1>6
<1>12. \A b \in OwnBrands : value[b] = IF b \in seen THEN row[b].metrics.sov ELSE 0
  BY <1>5, <1>7, TablesAssumption DEF OrZero
<1>13. OneRowEach(rows, row, seen)
  BY <1>10, <1>11 DEF OneRowEach
<1>14. Tabulates(f, row, value, seen)
  BY <1>6, <1>7, <1>11, <1>12 DEF Tabulates
<1> HIDE DEF f
<1>15. SumFunctionOnSet(f, rows) = SumFunctionOnSet(value, seen)
  BY <1>6, <1>13, <1>14, SumOverBrands
<1>16. SumFunctionOnSet(value, OwnBrands) = SumFunctionOnSet(value, seen)
  <2>1. \A b \in OwnBrands : value[b] \in Int
    BY <1>7, <1>12
  <2>2. \A b \in OwnBrands \ seen : value[b] = 0
    BY <1>12
  <2> QED
    BY <1>6, <2>1, <2>2, SumOfPart
<1>17. SumFunctionOnSet(value, OwnBrands) \in Int
  <2>1. \A b \in OwnBrands : value[b] \in Int
    BY <1>7, <1>12
  <2> QED
    BY <1>6, <2>1, SumType
<1>18. rows = {} <=> \A b \in OwnBrands : Point(b, week) = None
  <2>1. \A b \in OwnBrands : Point(b, week) = None <=> b \notin seen
    BY <1>5, <1>7, TablesAssumption
  <2> QED
    BY <1>6, <1>10, <1>11, <2>1
<1> QED
  BY <1>9, <1>15, <1>16, <1>17, <1>18 DEF rows

LEMMA OwnSum ==
    ASSUME OneRowPerKey, SharesAreNumbers, NEW week, NEW value,
           \A b \in OwnBrands : value[b] = OrZero(Point(b, week))
    PROVE  /\ OwnSovSum(week) = IF OwnBrands # {} /\ \A b \in OwnBrands : Point(b, week) = None
                                THEN None ELSE SumFunctionOnSet(value, OwnBrands)
           /\ OrZero(OwnSovSum(week)) = SumFunctionOnSet(value, OwnBrands)
           /\ SumFunctionOnSet(value, OwnBrands) \in Int
<1> DEFINE sum == SumFunctionOnSet(value, OwnBrands)
           unseen == \A b \in OwnBrands : Point(b, week) = None
<1>1. /\ SumOver(OwnRows(week), LAMBDA s : s.metrics.sov) = sum
      /\ sum \in Int /\ (OwnRows(week) = {} <=> unseen)
  BY OwnRowsAreOwnBrands
<1>2. OwnSovSum(week) = IF OwnBrands # {} /\ OwnRows(week) = {} THEN None
                        ELSE SumOver(OwnRows(week), LAMBDA s : s.metrics.sov)
  BY DEF OwnSovSum, OwnRows
<1>3. unseen => sum = 0
  <2> SUFFICES ASSUME unseen PROVE sum = 0
    OBVIOUS
  <2>1. \A b \in OwnBrands : value[b] = 0
    BY DEF OrZero
  <2>2. sum = 0 * Cardinality(OwnBrands)
    BY <2>1, 0 \in Int, OwnBrandsAreFinite, SumOfConstant
  <2> QED
    BY <2>2, OwnBrandsAreFinite, FS_CardinalityType
<1> HIDE DEF sum, unseen
<1>4. OwnSovSum(week) = IF OwnBrands # {} /\ unseen THEN None ELSE sum
  BY <1>1, <1>2
<1>5. OrZero(OwnSovSum(week)) = sum
  BY <1>1, <1>3, <1>4, TablesAssumption DEF OrZero
<1> QED
  BY <1>1, <1>4, <1>5 DEF sum, unseen

(* The change of the own share on the dashboard is that of the trends, over *)
(* every New Year and for any number of brands (dashboard_service.py,      *)
(* trend_service.py).                                                      *)
THEOREM DeltaIsRight == Spec => []DeltaMatchesTrends
<1>1. OneRowPerKey /\ SharesAreNumbers => DeltaMatchesTrends
  <2> SUFFICES ASSUME OneRowPerKey, SharesAreNumbers, NEW w \in Weeks
               PROVE  LET trends == Trends(w, 2)
                          sum(i) == SumFunction([b \in OwnBrands |-> OrZero(trends[b][i])])
                      IN  DashboardSummary(w).sovDelta =
                            IF OwnBrands # {} /\ \A b \in OwnBrands : trends[b][1] = None
                            THEN None ELSE sum(2) - sum(1)
    BY DEF DeltaMatchesTrends
  <2> DEFINE trends == Trends(w, 2)
             before == PreviousWeekLabel(w)
             points(i) == [b \in OwnBrands |-> OrZero(trends[b][i])]
             total(i) == SumFunctionOnSet(points(i), OwnBrands)
  <2>1. RecentWeekLabels(w, 2)[1] = before /\ RecentWeekLabels(w, 2)[2] = w
    <3> DEFINE monday == MondayOfWeek(w)
    <3>1. monday \in Nat /\ LabelForDate(monday) = w
      BY WeeksAssumption
    <3> HIDE DEF monday
    <3>2. /\ RecentWeekLabels(w, 2)[1] = LabelForDate(monday - 7 * (2 - 1))
          /\ RecentWeekLabels(w, 2)[2] = LabelForDate(monday - 7 * (2 - 2))
      BY DEF RecentWeekLabels, monday
    <3>3. monday - 7 * (2 - 1) = monday - 7 /\ monday - 7 * (2 - 2) = monday
      BY <3>1
    <3> QED
      BY <3>1, <3>2, <3>3 DEF PreviousWeekLabel, monday
  <2>2. \A b \in OwnBrands : trends[b][1] = Point(b, before) /\ trends[b][2] = Point(b, w)
    <3> DEFINE weeks == RecentWeekLabels(w, 2)
    <3>1. trends = [b \in {b \in Brands : brands[b] # None} |->
                      [i \in 1 .. 2 |-> Point(b, weeks[i])]]
      BY DEF Trends, Point, PointRows
    <3> HIDE DEF weeks, trends
    <3>2. \A b \in OwnBrands : b \in {c \in Brands : brands[c] # None}
      BY DEF OwnBrands
    <3>3. \A b \in OwnBrands, i \in 1 .. 2 : trends[b][i] = Point(b, weeks[i])
      BY <3>1, <3>2
    <3> QED
      BY <2>1, <3>3 DEF weeks
  <2> HIDE DEF trends, before
  <2>3. /\ OwnSovSum(before)
             = IF OwnBrands # {} /\ \A b \in OwnBrands : Point(b, before) = None
               THEN None ELSE total(1)
        /\ total(1) \in Int
    <3>1. \A b \in OwnBrands : points(1)[b] = OrZero(Point(b, before))
      BY <2>2
    <3> HIDE DEF points
    <3> QED
      BY <3>1, OwnSum
  <2>4. OrZero(OwnSovSum(w)) = total(2) /\ total(2) \in Int
    <3>1. \A b \in OwnBrands : points(2)[b] = OrZero(Point(b, w))
      BY <2>2
    <3> HIDE DEF points
    <3> QED
      BY <3>1, OwnSum
  <2>5. DashboardSummary(w).sovDelta
           = IF OwnSovSum(before) = None THEN None
             ELSE OrZero(OwnSovSum(w)) - OwnSovSum(before)
    BY DEF DashboardSummary, before
  <2>6. (\A b \in OwnBrands : Point(b, before) = None)
           <=> \A b \in OwnBrands : trends[b][1] = None
    BY <2>2
  <2>7. \A i : SumFunction([b \in OwnBrands |-> OrZero(trends[b][i])]) = total(i)
    BY DEF SumFunction
  <2> HIDE DEF total
  <2>8. total(1) # None
    BY <2>3, TablesAssumption
  <2> QED
    BY <2>3, <2>4, <2>5, <2>6, <2>7, <2>8 DEF trends
<1> QED
  BY <1>1, KeysStayUnique, SharesStayNumbers, PTL

-----------------------------------------------------------------------------
(* A fresh snapshot has one row for each brand and scope. *)
LEMMA FreshRow ==
    ASSUME NEW w, IsFresh(w), NEW b \in Known, NEW scope \in activeProviders \cup {None}
    PROVE  {s \in ScopeRows(w, scope) : s.brand = b} = {SnapshotRow(b, w, scope)}
<1>1. \A s : s \in ScopeRows(w, scope) <=> s \in ComputeSnapshots(w) /\ s.provider = scope
  BY DEF ScopeRows, IsFresh
<1>2. SnapshotRow(b, w, scope) \in ComputeSnapshots(w)
  BY ComputedRows
<1>3. ASSUME NEW s \in ComputeSnapshots(w), s.provider = scope, s.brand = b
      PROVE  s = SnapshotRow(b, w, scope)
  BY <1>2, <1>3, RowFields, ComputedOncePerKey, ComputedRows
<1> QED
  BY <1>1, <1>2, <1>3, RowFields

LEMMA ShareOfFreshRow ==
    ASSUME NEW w, IsFresh(w), NEW b \in Known, NEW scope \in activeProviders \cup {None},
           NEW rows, rows = {s \in ScopeRows(w, scope) : s.brand = b}
    PROVE  /\ rows # {}
           /\ (CHOOSE s \in rows : TRUE).metrics.sov = Sov(b, RunScope(w, scope))
<1>1. rows = {SnapshotRow(b, w, scope)}
  BY FreshRow
<1>2. (CHOOSE s \in rows : TRUE) = SnapshotRow(b, w, scope)
  BY <1>1
<1> QED
  BY <1>1, <1>2, RowFields

LEMMA SomebodyIsCounted ==
    ASSUME RunsOK, NEW R \in SUBSET Run, NEW b
    PROVE  SizeOf(b, R) # 0 <=> \E m \in Mentions(R) : m.brand = b
<1>1. IsFiniteSet(MentionsOf(b, R))
  BY SizesAreNumbers
<1>2. SizeOf(b, R) = 0 <=> MentionsOf(b, R) = {}
  BY <1>1, FS_EmptySet DEF SizeOf
<1> QED
  BY <1>2 DEF MentionsOf

(* The own share is zero only if that of each own brand is. *)
LEMMA OwnShareIsShared ==
    ASSUME RunsOK, OneRowPerKey, SharesAreNumbers, NEW w, IsFresh(w)
    PROVE  OrZero(OwnSovSum(w)) # 0
              <=> \E b \in OwnBrands : Sov(b, RunScope(w, None)) # 0
<1> DEFINE R == RunScope(w, None)
           value == [b \in OwnBrands |-> Sov(b, R)]
           zero == [b \in OwnBrands |-> 0]
           sum == SumFunctionOnSet(value, OwnBrands)
<1>1. R \in SUBSET Run
  BY ScopesAreRuns
<1>4. \A b \in OwnBrands : value[b] = Sov(b, R) /\ zero[b] = 0
  OBVIOUS
<1> HIDE DEF value, zero, R, sum
<1>2. \A b \in OwnBrands : value[b] \in Nat
  <2>1. \A b : Sov(b, R) \in Nat
    BY <1>1, ShareIsNumber
  <2> QED
    BY <1>4, <2>1
<1>3. \A b \in OwnBrands : value[b] = OrZero(Point(b, w))
  <2> SUFFICES ASSUME NEW b \in OwnBrands PROVE value[b] = OrZero(Point(b, w))
    OBVIOUS
  <2>1. b \in Known /\ PointRows(b, w) = {s \in ScopeRows(w, None) : s.brand = b}
    BY DEF OwnBrands, Known, PointRows, TotalRows
  <2>2. Point(b, w) = Sov(b, R)
    <3>1. PICK rows : rows = PointRows(b, w)
      OBVIOUS
    <3>2. rows # {} /\ (CHOOSE s \in rows : TRUE).metrics.sov = Sov(b, RunScope(w, None))
      BY <2>1, <3>1, ShareOfFreshRow
    <3> QED
      BY <3>1, <3>2 DEF Point, R
  <2>3. Point(b, w) # None
    BY <1>2, <1>4, <2>2, TablesAssumption
  <2> QED
    BY <1>4, <2>2, <2>3 DEF OrZero
<1> USE DEF sum
<1>5. OrZero(OwnSovSum(w)) = sum /\ sum \in Int
  BY <1>3, OwnSum
<1>6. SumFunctionOnSet(zero, OwnBrands) = 0
  <2>1. SumFunctionOnSet(zero, OwnBrands) = 0 * Cardinality(OwnBrands)
    BY <1>4, 0 \in Int, OwnBrandsAreFinite, SumOfConstant
  <2> QED
    BY <2>1, OwnBrandsAreFinite, FS_CardinalityType
<1>7. ASSUME \A b \in OwnBrands : value[b] = 0 PROVE sum = 0
  <2>1. sum = 0 * Cardinality(OwnBrands)
    BY <1>7, 0 \in Int, OwnBrandsAreFinite, SumOfConstant
  <2> QED
    BY <2>1, OwnBrandsAreFinite, FS_CardinalityType
<1>8. ASSUME NEW b \in OwnBrands, value[b] # 0 PROVE sum # 0
  <2>1. \A x \in OwnBrands : zero[x] \in Int /\ value[x] \in Int /\ zero[x] <= value[x]
    BY <1>2, <1>4
  <2>2. zero[b] < value[b]
    BY <1>2, <1>4, <1>8
  <2>3. SumFunctionOnSet(zero, OwnBrands) < SumFunctionOnSet(value, OwnBrands)
    BY <2>1, <2>2, OwnBrandsAreFinite, SumStrictlyMonotonic
  <2> QED
    BY <1>5, <1>6, <2>3
<1> QED
  BY <1>4, <1>5, <1>7, <1>8 DEF R

(* What the report and the export say about exposure is what the share says, *)
(* for any number of answers (report_service.py, aggregation.py).          *)
THEOREM UnexposedIsShareless == Spec => []UnexposedMeansNoShare
<1>1. RunsOK /\ OneRowPerKey /\ SharesAreNumbers => UnexposedMeansNoShare
  <2> SUFFICES ASSUME RunsOK, OneRowPerKey, SharesAreNumbers, NEW w \in Weeks
               PROVE  LET report == WeeklyReport(w) IN
                      /\ \A p \in report.unexposed :
                            /\ \E r \in Succeeded(w) : r.prompt = p
                            /\ ~ \E m \in MentionRows(w) : /\ m.run.prompt = p
                                                          /\ m.brand \in OwnBrands
                      /\ (/\ IsFresh(w)
                          /\ {r.prompt : r \in RunScope(w, None)} \subseteq activePrompts)
                         => /\ report.ownSov # 0 => report.unexposed # Measured(w)
                            /\ (/\ report.unexposed # Measured(w)
                                /\ ShowsEveryMention(w, None))
                               => report.ownSov # 0
    BY DEF UnexposedMeansNoShare
  <2> DEFINE unexposed == WeeklyReport(w).unexposed
             R == RunScope(w, None)
  <2>1. \A p : p \in unexposed
           <=> /\ p \in Measured(w)
               /\ ~ \E m \in MentionRows(w) : m.run.prompt = p /\ m.brand \in OwnBrands
    BY DEF WeeklyReport, Entries
  <2>2. WeeklyReport(w).ownSov = OrZero(OwnSovSum(w))
    BY DEF WeeklyReport
  <2>3. \A p : p \in Measured(w)
           <=> /\ p \in activePrompts /\ IsMarketQuestion(p)
               /\ \E r \in Succeeded(w) : r.prompt = p
    BY DEF Measured
  <2>4. R \in SUBSET Run /\ R \in SUBSET Succeeded(w) /\ Succeeded(w) \in SUBSET Run
    BY DEF RunScope, Succeeded, RunsOf
  <2>5. Mentions(R) = {m \in MentionRows(w) : m.run \in R}
    BY <2>4, MentionsOfPart DEF MentionRows
  <2>6. \A m \in MentionRows(w) : m.run \in Succeeded(w)
    BY <2>4, MentionsAreMentions DEF MentionRows, IsMention
  <2>7. \A r : r \in R <=> r \in Succeeded(w) /\ IsMarketQuestion(r.prompt)
    BY DEF RunScope
  <2>8. ASSUME IsFresh(w)
        PROVE  WeeklyReport(w).ownSov # 0 <=> \E b \in OwnBrands : Sov(b, R) # 0
    BY <2>2, <2>8, OwnShareIsShared
  <2> HIDE DEF unexposed, R
  <2>9. ASSUME IsFresh(w), WeeklyReport(w).ownSov # 0,
               {r.prompt : r \in R} \subseteq activePrompts
        PROVE  unexposed # Measured(w)
    <3>1. PICK b \in OwnBrands : Sov(b, R) # 0
      BY <2>8, <2>9
    <3>2. SizeOf(b, R) # 0
      BY <2>4, <3>1, Shown
    <3>3. PICK m \in Mentions(R) : m.brand = b
      BY <2>4, <3>2, SomebodyIsCounted
    <3>4. m \in MentionRows(w) /\ m.run \in R
      BY <2>5
    <3>5. m.run.prompt \in Measured(w)
      BY <2>3, <2>7, <2>9, <3>4
    <3> QED
      BY <2>1, <3>3, <3>4, <3>5
  <2>10. ASSUME IsFresh(w), ShowsEveryMention(w, None), unexposed # Measured(w)
         PROVE  WeeklyReport(w).ownSov # 0
    <3>1. PICK p \in Measured(w) :
             \E m \in MentionRows(w) : m.run.prompt = p /\ m.brand \in OwnBrands
      BY <2>1, <2>10
    <3>2. PICK m \in MentionRows(w) : m.run.prompt = p /\ m.brand \in OwnBrands
      BY <3>1
    <3>3. m \in Mentions(R)
      BY <2>3, <2>5, <2>6, <2>7, <3>2
    <3>4. SizeOf(m.brand, R) # 0
      BY <2>4, <3>3, SomebodyIsCounted
    <3>5. Size(R) <= MostShown
      BY <2>10 DEF ShowsEveryMention, Size, R
    <3>6. Sov(m.brand, R) # 0
      BY <2>4, <3>4, <3>5, Shown
    <3> QED
      BY <2>8, <2>10, <3>2, <3>6
  <2>11. ASSUME NEW p \in unexposed
         PROVE  /\ \E r \in Succeeded(w) : r.prompt = p
                /\ ~ \E m \in MentionRows(w) : m.run.prompt = p /\ m.brand \in OwnBrands
    BY <2>1, <2>3
  <2> QED
    BY <2>9, <2>10, <2>11 DEF unexposed, R
<1> QED
  BY <1>1, AnswersStayParsed, KeysStayUnique, SharesStayNumbers, PTL

(* The answers about the own brands that mention a brand hold one mention   *)
(* of it each.                                                             *)
LEMMA AnswersAreMentions ==
    ASSUME RunsOK, NEW w, NEW b \in OwnBrands, NEW O,
           O \in SUBSET {r \in Succeeded(w) : BrandType[r.prompt] = "own_brand"},
           NEW answers, answers = {a \in OwnBrandAnswers(w) :
                                     a.run \in O /\ \E m \in a.named : m.brand = b}
    PROVE  IsFiniteSet(answers) /\ Cardinality(answers) = SizeOf(b, O)
<1> DEFINE named(r) == {m \in MentionRows(w) : m.run = r /\ m.brand \in OwnBrands}
           f == [m \in MentionsOf(b, O) |-> [run |-> m.run, named |-> named(m.run)]]
<1>1. O \in SUBSET Run /\ O \in SUBSET Succeeded(w)
  BY DEF Succeeded, RunsOf
<1>2. IsFiniteSet(MentionsOf(b, O))
  BY <1>1, SizesAreNumbers
<1>3. \A m : m \in MentionsOf(b, O) <=> m \in MentionRows(w) /\ m.run \in O /\ m.brand = b
  BY <1>1, MentionsOfPart DEF MentionsOf, MentionRows
<1>4. \A r \in O : [run |-> r, named |-> named(r)] \in OwnBrandAnswers(w)
  BY DEF OwnBrandAnswers
<1>5. \A a \in OwnBrandAnswers(w) : a = [run |-> a.run, named |-> named(a.run)]
  BY DEF OwnBrandAnswers
<1>6. \A r : [run |-> r, named |-> named(r)].run = r /\ [run |-> r, named |-> named(r)].named = named(r)
  OBVIOUS
<1>7. \A m \in MentionsOf(b, O) : m \in named(m.run)
  BY <1>3
<1>8. \A r : \A m \in named(r) : m \in MentionRows(w) /\ m.run = r
  OBVIOUS
<1> HIDE DEF named
<1>9. f \in [MentionsOf(b, O) -> answers]
  <2> SUFFICES ASSUME NEW m \in MentionsOf(b, O)
               PROVE  [run |-> m.run, named |-> named(m.run)] \in answers
    OBVIOUS
  <2> QED
    BY <1>3, <1>4, <1>6, <1>7
<1>10. f \in Injection(MentionsOf(b, O), answers)
  <2> SUFFICES ASSUME NEW l \in MentionsOf(b, O), NEW m \in MentionsOf(b, O), f[l] = f[m]
               PROVE  l = m
    BY <1>9 DEF Injection, IsInjective
  <2>1. l.run = m.run
    BY <1>6
  <2>2. l.brand = m.brand /\ l \in Mentions(O) /\ m \in Mentions(O)
    BY DEF MentionsOf
  <2> QED
    BY <1>1, <2>1, <2>2, OneMentionPerBrand
<1>11. f \in Surjection(MentionsOf(b, O), answers)
  <2> SUFFICES ASSUME NEW a \in answers
               PROVE  \E m \in MentionsOf(b, O) : f[m] = a
    BY <1>9 DEF Surjection
  <2>1. a \in OwnBrandAnswers(w) /\ a.run \in O
    OBVIOUS
  <2>2. PICK m \in a.named : m.brand = b
    OBVIOUS
  <2>3. m \in named(a.run)
    BY <1>5, <1>6, <2>1, <2>2
  <2>4. m \in MentionsOf(b, O) /\ m.run = a.run
    BY <1>3, <1>8, <2>1, <2>2, <2>3
  <2> QED
    BY <1>5, <2>1, <2>4
<1> HIDE DEF f
<1> QED
  BY <1>2, <1>10, <1>11, FS_Surjection DEF SizeOf

(* What the channels of a brand show is what their answers hold, for any    *)
(* number of answers and brands (brand_overview_service.py, aggregation.py).*)
THEOREM SharesAreEarned == Spec => []ShareIsEarned
<1>1. RunsOK /\ BrandsOK => ShareIsEarned
  <2> SUFFICES ASSUME RunsOK, BrandsOK, NEW w \in Weeks, NEW b \in OwnBrands, IsFresh(w),
                      NEW v \in activeProviders
               PROVE  LET shown == BrandOverview(b, w)
                          answers == {a \in OwnBrandAnswers(w) :
                                        /\ a.run.provider = v
                                        /\ \E m \in a.named : m.brand = b}
                          more == shown[v].mentions > Cardinality(answers)
                      IN  /\ shown[v].sov > 0 => more
                          /\ more /\ ShowsEveryMention(w, v) => shown[v].sov > 0
    BY DEF ShareIsEarned
  <2> DEFINE answers == {a \in OwnBrandAnswers(w) :
                           a.run.provider = v /\ \E m \in a.named : m.brand = b}
             R == RunScope(w, v)
             O == {r \in Succeeded(w) : BrandType[r.prompt] = "own_brand" /\ r.provider = v}
             mine == {m \in MentionRows(w) : m.brand = b /\ m.run.provider = v}
             shown == BrandOverview(b, w)[v]
  <2>1. v # None
    BY TablesAssumption DEF BrandsOK
  <2>2. R \in SUBSET Run /\ O \in SUBSET Run /\ Succeeded(w) \in SUBSET Run
    BY DEF RunScope, Succeeded, RunsOf
  <2>3. \A r : r \in R <=> /\ r \in Succeeded(w) /\ r.provider = v
                           /\ BrandType[r.prompt] # "own_brand"
    BY <2>1 DEF RunScope, IsMarketQuestion
  <2>4. shown.sov = Sov(b, R)
    <3>1. b \in Known
      BY DEF OwnBrands, Known
    <3>2. PICK rows : rows = {s \in ScopeRows(w, v) : s.brand = b}
      OBVIOUS
    <3>3. rows # {} /\ (CHOOSE s \in rows : TRUE).metrics.sov = Sov(b, RunScope(w, v))
      BY <3>1, <3>2, ShareOfFreshRow
    <3> QED
      BY <3>2, <3>3 DEF BrandOverview
  <2>5. shown.mentions = Cardinality(mine)
    BY DEF BrandOverview
  <2>6. mine = MentionsOf(b, R) \cup MentionsOf(b, O)
    <3>1. \A m \in MentionRows(w) : m.run \in Succeeded(w)
      BY <2>2, MentionsAreMentions DEF MentionRows, IsMention
    <3>2. \A m : m \in MentionsOf(b, R) <=> m \in MentionRows(w) /\ m.run \in R /\ m.brand = b
      BY <2>3, MentionsOfPart DEF MentionRows, MentionsOf
    <3>3. \A m : m \in MentionsOf(b, O) <=> m \in MentionRows(w) /\ m.run \in O /\ m.brand = b
      BY MentionsOfPart DEF MentionRows, MentionsOf
    <3>4. \A m : m \in mine <=> m \in MentionsOf(b, R) \/ m \in MentionsOf(b, O)
      BY <2>3, <3>1, <3>2, <3>3
    <3> HIDE DEF mine, R, O
    <3> QED
      BY <3>4
  <2>7. MentionsOf(b, R) \cap MentionsOf(b, O) = {}
    <3>1. R \cap O = {}
      BY <2>3
    <3>2. /\ \A m \in MentionsOf(b, R) : m.run \in R
          /\ \A m \in MentionsOf(b, O) : m.run \in O
      BY <2>2, MentionsAreMentions DEF MentionsOf, IsMention
    <3> QED
      BY <3>1, <3>2
  <2>8. Cardinality(answers) = SizeOf(b, O)
    <3>1. \A a \in OwnBrandAnswers(w) : a.run.provider = v <=> a.run \in O
      BY DEF OwnBrandAnswers
    <3>2. answers = {a \in OwnBrandAnswers(w) : a.run \in O /\ \E m \in a.named : m.brand = b}
      BY <3>1
    <3>3. O \in SUBSET {r \in Succeeded(w) : BrandType[r.prompt] = "own_brand"}
      OBVIOUS
    <3> HIDE DEF O, answers
    <3> QED
      BY <3>2, <3>3, AnswersAreMentions
  <2> HIDE DEF answers, R, O, mine, shown
  <2>9. Cardinality(mine) = SizeOf(b, R) + SizeOf(b, O)
    <3>1. /\ IsFiniteSet(MentionsOf(b, R)) /\ IsFiniteSet(MentionsOf(b, O))
          /\ SizeOf(b, R) \in Nat /\ SizeOf(b, O) \in Nat
      BY <2>2, SizesAreNumbers
    <3>2. Cardinality(mine) = SizeOf(b, R) + SizeOf(b, O) - Cardinality({})
      BY <2>6, <2>7, <3>1, FS_Union DEF SizeOf
    <3> QED
      BY <3>1, <3>2, FS_EmptySet
  <2>10. SizeOf(b, R) \in Nat /\ SizeOf(b, O) \in Nat /\ Sov(b, R) \in Nat
    BY <2>2, SizesAreNumbers, ShareIsNumber
  <2>11. shown.mentions > Cardinality(answers) <=> SizeOf(b, R) # 0
    BY <2>5, <2>8, <2>9, <2>10
  <2>12. /\ Sov(b, R) # 0 => SizeOf(b, R) # 0
         /\ SizeOf(b, R) # 0 /\ Size(R) <= MostShown => Sov(b, R) # 0
    BY <2>2, Shown
  <2>13. ShowsEveryMention(w, v) <=> Size(R) <= MostShown
    BY DEF ShowsEveryMention, Size, R
  <2>14. shown.sov > 0 <=> Sov(b, R) # 0
    BY <2>4, <2>10
  <2> QED
    BY <2>11, <2>12, <2>13, <2>14 DEF shown, answers
<1> QED
  BY <1>1, AnswersStayParsed, PTL

-----------------------------------------------------------------------------
(***************************************************************************)
(* The share over all providers is between those at each of them.          *)
(***************************************************************************)
IsRounded(share, n, t) ==
    /\ share \in Nat
    /\ t = 0 => share = 0
    /\ t # 0 => /\ 2 * (t * share) <= 200000 * n + t
               /\ 200000 * n < 2 * (t * share) + t

(* Shares of n of t, by part. *)
AreShares(share, n, t, V) ==
    \A v \in V : /\ n[v] \in Nat /\ t[v] \in Nat /\ n[v] <= t[v]
                 /\ IsRounded(share[v], n[v], t[v])

(* If every share were larger than the whole one, the sums would be too. *)
LEMMA SomeShareIsLow ==
    ASSUME NEW V, IsFiniteSet(V), NEW share, NEW n, NEW t, AreShares(share, n, t, V),
           NEW g, IsRounded(g, SumFunctionOnSet(n, V), SumFunctionOnSet(t, V)),
           SumFunctionOnSet(t, V) # 0
    PROVE  \E v \in V : t[v] # 0 /\ share[v] <= g
<1> DEFINE N == SumFunctionOnSet(n, V)
           T == SumFunctionOnSet(t, V)
           c == 2 * g + 1
           low == [v \in V |-> c * t[v]]
           high == [v \in V |-> 200000 * n[v]]
<1>1. \A v \in V : n[v] \in Int /\ t[v] \in Int
  BY DEF AreShares
<1>2. N \in Int /\ T \in Int
  BY <1>1, SumType
<1>3. c \in Int /\ g \in Nat
  BY DEF IsRounded
<1>4. \A v \in V : low[v] = c * t[v] /\ high[v] = 200000 * n[v]
  OBVIOUS
<1>5. 200000 * N < 2 * (T * g) + T
  BY DEF IsRounded
<1> HIDE DEF N, T, c, low, high
<1> SUFFICES ASSUME \A v \in V : t[v] # 0 => ~ share[v] <= g PROVE FALSE
  OBVIOUS
<1>6. ASSUME NEW v \in V
      PROVE  low[v] \in Int /\ high[v] \in Int /\ low[v] <= high[v]
  <2>1. PICK x \in Nat, y \in Nat, s \in Nat : x = n[v] /\ y = t[v] /\ s = share[v]
    BY DEF AreShares, IsRounded
  <2>2. x <= y /\ (y # 0 => 2 * (y * s) <= 200000 * x + y)
    BY <2>1 DEF AreShares, IsRounded
  <2>3. c * y = 2 * (y * g) + y
    BY <1>3 DEF c
  <2>4. c * y <= 200000 * x
    <3>1. CASE y = 0
      BY <2>3, <3>1, <1>3
    <3>2. CASE y # 0
      <4>1. s >= g + 1
        BY <1>3, <2>1, <3>2
      <4>2. PICK d \in Nat : s = g + 1 + d
        <5>1. s - g - 1 \in Nat /\ s = g + 1 + (s - g - 1)
          BY <1>3, <4>1
        <5> QED
          BY <5>1
      <4>3. y * s = y * g + y + y * d /\ y * g \in Nat /\ y * d \in Nat
        BY <1>3, <4>2
      <4> QED
        BY <2>2, <2>3, <3>2, <4>3
    <3> QED
      BY <3>1, <3>2
  <2>5. c * y \in Int /\ 200000 * x \in Int
    BY <1>3
  <2> QED
    BY <1>4, <2>1, <2>4, <2>5
<1>7. SumFunctionOnSet(low, V) <= SumFunctionOnSet(high, V)
  BY <1>6, SumMonotonic
<1>8. SumFunctionOnSet(low, V) = c * T
  BY <1>1, <1>3, <1>4, SumOfMultiples DEF T
<1>9. SumFunctionOnSet(high, V) = 200000 * N
  BY <1>1, <1>4, 200000 \in Int, SumOfMultiples DEF N
<1>10. c * T = 2 * (T * g) + T
  BY <1>2, <1>3 DEF c
<1>11. T * g \in Int
  BY <1>2, <1>3
<1> QED
  BY <1>2, <1>5, <1>7, <1>8, <1>9, <1>10, <1>11

LEMMA SomeShareIsHigh ==
    ASSUME NEW V, IsFiniteSet(V), NEW share, NEW n, NEW t, AreShares(share, n, t, V),
           NEW g, IsRounded(g, SumFunctionOnSet(n, V), SumFunctionOnSet(t, V)),
           SumFunctionOnSet(t, V) # 0
    PROVE  \E v \in V : t[v] # 0 /\ g <= share[v]
<1> DEFINE N == SumFunctionOnSet(n, V)
           T == SumFunctionOnSet(t, V)
           c == 2 * g - 1
           high == [v \in V |-> c * t[v]]
           low == [v \in V |-> 200000 * n[v]]
<1>1. \A v \in V : n[v] \in Int /\ t[v] \in Int
  BY DEF AreShares
<1>2. N \in Int /\ T \in Int
  BY <1>1, SumType
<1>3. c \in Int /\ g \in Nat
  BY DEF IsRounded
<1>4. \A v \in V : high[v] = c * t[v] /\ low[v] = 200000 * n[v]
  OBVIOUS
<1>5. 2 * (T * g) <= 200000 * N + T
  BY DEF IsRounded
<1>6. PICK u \in V : t[u] # 0
  <2> SUFFICES ASSUME \A v \in V : t[v] = 0 PROVE FALSE
    OBVIOUS
  <2>1. T = 0 * Cardinality(V)
    BY 0 \in Int, SumOfConstant
  <2> QED
    BY <2>1, FS_CardinalityType
<1> HIDE DEF N, T, c, low, high
<1> SUFFICES ASSUME \A v \in V : t[v] # 0 => ~ g <= share[v] PROVE FALSE
  OBVIOUS
<1>7. ASSUME NEW v \in V
      PROVE  /\ low[v] \in Int /\ high[v] \in Int /\ low[v] <= high[v]
             /\ t[v] # 0 => low[v] < high[v]
  <2>1. PICK x \in Nat, y \in Nat, s \in Nat : x = n[v] /\ y = t[v] /\ s = share[v]
    BY DEF AreShares, IsRounded
  <2>2. x <= y /\ (y # 0 => 200000 * x < 2 * (y * s) + y)
    BY <2>1 DEF AreShares, IsRounded
  <2>3. c * y = 2 * (y * g) - y
    BY <1>3 DEF c
  <2>4. CASE y = 0
    <3>1. x = 0
      BY <2>2, <2>4
    <3>2. c * 0 = 0 /\ 200000 * 0 = 0
      BY <1>3
    <3>3. t[v] = 0 /\ n[v] = 0
      BY <2>1, <2>4, <3>1
    <3>4. high[v] = c * 0 /\ low[v] = 200000 * 0
      BY <1>4, <3>3
    <3> QED
      BY <3>2, <3>3, <3>4
  <2>5. CASE y # 0
    <3>1. g >= s + 1
      BY <1>3, <2>1, <2>5
    <3>2. PICK d \in Nat : g = s + 1 + d
      <4>1. g - s - 1 \in Nat /\ g = s + 1 + (g - s - 1)
        BY <1>3, <3>1
      <4> QED
        BY <4>1
    <3>3. y * g = y * s + y + y * d /\ y * s \in Nat /\ y * d \in Nat
      BY <3>2
    <3>4. 200000 * x < c * y /\ c * y \in Int /\ 200000 * x \in Int
      BY <2>2, <2>3, <2>5, <3>3
    <3> QED
      BY <1>4, <2>1, <3>4
  <2> QED
    BY <2>4, <2>5
<1>8. SumFunctionOnSet(low, V) < SumFunctionOnSet(high, V)
  BY <1>6, <1>7, SumStrictlyMonotonic
<1>9. SumFunctionOnSet(high, V) = c * T
  BY <1>1, <1>3, <1>4, SumOfMultiples DEF T
<1>10. SumFunctionOnSet(low, V) = 200000 * N
  BY <1>1, <1>4, 200000 \in Int, SumOfMultiples DEF N
<1>11. c * T = 2 * (T * g) - T
  BY <1>2, <1>3 DEF c
<1>12. T * g \in Int
  BY <1>2, <1>3
<1> QED
  BY <1>2, <1>5, <1>8, <1>9, <1>10, <1>11, <1>12

(* Some runs, each in one part. *)
IsSplit(part, V, Q) ==
    /\ \A v \in V : part[v] \in SUBSET Q
    /\ \A r \in Q : \E v \in V : r \in part[v]
    /\ \A u, v \in V : u # v => part[u] \cap part[v] = {}

LEMMA SplitRuns ==
    ASSUME NEW Q, IsFiniteSet(Q), NEW V, IsFiniteSet(V), NEW part, IsSplit(part, V, Q),
           NEW count, \A v \in V : count[v] = Cardinality(part[v])
    PROVE  Cardinality(Q) = SumFunctionOnSet(count, V)
<1>1. \A v \in V : IsFiniteSet(part[v])
  BY FS_Subset DEF IsSplit
<1>2. UNION {part[v] : v \in V} = Q
  BY DEF IsSplit
<1>3. \A u, v \in V : u # v => part[u] \cap part[v] = {}
  BY DEF IsSplit
<1> QED
  BY <1>1, <1>2, <1>3, SumOfCardinalities

(* Mentions, all or those of a brand, are split with their runs. *)
LEMMA SplitMentions ==
    ASSUME RunsOK, NEW Q \in SUBSET Run, NEW V, IsFiniteSet(V), NEW part,
           IsSplit(part, V, Q), NEW b,
           NEW t, \A v \in V : t[v] = Size(part[v]),
           NEW n, \A v \in V : n[v] = SizeOf(b, part[v])
    PROVE  /\ Size(Q) = SumFunctionOnSet(t, V)
           /\ SizeOf(b, Q) = SumFunctionOnSet(n, V)
<1> DEFINE all == [v \in V |-> Mentions(part[v])]
           mine == [v \in V |-> MentionsOf(b, part[v])]
<1>1. \A v \in V : part[v] \in SUBSET Q /\ part[v] \in SUBSET Run
  BY DEF IsSplit
<1>2. \A v \in V : \A m : m \in Mentions(part[v]) <=> m \in Mentions(Q) /\ m.run \in part[v]
  BY <1>1, MentionsOfPart
<1>3. \A m \in Mentions(Q) : m.run \in Q
  BY MentionsAreMentions DEF IsMention
<1>4. \A v \in V : all[v] = Mentions(part[v]) /\ mine[v] = {m \in all[v] : m.brand = b}
  BY DEF MentionsOf
<1>5. \A v \in V : IsFiniteSet(all[v]) /\ t[v] = Cardinality(all[v])
  BY <1>1, MentionsAreFinite DEF Size
<1>6. \A v \in V : IsFiniteSet(mine[v]) /\ n[v] = Cardinality(mine[v])
  BY <1>1, SizesAreNumbers DEF SizeOf
<1> HIDE DEF all, mine
<1>7. IsSplit(all, V, Mentions(Q))
  BY <1>2, <1>3, <1>4 DEF IsSplit
<1>8. IsSplit(mine, V, MentionsOf(b, Q))
  BY <1>4, <1>7 DEF IsSplit, MentionsOf
<1>9. IsFiniteSet(Mentions(Q)) /\ IsFiniteSet(MentionsOf(b, Q))
  BY MentionsAreFinite, SizesAreNumbers
<1>10. Cardinality(Mentions(Q)) = SumFunctionOnSet(t, V)
  BY <1>5, <1>7, <1>9, SplitRuns
<1>11. Cardinality(MentionsOf(b, Q)) = SumFunctionOnSet(n, V)
  BY <1>6, <1>8, <1>9, SplitRuns
<1> QED
  BY <1>10, <1>11 DEF Size, SizeOf

LEMMA WholeShare ==
    ASSUME RunsOK, NEW Q \in SUBSET Run, NEW V, IsFiniteSet(V), NEW part,
           IsSplit(part, V, Q), NEW b
    PROVE  IF \A v \in V : Size(part[v]) = 0 THEN Sov(b, Q) = 0
           ELSE \E l, h \in V : /\ Size(part[l]) # 0 /\ Sov(b, part[l]) <= Sov(b, Q)
                                /\ Size(part[h]) # 0 /\ Sov(b, Q) <= Sov(b, part[h])
<1> DEFINE t == [v \in V |-> Size(part[v])]
           n == [v \in V |-> SizeOf(b, part[v])]
           share == [v \in V |-> Sov(b, part[v])]
           T == SumFunctionOnSet(t, V)
           N == SumFunctionOnSet(n, V)
           g == Sov(b, Q)
<1>1. \A v \in V : /\ t[v] = Size(part[v]) /\ n[v] = SizeOf(b, part[v])
                   /\ share[v] = Sov(b, part[v]) /\ part[v] \in SUBSET Run
  BY DEF IsSplit
<1> HIDE DEF t, n, share
<1>2. Size(Q) = T /\ SizeOf(b, Q) = N
  BY <1>1, SplitMentions
<1>3. ASSUME NEW R \in SUBSET Run
      PROVE  /\ SizeOf(b, R) \in Nat /\ Size(R) \in Nat /\ SizeOf(b, R) <= Size(R)
             /\ IsRounded(Sov(b, R), SizeOf(b, R), Size(R))
  <2>1. IsRounded(Sov(b, R), SizeOf(b, R), Size(R))
    <3>1. PICK k, of, whole : k = Sov(b, R) /\ of = SizeOf(b, R) /\ whole = Size(R)
      OBVIOUS
    <3>2. /\ k \in Nat
          /\ whole = 0 => k = 0
          /\ whole # 0 => /\ 2 * (whole * k) <= 200000 * of + whole
                          /\ 200000 * of < 2 * (whole * k) + whole
      BY <1>3, <3>1, SovIsRounded
    <3>3. IsRounded(k, of, whole)
      BY <3>2 DEF IsRounded
    <3> QED
      BY <3>1, <3>3
  <2> QED
    BY <1>3, <2>1, SizesAreNumbers
<1>4. AreShares(share, n, t, V)
  BY <1>1, <1>3 DEF AreShares
<1>5. IsRounded(g, N, T)
  BY <1>2, <1>3
<1> HIDE DEF T, N, g
<1>6. CASE \A v \in V : Size(part[v]) = 0
  <2>1. T = 0 * Cardinality(V)
    BY <1>1, <1>6, 0 \in Int, SumOfConstant DEF T
  <2>2. T = 0
    BY <2>1, FS_CardinalityType
  <2> QED
    BY <1>5, <1>6, <2>2 DEF IsRounded, g
<1>7. CASE ~ \A v \in V : Size(part[v]) = 0
  <2>1. PICK u \in V : Size(part[u]) # 0
    BY <1>7
  <2>2. T # 0
    <3>1. Mentions(part[u]) \subseteq Mentions(Q)
      BY <1>1, MentionsOfPart DEF IsSplit
    <3>2. Size(part[u]) <= Size(Q)
      BY <3>1, MentionsAreFinite, FS_Subset DEF Size
    <3> QED
      BY <1>1, <1>2, <1>3, <2>1, <3>2
  <2>3. PICK l \in V : t[l] # 0 /\ share[l] <= g
    BY <1>4, <1>5, <2>2, SomeShareIsLow DEF N, T
  <2>4. PICK h \in V : t[h] # 0 /\ g <= share[h]
    BY <1>4, <1>5, <2>2, SomeShareIsHigh DEF N, T
  <2> QED
    BY <1>1, <1>7, <2>3, <2>4 DEF g
<1> QED
  BY <1>6, <1>7

(* The share of a brand over all providers is between those at each of them,*)
(* and counts their runs (aggregation.py).                                 *)
THEOREM SharesLieBetween == Spec => []WholeIsBetweenParts
<1>1. RunsOK /\ BrandsOK => WholeIsBetweenParts
  <2> SUFFICES ASSUME RunsOK, BrandsOK, NEW w \in Weeks, IsFresh(w),
                      {r.provider : r \in Succeeded(w)} \subseteq activeProviders,
                      NEW s \in ScopeRows(w, None)
               PROVE  LET parts == {x \in RowsOf(w) : x.brand = s.brand /\ x.provider # None}
                          shares == {x.metrics.sov : x \in {x \in parts :
                                        Mentions(RunScope(w, x.provider)) # {}}}
                      IN  /\ SumOver(parts, LAMBDA x : x.totalRuns) = s.totalRuns
                          /\ IF shares = {} THEN s.metrics.sov = 0
                             ELSE \E low, high \in shares : s.metrics.sov \in low .. high
    BY DEF WholeIsBetweenParts
  <2> DEFINE V == activeProviders
             Q == RunScope(w, None)
             b == s.brand
             part == [v \in V |-> RunScope(w, v)]
             row == [v \in V |-> SnapshotRow(b, w, v)]
             count == [v \in V |-> Cardinality(part[v])]
             parts == {x \in RowsOf(w) : x.brand = b /\ x.provider # None}
             shares == {x.metrics.sov : x \in {x \in parts :
                           Mentions(RunScope(w, x.provider)) # {}}}
             f == [x \in parts |-> x.totalRuns]
  <2>1. IsFiniteSet(V) /\ None \notin V
    BY TablesAssumption, FS_Subset DEF BrandsOK
  <2>2. s = SnapshotRow(b, w, None) /\ b \in Known
    <3>1. s \in ComputeSnapshots(w) /\ s.provider = None
      BY DEF ScopeRows, IsFresh
    <3>2. PICK c \in Known : \E scope \in V \cup {None} : s = SnapshotRow(c, w, scope)
      BY <3>1, ComputedRows
    <3> QED
      BY <3>1, <3>2, RowFields
  <2>3. s.totalRuns = Cardinality(Q) /\ s.metrics.sov = Sov(b, Q)
    BY <2>2, RowFields
  <2>4. Q \in SUBSET Run /\ IsFiniteSet(Q)
    BY ScopesAreRuns, TablesAssumption, FS_Subset
  <2>5. IsSplit(part, V, Q)
    <3>1. \A r : r \in Q <=> r \in Succeeded(w) /\ IsMarketQuestion(r.prompt)
      BY DEF RunScope
    <3>2. \A v \in V : \A r : r \in part[v] <=> r \in Q /\ r.provider = v
      BY <2>1 DEF RunScope
    <3>3. \A r \in Q : r.provider \in V
      BY <3>1
    <3> HIDE DEF V, Q, part
    <3> QED
      BY <3>2, <3>3 DEF IsSplit
  <2>6. \A v \in V : /\ part[v] = RunScope(w, v) /\ row[v] = SnapshotRow(b, w, v)
                     /\ count[v] = Cardinality(part[v])
    OBVIOUS
  <2>7. \A x : x \in parts <=> \E v \in V : x = row[v]
    <3>1. \A x : x \in parts <=> /\ x \in ComputeSnapshots(w)
                                /\ x.brand = b /\ x.provider # None
      BY DEF IsFresh
    <3> HIDE DEF parts, row, V
    <3>2. \A v \in V : row[v] \in parts
      BY <2>1, <2>2, <2>6, <3>1, ComputedRows, RowFields DEF V
    <3>3. ASSUME NEW x \in parts PROVE \E v \in V : x = row[v]
      <4>1. PICK c \in Known : \E scope \in V \cup {None} : x = SnapshotRow(c, w, scope)
        BY <3>1, ComputedRows DEF V
      <4>2. PICK scope \in V \cup {None} : x = SnapshotRow(c, w, scope)
        BY <4>1
      <4>3. c = b /\ scope # None
        BY <3>1, <4>2, RowFields
      <4> QED
        BY <2>6, <4>2, <4>3
    <3> QED
      BY <3>2, <3>3
  <2>8. \A v \in V : /\ row[v].provider = v /\ row[v].totalRuns = count[v]
                     /\ row[v].metrics.sov = Sov(b, part[v])
    BY RowFields
  <2>9. SumOver(parts, LAMBDA x : x.totalRuns) = SumFunctionOnSet(f, parts)
    BY DEF SumOver, SumFunction
  <2>10. \A x \in parts : f[x] = x.totalRuns
    OBVIOUS
  <2>11. \A y : y \in shares <=> \E x \in parts : /\ y = x.metrics.sov
                                               /\ Mentions(RunScope(w, x.provider)) # {}
    OBVIOUS
  <2> HIDE DEF V, Q, part, row, count, parts, shares, f, b
  <2>12. SumFunctionOnSet(f, parts) = SumFunctionOnSet(count, V)
    <3>1. parts = {row[v] : v \in V}
      BY <2>7
    <3>2. \A u, v \in V : row[u] = row[v] => u = v
      BY <2>8
    <3>3. \A v \in V : IsFiniteSet(part[v])
      BY <2>4, <2>5, FS_Subset DEF IsSplit
    <3>4. \A v \in V : count[v] \in Int
      BY <2>6, <3>3, FS_CardinalityType
    <3>5. \A v \in V : count[v] \in Int /\ f[row[v]] = count[v]
      BY <2>7, <2>8, <2>10, <3>4
    <3> QED
      BY <2>1, <3>1, <3>2, <3>5, SumRenamed
  <2>13. SumFunctionOnSet(count, V) = Cardinality(Q)
    BY <2>1, <2>4, <2>5, <2>6, SplitRuns
  <2>14. IF \A v \in V : Size(part[v]) = 0 THEN Sov(b, Q) = 0
         ELSE \E l, h \in V : /\ Size(part[l]) # 0 /\ Sov(b, part[l]) <= Sov(b, Q)
                              /\ Size(part[h]) # 0 /\ Sov(b, Q) <= Sov(b, part[h])
    BY <2>1, <2>4, <2>5, WholeShare
  <2>15. \A v \in V : Size(part[v]) # 0 <=> Mentions(RunScope(w, v)) # {}
    <3>1. \A v \in V : IsFiniteSet(Mentions(part[v]))
      BY <2>4, <2>5, MentionsAreFinite DEF IsSplit
    <3> QED
      BY <2>6, <3>1, FS_EmptySet DEF Size
  <2>16. \A y : y \in shares <=> \E v \in V : y = Sov(b, part[v]) /\ Size(part[v]) # 0
    <3>1. \A v \in V : RunScope(w, row[v].provider) = RunScope(w, v)
      BY <2>8
    <3>2. ASSUME NEW v \in V
          PROVE  Mentions(RunScope(w, row[v].provider)) # {} <=> Size(part[v]) # 0
      <4>1. PICK R : R = RunScope(w, v)
        OBVIOUS
      <4>2. RunScope(w, row[v].provider) = R
        BY <3>1, <4>1
      <4>3. Size(part[v]) # 0 <=> Mentions(R) # {}
        BY <2>15, <4>1
      <4> QED
        BY <4>2, <4>3
    <3>3. \A v \in V : row[v] \in parts /\ row[v].metrics.sov = Sov(b, part[v])
      BY <2>7, <2>8
    <3>4. ASSUME NEW y \in shares
          PROVE  \E v \in V : y = Sov(b, part[v]) /\ Size(part[v]) # 0
      <4>1. PICK x \in parts : /\ y = x.metrics.sov
                               /\ Mentions(RunScope(w, x.provider)) # {}
        BY <2>11
      <4>2. PICK v \in V : x = row[v]
        BY <2>7
      <4> QED
        BY <3>2, <3>3, <4>1, <4>2
    <3>5. ASSUME NEW v \in V, Size(part[v]) # 0 PROVE Sov(b, part[v]) \in shares
      BY <2>11, <3>2, <3>3, <3>5
    <3> QED
      BY <3>4, <3>5
  <2>17. \A v \in V : Sov(b, part[v]) \in Nat
    BY <2>4, <2>5, ShareIsNumber DEF IsSplit
  <2>18. Sov(b, Q) \in Nat
    BY <2>4, ShareIsNumber
  <2>19. IF shares = {} THEN s.metrics.sov = 0
         ELSE \E low, high \in shares : s.metrics.sov \in low .. high
    <3>1. CASE shares = {}
      BY <2>3, <2>14, <2>16, <3>1
    <3>2. CASE shares # {}
      <4>1. PICK l \in V, h \in V :
                 /\ Size(part[l]) # 0 /\ Sov(b, part[l]) <= Sov(b, Q)
                 /\ Size(part[h]) # 0 /\ Sov(b, Q) <= Sov(b, part[h])
        BY <2>14, <2>16, <3>2
      <4>2. Sov(b, part[l]) \in shares /\ Sov(b, part[h]) \in shares
        BY <2>16, <4>1
      <4>3. s.metrics.sov \in Sov(b, part[l]) .. Sov(b, part[h])
        BY <2>3, <2>17, <2>18, <4>1
      <4> QED
        BY <3>2, <4>2, <4>3
    <3> QED
      BY <3>1, <3>2
  <2> QED
    BY <2>3, <2>9, <2>12, <2>13, <2>19 DEF parts, shares, b
<1> QED
  BY <1>1, AnswersStayParsed, PTL

-----------------------------------------------------------------------------
(***************************************************************************)
(* The steps of this module are steps of the worker: a run of the measured *)
(* weeks lives as RunLifecycle says, the specification that the batch      *)
(* pipeline implements, and is executed exactly while it is running.  The  *)
(* runs of the weeks before start with their results and are left out.     *)
(***************************************************************************)
NewRuns == Run \ EarlierRuns

StatusName == [absent |-> "ABSENT", pending |-> "PENDING", running |-> "RUNNING",
               success |-> "SUCCESS", failed |-> "FAILED"]

Standing == [r \in NewRuns |-> StatusName[run[r].status]]

BeingExecuted == {r \in NewRuns : run[r].status = "running"}

Lifecycle == INSTANCE RunLifecycle
                 WITH Run <- NewRuns, status <- Standing, executing <- BeingExecuted

(* The runs in S move from one status to another. *)
Moves(S, from, to) ==
    /\ \A r \in S : run[r].status = from
    /\ \A r \in Run : run'[r].status = IF r \in S THEN to ELSE run[r].status

LEMMA StandingOf ==
    ASSUME NEW r \in NewRuns
    PROVE  /\ Standing[r] = StatusName[run[r].status]
           /\ Standing'[r] = StatusName[run'[r].status]
           /\ r \in BeingExecuted <=> run[r].status = "running"
           /\ r \in BeingExecuted' <=> run'[r].status = "running"
  BY DEF Standing, BeingExecuted

LEMMA MovesStandings ==
    ASSUME NEW S, NEW from, NEW to, to \in DOMAIN StatusName, Moves(S, from, to)
    PROVE  LET N == S \cap NewRuns
           IN  /\ N \subseteq NewRuns
               /\ Lifecycle!Move(N, StatusName[to])
               /\ from \in DOMAIN StatusName => N \subseteq Lifecycle!In(StatusName[from])
<1> DEFINE N == S \cap NewRuns
<1>1. NewRuns \subseteq Run
  BY DEF NewRuns
<1>2. ASSUME NEW r \in NewRuns
      PROVE  Standing'[r] = IF r \in N THEN StatusName[to] ELSE Standing[r]
  BY <1>1, <1>2, StandingOf DEF Moves
<1>3. Standing' = [r \in NewRuns |-> Standing'[r]]
  BY DEF Standing
<1>4. Standing' = [r \in NewRuns |-> IF r \in N THEN StatusName[to] ELSE Standing[r]]
  BY <1>2, <1>3
<1>5. \A r \in N : Standing[r] = StatusName[from]
  BY StandingOf DEF Moves
<1> QED
  BY <1>4, <1>5 DEF Lifecycle!Move, Lifecycle!In

LEMMA ExecutingMoves ==
    ASSUME NEW S, NEW from, NEW to, Moves(S, from, to)
    PROVE  LET N == S \cap NewRuns
           IN  /\ to = "running" => BeingExecuted' = BeingExecuted \cup N
               /\ from = "running" /\ to # "running" => BeingExecuted' = BeingExecuted \ N
               /\ from # "running" /\ to # "running" => BeingExecuted' = BeingExecuted
<1>1. NewRuns \subseteq Run
  BY DEF NewRuns
<1>2. /\ \A r \in S : run[r].status = from
      /\ \A r \in NewRuns : run'[r].status = IF r \in S THEN to ELSE run[r].status
  BY <1>1 DEF Moves
<1> QED
  BY <1>2 DEF BeingExecuted

LEMMA RowsHaveStatus ==
    ASSUME RunsOK, NEW r \in Run
    PROVE  /\ run[r].status \in {"absent", "pending", "running", "success", "failed"}
           /\ \A s, stamp, list :
                 /\ [run[r] EXCEPT !.status = s].status = s
                 /\ [run[r] EXCEPT !.status = s, !.list = list].status = s
                 /\ [run[r] EXCEPT !.status = s, !.asOf = stamp, !.list = list].status = s
           /\ \A answer : Executed(run[r], answer).status \in {"success", "failed"}
<1>1. PICK row : row = run[r]
  OBVIOUS
<1>2. row = [f \in Fields |-> row[f]]
  BY <1>1 DEF RunsOK, RowOK, IsRow
<1>3. row.status \in {"absent", "pending", "running", "success", "failed"}
  BY <1>1 DEF RunsOK, RowOK
<1>4. \A s, stamp, list :
         /\ [row EXCEPT !.status = s].status = s
         /\ [row EXCEPT !.status = s, !.list = list].status = s
         /\ [row EXCEPT !.status = s, !.asOf = stamp, !.list = list].status = s
  BY <1>2 DEF Fields
<1>5. ASSUME NEW answer PROVE Executed(row, answer).status \in {"success", "failed"}
  <2>1. \A m, c, s : /\ [row EXCEPT !.status = s, !.raw = answer, !.list = None].status = s
                     /\ [row EXCEPT !.status = s, !.raw = answer, !.list = None,
                                    !.mentions = m, !.citations = c].status = s
    BY <1>2 DEF Fields
  <2> QED
    BY <2>1 DEF Executed
<1> QED
  BY <1>1, <1>3, <1>4, <1>5

(* What each step on runs does to their statuses. *)
LEMMA StepsMoveRuns ==
    ASSUME RunsOK, Next
    PROVE  \/ \E S \in SUBSET Run : \/ Moves(S, "absent", "pending")
                                    \/ Moves(S, "pending", "running")
                                    \/ Moves(S, "failed", "pending")
           \/ \E r \in Run : Moves({r}, "running", "success") \/ Moves({r}, "running", "failed")
           \/ UNCHANGED run
<1>1. CASE TriggerBatch
  <2> DEFINE S == {r \in Run : /\ r.week = ThisWeek
                               /\ run[r].status = "absent"
                               /\ r.prompt \in activePrompts
                               /\ r.provider \in activeProviders}
  <2>1. \A r \in Run :
           run'[r] = IF r \in S THEN [NoRow EXCEPT !.status = "pending"] ELSE run[r]
    BY <1>1 DEF TriggerBatch, SetRuns
  <2>2. [NoRow EXCEPT !.status = "pending"].status = "pending"
    BY DEF NoRow
  <2>3. \A r \in S : run[r].status = "absent"
    OBVIOUS
  <2>4. S \in SUBSET Run
    OBVIOUS
  <2> HIDE DEF S
  <2>5. Moves(S, "absent", "pending")
    BY <2>1, <2>2, <2>3 DEF Moves
  <2> QED
    BY <2>4, <2>5
<1>2. ASSUME NEW week \in Weeks, ResumeBatch(week)
      PROVE  \E S \in SUBSET Run : Moves(S, "failed", "pending")
  <2> DEFINE S == {r \in RunsOf(week) : run[r].status = "failed"}
  <2>1. \A r \in Run :
           run'[r] = IF r \in S THEN [run[r] EXCEPT !.status = "pending"] ELSE run[r]
    BY <1>2 DEF ResumeBatch, SetRuns
  <2>2. \A r \in Run : [run[r] EXCEPT !.status = "pending"].status = "pending"
    BY RowsHaveStatus
  <2>3. \A r \in S : run[r].status = "failed"
    OBVIOUS
  <2>4. S \in SUBSET Run
    BY DEF RunsOf
  <2> HIDE DEF S
  <2>5. Moves(S, "failed", "pending")
    BY <2>1, <2>2, <2>3 DEF Moves
  <2> QED
    BY <2>4, <2>5
<1>3. ASSUME NEW order \in LoadOrders, Poll(order)
      PROVE  \E S \in SUBSET Run : Moves(S, "pending", "running")
  <2> DEFINE S == {r \in Run : run[r].status = "pending"}
             claimed(r) == [run[r] EXCEPT !.status = "running", !.asOf = edits,
                                          !.list = LoadBrandInfos(order)]
  <2>1. \A r \in Run : run'[r] = IF r \in S THEN claimed(r) ELSE run[r]
    BY <1>3 DEF Poll, SetRuns
  <2>2. \A r \in Run : claimed(r).status = "running"
    BY RowsHaveStatus
  <2>3. \A r \in S : run[r].status = "pending"
    OBVIOUS
  <2>4. S \in SUBSET Run
    OBVIOUS
  <2> HIDE DEF S, claimed
  <2>5. Moves(S, "pending", "running")
    BY <2>1, <2>2, <2>3 DEF Moves
  <2> QED
    BY <2>4, <2>5
<1>4. ASSUME NEW r \in Run, ExecutionFails(r) PROVE Moves({r}, "running", "failed")
  <2> DEFINE ended(x) == [run[x] EXCEPT !.status = "failed", !.list = None]
  <2>1. \A x \in Run : run'[x] = IF x \in {r} THEN ended(x) ELSE run[x]
    BY <1>4 DEF ExecutionFails, SetRuns
  <2>2. ended(r).status = "failed" /\ run[r].status = "running"
    BY <1>4, RowsHaveStatus DEF ExecutionFails
  <2> HIDE DEF ended
  <2> QED
    BY <2>1, <2>2 DEF Moves
<1>5. ASSUME NEW r \in Run, NEW answer, Execute(r, answer)
      PROVE  Moves({r}, "running", "success") \/ Moves({r}, "running", "failed")
  <2>1. \A x \in Run : run'[x] = IF x \in {r} THEN Executed(run[x], answer) ELSE run[x]
    BY <1>5 DEF Execute, SetRuns
  <2>2. run[r].status = "running"
    BY <1>5 DEF Execute
  <2>3. Executed(run[r], answer).status \in {"success", "failed"}
    BY RowsHaveStatus
  <2> QED
    BY <2>1, <2>2, <2>3 DEF Moves
<1> QED
  BY <1>1, <1>2, <1>3, <1>4, <1>5 DEF Next, EditBrand, DeactivatePrompt,
     UpdateLlmProvider, AggregateWeek

LEMMA LifecycleStarts == Init => Lifecycle!Init
<1> SUFFICES ASSUME Init PROVE Lifecycle!Init
  OBVIOUS
<1>1. \A r \in NewRuns : run[r].status = "absent"
  BY DEF Init, NewRuns, NoRow
<1>2. Standing = [r \in NewRuns |-> "ABSENT"]
  BY <1>1 DEF Standing, StatusName
<1>3. BeingExecuted = {}
  BY <1>1 DEF BeingExecuted
<1> QED
  BY <1>2, <1>3 DEF Lifecycle!Init

LEMMA NamesOfStatuses ==
    /\ DOMAIN StatusName = {"absent", "pending", "running", "success", "failed"}
    /\ StatusName["absent"] = "ABSENT" /\ StatusName["pending"] = "PENDING"
    /\ StatusName["running"] = "RUNNING" /\ StatusName["success"] = "SUCCESS"
    /\ StatusName["failed"] = "FAILED"
  BY DEF StatusName

LEMMA LifecycleSteps ==
    ASSUME RunsOK, Next
    PROVE  Lifecycle!Next \/ UNCHANGED Lifecycle!vars
<1>1. ASSUME NEW S \in SUBSET Run, Moves(S, "absent", "pending") PROVE Lifecycle!Next
  <2> DEFINE N == S \cap NewRuns
  <2>1. /\ N \in SUBSET NewRuns /\ Lifecycle!Move(N, "PENDING")
        /\ N \subseteq Lifecycle!In("ABSENT")
    <3>1. PICK was, new : was = "absent" /\ new = "pending"
      OBVIOUS
    <3>2. /\ was \in DOMAIN StatusName /\ StatusName[was] = "ABSENT"
          /\ new \in DOMAIN StatusName /\ StatusName[new] = "PENDING"
      BY <3>1, NamesOfStatuses
    <3>3. Moves(S, was, new)
      BY <1>1, <3>1
    <3>4. Lifecycle!Move(N, StatusName[new]) /\ N \subseteq Lifecycle!In(StatusName[was])
      BY <3>2, <3>3, MovesStandings
    <3> QED
      BY <3>2, <3>4
  <2>2. BeingExecuted' = BeingExecuted
    BY <1>1, ExecutingMoves
  <2> HIDE DEF N
  <2>3. Lifecycle!Create(N)
    BY <2>1, <2>2 DEF Lifecycle!Create
  <2> QED
    BY <2>1, <2>3 DEF Lifecycle!Next
<1>2. ASSUME NEW S \in SUBSET Run, Moves(S, "pending", "running") PROVE Lifecycle!Next
  <2> DEFINE N == S \cap NewRuns
  <2>1. /\ N \in SUBSET NewRuns /\ Lifecycle!Move(N, "RUNNING")
        /\ N \subseteq Lifecycle!In("PENDING")
    <3>1. PICK was, new : was = "pending" /\ new = "running"
      OBVIOUS
    <3>2. /\ was \in DOMAIN StatusName /\ StatusName[was] = "PENDING"
          /\ new \in DOMAIN StatusName /\ StatusName[new] = "RUNNING"
      BY <3>1, NamesOfStatuses
    <3>3. Moves(S, was, new)
      BY <1>2, <3>1
    <3>4. Lifecycle!Move(N, StatusName[new]) /\ N \subseteq Lifecycle!In(StatusName[was])
      BY <3>2, <3>3, MovesStandings
    <3> QED
      BY <3>2, <3>4
  <2>2. BeingExecuted' = BeingExecuted \cup N
    BY <1>2, ExecutingMoves
  <2> HIDE DEF N
  <2>3. Lifecycle!HandOut(N)
    BY <2>1, <2>2 DEF Lifecycle!HandOut
  <2> QED
    BY <2>1, <2>3 DEF Lifecycle!Next
<1>3. ASSUME NEW S \in SUBSET Run, Moves(S, "failed", "pending") PROVE Lifecycle!Next
  <2> DEFINE N == S \cap NewRuns
  <2>1. /\ N \in SUBSET NewRuns /\ Lifecycle!Move(N, "PENDING")
        /\ N \subseteq Lifecycle!In("FAILED")
    <3>1. PICK was, new : was = "failed" /\ new = "pending"
      OBVIOUS
    <3>2. /\ was \in DOMAIN StatusName /\ StatusName[was] = "FAILED"
          /\ new \in DOMAIN StatusName /\ StatusName[new] = "PENDING"
      BY <3>1, NamesOfStatuses
    <3>3. Moves(S, was, new)
      BY <1>3, <3>1
    <3>4. Lifecycle!Move(N, StatusName[new]) /\ N \subseteq Lifecycle!In(StatusName[was])
      BY <3>2, <3>3, MovesStandings
    <3> QED
      BY <3>2, <3>4
  <2>2. BeingExecuted' = BeingExecuted
    BY <1>3, ExecutingMoves
  <2> HIDE DEF N
  <2>3. Lifecycle!Retry(N)
    BY <2>1, <2>2 DEF Lifecycle!Retry
  <2> QED
    BY <2>1, <2>3 DEF Lifecycle!Next
<1>4. ASSUME NEW r \in Run, NEW s \in {"success", "failed"}, Moves({r}, "running", s)
      PROVE  Lifecycle!Next \/ UNCHANGED Lifecycle!vars
  <2> DEFINE N == {r} \cap NewRuns
             outcome == StatusName[s]
  <2>1. /\ Lifecycle!Move(N, outcome) /\ N \subseteq Lifecycle!In("RUNNING")
        /\ outcome \in {"SUCCESS", "FAILED"}
    BY <1>4, NamesOfStatuses, MovesStandings
  <2>2. BeingExecuted' = BeingExecuted \ N
    BY <1>4, ExecutingMoves
  <2> HIDE DEF outcome
  <2>3. CASE r \in NewRuns
    <3>1. N = {r}
      BY <2>3
    <3>2. r \in BeingExecuted
      BY <1>4, <2>3 DEF Moves, BeingExecuted
    <3>3. Lifecycle!Finish(r, outcome)
      BY <2>1, <2>2, <3>1, <3>2 DEF Lifecycle!Finish
    <3> QED
      BY <2>1, <2>3, <3>3 DEF Lifecycle!Next
  <2>4. CASE r \notin NewRuns
    <3>1. N = {}
      BY <2>4
    <3>2. BeingExecuted' = BeingExecuted
      BY <2>2, <3>1
    <3>3. Standing' = [x \in NewRuns |-> Standing[x]]
      BY <2>1, <3>1 DEF Lifecycle!Move
    <3>4. Standing = [x \in NewRuns |-> Standing[x]]
      BY DEF Standing
    <3> QED
      BY <3>2, <3>3, <3>4 DEF Lifecycle!vars
  <2> QED
    BY <2>3, <2>4
<1>5. CASE UNCHANGED run
  BY <1>5 DEF Lifecycle!vars, Standing, BeingExecuted
<1> QED
  BY <1>1, <1>2, <1>3, <1>4, <1>5, StepsMoveRuns

(* What Measurements simplifies, a claim, an answer or a resume being one  *)
(* step, it simplifies to steps of RunLifecycle: a run of the measured     *)
(* weeks is executed once at a time, its success is final and only its     *)
(* failures are retried (daemon.py, batch_runner.py).                      *)
THEOREM MeasurementsImplementLifecycle == Spec => Lifecycle!Spec
<1>1. RunsOK /\ [Next]_vars => [Lifecycle!Next]_(Lifecycle!vars)
  <2> SUFFICES ASSUME RunsOK, [Next]_vars PROVE Lifecycle!Next \/ UNCHANGED Lifecycle!vars
    OBVIOUS
  <2>1. CASE Next
    BY <2>1, LifecycleSteps
  <2>2. CASE UNCHANGED vars
    BY <2>2 DEF vars, Lifecycle!vars, Standing, BeingExecuted
  <2> QED
    BY <2>1, <2>2
<1> QED
  BY <1>1, LifecycleStarts, AnswersStayParsed, PTL DEF Spec, Lifecycle!Spec
=============================================================================
