---------------------------- MODULE WeekLabels ----------------------------
(***************************************************************************)
(* The labels of weeks.  batch_id and week_label are ISO weeks written     *)
(* "2026-W28"; a label is modelled by its two numbers, and since both are  *)
(* written with a fixed width the order of the strings is the order of the *)
(* pairs.  A date is a number of days counted from Monday 1 January of the *)
(* year 1, so that d % 7 is its weekday and 0 is a Monday.                 *)
(***************************************************************************)
EXTENDS Integers

CONSTANT Days    \* the dates that are looked at

(* There are dates two weeks before. *)
ASSUME DaysAssumption == Days \subseteq Nat /\ \A d \in Days : d >= 14

(* The years day d may belong to. *)
Years(d) == (d \div 366) .. (d \div 365 + 2)

(* 1 January of year y in the proleptic Gregorian calendar. *)
NewYear(y) ==
    365 * (y - 1) + (y - 1) \div 4 - (y - 1) \div 100 + (y - 1) \div 400

(* The Monday of the week that 4 January is in: week 1 of ISO year y. *)
FirstMonday(y) == LET jan4 == NewYear(y) + 3 IN jan4 - (jan4 % 7)

InIsoYear(d, y) == FirstMonday(y) <= d /\ d < FirstMonday(y + 1)

(* date.isocalendar() *)
IsoYear(d) == CHOOSE y \in Years(d) : InIsoYear(d, y)

(* Mutant: the calendar year with the ISO week. *)
LabelForDateCalendarYear(d) ==
    [year |-> CHOOSE y \in Years(d) : NewYear(y) <= d /\ d < NewYear(y + 1),
     week |-> (d - FirstMonday(IsoYear(d))) \div 7 + 1]

(* _label_for_date() *)
LabelForDate(d) ==
    LET y == IsoYear(d) IN [year |-> y, week |-> (d - FirstMonday(y)) \div 7 + 1]

(* _monday_of_week() *)
MondayOfWeek(label) == FirstMonday(label.year) + 7 * (label.week - 1)

(* Mutant: arithmetic on the number of the week; every year has 52. *)
PreviousWeekLabelByNumber(label) ==
    IF label.week > 1
    THEN [label EXCEPT !.week = @ - 1]
    ELSE [year |-> label.year - 1, week |-> 52]

PreviousWeekLabel(label) == LabelForDate(MondayOfWeek(label) - 7)

(* The week of end and the count - 1 before it, in ascending order. *)
RecentWeekLabels(end, count) ==
    [i \in 1 .. count |-> LabelForDate(MondayOfWeek(end) - 7 * (count - i))]

Before(l, m) == l.year < m.year \/ (l.year = m.year /\ l.week < m.week)
=============================================================================
