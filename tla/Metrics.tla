------------------------------ MODULE Metrics ------------------------------
(***************************************************************************)
(* The numbers of a weekly_snapshot row.  A Decimal with three places is   *)
(* modelled by its thousandths.                                            *)
(***************************************************************************)
EXTENDS Integers

CONSTANT Null    \* NULL in a column

(* quantize(0.001, ROUND_HALF_UP) of num / den; neither is negative. *)
RoundHalfUp(num, den) == (2 * num + den) \div (2 * den)

PctOrNone(num, den) ==
    IF den <= 0 THEN Null ELSE RoundHalfUp(num * 100000, den)

(* Mutant: the sentiments of a brand are shares of all mentions. *)
CalculateSnapshotMetricsOfAll(c) ==
    [sov |-> IF c.total > 0 THEN PctOrNone(c.mentions, c.total) ELSE 0,
     avgRank |-> IF c.mentions > 0
                 THEN RoundHalfUp(c.orderSum * 1000, c.mentions) ELSE Null,
     positive |-> PctOrNone(c.positive, c.total),
     neutral |-> PctOrNone(c.neutral, c.total),
     negative |-> PctOrNone(c.negative, c.total),
     citationShare |-> PctOrNone(c.cited, c.allCited)]

(* c counts what one brand has in the runs of one scope. *)
CalculateSnapshotMetrics(c) ==
    [sov |-> IF c.total > 0 THEN PctOrNone(c.mentions, c.total) ELSE 0,
     avgRank |-> IF c.mentions > 0
                 THEN RoundHalfUp(c.orderSum * 1000, c.mentions) ELSE Null,
     positive |-> PctOrNone(c.positive, c.mentions),
     neutral |-> PctOrNone(c.neutral, c.mentions),
     negative |-> PctOrNone(c.negative, c.mentions),
     citationShare |-> PctOrNone(c.cited, c.allCited)]
=============================================================================
