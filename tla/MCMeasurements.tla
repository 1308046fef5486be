--------------------------- MODULE MCMeasurements ---------------------------
(* Constants of the checked instance of WeeklyViews. *)
EXTENDS WeeklyViews

CONSTANTS cello, dhl, pantos, pm, po, v1, v2

Word(id, upper, letters, tone) ==
    [id |-> id, upper |-> upper, script |-> "latin", letters |-> letters,
     tone |-> tone, host |-> <<>>]
Korean(id, letters, tone) == [Word(id, FALSE, letters, tone) EXCEPT !.script = "hangul"]
Url(id, host) == [Word(id, FALSE, 9, "none") EXCEPT !.host = host]
Space == [Word("", FALSE, 0, "none") EXCEPT !.script = "space"]
Stop == [Space EXCEPT !.script = "stop"]

Cello == Word("cello", TRUE, 5, "none")
Square == Word("square", TRUE, 6, "none")
Dhl == Word("dhl", TRUE, 3, "none")
Small == Word("dhl", FALSE, 3, "none")
Global == Word("global", TRUE, 6, "none")
Pantos == Word("pantos", TRUE, 6, "none")
Is == Korean("is", 1, "none")
Best == Word("best", FALSE, 4, "positive")
Slow == Korean("slow", 2, "negative")
CelloCom == <<"cello", "com">>
DhlCom == <<"dhl", "com">>

Info(terms, domains, own) == [terms |-> terms, domains |-> domains, own |-> own]

CelloInfo == Info({<<Cello, Square>>}, {CelloCom}, TRUE)
DhlInfo == Info({<<Dhl>>, <<Dhl, Global>>}, {DhlCom}, FALSE)
PantosInfo == Info({<<Pantos>>}, {<<"pantos", "com">>, <<"blog">> \o CelloCom}, FALSE)

(* Cello Square may get an alias, one of these no word at all; Pantos is   *)
(* not there yet, and will share an alias with DHL.                        *)
SomeInfos == (cello :> {CelloInfo, [CelloInfo EXCEPT !.terms = @ \cup {<<Cello>>}],
                        [CelloInfo EXCEPT !.terms = @ \cup {<<>>}]})
          @@ (dhl :> {DhlInfo})
          @@ (pantos :> {[PantosInfo EXCEPT !.terms = @ \cup {<<Dhl, Global>>}]})

SeededInfos == (cello :> CelloInfo) @@ (dhl :> DhlInfo) @@ (pantos :> None)

Says(text) == [text |-> text, citations |-> <<>>]

(* Cello Square and DHL as best, Cello Square again with Pantos; DHL       *)
(* Global, Pantos, a small "dhl" that is not DHL, Cello only in a URL;     *)
(* Cello alone, then Cello Square glued to DHL.                            *)
SomeAnswers ==
    (pm :> {Says(<<Cello, Square, Is, Space, Best, Stop, Dhl, Is, Stop, Cello,
                   Square, Pantos, Space, Url("x", <<"www">> \o CelloCom)>>),
            Says(<<Dhl, Global, Stop, Pantos, Space, Slow, Stop, Small, Stop,
                   Url("cello", <<"blog">> \o CelloCom), Stop>>)})
 @@ (po :> {Says(<<Cello, Space, Slow, Stop, Cello, Square, Dhl>>)})

SomeTypes == (pm :> None) @@ (po :> "own_brand")

(* Week 1 of 2027 follows week 53 of 2026. *)
FirstWeek == [year |-> 2027, week |-> 1]
WeekBefore == {[week |-> [year |-> 2026, week |-> 53], prompt |-> pm, provider |-> v1]}

Orders == {<<cello, dhl, pantos>>, <<pantos, dhl, cello>>}

(* New Year's Day, a Friday of week 53, and the Sunday of week 2. *)
SomeDays == {NewYear(2027), NewYear(2027) + 16}
=============================================================================
