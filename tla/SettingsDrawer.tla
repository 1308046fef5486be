--------------------------- MODULE SettingsDrawer ---------------------------
(***************************************************************************)
(* The Settings drawer in several browser tabs.  A tab shows the brands    *)
(* with their lists and the channels as they were when it loaded them; a   *)
(* click sends a request computed from what is shown, and its answer makes *)
(* the tab load again.  Requests of a tab overtake each other.  While they *)
(* travel the tab stays as it is, buttons and all; a load that started     *)
(* shows a spinner.  The server handles a request in one step (BrandCatalog *)
(* has the steps of its transactions), and the database may be seeded      *)
(* again at any time.                                                      *)
(***************************************************************************)
EXTENDS Seeding

CONSTANTS
    None,
    Tabs,
    Lists,         \* the lists of the cards: pairs <<field, brand>>
    Values,        \* by field: aliases and domains
    NewBrands,     \* that may be added
    NewTexts,      \* of keywords that may be added
    Start,         \* what the tables hold at first
    MaxClicks      \* clicks in all tabs (a bound)

AllBrands == SeedBrands \cup NewBrands

(* What the rows of the lists on the cards may be. *)
CardRows == UNION {{<<l[1], l[2], v>> : v \in Values[l[1]]} : l \in Lists}

Tables == [brands : SUBSET AllBrands, lists : SUBSET CardRows,
           active : SUBSET DOMAIN SeedChannels, prompts : [DOMAIN Start.prompts -> Nat]]

ASSUME DrawerAssumption ==
    /\ None \notin {"ok", "error"}
    /\ Lists \subseteq {"aliases", "domains"} \X AllBrands
    /\ Start \in Tables /\ Start.active # {}
    /\ \A x \in Start.lists : x[2] \in Start.brands
    /\ ~DomainsClash(Start.lists)
    /\ SeedLists \subseteq CardRows /\ SeedTexts \subseteq DOMAIN Start.prompts

VARIABLES
    db,
    tab,
    clicks,
    meant,         \* the list rows after all clicks that were handled (history)
    staleLists,    \* the lists clicked on where they were not up to date (history)
    staleToggle    \* so were the channels (history)

staleVars == <<staleLists, staleToggle>>

drawerVars == <<db, tab, clicks, meant, staleVars>>

(* What GET /brands returns *)
BrandsNow == [brands |-> db.brands, lists |-> db.lists]

(* The drawer was opened in all tabs, or in none. *)
DrawerInit ==
    /\ db = Start
    /\ \/ tab = [t \in Tabs |-> [cards |-> BrandsNow, active |-> Start.active,
                                 sent |-> {}]]
       \/ tab = [t \in Tabs |-> [cards |-> None, active |-> None, sent |-> {}]]
    /\ clicks = 0
    /\ meant = Start.lists
    /\ staleLists = {} /\ staleToggle = FALSE

(* The values of list l among some rows *)
ValuesOf(rows, l) == {v \in Values[l[1]] : <<l[1], l[2], v>> \in rows}

(* Requests that the server has not handled yet *)
Unhandled(kind) == {q \in UNION {tab[t].sent : t \in Tabs} :
                        q.kind = kind /\ q.answer = None}

(* The click that a request comes from tells it from others of its kind. *)
Request(kind, of, value, click) ==
    [kind |-> kind, of |-> of, value |-> value, click |-> click, answer |-> None]

Load(kind, click) == Request(kind, None, None, click)

CanClick == clicks < MaxClicks

Click(t, q) ==
    /\ CanClick
    /\ clicks' = clicks + 1
    /\ tab' = [tab EXCEPT ![t].sent = @ \cup {q}]
    /\ UNCHANGED <<db, meant>>

(* refreshSettings(): the drawer is opened, or a key saved. *)
RefreshSettings(t) ==
    /\ CanClick
    /\ clicks' = clicks + 1
    /\ tab' = [tab EXCEPT ![t] = [cards |-> None, active |-> None,
                                  sent |-> @.sent \cup {Load("getBrands", clicks'),
                                                        Load("getChannels", clicks')}]]
    /\ UNCHANGED <<db, meant, staleVars>>

(* A chip is removed or added: the whole list is sent. *)
PatchBrandField(t, l, v) ==
    /\ tab[t].cards # None /\ l[2] \in tab[t].cards.brands
    /\ LET shown == ValuesOf(tab[t].cards.lists, l)
           next == IF v \in shown THEN shown \ {v} ELSE shown \cup {v}
           stale == \/ shown # ValuesOf(db.lists, l)
                    \/ \E q \in Unhandled("putList") : q.of = l
       IN  /\ Click(t, Request("putList", l, [to |-> next, clicked |-> v], clicks + 1))
           /\ staleLists' = IF stale THEN staleLists \cup {l} ELSE staleLists
           /\ UNCHANGED staleToggle

ToggleIsStale(t) == Unhandled("putChannel") # {} \/ tab[t].active # db.active

(* The button of a channel: the last one shown as active is refused. *)
ToggleChannel(t, c) ==
    /\ tab[t].active # None
    /\ ~(c \in tab[t].active /\ Cardinality(tab[t].active) <= 1)
    /\ Click(t, Request("putChannel", c, c \notin tab[t].active, clicks + 1))
    /\ staleToggle' = (staleToggle \/ ToggleIsStale(t))
    /\ UNCHANGED staleLists

(* The forms for a new brand and a new keyword *)
AddBrand(t, b) ==
    Click(t, Request("postBrand", b, None, clicks + 1)) /\ UNCHANGED staleVars

AddKeyword(t, text) ==
    Click(t, Request("postPrompt", text, None, clicks + 1)) /\ UNCHANGED staleVars

Answered(q, answer) == [q EXCEPT !.answer = answer]

(* Mutant: the rows of all brands are deleted. *)
ReplacedEverywhere(rows, l, to) ==
    {x \in rows : x[1] # l[1]} \cup {<<l[1], l[2], v>> : v \in to}

(* The rows after PUT /brands/{id} with one list *)
Replaced(rows, l, to) ==
    {x \in rows : <<x[1], x[2]>> # l} \cup {<<l[1], l[2], v>> : v \in to}

(* What is meant by a click on a value of a list *)
Toggled(rows, l, v) ==
    LET x == <<l[1], l[2], v>> IN IF x \in rows THEN rows \ {x} ELSE rows \cup {x}

Handle(t, q) ==
    LET reply(answer) == tab' = [tab EXCEPT ![t].sent =
                                    (@ \ {q}) \cup {Answered(q, answer)}]
        refused == \/ /\ q.kind = "putList"
                      /\ DomainsClash(Replaced(db.lists, q.of, q.value.to))
                   \/ q.kind = "postBrand" /\ q.of \in db.brands
    IN  /\ q \in tab[t].sent /\ q.answer = None
        /\ IF refused
           THEN reply("error") /\ UNCHANGED <<db, meant>>
           ELSE CASE q.kind = "putList" ->
                       /\ db' = [db EXCEPT !.lists = Replaced(@, q.of, q.value.to)]
                       /\ meant' = Toggled(meant, q.of, q.value.clicked)
                       /\ reply("ok")
                  [] q.kind = "putChannel" ->
                       /\ db' = [db EXCEPT !.active =
                                    IF q.value THEN @ \cup {q.of} ELSE @ \ {q.of}]
                       /\ reply("ok") /\ UNCHANGED meant
                  [] q.kind = "postBrand" ->
                       /\ db' = [db EXCEPT !.brands = @ \cup {q.of}]
                       /\ reply("ok") /\ UNCHANGED meant
                  [] q.kind = "postPrompt" ->
                       /\ db' = [db EXCEPT !.prompts[q.of] = @ + 1]
                       /\ reply("ok") /\ UNCHANGED meant
                  [] q.kind = "getBrands" -> reply(BrandsNow) /\ UNCHANGED <<db, meant>>
                  [] q.kind = "getChannels" -> reply(db.active) /\ UNCHANGED <<db, meant>>
        /\ UNCHANGED <<clicks, staleVars>>

(* The tab after the answer to a request that is no longer under way: a    *)
(* load is shown, a change that succeeded starts a load, and one that did  *)
(* not leaves the view as it is.                                           *)
After(view, q) ==
    CASE q.kind = "getBrands" -> [view EXCEPT !.cards = q.answer]
      [] q.kind = "getChannels" -> [view EXCEPT !.active = q.answer]
      [] q.kind \in {"putList", "postBrand"} /\ q.answer = "ok" ->
            [view EXCEPT !.cards = None, !.sent = @ \cup {Load("getBrands", q.click)}]
      [] q.kind = "putChannel" /\ q.answer = "ok" ->
            [view EXCEPT !.active = None, !.sent = @ \cup {Load("getChannels", q.click)}]
      [] OTHER -> view

Without(view, q) == [view EXCEPT !.sent = @ \ {q}]

Arrive(t, q) ==
    /\ q \in tab[t].sent /\ q.answer # None
    /\ tab' = [tab EXCEPT ![t] = After(Without(@, q), q)]
    /\ UNCHANGED <<db, clicks, meant, staleVars>>

(* The connection fails, before the request is handled or after it. *)
Lose(t, q) ==
    /\ q \in tab[t].sent
    /\ tab' = [tab EXCEPT ![t] = After(Without(@, q), [q EXCEPT !.answer = None])]
    /\ UNCHANGED <<db, clicks, meant, staleVars>>

(* The database is seeded; a change under way overlooks what it adds. *)
Seed ==
    /\ RunSeed(db) # db
    /\ db' = RunSeed(db)
    /\ meant' = meant \cup SeedLists
    /\ staleLists' = staleLists \cup {q.of : q \in Unhandled("putList")}
    /\ staleToggle' = (staleToggle \/ Unhandled("putChannel") # {})
    /\ UNCHANGED <<tab, clicks>>

DrawerClick(t) ==
    \/ RefreshSettings(t)
    \/ \E l \in Lists : \E v \in Values[l[1]] : PatchBrandField(t, l, v)
    \/ \E c \in DOMAIN SeedChannels : ToggleChannel(t, c)
    \/ \E b \in NewBrands : AddBrand(t, b)
    \/ \E text \in NewTexts : AddKeyword(t, text)

(***************************************************************************)
(* Properties                                                              *)
(***************************************************************************)

(* A list is what the clicks on it and the file say, although every click   *)
(* sends the whole list, whatever is done meanwhile to the other lists, in *)
(* any tab and from any old view.  The exception is a list that is clicked *)
(* on where it is not up to date itself, or while a change of it is under  *)
(* way: nothing is said of that list from then on.  Likewise some channel  *)
(* is active as long as no channel is switched from an old view.           *)
CarefulClicksCount ==
    /\ \A l \in Lists \ staleLists : ValuesOf(db.lists, l) = ValuesOf(meant, l)
    /\ ~staleToggle => db.active # {}

(* Where seeding works, seeding once more works and changes nothing,        *)
(* whatever administrators did before.                                     *)
SeedingIsIdempotent ==
    ~SeedFails(db) => ~SeedFails(Seeded(db)) /\ Seeded(Seeded(db)) = Seeded(db)
=============================================================================
