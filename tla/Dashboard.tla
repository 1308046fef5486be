------------------------------ MODULE Dashboard ------------------------------
(***************************************************************************)
(* The dashboard of one browser tab: initDashboard() with its awaits, the  *)
(* panel of the channels of a brand, the panel of its top keywords, and    *)
(* the cache of the mentions of the week that the latter reads.            *)
(*                                                                         *)
(* JavaScript runs a handler up to its next await in one go, and all that  *)
(* await one promise go on together when it is settled.  A call keeps the  *)
(* elements it looked up: "skeleton" numbers the elements of the page, and *)
(* what is written to elements that are no longer on the page is not seen. *)
(* The calls that await an answer are bags: two clicks on one brand, or    *)
(* two initDashboard(), are two calls, whose answers arrive one by one.    *)
(***************************************************************************)
EXTENDS Naturals, Sequences, Bags

CONSTANTS
    Nothing,
    Shown,          \* the brands of the selector
    First,          \* the first of them
    MaxMentions,    \* changes of the mentions of the week (a bound)
    MaxFetches      \* GET /mentions sent (a bound)

ASSUME DashboardAssumption ==
    /\ First \in Shown /\ Nothing \notin Shown
    /\ MaxMentions \in Nat /\ MaxFetches \in Nat

VARIABLES
    mentions,       \* number of changes of the mentions at the server
    fetches,        \* the promises of loadWeekMentions(), in order of creation
    cache,          \* index of the cached promise, 0 if there is none
    selected,       \* state.selectedBrandId
    page,           \* what is on the page
    inits,          \* initDashboard() calls that await an answer: a bag
    waiting,        \* panels' calls that await an answer: a bag
    polling,        \* the buttons whose pollBatchUntilDone() is at work
    atLeast,        \* mentions when the last batch was done (history)
    rushed          \* when the brand was selected, an answer about another
                    \* one was awaited for the panel on the page (history)

dashVars == <<mentions, fetches, cache, selected, page, inits, waiting,
              polling, atLeast, rushed>>

Buttons == {"run", "resume"}

Blank == [brand |-> Nothing, of |-> 0, is |-> "blank"]
Spinner == [Blank EXCEPT !.is = "spinner"]
Failure == [Blank EXCEPT !.is = "error"]

(* Mutant: the elements that are gone count as loaded. *)
LoadingPageReady(visible, skeleton) ==
    [visible |-> visible, skeleton |-> skeleton, there |-> FALSE, ready |-> TRUE,
     label |-> Nothing, overview |-> Blank, keywords |-> Blank]

(* initDashboard() up to getTrends(): the page is a spinner. *)
LoadingPage(visible, skeleton) ==
    [visible |-> visible, skeleton |-> skeleton, there |-> FALSE, ready |-> FALSE,
     label |-> Nothing, overview |-> Blank, keywords |-> Blank]

NewInit(B) == B (+) SetToBag({[at |-> "trends", skeleton |-> 0]})

(* boot() has opened the dashboard, or another view was open all the time. *)
DashInit ==
    /\ mentions = 0
    /\ fetches = <<>>
    /\ cache = 0
    /\ selected = Nothing
    /\ \E open \in BOOLEAN :
          /\ page = LoadingPage(open, 0)
          /\ inits = IF open THEN NewInit(EmptyBag) ELSE EmptyBag
    /\ waiting = EmptyBag
    /\ polling = {}
    /\ atLeast = 0
    /\ rushed = FALSE

(* A batch, of this tab or of anybody, stores mentions. *)
MentionsChange ==
    /\ mentions < MaxMentions
    /\ mentions' = mentions + 1
    /\ UNCHANGED <<fetches, cache, selected, page, inits, waiting, polling,
                   atLeast, rushed>>

(* The elements a call looked up are those on the page. *)
OnPage(skeleton, pg) == pg.there /\ pg.skeleton = skeleton

(* What renderTopKeywords() writes: the rows of the brand that is selected *)
(* when the mentions arrive.                                               *)
TopKeywords(of) == [brand |-> selected', of |-> of, is |-> "shown"]

(* loadAndRenderBrandOverview() and renderTopKeywords() up to their awaits, *)
(* for the elements of a skeleton; loadWeekMentions() takes the cached     *)
(* promise, also one that was rejected, or sends a request.                *)
StartPanels(skeleton, pg, kinds) ==
    LET hit == cache # 0 /\ fetches[cache].is # "sent"
        fetch == IF cache # 0 THEN cache ELSE Len(fetches) + 1
        call == [kind |-> "keywords", brand |-> Nothing, skeleton |-> skeleton,
                 fetch |-> fetch]
        overview == [kind |-> "overview", brand |-> selected',
                     skeleton |-> skeleton, fetch |-> 0]
        keywords == CASE ~hit -> Spinner
                      [] hit /\ fetches[cache].is = "failed" -> Failure
                      [] OTHER -> TopKeywords(fetches[cache].of)
        started == (IF "overview" \in kinds THEN {overview} ELSE {})
                   \cup (IF "keywords" \in kinds /\ ~hit THEN {call} ELSE {})
    IN  /\ "keywords" \in kinds /\ cache = 0 => Len(fetches) < MaxFetches
        /\ IF "keywords" \in kinds /\ cache = 0
           THEN /\ fetches' = Append(fetches, [is |-> "sent", of |-> 0])
                /\ cache' = fetch
           ELSE UNCHANGED <<fetches, cache>>
        /\ waiting' = waiting (+) SetToBag(started)
        /\ page' = IF ~OnPage(skeleton, pg) THEN pg
                   ELSE [pg EXCEPT
                      !.label = IF "keywords" \in kinds THEN selected' ELSE @,
                      !.keywords = IF "keywords" \in kinds THEN keywords ELSE @,
                      !.overview = IF "overview" \in kinds THEN Spinner ELSE @]

(* navigateTo("dashboard"), or "try again" after an error of the page *)
OpenDashboard ==
    /\ page' = LoadingPage(TRUE, page.skeleton)
    /\ inits' = NewInit(inits)
    /\ UNCHANGED <<mentions, fetches, cache, selected, waiting, polling, atLeast, rushed>>

(* navigateTo() another view: the elements stay. *)
LeaveDashboard ==
    /\ page.visible
    /\ page' = [page EXCEPT !.visible = FALSE]
    /\ UNCHANGED <<mentions, fetches, cache, selected, inits, waiting, polling,
                   atLeast, rushed>>

(* The trends are there: ensureSkeleton(), and els() looks it up. *)
TrendsArrive(i) ==
    /\ BagIn(i, inits) /\ i.at = "trends"
    /\ page' = IF page.there THEN page
               ELSE [page EXCEPT !.skeleton = @ + 1, !.there = TRUE]
    /\ inits' = (inits (-) SetToBag({i})) (+)
                   SetToBag({[at |-> "summary", skeleton |-> page'.skeleton]})
    /\ rushed' = (rushed /\ page.there)
    /\ UNCHANGED <<mentions, fetches, cache, selected, waiting, polling, atLeast>>

(* The summaries are there: the numbers are written, a brand is selected   *)
(* if none is, and both panels are loaded.                                 *)
SummaryArrives(i) ==
    /\ BagIn(i, inits) /\ i.at = "summary"
    /\ selected' = IF selected = Nothing THEN First ELSE selected
    /\ inits' = inits (-) SetToBag({i})
    /\ StartPanels(i.skeleton,
                   IF OnPage(i.skeleton, page) THEN [page EXCEPT !.ready = TRUE] ELSE page,
                   {"overview", "keywords"})
    /\ UNCHANGED <<mentions, polling, atLeast, rushed>>

(* One of the requests of initDashboard() fails. *)
InitFails(i) ==
    /\ BagIn(i, inits)
    /\ inits' = inits (-) SetToBag({i})
    /\ page' = LoadingPage(page.visible, page.skeleton)
    /\ UNCHANGED <<mentions, fetches, cache, selected, waiting, polling, atLeast, rushed>>

(* An answer about another brand is awaited for the panel on the page. *)
OtherAwaited(b) ==
    \E c \in BagToSet(waiting) :
        c.kind = "overview" /\ OnPage(c.skeleton, page) /\ c.brand # b

(* Mutant: the channels are not loaded again. *)
SelectBrandKeywordsOnly(b) ==
    /\ page.visible /\ page.ready
    /\ selected' = b
    /\ rushed' = OtherAwaited(b)
    /\ StartPanels(page.skeleton, page, {"keywords"})
    /\ UNCHANGED <<mentions, inits, polling, atLeast>>

(* A click on a brand *)
SelectBrand(b) ==
    /\ page.visible /\ page.ready
    /\ selected' = b
    /\ rushed' = OtherAwaited(b)
    /\ StartPanels(page.skeleton, page, {"overview", "keywords"})
    /\ UNCHANGED <<mentions, inits, polling, atLeast>>

(* The "try again" of a panel *)
RetryPanel(kind) ==
    /\ page.visible
    /\ (IF kind = "overview" THEN page.overview ELSE page.keywords) = Failure
    /\ selected' = selected
    /\ StartPanels(page.skeleton, page, {kind})
    /\ UNCHANGED <<mentions, inits, polling, atLeast, rushed>>

(* GET /brands/{id}/overview is answered, or fails. *)
OverviewArrives(c) ==
    /\ BagIn(c, waiting) /\ c.kind = "overview"
    /\ waiting' = waiting (-) SetToBag({c})
    /\ \E panel \in {[brand |-> c.brand, of |-> 0, is |-> "shown"], Failure} :
          page' = IF OnPage(c.skeleton, page) THEN [page EXCEPT !.overview = panel]
                  ELSE page
    /\ UNCHANGED <<mentions, fetches, cache, selected, inits, polling, atLeast, rushed>>

(* The server reads the mentions for a request. *)
MentionsRead(f) ==
    /\ fetches[f].is = "sent" /\ fetches[f].of = 0
    /\ fetches' = [fetches EXCEPT ![f].of = mentions + 1]
    /\ UNCHANGED <<mentions, cache, selected, page, inits, waiting, polling,
                   atLeast, rushed>>

(* The promise is settled, and every call that awaits it goes on. *)
MentionsArrive(f) ==
    /\ fetches[f].is = "sent"
    /\ selected' = selected
    /\ \E is \in {"failed"} \cup (IF fetches[f].of = 0 THEN {} ELSE {"arrived"}) :
          /\ fetches' = [fetches EXCEPT ![f].is = is]
          /\ LET calls == {c \in BagToSet(waiting) : c.kind = "keywords" /\ c.fetch = f}
             IN  /\ waiting' = [c \in BagToSet(waiting) \ calls |-> waiting[c]]
                 /\ page' = IF \A c \in calls : ~OnPage(c.skeleton, page) THEN page
                            ELSE [page EXCEPT !.keywords =
                                    IF is = "failed" THEN Failure
                                    ELSE TopKeywords(fetches[f].of)]
    /\ UNCHANGED <<mentions, cache, inits, polling, atLeast, rushed>>

(* "Run", or "resume" in the banner of the dashboard: the request is sent   *)
(* and the status polled.  "Run" is disabled meanwhile; "resume" is not    *)
(* once the banner was written anew, but one at a time is a bound here.    *)
RunBatch(button) ==
    /\ button \notin polling
    /\ button = "resume" => page.visible /\ page.there
    /\ polling' = polling \cup {button}
    /\ UNCHANGED <<mentions, fetches, cache, selected, page, inits, waiting,
                   atLeast, rushed>>

(* The page after a batch: "run" loads the view that is open, "resume" the *)
(* dashboard.                                                              *)
Reload(button) ==
    IF page.visible \/ button = "resume"
    THEN /\ page' = LoadingPage(page.visible, page.skeleton)
         /\ inits' = NewInit(inits)
    ELSE UNCHANGED <<page, inits>>

(* Mutant: the cache is not emptied. *)
BatchDoneWithCache(button) ==
    /\ button \in polling
    /\ polling' = polling \ {button}
    /\ atLeast' = mentions
    /\ Reload(button)
    /\ UNCHANGED <<mentions, fetches, cache, selected, waiting, rushed>>

(* The poll finds the batch done: the cache is emptied. *)
BatchDone(button) ==
    /\ button \in polling
    /\ polling' = polling \ {button}
    /\ cache' = 0
    /\ atLeast' = mentions
    /\ Reload(button)
    /\ UNCHANGED <<mentions, fetches, selected, waiting, rushed>>

(* The request or the polling fails: a toast says so, nothing is reloaded. *)
BatchFails(button) ==
    /\ button \in polling
    /\ polling' = polling \ {button}
    /\ UNCHANGED <<mentions, fetches, cache, selected, page, inits, waiting,
                   atLeast, rushed>>

(* clearWeekDataCache(), after a keyword was added or a file imported *)
ClearCache ==
    /\ cache' = 0
    /\ UNCHANGED <<mentions, fetches, selected, page, inits, waiting, polling,
                   atLeast, rushed>>

Answer ==
    \/ \E i \in BagToSet(inits) : TrendsArrive(i) \/ SummaryArrives(i) \/ InitFails(i)
    \/ \E c \in BagToSet(waiting) : OverviewArrives(c)
    \/ \E f \in DOMAIN fetches : MentionsRead(f) \/ MentionsArrive(f)
    \/ \E button \in Buttons : BatchDone(button) \/ BatchFails(button)

DashClick ==
    \/ OpenDashboard \/ LeaveDashboard
    \/ \E button \in Buttons : RunBatch(button)
    \/ \E b \in Shown : SelectBrand(b)
    \/ \E kind \in {"overview", "keywords"} : RetryPanel(kind)

(***************************************************************************)
(* Properties                                                              *)
(***************************************************************************)

(* When a batch that was started here is done, an open dashboard never     *)
(* shows keywords read before that, whatever was loading at the moment:    *)
(* not from the cache, and not by an older call that ends late.            *)
FreshAfterBatch ==
    page.visible /\ page.keywords.is = "shown" => page.keywords.of > atLeast

(* The keywords shown are those of the brand they are labelled with, which *)
(* is the selected one, whatever was on its way when it was selected.  So  *)
(* are the channels if no answer about another brand was awaited for the   *)
(* panel on the page when the brand was selected: calls for a panel that   *)
(* is gone do not count, nor how often a brand was asked for.              *)
PanelsMatchSelection ==
    /\ page.keywords.is = "shown" =>
          page.label = selected /\ page.keywords.brand = selected
    /\ page.overview.is = "shown" => rushed \/ page.overview.brand = selected
=============================================================================
