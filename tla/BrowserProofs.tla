--------------------------- MODULE BrowserProofs ---------------------------
(***************************************************************************)
(* Theorems about Browser, for any number of tabs, brands, keywords and    *)
(* clicks, and any order of the answers.                                   *)
(***************************************************************************)
EXTENDS Browser, FiniteSetTheorems, TLAPS

(***************************************************************************)
(* The dashboard                                                           *)
(***************************************************************************)
Selectable == Shown \cup {Nothing}

Panels == [brand : Selectable, of : Nat, is : {"blank", "spinner", "error", "shown"}]

Pages == [visible : BOOLEAN, skeleton : Nat, there : BOOLEAN, ready : BOOLEAN,
          label : Selectable, overview : Panels, keywords : Panels]

Fetches == [is : {"sent", "failed", "arrived"}, of : Nat]

PanelCalls == [kind : {"overview", "keywords"}, brand : Selectable, skeleton : Nat,
               fetch : Nat]

DashTypes ==
    /\ mentions \in Nat
    /\ atLeast \in Nat /\ atLeast <= mentions
    /\ fetches \in Seq(Fetches)
    /\ cache \in 0 .. Len(fetches)
    /\ selected \in Selectable
    /\ page \in Pages
    /\ BagToSet(inits) \subseteq [at : {"trends", "summary"}, skeleton : Nat]
    /\ BagToSet(waiting) \subseteq PanelCalls
    /\ rushed \in BOOLEAN

(* What a promise brings was read after the last batch, or is not read yet. *)
Recent(f) == fetches[f].of = 0 \/ fetches[f].of > atLeast

FetchesOK ==
    /\ \A f \in DOMAIN fetches : fetches[f].is = "arrived" => fetches[f].of # 0
    /\ cache # 0 => Recent(cache)

PageOK ==
    /\ page.ready => page.there
    /\ ~page.there => page.keywords = Blank /\ page.overview = Blank /\ page.label = Nothing
    /\ page.label \in {Nothing, selected}
    /\ selected = Nothing =>
          page.keywords = Blank /\ page.overview = Blank /\ BagToSet(waiting) = {}
    /\ page.keywords # Blank => page.label # Nothing
    /\ page.keywords.is = "shown" =>
          page.keywords.brand = selected /\ (page.visible => page.keywords.of > atLeast)
    /\ page.overview.is = "shown" => rushed \/ page.overview.brand = selected

KeywordsCallOK(c) ==
    /\ c.fetch \in DOMAIN fetches
    /\ fetches[c.fetch].is = "sent"
    /\ OnPage(c.skeleton, page) =>
          page.label # Nothing /\ (page.visible => Recent(c.fetch))

OverviewCallOK(c) ==
    /\ c.fetch = 0
    /\ OnPage(c.skeleton, page) => rushed \/ c.brand = selected

CallsOK ==
    \A c \in BagToSet(waiting) :
        /\ c.skeleton <= page.skeleton
        /\ c.kind = "keywords" => KeywordsCallOK(c)
        /\ c.kind = "overview" => OverviewCallOK(c)

InitsOK == \A i \in BagToSet(inits) : i.skeleton <= page.skeleton

DashInv == DashTypes /\ FetchesOK /\ PageOK /\ CallsOK /\ InitsOK

(* A bag with one more of each element of a set, with one less of each, and *)
(* with only the elements of a set                                         *)
LEMMA BagPlus ==
    ASSUME NEW B, NEW S
    PROVE  BagToSet(B (+) SetToBag(S)) = BagToSet(B) \cup S
  BY DEF BagToSet, SetToBag, (+)

LEMMA BagMinus ==
    ASSUME NEW B, NEW S
    PROVE  BagToSet(B (-) SetToBag(S)) \subseteq BagToSet(B)
  BY DEF BagToSet, SetToBag, (-)

LEMMA BagOf ==
    ASSUME NEW B, NEW S
    PROVE  BagToSet([c \in S |-> B[c]]) = S
  BY DEF BagToSet

LEMMA PanelTypes ==
    /\ Blank \in Panels /\ Spinner \in Panels /\ Failure \in Panels
    /\ Blank.is = "blank" /\ Spinner.is = "spinner" /\ Failure.is = "error"
    /\ Spinner # Blank /\ Failure # Blank
  BY DEF Blank, Spinner, Failure, Panels, Selectable

LEMMA LoadingPageTypes ==
    ASSUME NEW visible \in BOOLEAN, NEW skeleton \in Nat
    PROVE  LoadingPage(visible, skeleton) \in Pages
<1>1. Nothing \in Selectable /\ Blank \in Panels
  BY PanelTypes DEF Selectable
<1> QED
  BY <1>1 DEF LoadingPage, Pages

(* An emptied page keeps the invariant, with the promises and calls there   *)
(* are.                                                                    *)
LEMMA EmptyPageKeeps ==
    ASSUME DashInv,
           NEW visible \in BOOLEAN, page' = LoadingPage(visible, page.skeleton),
           UNCHANGED <<fetches, selected, waiting, rushed, mentions>>,
           \/ UNCHANGED <<cache, atLeast>>
           \/ cache' = 0 /\ atLeast' = mentions,
           \A i \in BagToSet(inits') : i \in BagToSet(inits)
                                       \/ i = [at |-> "trends", skeleton |-> 0]
    PROVE  DashInv'
<1>0. /\ page' \in Pages /\ page'.skeleton = page.skeleton /\ ~page'.there /\ ~page'.ready
      /\ page'.label = Nothing /\ page'.overview = Blank /\ page'.keywords = Blank
  <2>1. page \in Pages
    BY DEF DashInv, DashTypes
  <2> QED
    BY <2>1, LoadingPageTypes DEF LoadingPage, Pages
<1>1. DashTypes'
  <2>1. BagToSet(inits') \subseteq [at : {"trends", "summary"}, skeleton : Nat]
    BY DEF DashInv, DashTypes
  <2>2. atLeast' \in Nat /\ atLeast' <= mentions' /\ cache' \in 0 .. Len(fetches')
    BY DEF DashInv, DashTypes
  <2> QED
    BY <1>0, <2>1, <2>2 DEF DashInv, DashTypes
<1>2. FetchesOK'
  BY DEF DashInv, FetchesOK, Recent
<1>3. PageOK'
  BY <1>0, PanelTypes DEF DashInv, DashTypes, PageOK
<1>4. CallsOK'
  BY <1>0 DEF DashInv, DashTypes, CallsOK, KeywordsCallOK, OverviewCallOK, OnPage, Pages
<1>5. InitsOK'
  <2>1. page.skeleton \in Nat
    BY DEF DashInv, DashTypes, Pages
  <2> QED
    BY <1>0, <2>1 DEF DashInv, DashTypes, InitsOK
<1> QED
  BY <1>1, <1>2, <1>3, <1>4, <1>5 DEF DashInv

(* The panels start for the elements of some skeleton.  A brand may have    *)
(* been selected just before: both panels of the page are loaded then, if  *)
(* there was one before.                                                   *)
LEMMA StartPanelsKeeps ==
    ASSUME DashInv,
           NEW skeleton \in Nat, skeleton <= page.skeleton,
           NEW pg \in Pages,
           pg.visible = page.visible, pg.skeleton = page.skeleton, pg.there = page.there,
           pg.label = page.label, pg.keywords = page.keywords,
           pg.overview = page.overview, pg.ready => pg.there,
           NEW kinds \in SUBSET {"overview", "keywords"},
           selected' \in Shown, rushed' \in BOOLEAN,
           (rushed => rushed') \/ (OnPage(skeleton, page) /\ "overview" \in kinds),
           \/ selected' = selected
           \/ selected = Nothing
           \/ OnPage(skeleton, page) /\ kinds = {"overview", "keywords"},
           \A c \in BagToSet(waiting) : c.kind = "overview" /\ OnPage(c.skeleton, page)
                                         => rushed' \/ c.brand = selected',
           "keywords" \notin kinds => selected' = selected,
           BagToSet(inits') \subseteq BagToSet(inits), UNCHANGED <<mentions, atLeast>>,
           StartPanels(skeleton, pg, kinds)
    PROVE  DashInv'
<1> DEFINE hit == cache # 0 /\ fetches[cache].is # "sent"
           fetch == IF cache # 0 THEN cache ELSE Len(fetches) + 1
           call == [kind |-> "keywords", brand |-> Nothing, skeleton |-> skeleton,
                    fetch |-> fetch]
           over == [kind |-> "overview", brand |-> selected',
                    skeleton |-> skeleton, fetch |-> 0]
           shown == [brand |-> selected', of |-> fetches[cache].of, is |-> "shown"]
           kw == CASE ~hit -> Spinner
                   [] hit /\ fetches[cache].is = "failed" -> Failure
                   [] OTHER -> shown
           l == IF "keywords" \in kinds THEN selected' ELSE pg.label
           k == IF "keywords" \in kinds THEN kw ELSE pg.keywords
           o == IF "overview" \in kinds THEN Spinner ELSE pg.overview
<1>1. /\ mentions \in Nat /\ atLeast \in Nat /\ atLeast <= mentions
      /\ fetches \in Seq(Fetches) /\ Len(fetches) \in Nat
      /\ cache \in 0 .. Len(fetches)
      /\ selected \in Selectable /\ page \in Pages /\ BagToSet(waiting) \subseteq PanelCalls
      /\ selected' \in Selectable /\ selected' # Nothing /\ Nothing \in Selectable
  BY DashboardAssumption DEF DashInv, DashTypes, Selectable
<1> DEFINE started == (IF "overview" \in kinds THEN {over} ELSE {})
                      \cup (IF "keywords" \in kinds /\ ~hit THEN {call} ELSE {})
<1>2. /\ BagToSet(waiting') = BagToSet(waiting) \cup started
      /\ page' = IF ~OnPage(skeleton, pg) THEN pg
                 ELSE [pg EXCEPT !.label = l, !.keywords = k, !.overview = o]
      /\ IF "keywords" \in kinds /\ cache = 0
         THEN /\ fetches' = Append(fetches, [is |-> "sent", of |-> 0])
              /\ cache' = fetch
         ELSE UNCHANGED <<fetches, cache>>
  BY BagPlus DEF StartPanels, TopKeywords
<1>3. /\ fetches' \in Seq(Fetches) /\ cache' \in 0 .. Len(fetches')
      /\ DOMAIN fetches = 1 .. Len(fetches) /\ DOMAIN fetches' = 1 .. Len(fetches')
      /\ \A f \in DOMAIN fetches : f \in DOMAIN fetches' /\ fetches'[f] = fetches[f]
      /\ \A f \in DOMAIN fetches' \ DOMAIN fetches : fetches'[f] = [is |-> "sent", of |-> 0]
      /\ "keywords" \in kinds => fetch = cache' /\ fetch \in DOMAIN fetches'
      /\ cache # 0 => cache' = cache
      /\ cache' # 0 /\ cache = 0 => cache' \notin DOMAIN fetches
  <2>1. CASE "keywords" \in kinds /\ cache = 0
    <3>1. [is |-> "sent", of |-> 0] \in Fetches
      BY DEF Fetches
    <3>2. /\ fetches' = Append(fetches, [is |-> "sent", of |-> 0])
          /\ fetch = Len(fetches) + 1 /\ cache' = fetch
      BY <1>2, <2>1
    <3> QED
      BY <1>1, <2>1, <3>1, <3>2
  <2>2. CASE ~("keywords" \in kinds /\ cache = 0)
    <3>1. fetches' = fetches /\ cache' = cache
      BY <1>2, <2>2
    <3>2. "keywords" \in kinds => fetch = cache' /\ cache # 0
      BY <2>2, <3>1
    <3> QED
      BY <1>1, <3>1, <3>2
  <2> QED
    BY <2>1, <2>2
<1>4. FetchesOK'
  <2>1. \A f \in DOMAIN fetches' : fetches'[f].is = "arrived" => fetches'[f].of # 0
    BY <1>3 DEF DashInv, FetchesOK
  <2>2. CASE cache = 0
    <3>1. cache' # 0 => fetches'[cache'] = [is |-> "sent", of |-> 0]
      BY <1>1, <1>3, <2>2
    <3> QED
      BY <2>1, <3>1 DEF FetchesOK, Recent
  <2>3. CASE cache # 0
    <3>1. cache' = cache /\ fetches'[cache] = fetches[cache]
      BY <1>1, <1>3, <2>3
    <3> QED
      BY <2>1, <2>3, <3>1 DEF DashInv, FetchesOK, Recent
  <2> QED
    BY <2>2, <2>3
<1>5. /\ "keywords" \in kinds /\ ~hit => fetches'[fetch].is = "sent"
      /\ "keywords" \in kinds => fetches'[fetch].of = 0 \/ fetches'[fetch].of > atLeast
      /\ hit => fetches[cache].is \in {"failed", "arrived"} /\ fetches[cache].of \in Nat
                /\ Recent(cache)
      /\ hit /\ fetches[cache].is # "failed" => fetches[cache].of > atLeast
  <2>1. \A f \in DOMAIN fetches : fetches[f] \in Fetches
    BY <1>1
  <2>2. hit => fetches[cache].is \in {"failed", "arrived"} /\ fetches[cache].of \in Nat
               /\ Recent(cache)
    <3>1. hit => cache \in DOMAIN fetches /\ cache # 0 /\ fetches[cache].is # "sent"
      BY <1>1, <1>3
    <3>2. hit => fetches[cache] \in Fetches
      BY <2>1, <3>1
    <3> QED
      BY <3>1, <3>2 DEF DashInv, FetchesOK, Fetches
  <2>3. hit /\ fetches[cache].is # "failed" => fetches[cache].of > atLeast
    BY <1>1, <1>3, <2>2 DEF DashInv, FetchesOK, Recent
  <2>4. "keywords" \in kinds /\ ~hit => fetches'[fetch].is = "sent"
    BY <1>1, <1>3
  <2>5. "keywords" \in kinds => fetches'[fetch].of = 0 \/ fetches'[fetch].of > atLeast
    <3>1. "keywords" \in kinds => fetch = cache' /\ cache' # 0
      BY <1>1, <1>3
    <3> QED
      BY <1>4, <3>1 DEF FetchesOK, Recent
  <2> QED
    BY <2>2, <2>3, <2>4, <2>5
<1>6. /\ kw \in Panels
      /\ kw # Blank
      /\ kw.is = "shown" => kw.brand = selected' /\ kw.of > atLeast
  <2>1. CASE ~hit
    BY <2>1, PanelTypes
  <2>2. CASE hit /\ fetches[cache].is = "failed"
    BY <2>2, PanelTypes
  <2>3. CASE hit /\ fetches[cache].is # "failed"
    <3>1. kw = shown
      BY <2>3
    <3>2. shown \in Panels /\ shown.is = "shown" /\ shown.brand = selected'
          /\ shown.of = fetches[cache].of
      BY <1>1, <1>5, <2>3 DEF Panels
    <3> QED
      BY <1>5, <2>3, <3>1, <3>2, PanelTypes
  <2> QED
    BY <2>1, <2>2, <2>3
<1> HIDE DEF hit, fetch, kw, call, over
<1>7. /\ l \in Selectable /\ k \in Panels /\ o \in Panels
      /\ pg.label \in Selectable /\ pg.keywords \in Panels /\ pg.overview \in Panels
  BY <1>1, <1>6, PanelTypes DEF Pages
<1>8. /\ page' \in Pages
      /\ page'.visible = page.visible /\ page'.skeleton = page.skeleton
      /\ page'.there = page.there /\ page'.ready = pg.ready
      /\ OnPage(skeleton, page) =>
            page'.label = l /\ page'.keywords = k /\ page'.overview = o
      /\ ~OnPage(skeleton, page) =>
            page'.label = page.label /\ page'.keywords = page.keywords
            /\ page'.overview = page.overview
      /\ \A s : OnPage(s, page)' <=> OnPage(s, page)
  <2>1. OnPage(skeleton, pg) <=> OnPage(skeleton, page)
    BY DEF OnPage
  <2> HIDE DEF l, k, o
  <2>2. CASE OnPage(skeleton, page)
    <3>1. page' = [pg EXCEPT !.label = l, !.keywords = k, !.overview = o]
      BY <1>2, <2>1, <2>2
    <3>2. /\ page' \in Pages
          /\ page'.label = l /\ page'.keywords = k /\ page'.overview = o
          /\ page'.visible = pg.visible /\ page'.skeleton = pg.skeleton
          /\ page'.there = pg.there /\ page'.ready = pg.ready
      BY <1>7, <3>1 DEF Pages
    <3> QED
      BY <2>2, <3>2 DEF OnPage
  <2>3. CASE ~OnPage(skeleton, page)
    <3>1. page' = pg
      BY <1>2, <2>1, <2>3
    <3> QED
      BY <2>3, <3>1 DEF OnPage
  <2> QED
    BY <2>2, <2>3
<1>9. PageOK'
  <2>1. OnPage(skeleton, page) => page.there
    BY DEF OnPage
  <2>2. /\ page'.ready => page'.there
        /\ ~page'.there => page'.keywords = Blank /\ page'.overview = Blank
                           /\ page'.label = Nothing
    BY <1>8, <2>1 DEF DashInv, PageOK
  <2>3. page'.label \in {Nothing, selected'}
    BY <1>8 DEF DashInv, PageOK
  <2>4. page'.keywords # Blank => page'.label # Nothing
    BY <1>1, <1>8 DEF DashInv, PageOK
  <2>5. page'.keywords.is = "shown" =>
          page'.keywords.brand = selected' /\ (page'.visible => page'.keywords.of > atLeast')
    BY <1>1, <1>6, <1>8, PanelTypes DEF DashInv, PageOK
  <2>6. page'.overview.is = "shown" => rushed' \/ page'.overview.brand = selected'
    BY <1>1, <1>8, PanelTypes DEF DashInv, PageOK
  <2> QED
    BY <1>1, <2>2, <2>3, <2>4, <2>5, <2>6 DEF PageOK
<1>10. CallsOK'
  <2> SUFFICES ASSUME NEW c \in BagToSet(waiting')
               PROVE  /\ c.skeleton <= page'.skeleton
                      /\ c.kind = "keywords" => KeywordsCallOK(c)'
                      /\ c.kind = "overview" => OverviewCallOK(c)'
    BY DEF CallsOK
  <2>1. CASE c \in BagToSet(waiting)
    <3>0. c \in PanelCalls
      BY <1>1, <2>1
    <3>1. c.skeleton <= page'.skeleton
      BY <1>8, <2>1 DEF DashInv, CallsOK
    <3>2. ASSUME c.kind = "keywords" PROVE KeywordsCallOK(c)'
      <4>1. KeywordsCallOK(c)
        BY <2>1, <3>2 DEF DashInv, CallsOK
      <4>2. c.fetch \in DOMAIN fetches' /\ fetches'[c.fetch] = fetches[c.fetch]
        BY <1>3, <4>1 DEF KeywordsCallOK
      <4>3. OnPage(c.skeleton, page) => page'.label # Nothing
        BY <1>1, <1>8, <4>1 DEF KeywordsCallOK
      <4> QED
        BY <1>8, <4>1, <4>2, <4>3 DEF KeywordsCallOK, Recent
    <3>3. ASSUME c.kind = "overview" PROVE OverviewCallOK(c)'
      BY <1>8, <2>1, <3>3 DEF DashInv, CallsOK, OverviewCallOK
    <3> QED
      BY <3>1, <3>2, <3>3
  <2>2. CASE c = call /\ "keywords" \in kinds /\ ~hit
    <3>1. c.kind = "keywords" /\ c.skeleton = skeleton /\ c.fetch = fetch
      BY <2>2 DEF call
    <3>2. OnPage(skeleton, page) => page'.label # Nothing
      BY <1>1, <1>8, <2>2
    <3> QED
      BY <1>3, <1>5, <1>8, <2>2, <3>1, <3>2 DEF KeywordsCallOK, Recent
  <2>3. CASE c = over
    BY <1>8, <2>3 DEF over, OverviewCallOK
  <2> QED
    BY <1>2, <2>1, <2>2, <2>3
<1>11. DashTypes'
  <2>1. BagToSet(waiting') \subseteq PanelCalls
    <3>1. over \in PanelCalls
      BY <1>1 DEF over, PanelCalls
    <3>2. "keywords" \in kinds => call \in PanelCalls
      <4>1. "keywords" \in kinds => fetch \in Nat
        BY <1>1, <1>3
      <4> QED
        BY <1>1, <4>1 DEF call, PanelCalls
    <3> QED
      BY <1>1, <1>2, <3>1, <3>2
  <2> QED
    BY <1>1, <1>3, <1>8, <2>1 DEF DashInv, DashTypes
<1>12. InitsOK'
  BY <1>8 DEF DashInv, InitsOK
<1> QED
  BY <1>4, <1>9, <1>10, <1>11, <1>12 DEF DashInv

LEMMA DashInvInit == DashInit => DashInv
<1> SUFFICES ASSUME DashInit PROVE DashInv
  OBVIOUS
<1>1. PICK open \in BOOLEAN :
        /\ page = LoadingPage(open, 0)
        /\ inits = IF open THEN NewInit(EmptyBag) ELSE EmptyBag
  BY DEF DashInit
<1>2. /\ page \in Pages /\ page.skeleton = 0 /\ ~page.there /\ ~page.ready
      /\ page.label = Nothing /\ page.keywords = Blank /\ page.overview = Blank
  BY <1>1, LoadingPageTypes DEF LoadingPage
<1>3. /\ BagToSet(inits) \subseteq {[at |-> "trends", skeleton |-> 0]}
      /\ BagToSet(waiting) = {}
  <2>1. BagToSet(EmptyBag) = {}
    BY DEF EmptyBag, SetToBag, BagToSet
  <2> QED
    BY <1>1, <2>1, BagPlus DEF NewInit, DashInit
<1>4. DashTypes
  <2>1. fetches \in Seq(Fetches) /\ Len(fetches) = 0
    BY DEF DashInit
  <2>2. BagToSet(inits) \subseteq [at : {"trends", "summary"}, skeleton : Nat]
    BY <1>3
  <2>3. cache \in 0 .. Len(fetches)
    BY <2>1 DEF DashInit
  <2>4. mentions \in Nat /\ atLeast \in Nat /\ atLeast <= mentions
    BY DEF DashInit
  <2>5. selected \in Selectable /\ BagToSet(waiting) \subseteq PanelCalls /\ rushed \in BOOLEAN
    BY <1>3 DEF DashInit, Selectable
  <2> QED
    BY <1>2, <2>1, <2>2, <2>3, <2>4, <2>5 DEF DashTypes
<1> QED
  BY <1>2, <1>3, <1>4, PanelTypes
     DEF DashInit, DashInv, FetchesOK, PageOK, CallsOK, InitsOK

LEMMA DashInvStutter == DashInv /\ UNCHANGED dashVars => DashInv'
  BY DEF DashInv, DashTypes, FetchesOK, Recent, PageOK, CallsOK, KeywordsCallOK,
         OverviewCallOK, OnPage, InitsOK, dashVars

(* initDashboard() starts on an emptied page.                               *)
LEMMA OpenDashboardKeeps == DashInv /\ OpenDashboard => DashInv'
<1> SUFFICES ASSUME DashInv, OpenDashboard PROVE DashInv'
  OBVIOUS
<1>1. \A i \in BagToSet(inits') :
          i \in BagToSet(inits) \/ i = [at |-> "trends", skeleton |-> 0]
  BY BagPlus DEF OpenDashboard, NewInit
<1> QED
  BY <1>1, EmptyPageKeeps DEF OpenDashboard

LEMMA InitFailsKeeps ==
    ASSUME DashInv, NEW i \in BagToSet(inits), InitFails(i) PROVE DashInv'
<1>1. page.visible \in BOOLEAN
  BY DEF DashInv, DashTypes, Pages
<1>2. \A j \in BagToSet(inits') : j \in BagToSet(inits)
  BY BagMinus DEF InitFails
<1> QED
  BY <1>1, <1>2, EmptyPageKeeps DEF InitFails

LEMMA LeaveKeeps == DashInv /\ LeaveDashboard => DashInv'
<1> SUFFICES ASSUME DashInv, LeaveDashboard PROVE DashInv'
  OBVIOUS
<1>1. page \in Pages
  BY DEF DashInv, DashTypes
<1>2. page' = [page EXCEPT !.visible = FALSE]
  BY DEF LeaveDashboard
<1>3. /\ page' \in Pages /\ ~page'.visible /\ page'.skeleton = page.skeleton
      /\ page'.there = page.there /\ page'.ready = page.ready /\ page'.label = page.label
      /\ page'.overview = page.overview /\ page'.keywords = page.keywords
  BY <1>1, <1>2 DEF Pages
<1>4. DashTypes' /\ FetchesOK' /\ InitsOK'
  BY <1>3 DEF DashInv, DashTypes, FetchesOK, Recent, InitsOK, LeaveDashboard
<1>5. PageOK'
  BY <1>3 DEF DashInv, PageOK, LeaveDashboard
<1>6. CallsOK'
  BY <1>3 DEF DashInv, CallsOK, KeywordsCallOK, OverviewCallOK, OnPage, LeaveDashboard
<1> QED
  BY <1>4, <1>5, <1>6 DEF DashInv

(* The elements are created if they are not there, with a new number, which *)
(* no call that waits has.                                                 *)
LEMMA TrendsKeeps ==
    ASSUME DashInv, NEW i \in BagToSet(inits), TrendsArrive(i) PROVE DashInv'
<1>1. page \in Pages /\ page.skeleton \in Nat
  BY DEF DashInv, DashTypes, Pages
<1>2. /\ page' \in Pages /\ page'.skeleton >= page.skeleton
      /\ page'.there /\ page'.visible = page.visible
      /\ page'.label = page.label /\ page'.ready = page.ready
      /\ page'.overview = page.overview /\ page'.keywords = page.keywords
      /\ \A s \in Nat : s <= page.skeleton /\ OnPage(s, page)' => OnPage(s, page)
  <2>1. CASE page.there
    BY <1>1, <2>1 DEF TrendsArrive, OnPage
  <2>2. CASE ~page.there
    <3>1. page' = [page EXCEPT !.skeleton = page.skeleton + 1, !.there = TRUE]
      BY <2>2 DEF TrendsArrive
    <3>2. page.skeleton + 1 \in Nat
      BY <1>1
    <3>3. page' \in Pages
      BY <1>1, <3>1, <3>2 DEF Pages
    <3>4. /\ page'.skeleton = page.skeleton + 1
          /\ page'.there /\ page'.visible = page.visible
          /\ page'.label = page.label /\ page'.ready = page.ready
          /\ page'.overview = page.overview /\ page'.keywords = page.keywords
      BY <1>1, <3>1 DEF Pages
    <3> QED
      BY <1>1, <3>3, <3>4 DEF OnPage
  <2> QED
    BY <2>1, <2>2
<1>3. /\ BagToSet(inits') \subseteq [at : {"trends", "summary"}, skeleton : Nat]
      /\ \A j \in BagToSet(inits') : j \in BagToSet(inits) \/ j.skeleton = page'.skeleton
  <2>1. page'.skeleton \in Nat
    BY <1>2 DEF Pages
  <2>2. PICK j : j = [at |-> "summary", skeleton |-> page'.skeleton]
    OBVIOUS
  <2>3. BagToSet(inits') \subseteq BagToSet(inits) \cup {j}
    <3>1. inits' = (inits (-) SetToBag({i})) (+) SetToBag({j})
      BY <2>2 DEF TrendsArrive
    <3> QED
      BY <3>1, BagPlus, BagMinus
  <2> QED
    BY <2>1, <2>2, <2>3 DEF DashInv, DashTypes
<1>4. DashTypes' /\ FetchesOK'
  BY <1>2, <1>3 DEF DashInv, DashTypes, FetchesOK, Recent, TrendsArrive
<1>5. PageOK'
  <2>1. rushed' = (rushed /\ page.there) /\ selected' = selected
        /\ UNCHANGED <<waiting, atLeast>>
    BY DEF TrendsArrive
  <2>2. page.overview.is = "shown" => page.there
    BY PanelTypes DEF DashInv, PageOK
  <2> QED
    BY <1>2, <2>1, <2>2 DEF DashInv, PageOK
<1>6. CallsOK'
  <2>1. \A c \in BagToSet(waiting) : c.skeleton \in Nat
    BY DEF DashInv, DashTypes, PanelCalls
  <2>2. page'.skeleton \in Nat
    BY <1>2 DEF Pages
  <2>3. \A s : OnPage(s, page) => page.there
    BY DEF OnPage
  <2>4. UNCHANGED <<fetches, selected, waiting, atLeast>> /\ rushed' = (rushed /\ page.there)
    BY DEF TrendsArrive
  <2> SUFFICES ASSUME NEW c \in BagToSet(waiting)
               PROVE  /\ c.skeleton <= page'.skeleton
                      /\ c.kind = "keywords" => KeywordsCallOK(c)'
                      /\ c.kind = "overview" => OverviewCallOK(c)'
    BY <2>4 DEF CallsOK
  <2>5. /\ c.skeleton <= page.skeleton
        /\ c.kind = "keywords" => KeywordsCallOK(c)
        /\ c.kind = "overview" => OverviewCallOK(c)
    BY DEF DashInv, CallsOK
  <2>6. c.skeleton <= page'.skeleton
    BY <1>1, <1>2, <2>1, <2>2, <2>5
  <2>7. OnPage(c.skeleton, page)' => OnPage(c.skeleton, page) /\ page.there
    BY <1>2, <2>1, <2>3, <2>5
  <2>8. c.kind = "keywords" => KeywordsCallOK(c)'
    BY <1>2, <2>4, <2>5, <2>7 DEF KeywordsCallOK, Recent
  <2>9. c.kind = "overview" => OverviewCallOK(c)'
    BY <2>4, <2>5, <2>7 DEF OverviewCallOK
  <2> QED
    BY <2>6, <2>8, <2>9
<1>7. InitsOK'
  <2>1. page'.skeleton \in Nat
    BY <1>2 DEF Pages
  <2>2. \A j \in BagToSet(inits) : j.skeleton \in Nat
    BY DEF DashInv, DashTypes
  <2> QED
    BY <1>1, <1>2, <1>3, <2>1, <2>2 DEF DashInv, InitsOK
<1> QED
  BY <1>4, <1>5, <1>6, <1>7 DEF DashInv

LEMMA SummaryKeeps ==
    ASSUME DashInv, NEW i \in BagToSet(inits), SummaryArrives(i) PROVE DashInv'
<1> DEFINE pg == IF OnPage(i.skeleton, page) THEN [page EXCEPT !.ready = TRUE] ELSE page
<1>1. page \in Pages /\ i.skeleton \in Nat /\ i.skeleton <= page.skeleton
  BY DEF DashInv, DashTypes, InitsOK
<1>2. /\ pg \in Pages /\ pg.visible = page.visible /\ pg.skeleton = page.skeleton
      /\ pg.there = page.there /\ pg.label = page.label
      /\ pg.keywords = page.keywords /\ pg.overview = page.overview
      /\ pg.ready => pg.there
  BY <1>1 DEF Pages, OnPage, DashInv, PageOK
<1>3. selected' \in Shown /\ (selected' = selected \/ selected = Nothing)
  BY DashboardAssumption DEF SummaryArrives, DashInv, DashTypes, Selectable
<1>4. /\ rushed' \in BOOLEAN /\ (rushed => rushed')
      /\ \A c \in BagToSet(waiting) : c.kind = "overview" /\ OnPage(c.skeleton, page)
                                       => rushed' \/ c.brand = selected'
  BY <1>3 DEF SummaryArrives, DashInv, DashTypes, PageOK, CallsOK, OverviewCallOK
<1>5. /\ BagToSet(inits') \subseteq BagToSet(inits) /\ UNCHANGED <<mentions, atLeast>>
      /\ StartPanels(i.skeleton, pg, {"overview", "keywords"})
      /\ {"overview", "keywords"} \in SUBSET {"overview", "keywords"}
  BY BagMinus DEF SummaryArrives
<1> HIDE DEF pg
<1> QED
  BY <1>1, <1>2, <1>3, <1>4, <1>5, StartPanelsKeeps

LEMMA SelectBrandKeeps ==
    ASSUME DashInv, NEW b \in Shown, SelectBrand(b) PROVE DashInv'
<1>1. /\ page \in Pages /\ page.skeleton \in Nat /\ page.skeleton <= page.skeleton
      /\ page.ready => page.there
  BY DEF DashInv, DashTypes, Pages, PageOK
<1>2. OnPage(page.skeleton, page)
  BY <1>1 DEF SelectBrand, OnPage
<1>3. selected' \in Shown
  BY DEF SelectBrand
<1>4. /\ rushed' \in BOOLEAN
      /\ \A c \in BagToSet(waiting) : c.kind = "overview" /\ OnPage(c.skeleton, page)
                                       => rushed' \/ c.brand = selected'
  BY DEF SelectBrand, OtherAwaited
<1>5. /\ BagToSet(inits') \subseteq BagToSet(inits) /\ UNCHANGED <<mentions, atLeast>>
      /\ StartPanels(page.skeleton, page, {"overview", "keywords"})
      /\ {"overview", "keywords"} \in SUBSET {"overview", "keywords"}
  BY DEF SelectBrand
<1> QED
  BY <1>1, <1>2, <1>3, <1>4, <1>5, StartPanelsKeeps

LEMMA RetryKeeps ==
    ASSUME DashInv, NEW kind \in {"overview", "keywords"}, RetryPanel(kind) PROVE DashInv'
<1>1. /\ page \in Pages /\ page.skeleton \in Nat /\ page.skeleton <= page.skeleton
      /\ page.ready => page.there
  BY DEF DashInv, DashTypes, Pages, PageOK
<1>2. selected' = selected /\ selected' \in Shown
  BY PanelTypes DEF RetryPanel, DashInv, DashTypes, PageOK, Selectable
<1>3. /\ rushed' = rushed /\ rushed' \in BOOLEAN
      /\ \A c \in BagToSet(waiting) : c.kind = "overview" /\ OnPage(c.skeleton, page)
                                       => rushed' \/ c.brand = selected'
  BY <1>2 DEF RetryPanel, DashInv, DashTypes, CallsOK, OverviewCallOK
<1>4. /\ BagToSet(inits') \subseteq BagToSet(inits) /\ UNCHANGED <<mentions, atLeast>>
      /\ StartPanels(page.skeleton, page, {kind})
      /\ {kind} \in SUBSET {"overview", "keywords"}
  BY DEF RetryPanel
<1> QED
  BY <1>1, <1>2, <1>3, <1>4, StartPanelsKeeps

LEMMA OverviewKeeps ==
    ASSUME DashInv, NEW c \in BagToSet(waiting), OverviewArrives(c) PROVE DashInv'
<1>0. BagToSet(waiting') \subseteq BagToSet(waiting)
  BY BagMinus DEF OverviewArrives
<1>1. page \in Pages /\ c \in PanelCalls
  BY DEF DashInv, DashTypes
<1>2. PICK panel \in {[brand |-> c.brand, of |-> 0, is |-> "shown"], Failure} :
        page' = IF OnPage(c.skeleton, page) THEN [page EXCEPT !.overview = panel] ELSE page
  BY DEF OverviewArrives
<1>3. panel \in Panels /\ (panel.is = "shown" => panel.brand = c.brand)
  BY <1>1, <1>2, PanelTypes DEF PanelCalls, Panels
<1>4. /\ page' \in Pages /\ page'.visible = page.visible /\ page'.skeleton = page.skeleton
      /\ page'.there = page.there /\ page'.ready = page.ready /\ page'.label = page.label
      /\ page'.keywords = page.keywords
      /\ \/ page'.overview = page.overview
         \/ page'.overview = panel /\ OnPage(c.skeleton, page)
  <2>1. CASE OnPage(c.skeleton, page)
    <3>1. page' = [page EXCEPT !.overview = panel]
      BY <1>2, <2>1
    <3> QED
      BY <1>1, <1>3, <2>1, <3>1 DEF Pages
  <2>2. CASE ~OnPage(c.skeleton, page)
    <3>1. page' = page
      BY <1>2, <2>2
    <3> QED
      BY <1>1, <3>1
  <2> QED
    BY <2>1, <2>2
<1>5. DashTypes' /\ FetchesOK' /\ InitsOK'
  BY <1>0, <1>4 DEF DashInv, DashTypes, FetchesOK, Recent, InitsOK, OverviewArrives
<1>6. CallsOK'
  BY <1>0, <1>4 DEF DashInv, CallsOK, KeywordsCallOK, OverviewCallOK, OnPage, Recent,
              OverviewArrives
<1>7. PageOK'
  <2>1. UNCHANGED <<selected, rushed, atLeast>> /\ c.kind = "overview"
        /\ selected # Nothing
    BY DEF OverviewArrives, DashInv, PageOK
  <2>2. OnPage(c.skeleton, page) => page.there /\ (rushed \/ c.brand = selected)
    BY <2>1 DEF OnPage, DashInv, CallsOK, OverviewCallOK
  <2>3. page'.overview.is = "shown" => rushed \/ page'.overview.brand = selected
    BY <1>3, <1>4, <2>2 DEF DashInv, PageOK
  <2> QED
    BY <1>4, <2>1, <2>2, <2>3 DEF DashInv, PageOK
<1> QED
  BY <1>5, <1>6, <1>7 DEF DashInv

(* What is read now is newer than the last batch.                           *)
LEMMA MentionsReadKeeps ==
    ASSUME DashInv, NEW f \in DOMAIN fetches, MentionsRead(f) PROVE DashInv'
<1>1. /\ mentions \in Nat /\ atLeast \in Nat /\ atLeast <= mentions
      /\ fetches \in Seq(Fetches) /\ fetches[f] \in Fetches /\ f \in DOMAIN fetches
  BY DEF DashInv, DashTypes
<1> DEFINE g == [fetches[f] EXCEPT !.of = mentions + 1]
<1>2. g \in Fetches /\ g.is = fetches[f].is /\ g.of = mentions + 1
  BY <1>1 DEF Fetches
<1>3. fetches' = [fetches EXCEPT ![f] = g]
  BY DEF MentionsRead
<1> HIDE DEF g
<1>4. /\ fetches' \in Seq(Fetches) /\ Len(fetches') = Len(fetches)
      /\ DOMAIN fetches' = DOMAIN fetches /\ fetches'[f] = g
      /\ \A x \in DOMAIN fetches : x # f => fetches'[x] = fetches[x]
  BY <1>1, <1>2, <1>3
<1>5. \A x \in DOMAIN fetches : fetches'[x].is = fetches[x].is
                               /\ (Recent(x) => Recent(x)')
  BY <1>1, <1>2, <1>4 DEF Recent, MentionsRead
<1>6. DashTypes' /\ InitsOK'
  BY <1>4 DEF DashInv, DashTypes, InitsOK, MentionsRead
<1>7. FetchesOK'
  <2>1. \A x \in DOMAIN fetches' : fetches'[x].is = "arrived" => fetches'[x].of # 0
    BY <1>1, <1>2, <1>4 DEF DashInv, FetchesOK
  <2>2. cache' # 0 => fetches'[cache'].of = 0 \/ fetches'[cache'].of > atLeast'
    <3>1. cache' = cache /\ cache \in 0 .. Len(fetches) /\ DOMAIN fetches = 1 .. Len(fetches)
      BY <1>1 DEF MentionsRead, DashInv, DashTypes
    <3> QED
      BY <1>5, <3>1 DEF DashInv, FetchesOK, Recent
  <2> QED
    BY <2>1, <2>2 DEF FetchesOK, Recent
<1>8. PageOK'
  BY DEF DashInv, PageOK, MentionsRead
<1>9. CallsOK'
  BY <1>4, <1>5 DEF DashInv, CallsOK, KeywordsCallOK, OverviewCallOK, OnPage, Recent,
                    MentionsRead
<1> QED
  BY <1>6, <1>7, <1>8, <1>9 DEF DashInv

(* All calls that wait for a promise go on when it is settled.              *)
LEMMA MentionsArriveKeeps ==
    ASSUME DashInv, NEW f \in DOMAIN fetches, MentionsArrive(f) PROVE DashInv'
<1>1. PICK is \in {"failed"} \cup (IF fetches[f].of = 0 THEN {} ELSE {"arrived"}) :
        /\ fetches' = [fetches EXCEPT ![f].is = is]
        /\ LET calls == {c \in BagToSet(waiting) : c.kind = "keywords" /\ c.fetch = f}
           IN  /\ waiting' = [c \in BagToSet(waiting) \ calls |-> waiting[c]]
               /\ page' = IF \A c \in calls : ~OnPage(c.skeleton, page) THEN page
                          ELSE [page EXCEPT !.keywords =
                                  IF is = "failed" THEN Failure
                                  ELSE TopKeywords(fetches[f].of)]
  BY DEF MentionsArrive
<1> DEFINE calls == {c \in BagToSet(waiting) : c.kind = "keywords" /\ c.fetch = f}
           g == [fetches[f] EXCEPT !.is = is]
           shown == [brand |-> selected, of |-> fetches[f].of, is |-> "shown"]
           k == IF is = "failed" THEN Failure ELSE shown
<1>2. /\ mentions \in Nat /\ atLeast \in Nat /\ atLeast <= mentions
      /\ fetches \in Seq(Fetches) /\ fetches[f] \in Fetches /\ f \in DOMAIN fetches
      /\ page \in Pages /\ BagToSet(waiting) \subseteq PanelCalls /\ selected \in Selectable
  BY DEF DashInv, DashTypes
<1>3. /\ selected' = selected /\ fetches[f].is = "sent"
      /\ UNCHANGED <<mentions, cache, inits, atLeast, rushed>>
  BY DEF MentionsArrive
<1>4. /\ is \in {"failed", "arrived"} /\ (is = "arrived" => fetches[f].of # 0)
  BY <1>1
<1>5. g \in Fetches /\ g.is = is /\ g.of = fetches[f].of
  BY <1>2, <1>4 DEF Fetches
<1>6. /\ fetches' = [fetches EXCEPT ![f] = g]
      /\ BagToSet(waiting') = BagToSet(waiting) \ calls
  BY <1>1, BagOf
<1>7. page' = IF \A c \in calls : ~OnPage(c.skeleton, page) THEN page
              ELSE [page EXCEPT !.keywords = k]
  BY <1>1, <1>3 DEF TopKeywords
<1>8. k \in Panels /\ k # Blank /\ (k.is = "shown" => k = shown /\ is = "arrived")
  <2>1. shown \in Panels /\ shown.is = "shown" /\ shown # Blank
    <3>1. shown \in Panels /\ shown.is = "shown"
      BY <1>2 DEF Panels, Fetches
    <3> QED
      BY <3>1, PanelTypes
  <2>2. CASE is = "failed"
    BY <2>2, PanelTypes
  <2>3. CASE is # "failed"
    BY <1>4, <2>1, <2>3
  <2> QED
    BY <2>2, <2>3
<1> HIDE DEF g, k
<1>9. /\ fetches' \in Seq(Fetches) /\ Len(fetches') = Len(fetches)
      /\ DOMAIN fetches' = DOMAIN fetches /\ fetches'[f] = g
      /\ \A x \in DOMAIN fetches : x # f => fetches'[x] = fetches[x]
      /\ \A x \in DOMAIN fetches : fetches'[x].of = fetches[x].of
  <2>1. /\ fetches' \in Seq(Fetches) /\ Len(fetches') = Len(fetches)
        /\ DOMAIN fetches' = DOMAIN fetches /\ fetches'[f] = g
        /\ \A x \in DOMAIN fetches : x # f => fetches'[x] = fetches[x]
    BY <1>2, <1>5, <1>6
  <2> QED
    BY <1>5, <2>1
<1>10. \/ page' = page
       \/ /\ page' = [page EXCEPT !.keywords = k]
          /\ page.there /\ page.label # Nothing
          /\ page.visible => Recent(f)
  <2>1. CASE \A c \in calls : ~OnPage(c.skeleton, page)
    BY <1>7, <2>1
  <2>2. CASE \E c \in calls : OnPage(c.skeleton, page)
    <3>1. PICK c \in BagToSet(waiting) :
              c.kind = "keywords" /\ c.fetch = f /\ OnPage(c.skeleton, page)
      BY <2>2
    <3>2. KeywordsCallOK(c)
      BY <3>1 DEF DashInv, CallsOK
    <3>3. page' = [page EXCEPT !.keywords = k]
      BY <1>7, <2>2
    <3> QED
      BY <3>1, <3>2, <3>3 DEF KeywordsCallOK, OnPage
  <2> QED
    BY <2>1, <2>2
<1>11. /\ page' \in Pages /\ page'.visible = page.visible /\ page'.skeleton = page.skeleton
       /\ page'.there = page.there /\ page'.ready = page.ready
       /\ page'.label = page.label /\ page'.overview = page.overview
       /\ \/ page'.keywords = page.keywords
          \/ /\ page'.keywords = k /\ page.there /\ page.label # Nothing
             /\ page.visible => Recent(f)
  BY <1>2, <1>8, <1>10 DEF Pages
<1>12. DashTypes' /\ InitsOK'
  BY <1>3, <1>6, <1>9, <1>11 DEF DashInv, DashTypes, InitsOK
<1>13. FetchesOK'
  <2>1. \A x \in DOMAIN fetches' : fetches'[x].is = "arrived" => fetches'[x].of # 0
    BY <1>4, <1>5, <1>9 DEF DashInv, FetchesOK
  <2>2. cache' # 0 => fetches'[cache'].of = 0 \/ fetches'[cache'].of > atLeast'
    <3>1. cache' = cache /\ cache \in 0 .. Len(fetches) /\ DOMAIN fetches = 1 .. Len(fetches)
      BY <1>2, <1>3 DEF DashInv, DashTypes
    <3> QED
      BY <1>3, <1>9, <3>1 DEF DashInv, FetchesOK, Recent
  <2> QED
    BY <2>1, <2>2 DEF FetchesOK, Recent
<1>14. PageOK'
  <2>1. page'.keywords.is = "shown" => /\ page'.keywords.brand = selected'
                                       /\ page'.visible => page'.keywords.of > atLeast'
    <3>1. CASE page'.keywords = page.keywords
      BY <1>3, <1>11, <3>1 DEF DashInv, PageOK
    <3>2. CASE page'.keywords = k /\ (page.visible => Recent(f))
      BY <1>2, <1>3, <1>4, <1>8, <1>11, <3>2 DEF Recent, Fetches
    <3> QED
      BY <1>11, <3>1, <3>2
  <2>2. page'.keywords # Blank => page'.label # Nothing
    BY <1>11 DEF DashInv, PageOK
  <2>3. selected' = Nothing =>
          page'.keywords = Blank /\ page'.overview = Blank /\ BagToSet(waiting') = {}
    BY <1>3, <1>6, <1>11 DEF DashInv, PageOK
  <2> QED
    BY <1>3, <1>11, <2>1, <2>2, <2>3 DEF DashInv, PageOK
<1>15. CallsOK'
  <2> SUFFICES ASSUME NEW c \in BagToSet(waiting')
               PROVE  /\ c.skeleton <= page'.skeleton
                      /\ c.kind = "keywords" => KeywordsCallOK(c)'
                      /\ c.kind = "overview" => OverviewCallOK(c)'
    BY DEF CallsOK
  <2>1. c \in BagToSet(waiting) /\ (c.kind = "keywords" => c.fetch # f)
    BY <1>6
  <2>2. /\ c.skeleton <= page.skeleton
        /\ c.kind = "keywords" => KeywordsCallOK(c)
        /\ c.kind = "overview" => OverviewCallOK(c)
    BY <2>1 DEF DashInv, CallsOK
  <2>3. c.kind = "keywords" => KeywordsCallOK(c)'
    BY <1>3, <1>9, <1>11, <2>1, <2>2 DEF KeywordsCallOK, OnPage, Recent
  <2>4. c.kind = "overview" => OverviewCallOK(c)'
    BY <1>3, <1>11, <2>2 DEF OverviewCallOK, OnPage
  <2> QED
    BY <1>11, <2>2, <2>3, <2>4
<1> QED
  BY <1>12, <1>13, <1>14, <1>15 DEF DashInv

LEMMA ClearCacheKeeps == DashInv /\ ClearCache => DashInv'
  BY DEF DashInv, DashTypes, FetchesOK, Recent, PageOK, CallsOK, KeywordsCallOK,
         OverviewCallOK, OnPage, InitsOK, ClearCache

LEMMA MentionsChangeKeeps == DashInv /\ MentionsChange => DashInv'
<1> SUFFICES ASSUME DashInv, MentionsChange PROVE DashInv'
  OBVIOUS
<1>1. mentions' \in Nat /\ atLeast' <= mentions' /\ atLeast' \in Nat
  BY DEF DashInv, DashTypes, MentionsChange
<1> QED
  BY <1>1 DEF DashInv, DashTypes, FetchesOK, Recent, PageOK, CallsOK, KeywordsCallOK,
         OverviewCallOK, OnPage, InitsOK, MentionsChange

LEMMA PollingKeeps ==
    ASSUME DashInv,
           UNCHANGED <<mentions, fetches, cache, selected, page, inits, waiting,
                       atLeast, rushed>>
    PROVE  DashInv'
  BY DEF DashInv, DashTypes, FetchesOK, Recent, PageOK, CallsOK, KeywordsCallOK,
         OverviewCallOK, OnPage, InitsOK

(* The cache is emptied, and nothing is on a visible page.                  *)
LEMMA BatchDoneKeeps ==
    ASSUME DashInv, NEW button \in Buttons, BatchDone(button) PROVE DashInv'
<1>1. page.visible \in BOOLEAN
  BY DEF DashInv, DashTypes, Pages
<1>2. CASE page.visible \/ button = "resume"
  <2>1. /\ page' = LoadingPage(page.visible, page.skeleton)
        /\ \A i \in BagToSet(inits') :
              i \in BagToSet(inits) \/ i = [at |-> "trends", skeleton |-> 0]
    BY <1>2, BagPlus DEF BatchDone, Reload, NewInit
  <2> QED
    BY <1>1, <2>1, EmptyPageKeeps DEF BatchDone
<1>3. CASE ~(page.visible \/ button = "resume")
  <2>1. /\ UNCHANGED <<page, inits, mentions, fetches, selected, waiting, rushed>>
        /\ cache' = 0 /\ atLeast' = mentions /\ ~page.visible
    BY <1>3 DEF BatchDone, Reload
  <2>2. cache' \in 0 .. Len(fetches') /\ atLeast' <= mentions' /\ atLeast' \in Nat
    BY <2>1 DEF DashInv, DashTypes
  <2> QED
    BY <2>1, <2>2 DEF DashInv, DashTypes, FetchesOK, Recent, PageOK, CallsOK,
       KeywordsCallOK, OverviewCallOK, OnPage, InitsOK
<1> QED
  BY <1>2, <1>3

LEMMA DashClickKeeps == DashInv /\ DashClick => DashInv'
<1> SUFFICES ASSUME DashInv, DashClick PROVE DashInv'
  OBVIOUS
<1>1. ASSUME NEW button \in Buttons, RunBatch(button) PROVE DashInv'
  BY <1>1, PollingKeeps DEF RunBatch
<1> QED
  BY <1>1, OpenDashboardKeeps, LeaveKeeps, SelectBrandKeeps, RetryKeeps DEF DashClick

LEMMA DashAnswerKeeps == DashInv /\ (Answer \/ MentionsChange) => DashInv'
<1> SUFFICES ASSUME DashInv, Answer \/ MentionsChange PROVE DashInv'
  OBVIOUS
<1>1. ASSUME NEW button \in Buttons, BatchFails(button) PROVE DashInv'
  BY <1>1, PollingKeeps DEF BatchFails
<1> QED
  BY <1>1, TrendsKeeps, SummaryKeeps, InitFailsKeeps, OverviewKeeps, MentionsReadKeeps,
     MentionsArriveKeeps, BatchDoneKeeps, MentionsChangeKeeps DEF Answer

(***************************************************************************)
(* The Settings drawer                                                     *)
(***************************************************************************)
Kinds == {"putList", "putChannel", "postBrand", "postPrompt", "getBrands", "getChannels"}

Cards == [brands : SUBSET AllBrands, lists : SUBSET CardRows]

(* A request, whose answer may be there. *)
RequestOK(q) ==
    /\ q = [kind |-> q.kind, of |-> q.of, value |-> q.value, click |-> q.click,
            answer |-> q.answer]
    /\ q.kind \in Kinds
    /\ q.kind = "putList" => /\ q.of \in Lists /\ q.of[2] \in db.brands
                             /\ q.value.to \subseteq Values[q.of[1]]
                             /\ q.value.clicked \in Values[q.of[1]]
    /\ q.kind = "putChannel" => q.of \in DOMAIN SeedChannels /\ q.value \in BOOLEAN
    /\ q.kind = "postBrand" => q.of \in NewBrands
    /\ (q.kind = "getBrands" /\ q.answer # None) =>
          q.answer \in Cards /\ q.answer.brands \subseteq db.brands
    /\ (q.kind = "getChannels" /\ q.answer # None) => q.answer \subseteq DOMAIN SeedChannels

ViewOK(v) ==
    /\ v = [cards |-> v.cards, active |-> v.active, sent |-> v.sent]
    /\ v.cards # None => v.cards \in Cards /\ v.cards.brands \subseteq db.brands
    /\ v.active # None => v.active \subseteq DOMAIN SeedChannels
    /\ \A q \in v.sent : RequestOK(q)

TabsOK == tab = [u \in Tabs |-> tab[u]] /\ \A u \in Tabs : ViewOK(tab[u])

TablesOK ==
    /\ db \in Tables
    /\ \A x \in db.lists : x[2] \in db.brands
    /\ ~DomainsClash(db.lists)

ToggledValues(S, v) == IF v \in S THEN S \ {v} ELSE S \cup {v}

IsChange(q) == q.answer = None /\ q.kind \in {"putList", "putChannel"}

(* A change of a list is under way. *)
IsEdit(q, l) == q.answer = None /\ q.kind = "putList" /\ q.of = l

IsToggle(q) == q.answer = None /\ q.kind = "putChannel"

(* As long as no click on a list is stale, at most one change of it is      *)
(* under way in all tabs, and it was computed from what the table holds.   *)
ListCareful(l) ==
    /\ ValuesOf(db.lists, l) = ValuesOf(meant, l)
    /\ \A t, u \in Tabs : \A q \in tab[t].sent, r \in tab[u].sent :
          IsEdit(q, l) /\ IsEdit(r, l) => t = u /\ q = r
    /\ \A t \in Tabs : \A q \in tab[t].sent : IsEdit(q, l) =>
          q.value.to = ToggledValues(ValuesOf(db.lists, l), q.value.clicked)

(* Likewise for the channels. *)
ChannelsCareful ==
    /\ db.active # {}
    /\ \A t, u \in Tabs : \A q \in tab[t].sent, r \in tab[u].sent :
          IsToggle(q) /\ IsToggle(r) => t = u /\ q = r
    /\ \A t \in Tabs : \A q \in tab[t].sent : IsToggle(q) =>
          q.value \/ db.active \ {q.of} # {}

Careful ==
    /\ \A l \in Lists \ staleLists : ListCareful(l)
    /\ ~staleToggle => ChannelsCareful

DrawerInv == TablesOK /\ TabsOK /\ staleToggle \in BOOLEAN /\ Careful

(* A list after PUT is what was sent, the others are as they were.          *)
LEMMA ReplacedValues ==
    ASSUME NEW rows, NEW l \in Lists, NEW m \in Lists, NEW to \in SUBSET Values[l[1]]
    PROVE  ValuesOf(Replaced(rows, l, to), m) = IF m = l THEN to ELSE ValuesOf(rows, m)
<1>1. l = <<l[1], l[2]>> /\ m = <<m[1], m[2]>>
  BY DrawerAssumption
<1>2. ASSUME NEW v \in Values[m[1]]
      PROVE  <<m[1], m[2], v>> \in Replaced(rows, l, to) <=>
                IF m = l THEN v \in to ELSE <<m[1], m[2], v>> \in rows
  <2>1. <<m[1], m[2], v>> \in Replaced(rows, l, to) <=>
            \/ <<m[1], m[2], v>> \in rows /\ <<m[1], m[2]>> # l
            \/ \E w \in to : <<m[1], m[2], v>> = <<l[1], l[2], w>>
    BY DEF Replaced
  <2>2. (\E w \in to : <<m[1], m[2], v>> = <<l[1], l[2], w>>) <=> m = l /\ v \in to
    BY <1>1
  <2> QED
    BY <1>1, <2>1, <2>2
<1> QED
  BY <1>2 DEF ValuesOf

(* A click toggles a value of its list.                                     *)
LEMMA ToggledRows ==
    ASSUME NEW rows, NEW l \in Lists, NEW m \in Lists, NEW v \in Values[l[1]]
    PROVE  ValuesOf(Toggled(rows, l, v), m) =
              IF m = l THEN ToggledValues(ValuesOf(rows, l), v) ELSE ValuesOf(rows, m)
<1>1. l = <<l[1], l[2]>> /\ m = <<m[1], m[2]>>
  BY DrawerAssumption
<1>2. CASE m = l
  BY <1>2 DEF ValuesOf, Toggled, ToggledValues
<1>3. CASE m # l
  <2>1. \A w : <<m[1], m[2], w>> # <<l[1], l[2], v>>
    BY <1>1, <1>3
  <2> QED
    BY <1>3, <2>1 DEF ValuesOf, Toggled
<1> QED
  BY <1>2, <1>3

LEMMA RequestGrows ==
    ASSUME NEW q, RequestOK(q), db.brands \subseteq db'.brands
    PROVE  RequestOK(q)'
  BY DEF RequestOK

LEMMA ViewGrows ==
    ASSUME NEW v, ViewOK(v), db.brands \subseteq db'.brands
    PROVE  ViewOK(v)'
<1>1. \A q \in v.sent : RequestOK(q)'
  BY RequestGrows DEF ViewOK
<1> QED
  BY <1>1 DEF ViewOK

(* One tab changes, and no brand is removed.                                *)
LEMMA TabChanges ==
    ASSUME TabsOK, NEW t \in Tabs, NEW s, tab' = [tab EXCEPT ![t] = s],
           ViewOK(s)', db.brands \subseteq db'.brands
    PROVE  /\ TabsOK'
           /\ tab'[t] = s
           /\ \A u \in Tabs : u # t => tab'[u] = tab[u]
<1>1. tab = [u \in Tabs |-> tab[u]] /\ \A u \in Tabs : ViewOK(tab[u])
  BY DEF TabsOK
<1>2. /\ tab' = [u \in Tabs |-> tab'[u]] /\ tab'[t] = s
      /\ \A u \in Tabs : u # t => tab'[u] = tab[u]
  BY <1>1
<1>3. ASSUME NEW u \in Tabs PROVE ViewOK(tab[u])'
  <2>1. CASE u = t
    BY <1>2, <2>1 DEF ViewOK, RequestOK
  <2>2. CASE u # t
    BY <1>1, <1>2, <2>2 DEF ViewOK, RequestOK
  <2> QED
    BY <2>1, <2>2
<1> QED
  BY <1>2, <1>3 DEF TabsOK

(* No request to change a list or a channel is new.                         *)
NoNewChange ==
    \A u \in Tabs : \A q \in tab'[u].sent : IsChange(q) => q \in tab[u].sent

LEMMA ListKept ==
    ASSUME NEW l, ListCareful(l), NoNewChange,
           ValuesOf(db'.lists, l) = ValuesOf(db.lists, l),
           ValuesOf(meant', l) = ValuesOf(meant, l)
    PROVE  ListCareful(l)'
<1>1. \A t \in Tabs : \A q \in tab'[t].sent : IsEdit(q, l) => q \in tab[t].sent
  BY DEF NoNewChange, IsEdit, IsChange
<1> QED
  BY <1>1 DEF ListCareful

LEMMA ChannelsKept ==
    ASSUME ChannelsCareful, NoNewChange, db'.active = db.active
    PROVE  ChannelsCareful'
<1>1. \A t \in Tabs : \A q \in tab'[t].sent : IsToggle(q) => q \in tab[t].sent
  BY DEF NoNewChange, IsToggle, IsChange
<1> QED
  BY <1>1 DEF ChannelsCareful

LEMMA CarefulKept ==
    ASSUME Careful, NoNewChange, db'.lists = db.lists, db'.active = db.active,
           meant' = meant, UNCHANGED staleVars
    PROVE  Careful'
<1>1. ASSUME NEW l \in Lists \ staleLists' PROVE ListCareful(l)'
  <2>1. ListCareful(l)
    BY <1>1 DEF Careful, staleVars
  <2> QED
    BY <2>1, ListKept
<1>2. ~staleToggle' => ChannelsCareful'
  BY ChannelsKept DEF Careful, staleVars
<1> QED
  BY <1>1, <1>2 DEF Careful

LEMMA DrawerInvInit == DrawerInit => DrawerInv
<1> SUFFICES ASSUME DrawerInit PROVE DrawerInv
  OBVIOUS
<1>1. TablesOK
  BY DrawerAssumption DEF DrawerInit, TablesOK
<1>2. Start \in Tables /\ db = Start
  BY DrawerAssumption DEF DrawerInit
<1>3. BrandsNow \in Cards /\ BrandsNow.brands = db.brands
  BY <1>2 DEF BrandsNow, Cards, Tables
<1>4. TabsOK
  <2>1. CASE tab = [t \in Tabs |-> [cards |-> BrandsNow, active |-> Start.active,
                                   sent |-> {}]]
    <3>1. Start.active \subseteq DOMAIN SeedChannels
      BY <1>2 DEF Tables
    <3> QED
      BY <1>3, <2>1, <3>1 DEF TabsOK, ViewOK
  <2>2. CASE tab = [t \in Tabs |-> [cards |-> None, active |-> None, sent |-> {}]]
    BY <2>2 DEF TabsOK, ViewOK
  <2> QED
    BY <2>1, <2>2 DEF DrawerInit
<1>5. \A t \in Tabs : tab[t].sent = {}
  BY DEF DrawerInit
<1>6. Careful
  BY <1>5, DrawerAssumption DEF DrawerInit, Careful, ListCareful, ChannelsCareful
<1> QED
  BY <1>1, <1>4, <1>6 DEF DrawerInv, DrawerInit

LEMMA DrawerInvStutter ==
    DrawerInv /\ UNCHANGED <<db, tab, meant, staleVars>> => DrawerInv'
<1> SUFFICES ASSUME DrawerInv, UNCHANGED <<db, tab, meant, staleVars>> PROVE DrawerInv'
  OBVIOUS
<1>1. (TablesOK /\ TabsOK /\ staleToggle \in BOOLEAN)'
  BY DEF DrawerInv, TablesOK, TabsOK, ViewOK, RequestOK, staleVars
<1>2. NoNewChange
  BY DEF NoNewChange
<1> QED
  BY <1>1, <1>2, CarefulKept DEF DrawerInv

LEMMA LoadOK ==
    ASSUME NEW kind \in {"getBrands", "getChannels"}, NEW click
    PROVE  RequestOK(Load(kind, click)) /\ ~IsChange(Load(kind, click))
<1>1. Load(kind, click).kind = kind /\ Load(kind, click).answer = None
  BY DEF Load, Request
<1>2. LET q == Load(kind, click) IN q = [kind |-> q.kind, of |-> q.of, value |-> q.value,
                                  click |-> q.click, answer |-> q.answer]
  BY DEF Load, Request
<1> QED
  BY <1>1, <1>2 DEF RequestOK, IsChange, Kinds

(* A tab that sends one more request.                                       *)
LEMMA ClickKeeps ==
    ASSUME DrawerInv, NEW t \in Tabs, NEW q, RequestOK(q), Click(t, q)
    PROVE  /\ TablesOK' /\ TabsOK' /\ UNCHANGED <<db, meant>>
           /\ tab'[t].sent = tab[t].sent \cup {q}
           /\ \A u \in Tabs : u # t => tab'[u] = tab[u]
<1>1. TablesOK /\ TabsOK /\ UNCHANGED <<db, meant>> /\ ViewOK(tab[t])
  BY DEF DrawerInv, Click, TabsOK
<1>2. PICK s : s = [tab[t] EXCEPT !.sent = tab[t].sent \cup {q}]
  OBVIOUS
<1>3. /\ s = [cards |-> tab[t].cards, active |-> tab[t].active, sent |-> tab[t].sent \cup {q}]
      /\ s.cards = tab[t].cards /\ s.active = tab[t].active
      /\ s.sent = tab[t].sent \cup {q}
  BY <1>1, <1>2 DEF ViewOK
<1>4. ViewOK(s)
  BY <1>1, <1>3 DEF ViewOK
<1>5. ViewOK(s)'
  BY <1>1, <1>4, ViewGrows
<1>6. tab' = [tab EXCEPT ![t] = s]
  BY <1>2 DEF Click
<1> QED
  BY <1>1, <1>3, <1>5, <1>6, TabChanges DEF TablesOK

LEMMA RefreshKeeps ==
    ASSUME DrawerInv, NEW t \in Tabs, RefreshSettings(t) PROVE DrawerInv'
<1>1. TablesOK /\ TabsOK /\ UNCHANGED <<db, meant, staleVars>> /\ ViewOK(tab[t])
  BY DEF DrawerInv, RefreshSettings, TabsOK
<1>2. PICK s : s = [cards |-> None, active |-> None,
                    sent |-> tab[t].sent \cup {Load("getBrands", clicks'),
                                               Load("getChannels", clicks')}]
  OBVIOUS
<1>3. ViewOK(s)
  BY <1>1, <1>2, LoadOK DEF ViewOK
<1>4. ViewOK(s)'
  BY <1>1, <1>3, ViewGrows
<1>5. tab' = [tab EXCEPT ![t] = s]
  BY <1>2 DEF RefreshSettings
<1>6. TabsOK' /\ tab'[t] = s /\ \A u \in Tabs : u # t => tab'[u] = tab[u]
  BY <1>1, <1>4, <1>5, TabChanges
<1>7. NoNewChange
  BY <1>2, <1>6, LoadOK DEF NoNewChange
<1> QED
  BY <1>1, <1>6, <1>7, CarefulKept DEF DrawerInv, TablesOK, staleVars

LEMMA AddKeeps ==
    ASSUME DrawerInv, NEW t \in Tabs,
           \/ \E b \in NewBrands : AddBrand(t, b)
           \/ \E text \in NewTexts : AddKeyword(t, text)
    PROVE  DrawerInv'
<1>1. PICK q : /\ RequestOK(q) /\ ~IsChange(q)
               /\ Click(t, q) /\ UNCHANGED staleVars
  <2>1. ASSUME NEW b \in NewBrands, AddBrand(t, b)
        PROVE  \E q : RequestOK(q) /\ ~IsChange(q) /\ Click(t, q) /\ UNCHANGED staleVars
    <3>1. PICK q : q = Request("postBrand", b, None, clicks + 1)
      OBVIOUS
    <3>2. RequestOK(q) /\ ~IsChange(q)
      BY <3>1 DEF Request, RequestOK, IsChange, Kinds
    <3> QED
      BY <2>1, <3>1, <3>2 DEF AddBrand
  <2>2. ASSUME NEW text \in NewTexts, AddKeyword(t, text)
        PROVE  \E q : RequestOK(q) /\ ~IsChange(q) /\ Click(t, q) /\ UNCHANGED staleVars
    <3>1. PICK q : q = Request("postPrompt", text, None, clicks + 1)
      OBVIOUS
    <3>2. RequestOK(q) /\ ~IsChange(q)
      BY <3>1 DEF Request, RequestOK, IsChange, Kinds
    <3> QED
      BY <2>2, <3>1, <3>2 DEF AddKeyword
  <2> QED
    BY <2>1, <2>2
<1>2. /\ TablesOK' /\ TabsOK' /\ UNCHANGED <<db, meant>>
      /\ tab'[t].sent = tab[t].sent \cup {q}
      /\ \A u \in Tabs : u # t => tab'[u] = tab[u]
  BY <1>1, ClickKeeps
<1>3. NoNewChange
  BY <1>1, <1>2 DEF NoNewChange
<1> QED
  BY <1>1, <1>2, <1>3, CarefulKept DEF DrawerInv, staleVars

LEMMA NoneUnhandled ==
    ASSUME NEW kind, Unhandled(kind) = {}, NEW u \in Tabs, NEW q \in tab[u].sent,
           q.kind = kind
    PROVE  q.answer # None
  BY DEF Unhandled

LEMMA PatchKeeps ==
    ASSUME DrawerInv, NEW t \in Tabs, NEW l \in Lists, NEW v \in Values[l[1]],
           PatchBrandField(t, l, v)
    PROVE  DrawerInv'
<1>1. PICK shown : shown = ValuesOf(tab[t].cards.lists, l)
  OBVIOUS
<1>2. PICK q : q = Request("putList", l, [to |-> ToggledValues(shown, v), clicked |-> v],
                          clicks + 1)
  OBVIOUS
<1>3. /\ tab[t].cards # None /\ l[2] \in tab[t].cards.brands
      /\ Click(t, q) /\ UNCHANGED staleToggle
      /\ staleLists \subseteq staleLists'
      /\ l \notin staleLists' => /\ shown = ValuesOf(db.lists, l)
                                 /\ \A r \in Unhandled("putList") : r.of # l
  BY <1>1, <1>2 DEF PatchBrandField, ToggledValues
<1>4. /\ q.kind = "putList" /\ q.of = l /\ q.answer = None
      /\ q.value.to = ToggledValues(shown, v) /\ q.value.clicked = v
      /\ q = [kind |-> q.kind, of |-> q.of, value |-> q.value, click |-> q.click,
              answer |-> q.answer]
  BY <1>2 DEF Request
<1>5. l[2] \in db.brands
  BY <1>3 DEF DrawerInv, TabsOK, ViewOK
<1>6. ToggledValues(shown, v) \subseteq Values[l[1]]
  BY <1>1 DEF ToggledValues, ValuesOf
<1>7. RequestOK(q)
  BY <1>4, <1>5, <1>6 DEF RequestOK, Kinds
<1>8. /\ TablesOK' /\ TabsOK' /\ UNCHANGED <<db, meant>>
      /\ tab'[t].sent = tab[t].sent \cup {q}
      /\ \A u \in Tabs : u # t => tab'[u] = tab[u]
  BY <1>3, <1>7, ClickKeeps
<1>9. \A u \in Tabs : \A r \in tab'[u].sent : r \in tab[u].sent \/ (u = t /\ r = q)
  BY <1>8
<1>10. ASSUME NEW m \in Lists \ staleLists' PROVE ListCareful(m)'
  <2>1. ListCareful(m)
    BY <1>3, <1>10 DEF DrawerInv, Careful
  <2>2. CASE m = l
    <3>1. \A u \in Tabs : \A r \in tab[u].sent : ~IsEdit(r, l)
      BY <1>3, <1>10, <2>2 DEF IsEdit, Unhandled
    <3>2. \A u \in Tabs : \A r \in tab'[u].sent : IsEdit(r, l) => u = t /\ r = q
      BY <1>9, <3>1
    <3>3. q.value.to = ToggledValues(ValuesOf(db.lists, l), q.value.clicked)
      BY <1>3, <1>4, <1>10, <2>2
    <3> QED
      BY <1>8, <2>1, <2>2, <3>2, <3>3 DEF ListCareful
  <2>3. CASE m # l
    <3>1. \A u \in Tabs : \A r \in tab'[u].sent : IsEdit(r, m) => r \in tab[u].sent
      BY <1>4, <1>9, <2>3 DEF IsEdit
    <3> QED
      BY <1>8, <2>1, <3>1 DEF ListCareful
  <2> QED
    BY <2>2, <2>3
<1>11. ~staleToggle' => ChannelsCareful'
  <2>1. \A u \in Tabs : \A r \in tab'[u].sent : IsToggle(r) => r \in tab[u].sent
    BY <1>4, <1>9 DEF IsToggle
  <2> QED
    BY <1>3, <1>8, <2>1 DEF DrawerInv, Careful, ChannelsCareful
<1> QED
  BY <1>3, <1>8, <1>10, <1>11 DEF DrawerInv, Careful

(* What is left if the channel is switched off is not empty, as the page    *)
(* showed another active one.                                              *)
LEMMA ToggleKeeps ==
    ASSUME DrawerInv, NEW t \in Tabs, NEW c \in DOMAIN SeedChannels, ToggleChannel(t, c)
    PROVE  DrawerInv'
<1>1. PICK active : active = tab[t].active
  OBVIOUS
<1>2. PICK q : q = Request("putChannel", c, c \notin active, clicks + 1)
  OBVIOUS
<1>3. /\ ~(c \in active /\ Cardinality(active) <= 1)
      /\ Click(t, q)
      /\ staleToggle' = (staleToggle \/ Unhandled("putChannel") # {} \/ active # db.active)
      /\ UNCHANGED staleLists
  BY <1>1, <1>2 DEF ToggleChannel, ToggleIsStale
<1>4. /\ q.kind = "putChannel" /\ q.of = c /\ q.answer = None
      /\ q.value = (c \notin active)
      /\ q = [kind |-> q.kind, of |-> q.of, value |-> q.value, click |-> q.click,
              answer |-> q.answer]
  BY <1>2 DEF Request
<1>5. RequestOK(q)
  BY <1>4 DEF RequestOK, Kinds
<1>6. /\ TablesOK' /\ TabsOK' /\ UNCHANGED <<db, meant>>
      /\ tab'[t].sent = tab[t].sent \cup {q}
      /\ \A u \in Tabs : u # t => tab'[u] = tab[u]
  BY <1>3, <1>5, ClickKeeps
<1>7. q.value \/ active \ {c} # {}
  <2> SUFFICES ASSUME c \in active, active \ {c} = {} PROVE FALSE
    BY <1>4
  <2>1. active = {c}
    OBVIOUS
  <2>2. Cardinality(active) = 1
    BY <2>1, FS_Singleton
  <2> QED
    BY <1>3, <2>2
<1>8. \A u \in Tabs : \A r \in tab'[u].sent : r \in tab[u].sent \/ (u = t /\ r = q)
  BY <1>6
<1>9. ASSUME NEW m \in Lists \ staleLists' PROVE ListCareful(m)'
  <2>1. ListCareful(m)
    BY <1>3, <1>9 DEF DrawerInv, Careful
  <2>2. \A u \in Tabs : \A r \in tab'[u].sent : IsEdit(r, m) => r \in tab[u].sent
    BY <1>4, <1>8 DEF IsEdit
  <2> QED
    BY <1>6, <2>1, <2>2 DEF ListCareful
<1>10. ASSUME ~staleToggle' PROVE ChannelsCareful'
  <2>1. /\ ~staleToggle /\ Unhandled("putChannel") = {} /\ active = db.active
    BY <1>3, <1>10
  <2>2. ChannelsCareful
    BY <2>1 DEF DrawerInv, Careful
  <2>3. \A u \in Tabs : \A r \in tab[u].sent : ~IsToggle(r)
    BY <2>1, NoneUnhandled DEF IsToggle
  <2>4. \A u \in Tabs : \A r \in tab'[u].sent : IsToggle(r) => u = t /\ r = q
    BY <1>8, <2>3
  <2> QED
    BY <1>4, <1>6, <1>7, <2>1, <2>2, <2>4 DEF ChannelsCareful
<1>11. staleToggle' \in BOOLEAN
  BY <1>3 DEF DrawerInv
<1> QED
  BY <1>6, <1>9, <1>10, <1>11 DEF DrawerInv, Careful

LEMMA AfterOK ==
    ASSUME NEW v, ViewOK(v), NEW q, RequestOK(q)
    PROVE  /\ ViewOK(After(v, q))
           /\ \A r \in After(v, q).sent : IsChange(r) => r \in v.sent
<1>1. v = [cards |-> v.cards, active |-> v.active, sent |-> v.sent]
  BY DEF ViewOK
<1>2. CASE q.kind = "getBrands"
  <2>1. After(v, q) = [cards |-> q.answer, active |-> v.active, sent |-> v.sent]
    BY <1>1, <1>2 DEF After
  <2> QED
    BY <1>2, <2>1 DEF ViewOK, RequestOK
<1>3. CASE q.kind = "getChannels"
  <2>1. After(v, q) = [cards |-> v.cards, active |-> q.answer, sent |-> v.sent]
    BY <1>1, <1>3 DEF After
  <2> QED
    BY <1>3, <2>1 DEF ViewOK, RequestOK
<1>4. CASE q.kind \in {"putList", "postBrand"} /\ q.answer = "ok"
  <2>1. After(v, q) = [cards |-> None, active |-> v.active,
                       sent |-> v.sent \cup {Load("getBrands", q.click)}]
    BY <1>1, <1>4 DEF After
  <2> QED
    BY <2>1, LoadOK DEF ViewOK
<1>5. CASE q.kind = "putChannel" /\ q.answer = "ok"
  <2>1. After(v, q) = [cards |-> v.cards, active |-> None,
                       sent |-> v.sent \cup {Load("getChannels", q.click)}]
    BY <1>1, <1>5 DEF After
  <2> QED
    BY <2>1, LoadOK DEF ViewOK
<1>6. CASE /\ q.kind \notin {"getBrands", "getChannels"}
           /\ ~(q.kind \in {"putList", "postBrand"} /\ q.answer = "ok")
           /\ ~(q.kind = "putChannel" /\ q.answer = "ok")
  <2>1. After(v, q) = v
    BY <1>6 DEF After
  <2> QED
    BY <2>1
<1> QED
  BY <1>2, <1>3, <1>4, <1>5, <1>6

(* A request leaves the tab with the answer it has, or without one.         *)
LEMMA AfterKeeps ==
    ASSUME DrawerInv, NEW t \in Tabs, NEW q \in tab[t].sent, NEW p, RequestOK(p),
           tab' = [tab EXCEPT ![t] = After(Without(tab[t], q), p)],
           UNCHANGED <<db, meant, staleVars>>
    PROVE  DrawerInv'
<1>1. TablesOK /\ TabsOK /\ ViewOK(tab[t])
  BY DEF DrawerInv, TabsOK
<1>2. PICK v : v = [cards |-> tab[t].cards, active |-> tab[t].active,
                    sent |-> tab[t].sent \ {q}]
  OBVIOUS
<1>3. ViewOK(v) /\ v = Without(tab[t], q)
  BY <1>1, <1>2 DEF ViewOK, Without
<1>4. PICK s : s = After(v, p)
  OBVIOUS
<1>5. ViewOK(s) /\ \A r \in s.sent : IsChange(r) => r \in tab[t].sent
  BY <1>2, <1>3, <1>4, AfterOK
<1>6. ViewOK(s)'
  BY <1>5, ViewGrows
<1>7. tab' = [tab EXCEPT ![t] = s]
  <2>1. After(Without(tab[t], q), p) = s
    BY <1>3, <1>4
  <2> QED
    BY <2>1
<1>8. TabsOK' /\ tab'[t] = s /\ \A u \in Tabs : u # t => tab'[u] = tab[u]
  BY <1>1, <1>6, <1>7, TabChanges
<1>9. NoNewChange
  BY <1>5, <1>8 DEF NoNewChange
<1> QED
  BY <1>1, <1>8, <1>9, CarefulKept DEF DrawerInv, TablesOK, staleVars

LEMMA ArriveKeeps ==
    ASSUME DrawerInv, NEW t \in Tabs, NEW q \in tab[t].sent, Arrive(t, q)
    PROVE  DrawerInv'
<1>1. RequestOK(q)
  BY DEF DrawerInv, TabsOK, ViewOK
<1> QED
  BY <1>1, AfterKeeps DEF Arrive

LEMMA LoseKeeps ==
    ASSUME DrawerInv, NEW t \in Tabs, NEW q \in tab[t].sent, Lose(t, q)
    PROVE  DrawerInv'
<1>1. RequestOK(q)
  BY DEF DrawerInv, TabsOK, ViewOK
<1>2. PICK p : p = [q EXCEPT !.answer = None]
  OBVIOUS
<1>3. p = [kind |-> q.kind, of |-> q.of, value |-> q.value, click |-> q.click,
           answer |-> None]
  BY <1>1, <1>2 DEF RequestOK
<1>4. RequestOK(p)
  BY <1>1, <1>3 DEF RequestOK
<1>5. /\ tab' = [tab EXCEPT ![t] = After(Without(tab[t], q), p)]
      /\ UNCHANGED <<db, meant, staleVars>>
  BY <1>2 DEF Lose
<1> QED
  BY <1>4, <1>5, AfterKeeps

-----------------------------------------------------------------------------
Reply(t, q, answer) ==
    tab' = [tab EXCEPT ![t].sent = (@ \ {q}) \cup {Answered(q, answer)}]

LEMMA HandleCases ==
    ASSUME DrawerInv, NEW t \in Tabs, NEW q \in tab[t].sent, Handle(t, q)
    PROVE  /\ q.answer = None /\ UNCHANGED <<clicks, staleVars>>
           /\ \/ /\ q.kind \in {"putList", "postBrand"}
                 /\ Reply(t, q, "error") /\ UNCHANGED <<db, meant>>
              \/ /\ q.kind = "putList"
                 /\ ~DomainsClash(Replaced(db.lists, q.of, q.value.to))
                 /\ db' = [db EXCEPT !.lists = Replaced(db.lists, q.of, q.value.to)]
                 /\ meant' = Toggled(meant, q.of, q.value.clicked)
                 /\ Reply(t, q, "ok")
              \/ /\ q.kind = "putChannel"
                 /\ db' = [db EXCEPT !.active = IF q.value THEN db.active \cup {q.of}
                                                ELSE db.active \ {q.of}]
                 /\ Reply(t, q, "ok") /\ UNCHANGED meant
              \/ /\ q.kind = "postBrand"
                 /\ db' = [db EXCEPT !.brands = db.brands \cup {q.of}]
                 /\ Reply(t, q, "ok") /\ UNCHANGED meant
              \/ /\ q.kind = "postPrompt"
                 /\ db' = [db EXCEPT !.prompts[q.of] = @ + 1]
                 /\ Reply(t, q, "ok") /\ UNCHANGED meant
              \/ /\ q.kind = "getBrands"
                 /\ Reply(t, q, BrandsNow) /\ UNCHANGED <<db, meant>>
              \/ /\ q.kind = "getChannels"
                 /\ Reply(t, q, db.active) /\ UNCHANGED <<db, meant>>
<1>1. q.kind \in Kinds
  BY DEF DrawerInv, TabsOK, ViewOK, RequestOK
<1>2. q.kind = "putList" \/ q.kind = "putChannel" \/ q.kind = "postBrand"
      \/ q.kind = "postPrompt" \/ q.kind = "getBrands" \/ q.kind = "getChannels"
  BY <1>1 DEF Kinds
<1>3. CASE q.kind = "putList"
  BY <1>3 DEF Handle, Reply
<1>4. CASE q.kind = "putChannel"
  BY <1>4 DEF Handle, Reply
<1>5. CASE q.kind = "postBrand"
  BY <1>5 DEF Handle, Reply
<1>6. CASE q.kind = "postPrompt"
  BY <1>6 DEF Handle, Reply
<1>7. CASE q.kind = "getBrands"
  BY <1>7 DEF Handle, Reply
<1>8. CASE q.kind = "getChannels"
  BY <1>8 DEF Handle, Reply
<1> QED
  BY <1>2, <1>3, <1>4, <1>5, <1>6, <1>7, <1>8

(* The request has its answer, and all others are as they were.             *)
LEMMA ReplyKeeps ==
    ASSUME TabsOK, NEW t \in Tabs, NEW q \in tab[t].sent, NEW answer,
           Reply(t, q, answer), db.brands \subseteq db'.brands,
           q.kind = "getBrands" => answer \in Cards /\ answer.brands \subseteq db.brands,
           q.kind = "getChannels" => answer \subseteq DOMAIN SeedChannels,
           q.kind \in {"putList", "putChannel"} => answer # None
    PROVE  /\ TabsOK'
           /\ NoNewChange
           /\ IsChange(q) => \A u \in Tabs : \A r \in tab'[u].sent :
                               IsChange(r) => u # t \/ r # q
<1>1. ViewOK(tab[t]) /\ RequestOK(q)
  BY DEF TabsOK, ViewOK
<1>2. PICK a : a = [q EXCEPT !.answer = answer]
  OBVIOUS
<1>3. a = [kind |-> q.kind, of |-> q.of, value |-> q.value, click |-> q.click,
           answer |-> answer]
  BY <1>1, <1>2 DEF RequestOK
<1>4. RequestOK(a) /\ ~IsChange(a)
  BY <1>1, <1>3 DEF RequestOK, IsChange
<1>5. PICK s : s = [cards |-> tab[t].cards, active |-> tab[t].active,
                    sent |-> (tab[t].sent \ {q}) \cup {a}]
  OBVIOUS
<1>6. ViewOK(s)
  BY <1>1, <1>4, <1>5 DEF ViewOK
<1>7. ViewOK(s)'
  BY <1>6, ViewGrows
<1>8. s = [tab[t] EXCEPT !.sent = (tab[t].sent \ {q}) \cup {a}]
  BY <1>1, <1>5 DEF ViewOK
<1>9. tab' = [tab EXCEPT ![t] = s]
  BY <1>2, <1>8 DEF Reply, Answered
<1>10. TabsOK' /\ tab'[t] = s /\ \A u \in Tabs : u # t => tab'[u] = tab[u]
  BY <1>7, <1>9, TabChanges
<1>11. NoNewChange
  BY <1>4, <1>5, <1>10 DEF NoNewChange
<1>12. \A r \in tab'[t].sent : IsChange(r) => r # q
  BY <1>4, <1>5, <1>10
<1> QED
  BY <1>10, <1>11, <1>12

LEMMA HandleListKeeps ==
    ASSUME DrawerInv, NEW t \in Tabs, NEW q \in tab[t].sent, q.answer = None,
           q.kind = "putList", UNCHANGED staleVars,
           ~DomainsClash(Replaced(db.lists, q.of, q.value.to)),
           db' = [db EXCEPT !.lists = Replaced(db.lists, q.of, q.value.to)],
           meant' = Toggled(meant, q.of, q.value.clicked),
           Reply(t, q, "ok")
    PROVE  DrawerInv'
<1>1. TablesOK /\ TabsOK /\ RequestOK(q)
  BY DEF DrawerInv, TabsOK, ViewOK
<1>2. PICK rows : rows = Replaced(db.lists, q.of, q.value.to)
  OBVIOUS
<1>3. rows \subseteq CardRows /\ \A x \in rows : x[2] \in db.brands
  <2>1. /\ q.of \in Lists /\ q.of[2] \in db.brands /\ q.value.to \subseteq Values[q.of[1]]
        /\ db.lists \subseteq CardRows
    BY <1>1 DEF RequestOK, TablesOK, Tables
  <2>2. \A w \in q.value.to : <<q.of[1], q.of[2], w>> \in CardRows
    BY <2>1 DEF CardRows
  <2> QED
    BY <1>1, <1>2, <2>1, <2>2 DEF Replaced, TablesOK
<1>4. /\ db' \in Tables /\ db'.brands = db.brands /\ db'.lists = rows
      /\ db'.active = db.active
  BY <1>1, <1>2, <1>3 DEF TablesOK, Tables
<1>5. TablesOK'
  BY <1>2, <1>3, <1>4 DEF TablesOK
<1>6. /\ TabsOK' /\ NoNewChange
      /\ \A u \in Tabs : \A r \in tab'[u].sent : IsChange(r) => u # t \/ r # q
  BY <1>1, <1>4, DrawerAssumption, ReplyKeeps DEF IsChange
<1>7. q.of \in Lists /\ q.value.to \in SUBSET Values[q.of[1]]
      /\ q.value.clicked \in Values[q.of[1]]
  BY <1>1 DEF RequestOK
<1>8. ASSUME NEW m \in Lists \ staleLists' PROVE ListCareful(m)'
  <2>1. ListCareful(m)
    BY <1>8 DEF DrawerInv, Careful, staleVars
  <2>2. /\ ValuesOf(db'.lists, m) = IF m = q.of THEN q.value.to ELSE ValuesOf(db.lists, m)
        /\ ValuesOf(meant', m) = IF m = q.of
                                 THEN ToggledValues(ValuesOf(meant, q.of), q.value.clicked)
                                 ELSE ValuesOf(meant, m)
    BY <1>2, <1>4, <1>7, ReplacedValues, ToggledRows
  <2>3. CASE m = q.of
    <3>1. IsEdit(q, m)
      BY <2>3 DEF IsEdit
    <3>2. \A u \in Tabs : \A r \in tab'[u].sent : ~IsEdit(r, m)
      <4>1. \A u \in Tabs : \A r \in tab'[u].sent :
                IsEdit(r, m) => r \in tab[u].sent /\ (u # t \/ r # q)
        BY <1>6 DEF NoNewChange, IsEdit, IsChange
      <4> QED
        BY <2>1, <3>1, <4>1 DEF ListCareful
    <3>3. ValuesOf(db'.lists, m) = ValuesOf(meant', m)
      BY <2>1, <2>2, <2>3, <3>1 DEF ListCareful
    <3> QED
      BY <3>2, <3>3 DEF ListCareful
  <2>4. CASE m # q.of
    BY <1>6, <2>1, <2>2, <2>4, ListKept
  <2> QED
    BY <2>3, <2>4
<1>9. ~staleToggle' => ChannelsCareful'
  BY <1>4, <1>6, ChannelsKept DEF DrawerInv, Careful, staleVars
<1> QED
  BY <1>5, <1>6, <1>8, <1>9 DEF DrawerInv, Careful, staleVars

LEMMA HandleChannelKeeps ==
    ASSUME DrawerInv, NEW t \in Tabs, NEW q \in tab[t].sent, q.answer = None,
           q.kind = "putChannel", UNCHANGED staleVars,
           db' = [db EXCEPT !.active = IF q.value THEN db.active \cup {q.of}
                                       ELSE db.active \ {q.of}],
           Reply(t, q, "ok"), UNCHANGED meant
    PROVE  DrawerInv'
<1>1. TablesOK /\ TabsOK /\ RequestOK(q)
  BY DEF DrawerInv, TabsOK, ViewOK
<1>2. PICK active : active = IF q.value THEN db.active \cup {q.of} ELSE db.active \ {q.of}
  OBVIOUS
<1>3. active \subseteq DOMAIN SeedChannels
  BY <1>1, <1>2 DEF RequestOK, TablesOK, Tables
<1>4. /\ db' \in Tables /\ db'.brands = db.brands /\ db'.lists = db.lists
      /\ db'.active = active
  BY <1>1, <1>2, <1>3 DEF TablesOK, Tables
<1>5. TablesOK'
  BY <1>1, <1>4 DEF TablesOK
<1>6. /\ TabsOK' /\ NoNewChange
      /\ \A u \in Tabs : \A r \in tab'[u].sent : IsChange(r) => u # t \/ r # q
  BY <1>1, <1>4, DrawerAssumption, ReplyKeeps DEF IsChange
<1>7. ASSUME NEW m \in Lists \ staleLists' PROVE ListCareful(m)'
  <2>1. ListCareful(m)
    BY <1>7 DEF DrawerInv, Careful, staleVars
  <2> QED
    BY <1>4, <1>6, <2>1, ListKept
<1>8. ASSUME ~staleToggle' PROVE ChannelsCareful'
  <2>1. ChannelsCareful /\ IsToggle(q)
    BY <1>8 DEF DrawerInv, Careful, staleVars, IsToggle
  <2>2. \A u \in Tabs : \A r \in tab'[u].sent : ~IsToggle(r)
    <3>1. \A u \in Tabs : \A r \in tab'[u].sent :
              IsToggle(r) => r \in tab[u].sent /\ (u # t \/ r # q)
      BY <1>6 DEF NoNewChange, IsToggle, IsChange
    <3> QED
      BY <2>1, <3>1 DEF ChannelsCareful
  <2>3. active # {}
    <3>1. q.value \/ db.active \ {q.of} # {}
      BY <2>1 DEF ChannelsCareful
    <3> QED
      BY <1>2, <3>1
  <2> QED
    BY <1>4, <2>2, <2>3 DEF ChannelsCareful
<1> QED
  BY <1>5, <1>6, <1>7, <1>8 DEF DrawerInv, Careful, staleVars

LEMMA HandleKeeps ==
    ASSUME DrawerInv, NEW t \in Tabs, NEW q \in tab[t].sent, Handle(t, q)
    PROVE  DrawerInv'
<1>1. TablesOK /\ TabsOK /\ RequestOK(q) /\ q.answer = None /\ UNCHANGED staleVars
  BY HandleCases DEF DrawerInv, TabsOK, ViewOK
<1>2. ASSUME TablesOK', TabsOK', NoNewChange, db'.lists = db.lists,
             db'.active = db.active, meant' = meant
      PROVE  DrawerInv'
  BY <1>1, <1>2, CarefulKept DEF DrawerInv, staleVars
<1>3. CASE Reply(t, q, "error") /\ UNCHANGED <<db, meant>>
          /\ q.kind \notin {"getBrands", "getChannels"}
  <2>1. TabsOK' /\ NoNewChange
    BY <1>1, <1>3, DrawerAssumption, ReplyKeeps
  <2> QED
    BY <1>1, <1>2, <1>3, <2>1 DEF TablesOK
<1>4. CASE q.kind = "postBrand" /\ db' = [db EXCEPT !.brands = db.brands \cup {q.of}]
          /\ Reply(t, q, "ok") /\ UNCHANGED meant
  <2>1. /\ db' \in Tables /\ db'.brands = db.brands \cup {q.of} /\ db'.lists = db.lists
        /\ db'.active = db.active
    BY <1>1, <1>4 DEF TablesOK, Tables, RequestOK, AllBrands
  <2>2. TabsOK' /\ NoNewChange
    BY <1>1, <1>4, <2>1, ReplyKeeps
  <2> QED
    BY <1>1, <1>2, <1>4, <2>1, <2>2 DEF TablesOK
<1>5. CASE q.kind = "postPrompt" /\ db' = [db EXCEPT !.prompts[q.of] = @ + 1]
          /\ Reply(t, q, "ok") /\ UNCHANGED meant
  <2>1. PICK prompts : prompts = [db.prompts EXCEPT ![q.of] = @ + 1]
    OBVIOUS
  <2>2. db.prompts \in [DOMAIN Start.prompts -> Nat]
    BY <1>1 DEF TablesOK, Tables
  <2>3. prompts \in [DOMAIN Start.prompts -> Nat]
    <3>1. CASE q.of \in DOMAIN Start.prompts
      BY <2>1, <2>2, <3>1
    <3>2. CASE q.of \notin DOMAIN Start.prompts
      <4>1. prompts = db.prompts
        BY <2>1, <2>2, <3>2
      <4> QED
        BY <2>2, <4>1
    <3> QED
      BY <3>1, <3>2
  <2>4. db' = [db EXCEPT !.prompts = prompts]
    BY <1>5, <2>1
  <2>5. /\ db' \in Tables /\ db'.brands = db.brands /\ db'.lists = db.lists
        /\ db'.active = db.active
    BY <1>1, <2>3, <2>4 DEF TablesOK, Tables
  <2>6. TabsOK' /\ NoNewChange
    BY <1>1, <1>5, <2>5, ReplyKeeps
  <2> QED
    BY <1>1, <1>2, <1>5, <2>5, <2>6 DEF TablesOK
<1>6. CASE q.kind = "getBrands" /\ Reply(t, q, BrandsNow) /\ UNCHANGED <<db, meant>>
  <2>1. PICK answer : answer = BrandsNow
    OBVIOUS
  <2>2. answer \in Cards /\ answer.brands \subseteq db.brands
    BY <1>1, <2>1 DEF BrandsNow, Cards, TablesOK, Tables
  <2>3. Reply(t, q, answer)
    BY <1>6, <2>1
  <2>4. TabsOK' /\ NoNewChange
    BY <1>1, <1>6, <2>2, <2>3, ReplyKeeps
  <2> QED
    BY <1>1, <1>2, <1>6, <2>4 DEF TablesOK
<1>7. CASE q.kind = "getChannels" /\ Reply(t, q, db.active) /\ UNCHANGED <<db, meant>>
  <2>1. PICK answer : answer = db.active
    OBVIOUS
  <2>2. answer \subseteq DOMAIN SeedChannels
    BY <1>1, <2>1 DEF TablesOK, Tables
  <2>3. Reply(t, q, answer)
    BY <1>7, <2>1
  <2>4. TabsOK' /\ NoNewChange
    BY <1>1, <1>7, <2>2, <2>3, ReplyKeeps
  <2> QED
    BY <1>1, <1>2, <1>7, <2>4 DEF TablesOK
<1> QED
  BY <1>1, <1>3, <1>4, <1>5, <1>6, <1>7, HandleCases, HandleListKeeps, HandleChannelKeeps

-----------------------------------------------------------------------------
LEMMA SeededTables ==
    ASSUME TablesOK, ~SeedFails(db)
    PROVE  LET s == Seeded(db)
           IN  /\ s \in Tables /\ db.brands \subseteq s.brands
               /\ s.lists = db.lists \cup SeedLists
               /\ \A x \in s.lists : x[2] \in s.brands
               /\ ~DomainsClash(s.lists)
               /\ s.active # {}
<1> DEFINE s == Seeded(db)
           prompts == [text \in DOMAIN db.prompts |->
                         IF text \in SeedTexts /\ db.prompts[text] = 0 THEN 1
                         ELSE db.prompts[text]]
           active == {c \in DOMAIN SeedChannels : SeedChannels[c]}
                     \cup (db.active \ DOMAIN SeedChannels)
<1>1. /\ db.brands \subseteq AllBrands /\ db.lists \subseteq CardRows
      /\ db.active \subseteq DOMAIN SeedChannels
      /\ db.prompts \in [DOMAIN Start.prompts -> Nat]
  BY DEF TablesOK, Tables
<1>2. prompts \in [DOMAIN Start.prompts -> Nat]
  BY <1>1
<1>3. active \subseteq DOMAIN SeedChannels /\ active # {}
  BY <1>1, SeedAssumption
<1> HIDE DEF prompts, active
<1>4. s = [brands |-> db.brands \cup SeedBrands, lists |-> db.lists \cup SeedLists,
           active |-> active, prompts |-> prompts]
  BY DEF Seeded, prompts, active
<1>5. \A x \in SeedLists : x[2] \in SeedBrands
  BY SeedAssumption DEF SeedLists, ListRows
<1>6. s \in Tables
  BY <1>1, <1>2, <1>3, <1>4, DrawerAssumption DEF Tables, AllBrands
<1>7. ~DomainsClash(s.lists)
  BY <1>4 DEF SeedFails
<1>8. \A x \in s.lists : x[2] \in s.brands
  BY <1>4, <1>5 DEF TablesOK
<1> QED
  BY <1>3, <1>4, <1>6, <1>7, <1>8

LEMMA SeedKeeps == DrawerInv /\ Seed => DrawerInv'
<1> SUFFICES ASSUME DrawerInv, Seed PROVE DrawerInv'
  OBVIOUS
<1>1. TablesOK /\ TabsOK
  BY DEF DrawerInv
<1>2. ~SeedFails(db) /\ db' = Seeded(db) /\ UNCHANGED tab /\ meant' = meant \cup SeedLists
  BY DEF Seed, RunSeed
<1>3. /\ TablesOK' /\ db.brands \subseteq db'.brands /\ db'.active # {}
      /\ db'.lists = db.lists \cup SeedLists
  BY <1>1, <1>2, SeededTables DEF TablesOK
<1>4. TabsOK'
  BY <1>1, <1>2, <1>3 DEF TabsOK, ViewOK, RequestOK
<1>5. /\ staleLists' = staleLists \cup {q.of : q \in Unhandled("putList")}
      /\ staleToggle' = (staleToggle \/ Unhandled("putChannel") # {})
  BY DEF Seed
<1>6. ASSUME NEW l \in Lists \ staleLists' PROVE ListCareful(l)'
  <2>1. ListCareful(l)
    BY <1>5, <1>6 DEF DrawerInv, Careful
  <2>2. \A u \in Tabs : \A q \in tab[u].sent : ~IsEdit(q, l)
    BY <1>5, <1>6 DEF IsEdit, Unhandled
  <2>3. ValuesOf(db'.lists, l) = ValuesOf(meant', l)
    BY <1>2, <1>3, <2>1 DEF ListCareful, ValuesOf
  <2> QED
    BY <1>2, <2>2, <2>3 DEF ListCareful
<1>7. ASSUME ~staleToggle' PROVE ChannelsCareful'
  <2>1. \A u \in Tabs : \A q \in tab[u].sent : ~IsToggle(q)
    BY <1>5, <1>7, NoneUnhandled DEF IsToggle
  <2> QED
    BY <1>2, <1>3, <2>1 DEF ChannelsCareful
<1> QED
  BY <1>3, <1>4, <1>5, <1>6, <1>7 DEF DrawerInv, Careful

LEMMA DrawerClickKeeps ==
    ASSUME DrawerInv, NEW t \in Tabs, DrawerClick(t) PROVE DrawerInv'
  BY RefreshKeeps, PatchKeeps, ToggleKeeps, AddKeeps DEF DrawerClick

(***************************************************************************)
(* Both                                                                    *)
(***************************************************************************)
BrowserInv == DashInv /\ DrawerInv

LEMMA BrowserInvStep == BrowserInv /\ [Next]_vars => BrowserInv'
<1> SUFFICES ASSUME BrowserInv, [Next]_vars PROVE BrowserInv'
  OBVIOUS
<1>0. DashInv /\ DrawerInv
  BY DEF BrowserInv
<1>1. CASE UNCHANGED vars
  BY <1>0, <1>1, DashInvStutter, DrawerInvStutter DEF vars, drawerVars, BrowserInv
<1>2. CASE ClickOnDashboard
  BY <1>0, <1>2, DashClickKeeps, DrawerInvStutter DEF ClickOnDashboard, BrowserInv
<1>3. CASE (Answer \/ MentionsChange) /\ UNCHANGED drawerVars
  BY <1>0, <1>3, DashAnswerKeeps, DrawerInvStutter DEF drawerVars, BrowserInv
<1>4. CASE Seed /\ UNCHANGED dashVars
  BY <1>0, <1>4, SeedKeeps, DashInvStutter DEF BrowserInv
<1>5. ASSUME NEW t \in Tabs, ClickInDrawer(t) PROVE BrowserInv'
  BY <1>0, <1>5, DrawerClickKeeps, AddKeeps, DashInvStutter DEF ClickInDrawer, BrowserInv
<1>6. ASSUME NEW t \in Tabs, NEW q \in tab[t].sent, Handle(t, q) \/ Lose(t, q),
             UNCHANGED dashVars
      PROVE  BrowserInv'
  BY <1>0, <1>6, HandleKeeps, LoseKeeps, DashInvStutter DEF BrowserInv
<1>7. ASSUME NEW t \in Tabs, NEW q \in tab[t].sent, ArriveInTab(t, q) PROVE BrowserInv'
  <2>1. DrawerInv'
    BY <1>0, <1>7, ArriveKeeps DEF ArriveInTab
  <2>2. DashInv'
    BY <1>0, <1>7, ClearCacheKeeps, DashInvStutter DEF ArriveInTab
  <2> QED
    BY <2>1, <2>2 DEF BrowserInv
<1> QED
  BY <1>1, <1>2, <1>3, <1>4, <1>5, <1>6, <1>7 DEF Next

LEMMA BrowserInvCorrect == Spec => []BrowserInv
<1>1. Init => BrowserInv
  BY DashInvInit, DrawerInvInit DEF Init, BrowserInv
<1> QED
  BY <1>1, BrowserInvStep, PTL DEF Spec

(* Types of what the tabs show; no call waits for a promise that is settled *)
(* (dashboard.js, settings.js).                                             *)
THEOREM BrowserTypeCorrect == Spec => []BrowserTypeOK
<1>1. BrowserInv => BrowserTypeOK
  <2> SUFFICES ASSUME BrowserInv PROVE BrowserTypeOK
    OBVIOUS
  <2>1. \A c \in BagToSet(waiting) : c.fetch # 0 => fetches[c.fetch].is = "sent"
    <3>1. \A c \in BagToSet(waiting) : c.kind = "keywords" \/ c.kind = "overview"
      BY DEF BrowserInv, DashInv, DashTypes, PanelCalls
    <3> QED
      BY <3>1 DEF BrowserInv, DashInv, CallsOK, KeywordsCallOK, OverviewCallOK
  <2>2. /\ cache \in 0 .. Len(fetches)
        /\ selected \in Shown \cup {Nothing}
        /\ page.ready => page.there
        /\ ~page.there => page.keywords = Blank /\ page.overview = Blank
        /\ \A i \in BagToSet(inits) : i.skeleton <= page.skeleton
    BY DEF BrowserInv, DashInv, DashTypes, Selectable, PageOK, InitsOK
  <2>3. /\ db \in Tables
        /\ \A x \in db.lists : x[2] \in db.brands
        /\ ~DomainsClash(db.lists)
    BY DEF BrowserInv, DrawerInv, TablesOK
  <2>4. ASSUME NEW t \in Tabs
        PROVE  /\ tab[t].cards = None \/ tab[t].cards.lists \subseteq CardRows
               /\ tab[t].active = None \/ tab[t].active \subseteq DOMAIN SeedChannels
    BY DEF BrowserInv, DrawerInv, TabsOK, ViewOK, Cards
  <2> QED
    BY <2>1, <2>2, <2>3, <2>4 DEF BrowserTypeOK
<1> QED
  BY <1>1, BrowserInvCorrect, PTL

(* No keywords from before the last batch, whatever was on its way when it  *)
(* ended (weekData.js, dashboard.js, main.js).                             *)
THEOREM DashboardIsFresh == Spec => []FreshAfterBatch
<1>1. BrowserInv => FreshAfterBatch
  BY DEF BrowserInv, DashInv, PageOK, FreshAfterBatch
<1> QED
  BY <1>1, BrowserInvCorrect, PTL

(* The panels show the brand that is selected (renderBrandSelector() and    *)
(* the panels of dashboard.js).                                            *)
THEOREM PanelsAreConsistent == Spec => []PanelsMatchSelection
<1>1. BrowserInv => PanelsMatchSelection
  <2> SUFFICES ASSUME BrowserInv PROVE PanelsMatchSelection
    OBVIOUS
  <2>1. page.keywords.is = "shown" => page.keywords # Blank
    BY PanelTypes
  <2> QED
    BY <2>1 DEF BrowserInv, DashInv, PageOK, PanelsMatchSelection
<1> QED
  BY <1>1, BrowserInvCorrect, PTL

(* With any number of tabs, no click on one list disturbs another, however  *)
(* old the view; each list that was never clicked on where it was itself   *)
(* not up to date is what the clicks on it say, and of the others nothing  *)
(* is claimed.  Some channel is active as long as no channel was switched  *)
(* on an old view (settings.js).                                           *)
THEOREM CarefulClicksAreSafe == Spec => []CarefulClicksCount
<1>1. BrowserInv => CarefulClicksCount
  BY DEF BrowserInv, DrawerInv, Careful, ListCareful, ChannelsCareful, CarefulClicksCount
<1> QED
  BY <1>1, BrowserInvCorrect, PTL

(* The database can be seeded again whenever it can be seeded (db/seed.py). *)
THEOREM SeedingTwice == Spec => []SeedingIsIdempotent
<1>1. BrowserInv => SeedingIsIdempotent
  <2> SUFFICES ASSUME TablesOK, ~SeedFails(db)
               PROVE  ~SeedFails(Seeded(db)) /\ Seeded(Seeded(db)) = Seeded(db)
    BY DEF BrowserInv, DrawerInv, SeedingIsIdempotent
  <2> DEFINE added(p) == [text \in DOMAIN p |->
                            IF text \in SeedTexts /\ p[text] = 0 THEN 1 ELSE p[text]]
             on(S) == {c \in DOMAIN SeedChannels : SeedChannels[c]}
                      \cup (S \ DOMAIN SeedChannels)
  <2>1. PICK s : s = Seeded(db)
    OBVIOUS
  <2>2. /\ s.brands = db.brands \cup SeedBrands /\ s.lists = db.lists \cup SeedLists
        /\ s.active = on(db.active) /\ s.prompts = added(db.prompts)
        /\ s = [brands |-> s.brands, lists |-> s.lists, active |-> s.active,
                prompts |-> s.prompts]
    BY <2>1 DEF Seeded
  <2>3. db.prompts \in [DOMAIN Start.prompts -> Nat] /\ SeedTexts \subseteq DOMAIN Start.prompts
    BY DrawerAssumption DEF TablesOK, Tables
  <2>4. \A text \in SeedTexts : s.prompts[text] = 1
    <3>1. \A text \in SeedTexts : db.prompts[text] \in Nat /\ ~(db.prompts[text] > 1)
      BY <2>3 DEF SeedFails
    <3> QED
      BY <2>2, <2>3, <3>1
  <2>5. ~SeedFails(s)
    <3>1. s.lists \cup SeedLists = db.lists \cup SeedLists
      BY <2>2
    <3> QED
      BY <2>4, <3>1 DEF SeedFails
  <2>6. added(s.prompts) = s.prompts
    BY <2>2, <2>3, <2>4
  <2>7. on(s.active) = s.active
    BY <2>2
  <2>8. Seeded(s) = [brands |-> s.brands \cup SeedBrands, lists |-> s.lists \cup SeedLists,
                     active |-> on(s.active), prompts |-> added(s.prompts)]
    BY DEF Seeded
  <2>9. s.brands \cup SeedBrands = s.brands /\ s.lists \cup SeedLists = s.lists
    BY <2>2
  <2> QED
    BY <2>1, <2>2, <2>5, <2>6, <2>7, <2>8, <2>9
<1> QED
  BY <1>1, BrowserInvCorrect, PTL
=============================================================================
