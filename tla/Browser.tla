------------------------------- MODULE Browser -------------------------------
(***************************************************************************)
(* The browser application: tabs with the Settings drawer, one of which    *)
(* shows the dashboard as well.                                            *)
(***************************************************************************)
EXTENDS Dashboard, SettingsDrawer

VARIABLE main    \* the tab whose dashboard is used, or None

vars == <<dashVars, drawerVars, main>>

(* A bound: the dashboard of one tab is used, of the drawers only its form  *)
(* for keywords; or no dashboard is, and the drawers of all tabs are.      *)
Init ==
    /\ DashInit /\ DrawerInit
    /\ main \in Tabs \cup {None}
    /\ page.visible <=> main # None
    /\ \A t \in Tabs : tab[t].cards # None <=> main = None

ClickOnDashboard ==
    /\ main # None
    /\ CanClick
    /\ clicks' = clicks + 1
    /\ DashClick
    /\ UNCHANGED <<db, tab, meant, staleVars>>

ClickInDrawer(t) ==
    /\ \/ main = None /\ DrawerClick(t)
       \/ main = t /\ \E text \in NewTexts : AddKeyword(t, text)
    /\ UNCHANGED dashVars

(* A keyword that was added empties the cache of the week. *)
ArriveInTab(t, q) ==
    /\ Arrive(t, q)
    /\ IF q.kind = "postPrompt" /\ q.answer = "ok" /\ t = main THEN ClearCache
       ELSE UNCHANGED dashVars

Next ==
    /\ \/ ClickOnDashboard
       \/ (Answer \/ MentionsChange) /\ UNCHANGED drawerVars
       \/ main = None /\ Seed /\ UNCHANGED dashVars
       \/ \E t \in Tabs :
             \/ ClickInDrawer(t)
             \/ \E q \in tab[t].sent :
                   \/ (Handle(t, q) \/ Lose(t, q)) /\ UNCHANGED dashVars
                   \/ ArriveInTab(t, q)
    /\ UNCHANGED main

Spec == Init /\ [][Next]_vars

(* Types of what the tabs show; nothing is on a panel without a page, and  *)
(* no call waits for a promise that is settled.                            *)
BrowserTypeOK ==
    /\ cache \in 0 .. Len(fetches)
    /\ selected \in Shown \cup {Nothing}
    /\ page.ready => page.there
    /\ ~page.there => page.keywords = Blank /\ page.overview = Blank
    /\ \A i \in BagToSet(inits) : i.skeleton <= page.skeleton
    /\ \A c \in BagToSet(waiting) : c.fetch # 0 => fetches[c.fetch].is = "sent"
    /\ db \in Tables
    /\ \A x \in db.lists : x[2] \in db.brands
    /\ ~DomainsClash(db.lists)
    /\ \A t \in Tabs : /\ tab[t].cards = None \/ tab[t].cards.lists \subseteq CardRows
                       /\ tab[t].active = None \/ tab[t].active \subseteq DOMAIN SeedChannels
=============================================================================
