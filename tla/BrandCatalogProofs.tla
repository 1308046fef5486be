------------------------- MODULE BrandCatalogProofs -------------------------
(***************************************************************************)
(* Theorems about BrandCatalog, for any number of concurrent requests.     *)
(***************************************************************************)
EXTENDS BrandCatalog, TLAPS

Opened(r) == edit[r].at \in Open

(* What transaction r sees of the tables. *)
View(r) == (committed \ edit[r].deleted) \cup edit[r].inserted

(* Without a transaction there are no uncommitted changes. *)
ClosedOK(r) ==
    ~Opened(r) => /\ edit[r].deleted = {} /\ edit[r].inserted = {}
                  /\ edit[r].target = {} /\ edit[r].pending = {}
                  /\ edit[r].waiting = FALSE

(* A session only deletes and inserts rows of its brand, in tables it was   *)
(* given; what it deletes is committed, what it inserts is its own.         *)
OwnRows(r) ==
    /\ \A x \in edit[r].inserted :
          x.by = r /\ x.brand = EditOf(r).brand /\ x.table \in Given(r)
    /\ \A x \in edit[r].deleted :
          x \in committed /\ x.brand = EditOf(r).brand /\ x.table \in Given(r)
    /\ \A x \in edit[r].target :
          x.brand = EditOf(r).brand /\ x.table \in Given(r) /\ x.table # "name"

(* Where a session is in update_brand(). *)
StageOK(r) ==
    /\ edit[r].at \in {"alias", "domain"} => edit[r].at \in Given(r)
    /\ edit[r].waiting => edit[r].at \in {"alias", "domain"} /\ edit[r].pending = {}
    /\ edit[r].pending \subseteq Given(r)
    /\ "name" \in edit[r].pending => \A x \in edit[r].inserted : x.table # "name"

(* A name that is inserted replaces that of the brand, if it had one.       *)
NameReplaced(r) ==
    /\ \A x \in edit[r].inserted :
          x.table = "name" => RowsOf(EditOf(r).brand, "name") \subseteq edit[r].deleted
    /\ \A x \in edit[r].deleted :
          x.table = "name" => \E y \in edit[r].inserted : y.table = "name"

(* A list that is given is flushed, or is about to be, or its table is yet  *)
(* to be visited.                                                          *)
ListsOK(r) ==
    Opened(r) => \A t \in Given(r) \ {"name"} :
        \/ t \in edit[r].pending \/ Listed(r, t) \subseteq edit[r].inserted
        \/ edit[r].at = "alias" \/ (edit[r].at = "domain" /\ t = "domain")

(* Updates are of brands that exist, creations of brands that do not. *)
KindOK(r) ==
    Opened(r) => (EditOf(r).kind = "update" <=> Exists(EditOf(r).brand))

SessionOK(r) ==
    /\ ClosedOK(r) /\ OwnRows(r) /\ StageOK(r) /\ NameReplaced(r) /\ ListsOK(r)
    /\ KindOK(r)
    /\ Distinct(View(r))

(* The uncommitted changes of two transactions do not touch. *)
Apart(r, q) ==
    /\ edit[r].deleted \cap edit[q].deleted = {}
    /\ \A x \in edit[r].deleted \cup edit[r].inserted, y \in edit[q].inserted :
          Key(x) # Key(y)
    /\ \A x \in edit[r].inserted, y \in edit[q].inserted :
          x.table = "name" /\ y.table = "name" => x.brand # y.brand
    /\ Opened(r) /\ Opened(q) /\ EditOf(r).kind = "create" /\ EditOf(q).kind = "create"
          => EditOf(r).brand # EditOf(q).brand

BrandInv ==
    /\ BrandTypeOK
    /\ \A r \in Requests : SessionOK(r)
    /\ \A r, q \in Requests : r # q => Apart(r, q)
    /\ NamesAndDomainsAreUnique
    /\ RefusedEditLeavesNothing

-----------------------------------------------------------------------------
LEMMA EditFields ==
    ASSUME NEW e \in Edits
    PROVE  /\ e.kind \in {"create", "update"}
           /\ e.brand \in Brands
           /\ DOMAIN e.fields \subseteq Tables
           /\ \A t \in DOMAIN e.fields : e.fields[t] \subseteq Values
           /\ "name" \in DOMAIN e.fields => \E v \in Values : e.fields["name"] = {v}
           /\ e.kind = "create" => "name" \in DOMAIN e.fields
<1>1. e \in Payload
  BY BrandAssumption
<1>2. PICK given \in SUBSET Tables : e.fields \in [given -> SUBSET Values]
  BY <1>1 DEF Payload
<1>3. e.kind \in {"create", "update"} /\ e.brand \in Brands
  BY <1>1 DEF Payload
<1> QED
  BY <1>2, <1>3, BrandAssumption

LEMMA SessionFields ==
    ASSUME BrandTypeOK, NEW r \in Requests
    PROVE  /\ edit[r] \in Session
           /\ edit[r].at \in {"new"} \cup Open \cup EditAnswers
           /\ edit[r].edit \in Edits
           /\ edit[r].pending \subseteq Tables
           /\ edit[r].waiting \in BOOLEAN
           /\ edit[r].target \subseteq Rows
           /\ edit[r].deleted \subseteq Rows
           /\ edit[r].inserted \subseteq Rows
<1>1. edit[r] \in Session
  BY DEF BrandTypeOK
<1> QED
  BY <1>1 DEF Session

LEMMA NewSessionFields ==
    /\ NewSession \in Session
    /\ NewSession.at = "new" /\ NewSession.edit \in Edits
    /\ NewSession.pending = {} /\ NewSession.waiting = FALSE
    /\ NewSession.target = {} /\ NewSession.deleted = {} /\ NewSession.inserted = {}
<1>1. (CHOOSE e \in Edits : TRUE) \in Edits
  BY BrandAssumption
<1> QED
  BY <1>1 DEF NewSession, Session

LEMMA Stages ==
    \A given, stage : NextStage(given, stage) \in Open
BY DEF NextStage, Open

(* No table of the payload is passed over. *)
LEMMA StagesFollow ==
    ASSUME NEW given, NEW stage
    PROVE  /\ NextStage(given, stage) = "alias" => "alias" \in given /\ stage = "begin"
           /\ NextStage(given, stage) = "domain" => "domain" \in given
           /\ "domain" \in given /\ stage = "alias" => NextStage(given, stage) = "domain"
           /\ "domain" \in given /\ stage = "begin"
                 => NextStage(given, stage) \in {"alias", "domain"}
           /\ "alias" \in given /\ stage = "begin" => NextStage(given, stage) = "alias"
BY DEF NextStage

(* The rows a session inserts for a table. *)
LEMMA ListedRows ==
    ASSUME BrandTypeOK, NEW r \in Requests, NEW t \in Given(r)
    PROVE  /\ Listed(r, t) \subseteq Rows
           /\ \A x \in Listed(r, t) :
                 /\ x.table = t /\ x.brand = EditOf(r).brand /\ x.by = r
                 /\ x.value \in EditOf(r).fields[t]
           /\ \A x, y \in Listed(r, t) : x # y => x.value # y.value
           /\ t = "name" => \E x : Listed(r, t) = {x}
<1> DEFINE b == EditOf(r).brand
           vals == EditOf(r).fields[t]
<1>1. /\ t \in Tables /\ b \in Brands /\ vals \subseteq Values
      /\ t = "name" => \E v \in Values : vals = {v}
  BY SessionFields, EditFields DEF EditOf, Given
<1>2. Listed(r, t) = [table : {t}, brand : {b}, value : vals, by : {r}]
  BY DEF Listed
<1> HIDE DEF b, vals
<1>3. Listed(r, t) \subseteq Rows
  BY <1>1, <1>2 DEF Rows
<1>4. \A x \in Listed(r, t) : x.table = t /\ x.brand = b /\ x.by = r /\ x.value \in vals
  BY <1>2
<1>5. \A x, y \in Listed(r, t) : x # y => x.value # y.value
  BY <1>2
<1>6. \A v \in vals : \E x \in Listed(r, t) : x.value = v
  <2> TAKE v \in vals
  <2>1. [table |-> t, brand |-> b, value |-> v, by |-> r] \in Listed(r, t)
    BY <1>2
  <2> QED
    BY <2>1
<1>7. t = "name" => \E x : Listed(r, t) = {x}
  BY <1>1, <1>4, <1>5, <1>6
<1> QED
  BY <1>3, <1>4, <1>5, <1>7 DEF b, vals

-----------------------------------------------------------------------------
(* What each step does to the session of its request. *)

SameBut(r) == \A q \in Requests \ {r} : edit'[q] = edit[q]

Flushes(r, t) ==
    /\ Opened(r)
    /\ FlushedNext(r, t)
    /\ ~Waits(r, Replaced(r, t), Listed(r, t))
    /\ ~Violates(r, Replaced(r, t), Listed(r, t))
    /\ committed' = committed
    /\ edit'[r].at = edit[r].at /\ edit'[r].edit = edit[r].edit
    /\ edit'[r].waiting = edit[r].waiting /\ edit'[r].target = edit[r].target
    /\ edit'[r].pending = edit[r].pending \ {t}
    /\ edit'[r].deleted = edit[r].deleted \cup Replaced(r, t)
    /\ edit'[r].inserted = edit[r].inserted \cup Listed(r, t)

Begins(r) ==
    /\ EditAt(r, "new")
    /\ committed' = committed
    /\ edit'[r].at \in Open \cup {"notFound"}
    /\ edit'[r].at \in {"alias", "domain"} => edit'[r].at \in DOMAIN edit'[r].edit.fields
    /\ edit'[r].pending \subseteq DOMAIN edit'[r].edit.fields
    /\ edit'[r].at = "notFound" => edit'[r].pending = {}
    /\ ~edit'[r].waiting /\ edit'[r].target = {}
    /\ edit'[r].deleted = {} /\ edit'[r].inserted = {}
    /\ edit'[r].at \in Open =>
          /\ edit'[r].edit.kind = "update" <=> Exists(edit'[r].edit.brand)
          /\ edit'[r].edit.kind = "create" =>
                \A q \in Requests \ {r} :
                   Opened(q) /\ EditOf(q).kind = "create" => EditOf(q).brand # edit'[r].edit.brand
    /\ edit'[r].at \in Open => \A t \in DOMAIN edit'[r].edit.fields :
          \/ t = "name"
          \/ t \in edit'[r].pending
          \/ edit'[r].at = "alias"
          \/ (edit'[r].at = "domain" /\ t = "domain")

Finds(r) ==
    /\ edit[r].at \in {"alias", "domain"}
    /\ edit[r].pending = {}
    /\ committed' = committed
    /\ edit'[r].at = edit[r].at /\ edit'[r].edit = edit[r].edit
    /\ edit'[r].pending = edit[r].pending
    /\ edit'[r].target = RowsOf(EditOf(r).brand, edit[r].at)
    /\ edit'[r].deleted = edit[r].deleted /\ edit'[r].inserted = edit[r].inserted

Deletes(r) ==
    /\ edit[r].waiting
    /\ ~Waits(r, edit[r].target, {})
    /\ committed' = committed
    /\ edit'[r].at = NextStage(Given(r), edit[r].at) /\ edit'[r].edit = edit[r].edit
    /\ edit'[r].pending = {edit[r].at}
    /\ ~edit'[r].waiting /\ edit'[r].target = {}
    /\ edit'[r].deleted = edit[r].deleted \cup (edit[r].target \cap committed)
    /\ edit'[r].inserted = edit[r].inserted

Closed(r) ==
    /\ Opened(r)
    /\ edit'[r].at \in EditAnswers
    /\ edit'[r].edit = edit[r].edit
    /\ edit'[r].pending = {} /\ ~edit'[r].waiting /\ edit'[r].target = {}
    /\ edit'[r].deleted = {} /\ edit'[r].inserted = {}

Commits(r) ==
    /\ EditAt(r, "commit") /\ edit[r].pending = {}
    /\ edit'[r].at = "ok"
    /\ Closed(r)
    /\ committed' = View(r)

RollsBack(r) == Closed(r) /\ edit'[r].at # "ok" /\ committed' = committed

LEMMA CloseOutcome ==
    ASSUME BrandTypeOK, NEW r \in Requests, NEW answer \in EditAnswers,
           Opened(r), Close(r, answer)
    PROVE  /\ edit' \in [Requests -> Session]
           /\ SameBut(r) /\ Closed(r) /\ edit'[r].at = answer
<1> DEFINE s == [NewSession EXCEPT !.at = answer, !.edit = EditOf(r)]
<1>1. edit' = [edit EXCEPT ![r] = s]
  BY DEF Close
<1>2. /\ s \in Session
      /\ s.at = answer /\ s.edit = EditOf(r) /\ s.pending = {} /\ s.waiting = FALSE
      /\ s.target = {} /\ s.deleted = {} /\ s.inserted = {}
  <2>1. EditOf(r) \in Edits
    BY SessionFields DEF EditOf
  <2> QED
    BY <2>1, NewSessionFields DEF Session
<1> HIDE DEF s
<1>3. edit'[r] = s /\ edit' \in [Requests -> Session] /\ SameBut(r)
  BY <1>1, <1>2 DEF BrandTypeOK, SameBut
<1> QED
  BY <1>2, <1>3 DEF Closed, EditOf

LEMMA FlushOutcome ==
    ASSUME BrandTypeOK, NEW r \in Requests, StageOK(r), Flush(r)
    PROVE  /\ edit' \in [Requests -> Session]
           /\ SameBut(r) /\ \E t \in Tables : Flushes(r, t)
<1>1. PICK t \in Tables :
        /\ FlushedNext(r, t)
        /\ ~Waits(r, Replaced(r, t), Listed(r, t))
        /\ ~Violates(r, Replaced(r, t), Listed(r, t))
        /\ edit' = [edit EXCEPT
              ![r].pending = @ \ {t},
              ![r].deleted = @ \cup Replaced(r, t),
              ![r].inserted = @ \cup Listed(r, t)]
  BY DEF Flush
<1>2. t \in Given(r)
  BY <1>1 DEF FlushedNext, StageOK
<1> DEFINE pending == edit[r].pending \ {t}
           deleted == edit[r].deleted \cup Replaced(r, t)
           inserted == edit[r].inserted \cup Listed(r, t)
           s == [edit[r] EXCEPT !.pending = pending, !.deleted = deleted,
                                !.inserted = inserted]
<1>3. deleted \subseteq Rows /\ inserted \subseteq Rows /\ pending \subseteq Tables
  BY <1>2, SessionFields, ListedRows DEF Replaced, RowsOf, BrandTypeOK
<1>4. edit' = [edit EXCEPT ![r] = s]
  BY <1>1
<1> HIDE DEF pending, deleted, inserted
<1>5. /\ s \in Session
      /\ s.at = edit[r].at /\ s.edit = edit[r].edit /\ s.waiting = edit[r].waiting
      /\ s.target = edit[r].target
      /\ s.pending = pending /\ s.deleted = deleted /\ s.inserted = inserted
  BY <1>3, SessionFields DEF Session
<1> HIDE DEF s
<1>6. edit'[r] = s /\ edit' \in [Requests -> Session] /\ SameBut(r)
  BY <1>4, <1>5 DEF BrandTypeOK, SameBut
<1>7. committed' = committed /\ Opened(r)
  BY DEF Flush, Opened
<1>8. Flushes(r, t)
  BY <1>1, <1>5, <1>6, <1>7 DEF Flushes, pending, deleted, inserted
<1> QED
  BY <1>6, <1>8

LEMMA BeginOutcome ==
    ASSUME BrandTypeOK, NEW r \in Requests, Begin(r)
    PROVE  /\ edit' \in [Requests -> Session]
           /\ SameBut(r) /\ Begins(r)
<1>1. PICK e \in Edits : GetBrand(r, e) \/ BrandNotFound(r, e) \/ AddBrand(r, e)
  BY DEF Begin
<1>2. DOMAIN e.fields \subseteq Tables /\ (e.kind = "create" \/ e.kind = "update")
  BY EditFields
<1>3. ASSUME NEW at \in Open \cup {"notFound"}, NEW pending \in SUBSET Tables,
             edit' = [edit EXCEPT ![r] =
                [NewSession EXCEPT !.at = at, !.edit = e, !.pending = pending]]
      PROVE  /\ edit' \in [Requests -> Session] /\ SameBut(r)
             /\ edit'[r].at = at /\ edit'[r].edit = e /\ edit'[r].pending = pending
             /\ ~edit'[r].waiting /\ edit'[r].target = {}
             /\ edit'[r].deleted = {} /\ edit'[r].inserted = {}
  <2> DEFINE s == [NewSession EXCEPT !.at = at, !.edit = e, !.pending = pending]
  <2>1. /\ s \in Session /\ s.at = at /\ s.edit = e /\ s.pending = pending
        /\ s.waiting = FALSE /\ s.target = {} /\ s.deleted = {} /\ s.inserted = {}
    BY <1>3, NewSessionFields DEF Session, Open, EditAnswers
  <2> HIDE DEF s
  <2>2. edit'[r] = s /\ edit' \in [Requests -> Session] /\ SameBut(r)
    BY <1>3, <2>1 DEF BrandTypeOK, SameBut, s
  <2> QED
    BY <2>1, <2>2
<1>4. EditAt(r, "new") /\ committed' = committed
  BY DEF Begin
<1>5. CASE GetBrand(r, e)
  <2> DEFINE at == NextStage(DOMAIN e.fields, "begin")
             pending == IF /\ "name" \in DOMAIN e.fields
                           /\ \A x \in RowsOf(e.brand, "name") :
                                 x.value \notin e.fields["name"]
                        THEN {"name"} ELSE {}
  <2>1. /\ at \in Open
        /\ at \in {"alias", "domain"} => at \in DOMAIN e.fields
        /\ \A t \in DOMAIN e.fields :
              t = "name" \/ at = "alias" \/ (at = "domain" /\ t = "domain")
    BY <1>2, Stages, StagesFollow DEF Tables
  <2>2. pending \subseteq DOMAIN e.fields /\ pending \in SUBSET Tables
    BY <1>2
  <2>3. e.kind = "update" /\ Exists(e.brand)
    BY <1>5 DEF GetBrand
  <2>4. edit' = [edit EXCEPT ![r] =
          [NewSession EXCEPT !.at = at, !.edit = e, !.pending = pending]]
    BY <1>5 DEF GetBrand
  <2> HIDE DEF at, pending
  <2>5. /\ edit' \in [Requests -> Session] /\ SameBut(r)
        /\ edit'[r].at = at /\ edit'[r].edit = e /\ edit'[r].pending = pending
        /\ ~edit'[r].waiting /\ edit'[r].target = {}
        /\ edit'[r].deleted = {} /\ edit'[r].inserted = {}
    BY <1>3, <2>1, <2>2, <2>4
  <2> QED
    BY <1>4, <2>1, <2>2, <2>3, <2>5 DEF Begins, Open
<1>6. CASE BrandNotFound(r, e)
  <2>1. edit' = [edit EXCEPT ![r] =
          [NewSession EXCEPT !.at = "notFound", !.edit = e, !.pending = {}]]
    BY <1>6, NewSessionFields DEF BrandNotFound, NewSession
  <2>2. /\ edit' \in [Requests -> Session] /\ SameBut(r)
        /\ edit'[r].at = "notFound" /\ edit'[r].edit = e /\ edit'[r].pending = {}
        /\ ~edit'[r].waiting /\ edit'[r].target = {}
        /\ edit'[r].deleted = {} /\ edit'[r].inserted = {}
    BY <1>3, <2>1
  <2> QED
    BY <1>4, <2>2 DEF Begins, Open
<1>7. CASE AddBrand(r, e)
  <2>1. edit' = [edit EXCEPT ![r] =
          [NewSession EXCEPT !.at = "commit", !.edit = e, !.pending = DOMAIN e.fields]]
    BY <1>7 DEF AddBrand
  <2>2. /\ edit' \in [Requests -> Session] /\ SameBut(r)
        /\ edit'[r].at = "commit" /\ edit'[r].edit = e
        /\ edit'[r].pending = DOMAIN e.fields
        /\ ~edit'[r].waiting /\ edit'[r].target = {}
        /\ edit'[r].deleted = {} /\ edit'[r].inserted = {}
    BY <1>2, <1>3, <2>1 DEF Open
  <2>3. /\ e.kind = "create" /\ ~Exists(e.brand)
        /\ \A q \in Requests \ {r} :
              Opened(q) /\ EditOf(q).kind = "create" => EditOf(q).brand # e.brand
    BY <1>7 DEF AddBrand, Opened
  <2> QED
    BY <1>4, <2>2, <2>3 DEF Begins, Open
<1> QED
  BY <1>1, <1>5, <1>6, <1>7

LEMMA FindOutcome ==
    ASSUME BrandTypeOK, NEW r \in Requests, FindRows(r)
    PROVE  edit' \in [Requests -> Session] /\ SameBut(r) /\ Finds(r)
<1> DEFINE target == RowsOf(EditOf(r).brand, edit[r].at)
           s == [edit[r] EXCEPT !.waiting = TRUE, !.target = target]
<1>1. target \subseteq Rows
  BY DEF RowsOf, BrandTypeOK
<1>2. edit' = [edit EXCEPT ![r] = s]
  BY DEF FindRows
<1> HIDE DEF target
<1>3. /\ s \in Session
      /\ s.at = edit[r].at /\ s.edit = edit[r].edit /\ s.pending = edit[r].pending
      /\ s.target = target /\ s.deleted = edit[r].deleted /\ s.inserted = edit[r].inserted
  BY <1>1, SessionFields DEF Session
<1> HIDE DEF s
<1>4. edit'[r] = s /\ edit' \in [Requests -> Session] /\ SameBut(r)
  BY <1>2, <1>3 DEF BrandTypeOK, SameBut
<1> QED
  BY <1>3, <1>4 DEF Finds, FindRows, target

LEMMA DeleteOutcome ==
    ASSUME BrandTypeOK, NEW r \in Requests, StageOK(r), DeleteRows(r)
    PROVE  edit' \in [Requests -> Session] /\ SameBut(r) /\ Deletes(r)
<1> DEFINE deleted == edit[r].deleted \cup (edit[r].target \cap committed)
           pending == {edit[r].at}
           at == NextStage(Given(r), edit[r].at)
           s == [edit[r] EXCEPT !.deleted = deleted, !.target = {}, !.waiting = FALSE,
                                !.pending = pending, !.at = at]
<1>1. deleted \subseteq Rows /\ pending \subseteq Tables /\ at \in Open
  BY SessionFields, Stages DEF DeleteRows, StageOK, Tables
<1>2. edit' = [edit EXCEPT ![r] = s]
  BY DEF DeleteRows
<1> HIDE DEF deleted, pending, at
<1>3. /\ s \in Session
      /\ s.at = at /\ s.edit = edit[r].edit /\ s.pending = pending
      /\ s.waiting = FALSE /\ s.target = {}
      /\ s.deleted = deleted /\ s.inserted = edit[r].inserted
  BY <1>1, SessionFields DEF Session
<1> HIDE DEF s
<1>4. edit'[r] = s /\ edit' \in [Requests -> Session] /\ SameBut(r)
  BY <1>2, <1>3 DEF BrandTypeOK, SameBut
<1> QED
  BY <1>3, <1>4 DEF Deletes, DeleteRows, deleted, pending, at

LEMMA CommitOutcome ==
    ASSUME BrandTypeOK, NEW r \in Requests, Commit(r)
    PROVE  edit' \in [Requests -> Session] /\ SameBut(r) /\ Commits(r)
<1>1. Close(r, "ok") /\ Opened(r) /\ "ok" \in EditAnswers
  BY DEF Commit, Opened, EditAt, Open, EditAnswers
<1> QED
  BY <1>1, CloseOutcome DEF Commit, Commits, View

LEMMA RollBackOutcome ==
    ASSUME BrandTypeOK, NEW r \in Requests, FlushFails(r) \/ Abort(r)
    PROVE  edit' \in [Requests -> Session] /\ SameBut(r) /\ RollsBack(r)
<1>1. \E answer \in EditAnswers : answer # "ok" /\ Close(r, answer)
  BY DEF FlushFails, Abort, EditAnswers
<1>2. Opened(r) /\ committed' = committed
  BY DEF FlushFails, Abort, Opened
<1> QED
  BY <1>1, <1>2, CloseOutcome DEF RollsBack

LEMMA Outcome ==
    ASSUME BrandTypeOK, NEW r \in Requests, StageOK(r), EditStep(r)
    PROVE  /\ edit' \in [Requests -> Session]
           /\ SameBut(r)
           /\ \/ Begins(r) \/ (\E t \in Tables : Flushes(r, t)) \/ Finds(r)
              \/ Deletes(r) \/ Commits(r) \/ RollsBack(r)
BY BeginOutcome, FlushOutcome, FindOutcome, DeleteOutcome, CommitOutcome, RollBackOutcome
   DEF EditStep

-----------------------------------------------------------------------------
(* Keys and uniqueness. *)

LEMMA EqualKeys ==
    ASSUME NEW rows, Distinct(rows), NEW x \in rows, NEW y \in rows, Key(x) = Key(y)
    PROVE  x = y
BY DEF Distinct, Key

LEMMA DifferentKeys ==
    ASSUME NEW x, NEW y, x.table = y.table, Key(x) # Key(y)
    PROVE  IF x.table = "alias" THEN x.brand # y.brand \/ x.value # y.value
           ELSE x.value # y.value
BY DEF Key

(* What a transaction inserts has the key of no committed row it sees. *)
LEMMA InsertedKeysAreNew ==
    ASSUME BrandInv, NEW q \in Requests, Opened(q),
           NEW x \in committed, x \notin edit[q].deleted, NEW y \in edit[q].inserted
    PROVE  Key(x) # Key(y)
<1>1. Distinct(View(q)) /\ x \in View(q) /\ y \in View(q) /\ y.by = q
  BY DEF BrandInv, SessionOK, View, OwnRows
<1>2. y \notin committed
  BY <1>1 DEF BrandInv, RefusedEditLeavesNothing, Opened, Open, EditAt
<1> QED
  BY <1>1, <1>2, EqualKeys

(* Steps that commit nothing. *)
LEMMA QuietStep ==
    ASSUME BrandInv, NEW r \in Requests,
           edit' \in [Requests -> Session], SameBut(r), committed' = committed,
           ~EditAt(r, "ok"), SessionOK(r)',
           \A q \in Requests \ {r} : Apart(r, q)' /\ Apart(q, r)'
    PROVE  BrandInv'
<1>1. BrandTypeOK'
  BY DEF BrandInv, BrandTypeOK
<1>2. \A q \in Requests : SessionOK(q)'
  <2> SUFFICES ASSUME NEW q \in Requests, q # r PROVE SessionOK(q)'
    OBVIOUS
  <2>1. edit'[q] = edit[q] /\ SessionOK(q)
    BY DEF SameBut, BrandInv
  <2> QED
    BY <2>1 DEF SessionOK, ClosedOK, OwnRows, StageOK, NameReplaced, ListsOK, KindOK,
                Opened, View, EditOf, Given, Exists, RowsOf, Listed
<1>3. \A p, q \in Requests : p # q => Apart(p, q)'
  <2> SUFFICES ASSUME NEW p \in Requests, NEW q \in Requests, p # q, p # r, q # r
               PROVE  Apart(p, q)'
    OBVIOUS
  <2>1. edit'[p] = edit[p] /\ edit'[q] = edit[q] /\ Apart(p, q)
    BY DEF SameBut, BrandInv
  <2> QED
    BY <2>1 DEF Apart, Opened, EditOf
<1>4. NamesAndDomainsAreUnique'
  BY DEF BrandInv, NamesAndDomainsAreUnique
<1>5. RefusedEditLeavesNothing'
  BY DEF BrandInv, RefusedEditLeavesNothing, SameBut, EditAt
<1> QED
  BY <1>1, <1>2, <1>3, <1>4, <1>5 DEF BrandInv

LEMMA ClosedStep ==
    ASSUME NEW r \in Requests, Closed(r), Distinct(committed)', edit'[r].waiting \in BOOLEAN
    PROVE  SessionOK(r)' /\ \A q \in Requests : Apart(r, q)' /\ Apart(q, r)'
<1>1. ~Opened(r)'
  BY DEF Closed, Opened, Open, EditAnswers
<1>2. View(r)' = committed'
  BY DEF View, Closed
<1>3. SessionOK(r)'
  BY <1>1, <1>2 DEF SessionOK, ClosedOK, OwnRows, StageOK, NameReplaced, ListsOK, KindOK,
                    Closed, Opened, Open
<1>4. \A q \in Requests : Apart(r, q)' /\ Apart(q, r)'
  BY <1>1 DEF Apart, Closed
<1> QED
  BY <1>3, <1>4

LEMMA RollBackStep ==
    ASSUME BrandInv, NEW r \in Requests,
           edit' \in [Requests -> Session], SameBut(r), RollsBack(r)
    PROVE  BrandInv'
<1>1. edit'[r].waiting \in BOOLEAN
  BY DEF Session
<1>2. Closed(r) /\ committed' = committed /\ Distinct(committed)'
  BY DEF RollsBack, BrandInv, NamesAndDomainsAreUnique
<1>3. ~EditAt(r, "ok")
  BY <1>2 DEF Closed, EditAt, Opened, Open
<1> QED
  BY <1>1, <1>2, <1>3, ClosedStep, QuietStep

LEMMA BeginStep ==
    ASSUME BrandInv, NEW r \in Requests,
           edit' \in [Requests -> Session], SameBut(r), Begins(r)
    PROVE  BrandInv'
<1>1. edit'[r].waiting \in BOOLEAN /\ edit'[r].at \in Open \cup {"notFound"}
  BY DEF Session, Begins
<1>2. committed' = committed /\ ~EditAt(r, "ok") /\ View(r)' = committed'
  BY DEF Begins, EditAt, View
<1>3. ClosedOK(r)' /\ OwnRows(r)' /\ StageOK(r)' /\ NameReplaced(r)'
  BY <1>1 DEF Begins, ClosedOK, OwnRows, StageOK, NameReplaced, Opened, Open, Given, EditOf
<1>4. ListsOK(r)'
  BY DEF Begins, ListsOK, Opened, Given, EditOf
<1>5. KindOK(r)'
  BY <1>2 DEF Begins, KindOK, Opened, EditOf, Exists, RowsOf
<1>6. SessionOK(r)'
  BY <1>2, <1>3, <1>4, <1>5 DEF SessionOK, BrandInv, NamesAndDomainsAreUnique
<1>7. ASSUME NEW q \in Requests \ {r} PROVE Apart(r, q)' /\ Apart(q, r)'
  BY DEF Begins, Apart, SameBut, Opened, EditOf
<1> QED
  BY <1>2, <1>6, <1>7, QuietStep

LEMMA FindStep ==
    ASSUME BrandInv, NEW r \in Requests,
           edit' \in [Requests -> Session], SameBut(r), Finds(r)
    PROVE  BrandInv'
<1>1. SessionOK(r) /\ edit[r].at \in Given(r) /\ edit[r].at # "name"
  BY DEF BrandInv, SessionOK, StageOK, Finds
<1>2. committed' = committed /\ ~EditAt(r, "ok") /\ View(r)' = View(r)
  BY DEF Finds, EditAt, View
<1>3. ClosedOK(r)' /\ StageOK(r)'
  BY <1>1 DEF SessionOK, Finds, ClosedOK, StageOK, Opened, Open, Given, EditOf
<1>4. OwnRows(r)'
  BY <1>1, <1>2 DEF SessionOK, Finds, OwnRows, RowsOf, Given, EditOf
<1>5. NameReplaced(r)' /\ ListsOK(r)' /\ KindOK(r)'
  BY <1>1, <1>2 DEF SessionOK, Finds, NameReplaced, ListsOK, KindOK, Opened, RowsOf,
                    Exists, Given, EditOf, Listed
<1>6. SessionOK(r)'
  BY <1>1, <1>2, <1>3, <1>4, <1>5 DEF SessionOK
<1>7. ASSUME NEW q \in Requests \ {r} PROVE Apart(r, q)' /\ Apart(q, r)'
  <2>1. Apart(r, q) /\ Apart(q, r) /\ edit'[q] = edit[q]
    BY DEF BrandInv, SameBut
  <2> QED
    BY <2>1 DEF Finds, Apart, Opened, EditOf
<1> QED
  BY <1>2, <1>6, <1>7, QuietStep

LEMMA DeleteStep ==
    ASSUME BrandInv, NEW r \in Requests,
           edit' \in [Requests -> Session], SameBut(r), Deletes(r)
    PROVE  BrandInv'
<1>1. /\ SessionOK(r) /\ edit[r].at \in {"alias", "domain"} /\ edit[r].at \in Given(r)
      /\ edit[r].pending = {}
  BY DEF BrandInv, SessionOK, StageOK, Deletes
<1>2. committed' = committed /\ ~EditAt(r, "ok") /\ edit'[r].at \in Open
  BY <1>1, Stages DEF Deletes, EditAt
<1>3. /\ \A x \in edit[r].target \cap committed :
            x.brand = EditOf(r).brand /\ x.table \in Given(r) /\ x.table # "name"
      /\ \A q \in Requests \ {r} : Opened(q) => edit[q].deleted \cap edit[r].target = {}
  BY <1>1 DEF SessionOK, OwnRows, Deletes, Waits, Opened
<1>4. ClosedOK(r)' /\ OwnRows(r)'
  BY <1>1, <1>2, <1>3 DEF SessionOK, Deletes, ClosedOK, OwnRows, Opened, Given, EditOf
<1>5. StageOK(r)'
  BY <1>1, StagesFollow DEF Deletes, StageOK, Given, EditOf
<1>6. NameReplaced(r)'
  BY <1>1, <1>2, <1>3 DEF SessionOK, Deletes, NameReplaced, RowsOf, EditOf
<1>7. ListsOK(r)'
  <2>1. Given(r) \subseteq Tables
    BY SessionFields, EditFields DEF BrandInv, Given, EditOf
  <2>2. SUFFICES ASSUME NEW t \in Given(r), t # "name"
                 PROVE  \/ t \in edit'[r].pending \/ Listed(r, t) \subseteq edit'[r].inserted
                        \/ (edit'[r].at = "domain" /\ t = "domain")
    BY DEF ListsOK, Listed, Given, EditOf, Deletes
  <2>3. \/ Listed(r, t) \subseteq edit[r].inserted
        \/ edit[r].at = "alias" \/ (edit[r].at = "domain" /\ t = "domain")
    BY <1>1, <2>2 DEF SessionOK, ListsOK, Opened, Open
  <2>4. t = "alias" \/ t = "domain"
    BY <2>1, <2>2 DEF Tables
  <2> QED
    BY <2>2, <2>3, <2>4, StagesFollow DEF Deletes
<1>8. KindOK(r)'
  BY <1>1, <1>2 DEF SessionOK, Deletes, KindOK, Opened, Open, EditOf, Exists, RowsOf
<1>9. Distinct(View(r)')
  <2>1. View(r)' \subseteq View(r)
    BY <1>2 DEF View, Deletes
  <2> QED
    BY <1>1, <2>1 DEF SessionOK, Distinct
<1>10. SessionOK(r)'
  BY <1>4, <1>5, <1>6, <1>7, <1>8, <1>9 DEF SessionOK
<1>11. ASSUME NEW q \in Requests \ {r} PROVE Apart(r, q)' /\ Apart(q, r)'
  <2>1. Apart(r, q) /\ Apart(q, r) /\ edit'[q] = edit[q] /\ ClosedOK(q)
    BY DEF BrandInv, SameBut, SessionOK
  <2>2. edit[q].deleted \cap (edit[r].target \cap committed) = {}
    BY <1>3, <2>1 DEF ClosedOK
  <2>3. \A x \in edit[r].target \cap committed, y \in edit[q].inserted : Key(x) # Key(y)
    <3> TAKE x \in edit[r].target \cap committed, y \in edit[q].inserted
    <3>1. Opened(q) /\ x \notin edit[q].deleted
      BY <2>1, <2>2 DEF ClosedOK
    <3> QED
      BY <3>1, InsertedKeysAreNew
  <2> QED
    BY <1>1, <2>1, <2>2, <2>3 DEF Deletes, Apart, Opened, Open, EditOf
<1> QED
  BY <1>2, <1>10, <1>11, QuietStep

LEMMA FlushStep ==
    ASSUME BrandInv, NEW r \in Requests, NEW t \in Tables,
           edit' \in [Requests -> Session], SameBut(r), Flushes(r, t)
    PROVE  BrandInv'
<1> DEFINE b == EditOf(r).brand
           new == Listed(r, t)
           old == Replaced(r, t)
<1>1. SessionOK(r) /\ BrandTypeOK /\ Opened(r)
  BY DEF BrandInv, Flushes
<1>2. t \in Given(r) /\ t \in edit[r].pending
  BY <1>1 DEF SessionOK, StageOK, Flushes, FlushedNext
<1>3. committed' = committed /\ ~EditAt(r, "ok")
  BY DEF Flushes, EditAt, Opened, Open
<1>4. /\ \A x \in new : x.table = t /\ x.brand = b /\ x.by = r
      /\ \A x, y \in new : x # y => x.value # y.value
      /\ t = "name" => \E x : new = {x}
  <2>1. t \in Given(r) /\ BrandTypeOK
    BY <1>1, <1>2
  <2>2. \A x \in Listed(r, t) : x.table = t /\ x.brand = EditOf(r).brand /\ x.by = r
    BY <2>1, ListedRows
  <2>3. \A x, y \in Listed(r, t) : x # y => x.value # y.value
    BY <2>1, ListedRows
  <2>4. t = "name" => \E x : Listed(r, t) = {x}
    BY <2>1, ListedRows
  <2> QED
    BY <2>2, <2>3, <2>4
<1>5. /\ \A x \in old : x \in committed /\ x.brand = b /\ x.table = t /\ t = "name"
      /\ t = "name" => old = RowsOf(b, "name")
  BY DEF Replaced, RowsOf
<1>6. /\ \A x \in (committed \ (edit[r].deleted \cup old)) \cup edit[r].inserted, y \in new :
            Key(x) # Key(y)
      /\ \A q \in Requests \ {r} : Opened(q) =>
            /\ edit[q].deleted \cap old = {}
            /\ \A x \in edit[q].deleted \cup edit[q].inserted, y \in new : Key(x) # Key(y)
  BY DEF Flushes, Violates, Waits, Keys, Opened
<1>7. /\ edit'[r].deleted = edit[r].deleted \cup old
      /\ edit'[r].inserted = edit[r].inserted \cup new
      /\ edit'[r].pending = edit[r].pending \ {t}
      /\ edit'[r].at = edit[r].at /\ edit'[r].edit = edit[r].edit
      /\ edit'[r].waiting = edit[r].waiting /\ edit'[r].target = edit[r].target
  BY DEF Flushes
<1>8. /\ "name" \in edit[r].pending => t = "name"
      /\ t = "name" => \A x \in edit[r].inserted : x.table # "name"
  BY <1>1, <1>2 DEF Flushes, FlushedNext, SessionOK, StageOK
<1> HIDE DEF new, old
<1>9. ClosedOK(r)' /\ OwnRows(r)'
  BY <1>1, <1>2, <1>3, <1>4, <1>5, <1>7 DEF SessionOK, ClosedOK, OwnRows, Opened, EditOf, Given
<1>10. StageOK(r)'
  BY <1>1, <1>2, <1>7, <1>8 DEF SessionOK, StageOK, EditOf, Given
<1>11. NameReplaced(r)'
  BY <1>1, <1>3, <1>4, <1>5, <1>7 DEF SessionOK, NameReplaced, EditOf, RowsOf
<1>12. ListsOK(r)' /\ KindOK(r)'
  BY <1>1, <1>3, <1>7 DEF SessionOK, ListsOK, KindOK, Listed, Opened, EditOf, Given, Exists,
                          RowsOf, new
<1>13. Distinct(View(r)')
  <2> DEFINE base == (committed \ (edit[r].deleted \cup old)) \cup edit[r].inserted
  <2>1. View(r)' \subseteq base \cup new
    BY <1>3, <1>7 DEF View
  <2>2. Distinct(base)
    BY <1>1 DEF SessionOK, View, Distinct
  <2>3. \A x \in base, y \in new : x.table = "name" /\ y.table = "name" => x.brand # y.brand
    BY <1>4, <1>5, <1>8 DEF RowsOf
  <2>4. \A x \in base, y \in new : Key(x) # Key(y)
    BY <1>6
  <2> HIDE DEF base
  <2>5. Distinct(base \cup new)
    <3> SUFFICES ASSUME NEW x \in base \cup new, NEW y \in base \cup new,
                        x # y, x.table = y.table
                 PROVE  IF x.table = "alias" THEN x.brand # y.brand \/ x.value # y.value
                        ELSE /\ x.value # y.value
                             /\ x.table = "name" => x.brand # y.brand
      BY DEF Distinct
    <3>1. CASE x \in base /\ y \in base
      BY <3>1, <2>2 DEF Distinct
    <3>2. CASE x \in new /\ y \in new
      BY <3>2, <1>4
    <3>3. CASE x \in base /\ y \in new
      BY <3>3, <2>3, <2>4, DifferentKeys
    <3>4. CASE x \in new /\ y \in base
      BY <3>4, <2>3, <2>4, DifferentKeys
    <3> QED
      BY <3>1, <3>2, <3>3, <3>4
  <2> QED
    BY <2>1, <2>5 DEF Distinct
<1>14. SessionOK(r)'
  BY <1>9, <1>10, <1>11, <1>12, <1>13 DEF SessionOK
<1>15. ASSUME NEW q \in Requests \ {r} PROVE Apart(r, q)' /\ Apart(q, r)'
  <2>1. Apart(r, q) /\ Apart(q, r) /\ edit'[q] = edit[q] /\ SessionOK(q)
    BY DEF BrandInv, SameBut
  <2>2. CASE ~Opened(q)
    <3>1. edit'[q].deleted = {} /\ edit'[q].inserted = {} /\ ~Opened(q)'
      BY <2>1, <2>2 DEF SessionOK, ClosedOK, Opened
    <3> QED
      BY <3>1 DEF Apart
  <2>3. CASE Opened(q)
    <3>1. edit[q].deleted \cap old = {}
      BY <1>6, <2>3
    <3>2. \A x \in old, y \in edit[q].inserted : Key(x) # Key(y)
      BY <1>5, <2>3, <3>1, InsertedKeysAreNew
    <3>3. \A x \in edit[q].deleted \cup edit[q].inserted, y \in new : Key(x) # Key(y)
      BY <1>6, <2>3
    <3>4. \A x \in new, y \in edit[q].inserted :
             x.table = "name" /\ y.table = "name" => x.brand # y.brand
      <4> SUFFICES ASSUME NEW x \in new, NEW y \in edit[q].inserted, x.table = "name",
                          y.table = "name", x.brand = y.brand
                   PROVE  FALSE
        OBVIOUS
      <4>1. t = "name" /\ EditOf(q).brand = b
        BY <1>4, <2>1 DEF SessionOK, OwnRows
      <4>2. RowsOf(b, "name") = {}
        BY <1>5, <2>1, <3>1, <4>1 DEF SessionOK, NameReplaced
      <4>3. EditOf(r).kind = "create" /\ EditOf(q).kind = "create"
        BY <1>1, <2>1, <2>3, <4>1, <4>2, SessionFields, EditFields
           DEF SessionOK, KindOK, Exists, EditOf
      <4> QED
        BY <1>1, <2>1, <2>3, <4>1, <4>3 DEF Apart
    <3>5. Opened(r)' = Opened(r) /\ Opened(q)' = Opened(q)
          /\ EditOf(r)' = EditOf(r) /\ EditOf(q)' = EditOf(q)
      BY <1>7, <2>1 DEF Opened, EditOf
    <3>6. Apart(r, q)'
      BY <1>7, <2>1, <3>1, <3>2, <3>3, <3>4, <3>5 DEF Apart
    <3>7. Apart(q, r)'
      BY <1>7, <2>1, <3>1, <3>3, <3>4, <3>5 DEF Apart
    <3> QED
      BY <3>6, <3>7
  <2> QED
    BY <2>2, <2>3
<1> QED
  BY <1>3, <1>14, <1>15, QuietStep

(* The brands that exist after another transaction's commit are those of    *)
(* before, as far as an open transaction is concerned.                      *)
LEMMA CommitKeepsKinds ==
    ASSUME BrandInv, NEW r \in Requests, NEW q \in Requests \ {r},
           SameBut(r), Commits(r)
    PROVE  KindOK(q)'
<1> DEFINE b == EditOf(q).brand
<1>1. /\ SessionOK(r) /\ SessionOK(q) /\ Opened(r) /\ edit'[q] = edit[q]
      /\ committed' = (committed \ edit[r].deleted) \cup edit[r].inserted
  BY DEF BrandInv, SameBut, Commits, Closed, View
<1>2. SUFFICES ASSUME Opened(q) PROVE EditOf(q).kind = "update" <=> Exists(b)'
  BY <1>1 DEF KindOK, Opened, EditOf, Exists, RowsOf
<1>3. EditOf(q).kind = "update" <=> Exists(b)
  BY <1>1, <1>2 DEF SessionOK, KindOK
<1>4. ASSUME Exists(b) PROVE Exists(b)'
  <2>1. PICK z \in committed : z.brand = b /\ z.table = "name"
    BY <1>4 DEF Exists, RowsOf, EditOf
  <2>2. CASE z \notin edit[r].deleted
    BY <1>1, <2>1, <2>2 DEF Exists, RowsOf, EditOf
  <2>3. CASE z \in edit[r].deleted
    <3>1. PICK y \in edit[r].inserted : y.table = "name"
      BY <1>1, <2>1, <2>3 DEF SessionOK, NameReplaced
    <3>2. y.brand = b
      BY <1>1, <2>1, <2>3, <3>1 DEF SessionOK, OwnRows
    <3> QED
      BY <1>1, <3>1, <3>2 DEF Exists, RowsOf, EditOf
  <2> QED
    BY <2>2, <2>3
<1>5. ASSUME ~Exists(b), Exists(b)' PROVE FALSE
  <2>1. PICK z \in edit[r].inserted : z.brand = b /\ z.table = "name"
    BY <1>1, <1>5 DEF Exists, RowsOf, EditOf
  <2>2. EditOf(r).brand = b
    BY <1>1, <2>1 DEF SessionOK, OwnRows
  <2>3. EditOf(r).kind = "create" /\ EditOf(q).kind = "create"
    <3>1. EditOf(r).kind # "update" /\ EditOf(q).kind # "update"
      BY <1>1, <1>3, <1>5, <2>2 DEF SessionOK, KindOK
    <3> QED
      BY <3>1, SessionFields, EditFields DEF BrandInv, EditOf
  <2> QED
    BY <1>1, <1>2, <2>2, <2>3 DEF BrandInv, Apart
<1> QED
  BY <1>3, <1>4, <1>5

LEMMA CommitKeepsSessions ==
    ASSUME BrandInv, NEW r \in Requests, NEW q \in Requests \ {r},
           SameBut(r), Commits(r)
    PROVE  SessionOK(q)'
<1>1. /\ SessionOK(r) /\ SessionOK(q) /\ edit'[q] = edit[q] /\ Apart(r, q) /\ Apart(q, r)
      /\ committed' = (committed \ edit[r].deleted) \cup edit[r].inserted
  BY DEF BrandInv, SameBut, Commits, View
<1>2. ClosedOK(q)' /\ StageOK(q)' /\ ListsOK(q)'
  BY <1>1 DEF SessionOK, ClosedOK, StageOK, ListsOK, Opened, EditOf, Given, Listed
<1>3. OwnRows(q)'
  BY <1>1 DEF SessionOK, OwnRows, Apart, EditOf, Given
<1>4. NameReplaced(q)'
  <2> DEFINE b == EditOf(q).brand
  <2>1. /\ \A x \in edit[q].inserted : x.brand = b
        /\ \A x \in edit[q].inserted :
              x.table = "name" => \A z \in committed :
                 z.brand = b /\ z.table = "name" => z \in edit[q].deleted
        /\ \A x \in edit[q].deleted :
              x.table = "name" => \E y \in edit[q].inserted : y.table = "name"
        /\ \A z \in edit[r].inserted, x \in edit[q].inserted :
              z.table = "name" /\ x.table = "name" => z.brand # x.brand
    BY <1>1 DEF SessionOK, OwnRows, NameReplaced, RowsOf, Apart
  <2>2. b' = b /\ edit'[q].inserted = edit[q].inserted /\ edit'[q].deleted = edit[q].deleted
    BY <1>1 DEF EditOf
  <2> HIDE DEF b
  <2>3. \A x \in edit[q].inserted :
           x.table = "name" => \A z \in committed' :
              z.brand = b /\ z.table = "name" => z \in edit[q].deleted
    BY <1>1, <2>1
  <2>4. \A x \in edit'[q].inserted :
           x.table = "name" => RowsOf(b, "name")' \subseteq edit'[q].deleted
    BY <2>2, <2>3 DEF RowsOf
  <2> QED
    BY <2>1, <2>2, <2>4 DEF NameReplaced, b
<1>5. Distinct(View(q)')
  <2> DEFINE mine == edit[q].inserted
             theirs == edit[r].inserted
             rest == (committed \ edit[r].deleted) \ edit[q].deleted
  <2>1. View(q)' \subseteq rest \cup theirs \cup mine
    BY <1>1 DEF View
  <2>2. Distinct(rest \cup mine)
    BY <1>1 DEF SessionOK, Distinct, View
  <2>3. Distinct(rest \cup theirs)
    BY <1>1 DEF SessionOK, Distinct, View
  <2>4. \A x \in theirs, y \in mine :
           /\ Key(x) # Key(y)
           /\ x.table = "name" /\ y.table = "name" => x.brand # y.brand
    BY <1>1 DEF Apart
  <2> HIDE DEF mine, theirs, rest
  <2> SUFFICES ASSUME NEW x \in rest \cup theirs \cup mine, NEW y \in rest \cup theirs \cup mine,
                      x # y, x.table = y.table
               PROVE  IF x.table = "alias" THEN x.brand # y.brand \/ x.value # y.value
                      ELSE /\ x.value # y.value
                           /\ x.table = "name" => x.brand # y.brand
    BY <2>1 DEF Distinct
  <2>5. CASE x \in rest \cup mine /\ y \in rest \cup mine
    BY <2>2, <2>5 DEF Distinct
  <2>6. CASE x \in rest \cup theirs /\ y \in rest \cup theirs
    BY <2>3, <2>6 DEF Distinct
  <2>7. CASE x \in theirs /\ y \in mine
    BY <2>4, <2>7, DifferentKeys
  <2>8. CASE x \in mine /\ y \in theirs
    BY <2>4, <2>8, DifferentKeys
  <2> QED
    BY <2>5, <2>6, <2>7, <2>8
<1> QED
  BY <1>2, <1>3, <1>4, <1>5, CommitKeepsKinds DEF SessionOK

LEMMA CommitStep ==
    ASSUME BrandInv, NEW r \in Requests,
           edit' \in [Requests -> Session], SameBut(r), Commits(r)
    PROVE  BrandInv'
<1>1. SessionOK(r) /\ committed' = View(r) /\ Closed(r)
  BY DEF BrandInv, Commits
<1>2. edit'[r].waiting \in BOOLEAN
  BY DEF Session
<1>3. Distinct(committed)'
  BY <1>1 DEF SessionOK
<1>4. SessionOK(r)' /\ \A q \in Requests : Apart(r, q)' /\ Apart(q, r)'
  BY <1>1, <1>2, <1>3, ClosedStep
<1>5. BrandTypeOK'
  BY <1>1, SessionFields DEF BrandInv, BrandTypeOK, View
<1>6. \A q \in Requests : SessionOK(q)'
  BY <1>4, CommitKeepsSessions
<1>7. \A p, q \in Requests : p # q => Apart(p, q)'
  <2> SUFFICES ASSUME NEW p \in Requests, NEW q \in Requests, p # q, p # r, q # r
               PROVE  Apart(p, q)'
    BY <1>4
  <2>1. edit'[p] = edit[p] /\ edit'[q] = edit[q] /\ Apart(p, q)
    BY DEF SameBut, BrandInv
  <2> QED
    BY <2>1 DEF Apart, Opened, EditOf
<1>8. NamesAndDomainsAreUnique'
  BY <1>3 DEF NamesAndDomainsAreUnique
<1>9. RefusedEditLeavesNothing'
  <2> SUFFICES ASSUME NEW x \in View(r), x.by \in Requests PROVE edit'[x.by].at = "ok"
    BY <1>1 DEF RefusedEditLeavesNothing, EditAt
  <2>1. edit'[r].at = "ok"
    BY DEF Commits
  <2>2. CASE x \in committed
    BY <2>1, <2>2 DEF BrandInv, RefusedEditLeavesNothing, SameBut, EditAt
  <2>3. CASE x \in edit[r].inserted
    BY <1>1, <2>1, <2>3 DEF SessionOK, OwnRows
  <2> QED
    BY <2>2, <2>3 DEF View
<1> QED
  BY <1>5, <1>6, <1>7, <1>8, <1>9 DEF BrandInv

-----------------------------------------------------------------------------
(* The invariant. *)

LEMMA BrandInvInit == BrandInit => BrandInv
<1> SUFFICES ASSUME BrandInit PROVE BrandInv
  OBVIOUS
<1>1. committed = Seeded /\ \A r \in Requests : edit[r] = NewSession
  BY DEF BrandInit
<1>2. BrandTypeOK
  BY BrandAssumption, NewSessionFields DEF BrandInit, BrandTypeOK
<1>3. NamesAndDomainsAreUnique /\ RefusedEditLeavesNothing
  BY <1>1, BrandAssumption, RequestAssumption
     DEF NamesAndDomainsAreUnique, RefusedEditLeavesNothing
<1>4. ASSUME NEW r \in Requests PROVE SessionOK(r)
  <2>1. ~Opened(r) /\ edit[r] = NewSession
    BY <1>1, NewSessionFields DEF Opened, Open
  <2>2. View(r) = committed
    BY <2>1, NewSessionFields DEF View
  <2> QED
    BY <1>3, <2>1, <2>2, NewSessionFields
       DEF SessionOK, ClosedOK, OwnRows, StageOK, NameReplaced, ListsOK, KindOK,
           NamesAndDomainsAreUnique
<1>5. ASSUME NEW r \in Requests, NEW q \in Requests PROVE Apart(r, q)
  BY <1>1, NewSessionFields DEF Apart, Opened, Open
<1> QED
  BY <1>2, <1>3, <1>4, <1>5 DEF BrandInv

LEMMA BrandInvStep ==
    ASSUME BrandInv, NEW r \in Requests, EditStep(r)
    PROVE  BrandInv'
<1>1. BrandTypeOK /\ StageOK(r)
  BY DEF BrandInv, SessionOK
<1>2. /\ edit' \in [Requests -> Session]
      /\ SameBut(r)
      /\ \/ Begins(r) \/ (\E t \in Tables : Flushes(r, t)) \/ Finds(r)
         \/ Deletes(r) \/ Commits(r) \/ RollsBack(r)
  BY <1>1, Outcome
<1> QED
  BY <1>2, BeginStep, FlushStep, FindStep, DeleteStep, CommitStep, RollBackStep

LEMMA BrandInvStutter ==
    ASSUME BrandInv, UNCHANGED brandVars
    PROVE  BrandInv'
<1>1. committed' = committed /\ edit' = edit
  BY DEF brandVars
<1>2. BrandTypeOK' /\ NamesAndDomainsAreUnique' /\ RefusedEditLeavesNothing'
  BY <1>1 DEF BrandInv, BrandTypeOK, NamesAndDomainsAreUnique, RefusedEditLeavesNothing, EditAt
<1>3. \A r \in Requests : SessionOK(r)'
  BY <1>1 DEF BrandInv, SessionOK, ClosedOK, OwnRows, StageOK, NameReplaced, ListsOK, KindOK,
              Opened, View, EditOf, Given, Exists, RowsOf, Listed
<1>4. \A p, q \in Requests : p # q => Apart(p, q)'
  BY <1>1 DEF BrandInv, Apart, Opened, EditOf
<1> QED
  BY <1>2, <1>3, <1>4 DEF BrandInv

-----------------------------------------------------------------------------
(* What a committing step stores (the body of EditChangesWhatItLists).      *)
LEMMA CommittingStep ==
    ASSUME BrandInv, NEW q \in Requests, EditStep(q), NEW r \in Requests, Committing(r)
    PROVE  LET mine(x) == x.brand = EditOf(r).brand /\ x.table \in Given(r)
           IN  /\ {x \in committed' : ~mine(x)} = {x \in committed : ~mine(x)}
               /\ \A t \in Given(r) \ {"name"} :
                     EditOf(r).fields[t] \subseteq
                         {x.value : x \in {y \in committed' : mine(y) /\ y.table = t}}
<1> DEFINE mine(x) == x.brand = EditOf(r).brand /\ x.table \in Given(r)
<1>1. BrandTypeOK /\ StageOK(q)
  BY DEF BrandInv, SessionOK
<1>2. /\ SameBut(q)
      /\ \/ Begins(q) \/ (\E t \in Tables : Flushes(q, t)) \/ Finds(q)
         \/ Deletes(q) \/ Commits(q) \/ RollsBack(q)
  BY <1>1, Outcome
<1>3. q = r
  BY <1>2 DEF SameBut, Committing, EditAt
<1>4. Commits(r)
  BY <1>2, <1>3, Stages DEF Committing, EditAt, Begins, Flushes, Finds, Deletes, RollsBack, Open
<1>5. /\ committed' = (committed \ edit[r].deleted) \cup edit[r].inserted
      /\ OwnRows(r) /\ ListsOK(r) /\ Opened(r) /\ edit[r].pending = {} /\ edit[r].at = "commit"
  BY <1>4 DEF Commits, Closed, View, BrandInv, SessionOK, EditAt
<1>6. {x \in committed' : ~mine(x)} = {x \in committed : ~mine(x)}
  BY <1>5 DEF OwnRows
<1>7. ASSUME NEW t \in Given(r) \ {"name"}, NEW v \in EditOf(r).fields[t]
      PROVE  \E x \in committed' : mine(x) /\ x.table = t /\ x.value = v
  <2> DEFINE x == [table |-> t, brand |-> EditOf(r).brand, value |-> v, by |-> r]
  <2>1. Listed(r, t) \subseteq edit[r].inserted
    BY <1>5 DEF ListsOK
  <2>2. x \in Listed(r, t)
    BY DEF Listed
  <2>3. x \in committed'
    BY <1>5, <2>1, <2>2
  <2> QED
    BY <2>3
<1>8. ASSUME NEW t \in Given(r) \ {"name"}
      PROVE  EditOf(r).fields[t] \subseteq
                 {x.value : x \in {y \in committed' : mine(y) /\ y.table = t}}
  BY <1>7
<1> QED
  BY <1>6, <1>8
=============================================================================
