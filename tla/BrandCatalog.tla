---------------------------- MODULE BrandCatalog ----------------------------
(***************************************************************************)
(* The tables brand, brand_alias and brand_domain under concurrent         *)
(* create_brand() and update_brand(): one transaction each, at PostgreSQL's *)
(* default isolation level, whose statements see what was committed when   *)
(* they began and wait for the rows and keys of other transactions.        *)
(* The three tables are one set of rows; a brand exists if it has a row in *)
(* the table "name".                                                       *)
(***************************************************************************)
EXTENDS AdminRequests

CONSTANTS
    Brands,      \* ids, of brands that exist and that may be created
    Values,      \* names, aliases and domains
    Seeded,      \* the rows at the beginning
    Edits        \* the payloads of requests

Tables == {"name", "alias", "domain"}

Rows == [table : Tables, brand : Brands, value : Values,
         by : Requests \cup {NoRequest}]

(* fields: the lists of the payload; a field that is not given is not in   *)
(* the domain.                                                             *)
Payload == [kind : {"create", "update"}, brand : Brands,
            fields : UNION {[given -> SUBSET Values] : given \in SUBSET Tables}]

(* Each table without two rows of the same key, and one name per brand. *)
Distinct(rows) ==
    \A x, y \in rows : x # y /\ x.table = y.table =>
        IF x.table = "alias" THEN x.brand # y.brand \/ x.value # y.value
        ELSE /\ x.value # y.value
             /\ x.table = "name" => x.brand # y.brand

(* Rows of the beginning are nobody's; a name is one value, and a new brand *)
(* has one.                                                                *)
ASSUME BrandAssumption ==
    /\ Seeded \subseteq Rows /\ Distinct(Seeded)
    /\ \A x \in Seeded : x.by = NoRequest
    /\ Edits # {} /\ Edits \subseteq Payload
    /\ \A e \in Edits :
          /\ e.kind = "create" => "name" \in DOMAIN e.fields
          /\ "name" \in DOMAIN e.fields => \E v \in Values : e.fields["name"] = {v}

VARIABLES
    committed,    \* the rows of the three tables
    edit          \* the session of each request

brandVars == <<committed, edit>>

(* Where a session is: about to delete or deleting the rows of a table, or  *)
(* in the try clause that commits.                                          *)
Open == {"alias", "domain", "commit"}

EditAnswers == {"ok", "conflict", "notFound", "error"}

Session == [at : {"new"} \cup Open \cup EditAnswers,
            edit : Edits,
            pending : SUBSET Tables,     \* changes the session has not flushed
            waiting : BOOLEAN,           \* the DELETE has taken its snapshot
            target : SUBSET Rows,        \* what it found then
            deleted : SUBSET Rows,       \* uncommitted
            inserted : SUBSET Rows]      \* uncommitted

NewSession ==
    [at |-> "new", edit |-> CHOOSE e \in Edits : TRUE, pending |-> {},
     waiting |-> FALSE, target |-> {}, deleted |-> {}, inserted |-> {}]

BrandTypeOK ==
    /\ committed \subseteq Rows
    /\ edit \in [Requests -> Session]

BrandInit ==
    /\ committed = Seeded
    /\ edit = [r \in Requests |-> NewSession]

RowsOf(b, t) == {x \in committed : x.brand = b /\ x.table = t}

Exists(b) == RowsOf(b, "name") # {}

(* Mutant: domains are unique within a brand only. *)
KeyWithinBrand(x) == IF x.table = "name" THEN <<"name", x.value>>
                     ELSE <<x.table, x.brand, x.value>>

(* The unique constraints: Brand.name, BrandAlias (brand_id, alias_text),  *)
(* BrandDomain.domain.                                                     *)
Key(x) == IF x.table = "alias" THEN <<"alias", x.brand, x.value>>
          ELSE <<x.table, x.value>>

Keys(rows) == {Key(x) : x \in rows}

EditAt(r, place) == edit[r].at = place

EditOf(r) == edit[r].edit

Given(r) == DOMAIN EditOf(r).fields

(* The rows a flush of table t inserts. *)
Listed(r, t) ==
    [table : {t}, brand : {EditOf(r).brand}, value : EditOf(r).fields[t], by : {r}]

(* A transaction waits for another one that has deleted a row it deletes,   *)
(* that has written a key it inserts, or that holds the brand's row: an     *)
(* insert of an alias or a domain locks it against a change of the name.    *)
Waits(r, del, ins) ==
    \E q \in Requests \ {r} :
        /\ edit[q].at \in Open
        /\ \/ edit[q].deleted \cap del # {}
           \/ Keys(edit[q].deleted \cup edit[q].inserted) \cap Keys(ins) # {}
           \/ \E x \in edit[q].deleted \cup edit[q].inserted, y \in del \cup ins :
                 /\ x.brand = y.brand
                 /\ (x.table = "name") # (y.table = "name")
                 /\ x \in edit[q].inserted \/ x.table = "name"
                 /\ y \in ins \/ y.table = "name"

Violates(r, del, ins) ==
    \E x \in (committed \ (edit[r].deleted \cup del)) \cup edit[r].inserted :
        Key(x) \in Keys(ins)

-----------------------------------------------------------------------------
(* The order of the tables in update_brand(). *)

NextStage(given, stage) ==
    IF stage = "begin" /\ "alias" \in given THEN "alias"
    ELSE IF stage # "domain" /\ "domain" \in given THEN "domain" ELSE "commit"

(* session.get(): the new name becomes a pending change if it differs.      *)
GetBrand(r, e) ==
    /\ e.kind = "update"
    /\ Exists(e.brand)
    /\ edit' = [edit EXCEPT ![r] =
          [NewSession EXCEPT
              !.at = NextStage(DOMAIN e.fields, "begin"),
              !.edit = e,
              !.pending =
                  IF /\ "name" \in DOMAIN e.fields
                     /\ \A x \in RowsOf(e.brand, "name") : x.value \notin e.fields["name"]
                  THEN {"name"} ELSE {}]]

BrandNotFound(r, e) ==
    /\ e.kind = "update"
    /\ ~Exists(e.brand)
    /\ edit' = [edit EXCEPT ![r] = [NewSession EXCEPT !.at = "notFound", !.edit = e]]

(* create_brand(): a new id, and everything within the try clause. *)
AddBrand(r, e) ==
    /\ e.kind = "create"
    /\ ~Exists(e.brand)
    /\ \A q \in Requests \ {r} :
          EditOf(q).kind = "create" /\ EditOf(q).brand = e.brand
              => edit[q].at \notin Open
    /\ edit' = [edit EXCEPT ![r] =
          [NewSession EXCEPT !.at = "commit", !.edit = e, !.pending = DOMAIN e.fields]]

Begin(r) ==
    /\ EditAt(r, "new")
    /\ \E e \in Edits : GetBrand(r, e) \/ BrandNotFound(r, e) \/ AddBrand(r, e)
    /\ UNCHANGED committed

Close(r, answer) ==
    edit' = [edit EXCEPT ![r] = [NewSession EXCEPT !.at = answer, !.edit = EditOf(r)]]

(* What is flushed next: the brand's row before those that refer to it. *)
FlushedNext(r, t) ==
    /\ t \in edit[r].pending
    /\ "name" \in edit[r].pending => t = "name"

(* The UPDATE of a name replaces the row; the other tables only insert. *)
Replaced(r, t) == IF t = "name" THEN RowsOf(EditOf(r).brand, "name") ELSE {}

(* Mutant: create_brand() commits the brand before its aliases. *)
FlushCommitting(r) ==
    /\ edit[r].at \in Open
    /\ \E t \in Tables :
          /\ FlushedNext(r, t)
          /\ ~Waits(r, Replaced(r, t), Listed(r, t))
          /\ ~Violates(r, Replaced(r, t), Listed(r, t))
          /\ committed' = (committed \ Replaced(r, t)) \cup Listed(r, t)
          /\ edit' = [edit EXCEPT ![r].pending = @ \ {t}]

(* A flush of the session: by execute(delete(...)) of the next table, by    *)
(* flush() or by commit().                                                  *)
Flush(r) ==
    /\ edit[r].at \in Open
    /\ \E t \in Tables :
          /\ FlushedNext(r, t)
          /\ ~Waits(r, Replaced(r, t), Listed(r, t))
          /\ ~Violates(r, Replaced(r, t), Listed(r, t))
          /\ edit' = [edit EXCEPT
                ![r].pending = @ \ {t},
                ![r].deleted = @ \cup Replaced(r, t),
                ![r].inserted = @ \cup Listed(r, t)]
    /\ UNCHANGED committed

(* IntegrityError: 409 within the try clause, which is only around the     *)
(* commit; 500 before it.                                                  *)
FlushFails(r) ==
    /\ edit[r].at \in Open
    /\ \E t \in Tables :
          /\ FlushedNext(r, t)
          /\ ~Waits(r, Replaced(r, t), Listed(r, t))
          /\ Violates(r, Replaced(r, t), Listed(r, t))
    /\ Close(r, IF EditAt(r, "commit") THEN "conflict" ELSE "error")
    /\ UNCHANGED committed

(* Mutant: the DELETE has no WHERE. *)
FindRowsOfAll(r) ==
    /\ edit[r].at \in {"alias", "domain"}
    /\ edit[r].pending = {}
    /\ ~edit[r].waiting
    /\ edit' = [edit EXCEPT ![r].waiting = TRUE,
                            ![r].target = {x \in committed : x.table = edit[r].at}]
    /\ UNCHANGED committed

(* execute(delete(...)): the rows are found first, ...                      *)
FindRows(r) ==
    /\ edit[r].at \in {"alias", "domain"}
    /\ edit[r].pending = {}
    /\ ~edit[r].waiting
    /\ edit' = [edit EXCEPT ![r].waiting = TRUE,
                            ![r].target = RowsOf(EditOf(r).brand, edit[r].at)]
    /\ UNCHANGED committed

(* ... then deleted, those still there once nobody else deletes them.       *)
DeleteRows(r) ==
    /\ edit[r].waiting
    /\ ~Waits(r, edit[r].target, {})
    /\ edit' = [edit EXCEPT
          ![r].deleted = @ \cup (edit[r].target \cap committed),
          ![r].target = {},
          ![r].waiting = FALSE,
          ![r].pending = {edit[r].at},
          ![r].at = NextStage(Given(r), @)]
    /\ UNCHANGED committed

Commit(r) ==
    /\ EditAt(r, "commit")
    /\ edit[r].pending = {}
    /\ committed' = (committed \ edit[r].deleted) \cup edit[r].inserted
    /\ Close(r, "ok")

(* A deadlock the database breaks, a lost connection, a killed process: the *)
(* transaction is rolled back.                                              *)
Abort(r) ==
    /\ edit[r].at \in Open
    /\ Close(r, "error")
    /\ UNCHANGED committed

EditStep(r) ==
    \/ Begin(r) \/ Flush(r) \/ FlushFails(r) \/ FindRows(r) \/ DeleteRows(r)
    \/ Commit(r) \/ Abort(r)

BrandSpec == BrandInit /\ [][\E r \in Requests : EditStep(r)]_brandVars

-----------------------------------------------------------------------------
(* Properties. *)

(* Two brands never share a name or a domain, and a brand has one name and  *)
(* each alias once, whatever transactions overlap (models/brand.py: the     *)
(* matching of citations must be one to one).                               *)
NamesAndDomainsAreUnique == Distinct(committed)

(* A request that was refused, or failed after some of its statements, has  *)
(* left nothing in any of the three tables (create_brand(), update_brand(): *)
(* one transaction).                                                        *)
RefusedEditLeavesNothing ==
    \A x \in committed : x.by \in Requests => EditAt(x.by, "ok")

Committing(r) == ~EditAt(r, "ok") /\ edit'[r].at = "ok"

(* The step that makes a request succeed stores every alias and domain it   *)
(* listed, and touches neither another brand nor a field that was not given *)
(* (schemas/brands.py: None means no change).                               *)
EditChangesWhatItLists ==
    [][\A r \in Requests : Committing(r) =>
        LET mine(x) == x.brand = EditOf(r).brand /\ x.table \in Given(r)
        IN  /\ {x \in committed' : ~mine(x)} = {x \in committed : ~mine(x)}
            /\ \A t \in Given(r) \ {"name"} :
                  EditOf(r).fields[t] \subseteq
                      {x.value : x \in {y \in committed' : mine(y) /\ y.table = t}}]_brandVars

(* A list that was given replaces all rows of the brand (schemas/brands.py: *)
(* full replacement).  It does not if another edit of the list commits     *)
(* after the DELETE has found its rows: the rows of both remain.           *)
GivenListsReplace ==
    [][\A r \in Requests : Committing(r) =>
        \A t \in Given(r) \ {"name"} :
            {x.value : x \in RowsOf(EditOf(r).brand, t)'} = EditOf(r).fields[t]]_brandVars
=============================================================================
