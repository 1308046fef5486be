---------------------------- MODULE PromptCatalog ----------------------------
(***************************************************************************)
(* The table of prompts under the requests of administrators: single       *)
(* prompts and new versions, deactivation, and the import of a file, whose *)
(* prompts are committed one by one.                                       *)
(***************************************************************************)
EXTENDS AdminRequests, Integers, Sequences

CONSTANTS
    Files,        \* contents of files: sequences of members of RowKinds
    FileNames

(* A row is empty, has a cell that cannot be mapped, passes the checks but  *)
(* has a value that is too long for its column, or is all right.            *)
RowKinds == {"blank", "unmapped", "long", "fine"}

ASSUME PromptAssumption ==
    /\ Files \subseteq Seq(RowKinds)
    /\ Files # {} /\ FileNames # {}

VARIABLES
    prompt,      \* the rows, in the order of their ids
    admin        \* what each request does

promptVars == <<prompt, admin>>

(* phrasing *)
Phrasings == {"SEARCH_QUERY", "QUESTION", "NULL"}

(* topic_group: "{source_file}:{row_number}" *)
NoGroup == [file |-> "NULL", row |-> 0]
TopicGroups == [file : FileNames, row : Nat] \cup {NoGroup}

(* imported_at tells the imports apart, supersedes_id is 0 for NULL. *)
Prompt == [supersedes : Nat, version : Nat, is_active : BOOLEAN,
           topic_group : TopicGroups, phrasing : Phrasings,
           imported_at : Requests \cup {NoRequest}]

Answers == {"ok", "refused", "error", "killed"}

(* An import at a row of its file: the next prompt is that of the phrasing. *)
AdminRequest == [at : {"new", "importing", "deactivating"} \cup Answers,
                 name : FileNames, file : Files,
                 row : Nat, phrasing : Phrasings, ids : SUBSET Nat]

NewAdmin == [at |-> "new",
             name |-> CHOOSE n \in FileNames : TRUE,
             file |-> CHOOSE f \in Files : TRUE,
             row |-> 0, phrasing |-> "NULL", ids |-> {}]

PromptTypeOK ==
    /\ prompt \in Seq(Prompt)
    /\ \A i \in DOMAIN prompt : prompt[i].supersedes <= Len(prompt)
    /\ admin \in [Requests -> AdminRequest]

PromptInit ==
    /\ prompt = <<>>
    /\ admin = [r \in Requests |-> NewAdmin]

AdminAt(r, place) == admin[r].at = place

Answer(r, answer) == admin' = [admin EXCEPT ![r].at = answer]

-----------------------------------------------------------------------------
(* create_prompt(): old is the superseded prompt, or 0. *)

(* Mutant: every new version is number 2. *)
NewPromptSecond(old) ==
    [supersedes |-> old, version |-> IF old = 0 THEN 1 ELSE 2,
     is_active |-> TRUE, topic_group |-> NoGroup, phrasing |-> "NULL",
     imported_at |-> NoRequest]

NewPrompt(old) ==
    [supersedes |-> old,
     version |-> IF old = 0 THEN 1 ELSE prompt[old].version + 1,
     is_active |-> TRUE, topic_group |-> NoGroup, phrasing |-> "NULL",
     imported_at |-> NoRequest]

(* POST /prompts; any prompt can be superseded, also twice, also inactive.  *)
CreatePrompt(r) ==
    /\ AdminAt(r, "new")
    /\ \E old \in 0 .. Len(prompt) : prompt' = Append(prompt, NewPrompt(old))
    /\ Answer(r, "ok")

(* Mutant: the superseded prompt is not looked up. *)
CreateUnchecked(r) ==
    /\ AdminAt(r, "new")
    /\ prompt' = Append(prompt, [NewPrompt(0) EXCEPT !.supersedes = Len(prompt) + 2])
    /\ Answer(r, "ok")

(* supersedes_id that is not in the table: 400 *)
CreateOfUnknown(r) ==
    /\ AdminAt(r, "new")
    /\ Answer(r, "refused")
    /\ UNCHANGED prompt

Deactivated(ids) ==
    [i \in DOMAIN prompt |->
        IF i \in ids THEN [prompt[i] EXCEPT !.is_active = FALSE] ELSE prompt[i]]

(* Mutant: the switch works both ways. *)
DeactivatePromptToggling(r) ==
    /\ AdminAt(r, "new")
    /\ \E i \in DOMAIN prompt : prompt' = [prompt EXCEPT ![i].is_active = ~@]
    /\ Answer(r, "ok")

DeactivatePrompt(r) ==
    /\ AdminAt(r, "new")
    /\ \E i \in DOMAIN prompt : prompt' = Deactivated({i})
    /\ Answer(r, "ok")

(* deactivate_all_active(): the SELECT, then the UPDATEs and the commit. *)
SelectActive(r) ==
    /\ AdminAt(r, "new")
    /\ admin' = [admin EXCEPT ![r].at = "deactivating",
                              ![r].ids = {i \in DOMAIN prompt : prompt[i].is_active}]
    /\ UNCHANGED prompt

DeactivateAll(r) ==
    /\ AdminAt(r, "deactivating")
    /\ prompt' = Deactivated(admin[r].ids)
    /\ Answer(r, "ok")

-----------------------------------------------------------------------------
(* import_prompts_from_excel() *)

(* The first row from i on that is not blank, or the end of the file. *)
RowFrom(f, i) ==
    CHOOSE j \in i .. Len(f) + 1 :
        /\ j = Len(f) + 1 \/ f[j] # "blank"
        /\ \A k \in i .. j - 1 : f[k] = "blank"

(* Mutant: rows that cannot be mapped are refused only if no row can be.    *)
ParseWorkbookLenient(r, name, file) ==
    admin' =
        IF \A i \in DOMAIN file : file[i] \in {"unmapped", "blank"}
        THEN [admin EXCEPT ![r].at = "refused", ![r].name = name, ![r].file = file]
        ELSE [admin EXCEPT ![r].at = "importing", ![r].name = name, ![r].file = file,
                           ![r].row = RowFrom(file, 1),
                           ![r].phrasing = "SEARCH_QUERY"]

(* The whole file is parsed before anything is created. *)
ParseWorkbook(r, name, file) ==
    admin' =
        IF \E i \in DOMAIN file : file[i] = "unmapped"
        THEN [admin EXCEPT ![r].at = "refused", ![r].name = name, ![r].file = file]
        ELSE [admin EXCEPT ![r].at = "importing", ![r].name = name, ![r].file = file,
                           ![r].row = RowFrom(file, 1),
                           ![r].phrasing = "SEARCH_QUERY"]

Upload(r) ==
    /\ AdminAt(r, "new")
    /\ \E name \in FileNames, file \in Files : ParseWorkbook(r, name, file)
    /\ UNCHANGED prompt

(* Mutant: rows are numbered after the blank ones have been dropped. *)
TopicGroupCounted(q) ==
    [file |-> q.name,
     row |-> Len(SelectSeq(SubSeq(q.file, 1, q.row), LAMBDA k : k # "blank"))]

TopicGroup(q) == [file |-> q.name, row |-> q.row]

Imported(r) ==
    [NewPrompt(0) EXCEPT !.topic_group = TopicGroup(admin[r]),
                         !.phrasing = admin[r].phrasing,
                         !.imported_at = r]

InFile(r) == admin[r].row <= Len(admin[r].file)

(* One create_prompt(): the commit of one prompt of a row. *)
ImportPrompt(r) ==
    /\ AdminAt(r, "importing")
    /\ InFile(r)
    /\ admin[r].file[admin[r].row] # "long"
    /\ prompt' = Append(prompt, Imported(r))
    /\ admin' = [admin EXCEPT
          ![r].phrasing = IF @ = "SEARCH_QUERY" THEN "QUESTION" ELSE "SEARCH_QUERY",
          ![r].row = IF admin[r].phrasing = "SEARCH_QUERY" THEN @
                     ELSE RowFrom(admin[r].file, @ + 1)]

(* The INSERT raises, and nothing catches it: 500. *)
ImportFails(r) ==
    /\ AdminAt(r, "importing")
    /\ InFile(r)
    /\ admin[r].file[admin[r].row] = "long"
    /\ Answer(r, "error")
    /\ UNCHANGED prompt

ImportDone(r) ==
    /\ AdminAt(r, "importing")
    /\ ~InFile(r)
    /\ Answer(r, "ok")
    /\ UNCHANGED prompt

(* gunicorn kills a process after 30 seconds. *)
AdminKilled(r) ==
    /\ admin[r].at \in {"importing", "deactivating"}
    /\ Answer(r, "killed")
    /\ UNCHANGED prompt

AdminStep(r) ==
    \/ CreatePrompt(r) \/ CreateOfUnknown(r) \/ DeactivatePrompt(r)
    \/ SelectActive(r) \/ DeactivateAll(r)
    \/ Upload(r) \/ ImportPrompt(r) \/ ImportFails(r) \/ ImportDone(r)
    \/ AdminKilled(r)

PromptSpec == PromptInit /\ [][\E r \in Requests : AdminStep(r)]_promptVars

-----------------------------------------------------------------------------
(* Properties. *)

OfImport(r) == {i \in DOMAIN prompt : prompt[i].imported_at = r}

(* A file with a row that cannot be mapped creates nothing, wherever in the *)
(* file it stands (prompt_import_service.py: validation is all or nothing). *)
RefusedImportCreatesNothing ==
    \A r \in Requests :
        (\E i \in DOMAIN admin[r].file : admin[r].file[i] = "unmapped")
            => OfImport(r) = {}

(* An import that was answered has both phrasings of every row that is not  *)
(* blank, once each, in a topic group that names the row of the file, with  *)
(* other imports and single prompts created and deactivated in between.     *)
AnsweredImportIsComplete ==
    \A r \in Requests : AdminAt(r, "ok") /\ admin[r].row > 0 =>
        LET rows == {i \in DOMAIN admin[r].file : admin[r].file[i] # "blank"}
            key == [i \in OfImport(r) |-> <<prompt[i].topic_group, prompt[i].phrasing>>]
        IN  /\ {key[i] : i \in OfImport(r)} =
                  {[file |-> admin[r].name, row |-> i] : i \in rows}
                      \X {"SEARCH_QUERY", "QUESTION"}
            /\ \A i, j \in OfImport(r) : key[i] = key[j] => i = j

(* A prompt is never changed or removed, except that it is deactivated, and *)
(* that is for good: what a run of a past week asked can always be read     *)
(* (models/prompt.py: texts are immutable).                                 *)
PromptsAreImmutable ==
    [][/\ Len(prompt') >= Len(prompt)
       /\ \A i \in DOMAIN prompt :
             \/ prompt'[i] = prompt[i]
             \/ prompt'[i] = [prompt[i] EXCEPT !.is_active = FALSE]]_prompt

(* Along supersedes_id versions count down to 1 and ids decrease, however   *)
(* the chain branches: the history of a prompt always ends at a first       *)
(* version.                                                                 *)
VersionsCountTheChain ==
    \A i \in DOMAIN prompt :
        IF prompt[i].supersedes = 0 THEN prompt[i].version = 1
        ELSE /\ prompt[i].supersedes < i
             /\ prompt[i].version = prompt[prompt[i].supersedes].version + 1
=============================================================================
