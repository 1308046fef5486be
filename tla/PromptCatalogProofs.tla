------------------------ MODULE PromptCatalogProofs ------------------------
(***************************************************************************)
(* Theorems about PromptCatalog, for any number of requests, any files and *)
(* any number of prompts.                                                  *)
(***************************************************************************)
EXTENDS PromptCatalog, WellFoundedInduction, TLAPS

(* What is not an import is at no row. *)
NoRowYet == \A r \in Requests : admin[r].at \in {"new", "deactivating"} => admin[r].row = 0

(* An import is only running if every row could be mapped, and a request    *)
(* that has not begun to import has created nothing.                        *)
ImportsAreMapped ==
    \A r \in Requests :
        /\ AdminAt(r, "importing") =>
              \A i \in DOMAIN admin[r].file : admin[r].file[i] # "unmapped"
        /\ AdminAt(r, "new") => OfImport(r) = {}

(* The position of an import: at a row that is not blank or at the end, at  *)
(* the first phrasing of a row unless the prompt of that one is there.      *)
AtARow(q) ==
    /\ q.row \in 1 .. Len(q.file) + 1
    /\ q.row <= Len(q.file) => q.file[q.row] # "blank"
    /\ q.phrasing \in {"SEARCH_QUERY", "QUESTION"}
    /\ q.row > Len(q.file) => q.phrasing = "SEARCH_QUERY"

Before(q, row, p) ==
    \/ row < q.row
    \/ row = q.row /\ p = "SEARCH_QUERY" /\ q.phrasing = "QUESTION"

(* Its prompts are those before the position, each once. *)
ImportedSoFar(r) ==
    LET q == admin[r]
    IN  /\ \A i \in OfImport(r) : \E row \in DOMAIN q.file :
              /\ prompt[i].topic_group = [file |-> q.name, row |-> row]
              /\ prompt[i].phrasing \in {"SEARCH_QUERY", "QUESTION"}
              /\ q.file[row] # "blank"
              /\ Before(q, row, prompt[i].phrasing)
        /\ \A row \in DOMAIN q.file, p \in {"SEARCH_QUERY", "QUESTION"} :
              q.file[row] # "blank" /\ Before(q, row, p) =>
                  \E i \in OfImport(r) :
                      /\ prompt[i].topic_group = [file |-> q.name, row |-> row]
                      /\ prompt[i].phrasing = p
        /\ \A i, j \in OfImport(r) :
              /\ prompt[i].topic_group = prompt[j].topic_group
              /\ prompt[i].phrasing = prompt[j].phrasing
              => i = j

ImportProgress ==
    \A r \in Requests : admin[r].at \in {"importing", "ok"} /\ admin[r].row > 0 =>
        /\ AtARow(admin[r])
        /\ ImportedSoFar(r)
        /\ AdminAt(r, "ok") => admin[r].row > Len(admin[r].file)

ImportingHasARow == \A r \in Requests : AdminAt(r, "importing") => admin[r].row > 0

PromptInv ==
    /\ PromptTypeOK
    /\ VersionsCountTheChain
    /\ NoRowYet
    /\ ImportsAreMapped
    /\ ImportingHasARow
    /\ RefusedImportCreatesNothing
    /\ ImportProgress

-----------------------------------------------------------------------------
(* The natural numbers are well founded. *)
LEMMA LeastElement ==
    ASSUME NEW S \in SUBSET Nat, S # {}
    PROVE  \E x \in S : \A y \in S : x <= y
<1>1. PICK x \in S : \A y \in S : ~(<<y, x>> \in OpToRel(<, Nat))
  BY NatLessThanWellFounded, WFMin
<1>2. \A y \in S : ~(y < x)
  BY <1>1 DEF OpToRel
<1> QED
  BY <1>2

(* RowFrom() finds the next row that is not blank, or the end of the file.  *)
LEMMA RowFromIsNext ==
    ASSUME NEW f \in Seq(RowKinds), NEW i \in 1 .. Len(f) + 1
    PROVE  /\ RowFrom(f, i) \in i .. Len(f) + 1
           /\ RowFrom(f, i) <= Len(f) => f[RowFrom(f, i)] # "blank"
           /\ \A k \in i .. RowFrom(f, i) - 1 : f[k] = "blank"
<1> DEFINE S == {j \in i .. Len(f) + 1 : j = Len(f) + 1 \/ f[j] # "blank"}
<1>0. Len(f) \in Nat /\ i \in Nat
  OBVIOUS
<1>1. S \in SUBSET Nat /\ Len(f) + 1 \in S
  BY <1>0
<1>2. PICK j \in S : \A k \in S : j <= k
  BY <1>1, LeastElement
<1>3. \A k \in i .. j - 1 : f[k] = "blank"
  BY <1>0, <1>1, <1>2
<1>4. \E n \in i .. Len(f) + 1 :
        /\ n = Len(f) + 1 \/ f[n] # "blank"
        /\ \A k \in i .. n - 1 : f[k] = "blank"
  BY <1>2, <1>3
<1>5. /\ RowFrom(f, i) \in i .. Len(f) + 1
      /\ RowFrom(f, i) = Len(f) + 1 \/ f[RowFrom(f, i)] # "blank"
      /\ \A k \in i .. RowFrom(f, i) - 1 : f[k] = "blank"
  BY <1>4 DEF RowFrom
<1> QED
  BY <1>0, <1>5

-----------------------------------------------------------------------------
(* The fields that no step changes. *)
SameRow(x, y) ==
    /\ x.supersedes = y.supersedes
    /\ x.version = y.version
    /\ x.topic_group = y.topic_group
    /\ x.phrasing = y.phrasing
    /\ x.imported_at = y.imported_at

RowsKept == \A i \in DOMAIN prompt : i \in DOMAIN prompt' /\ SameRow(prompt[i], prompt'[i])

LEMMA AppendedRow ==
    ASSUME prompt \in Seq(Prompt), NEW x \in Prompt, prompt' = Append(prompt, x)
    PROVE  /\ prompt' \in Seq(Prompt)
           /\ Len(prompt') = Len(prompt) + 1
           /\ DOMAIN prompt = 1 .. Len(prompt)
           /\ DOMAIN prompt' = 1 .. Len(prompt) + 1
           /\ \A i \in DOMAIN prompt : prompt'[i] = prompt[i]
           /\ prompt'[Len(prompt) + 1] = x
  OBVIOUS

LEMMA DeactivatedRows ==
    ASSUME prompt \in Seq(Prompt), NEW ids, prompt' = Deactivated(ids)
    PROVE  /\ prompt' \in Seq(Prompt)
           /\ Len(prompt') = Len(prompt)
           /\ DOMAIN prompt' = DOMAIN prompt
           /\ \A i \in DOMAIN prompt :
                 /\ SameRow(prompt[i], prompt'[i])
                 /\ \/ prompt'[i] = prompt[i]
                    \/ prompt'[i] = [prompt[i] EXCEPT !.is_active = FALSE]
<1>1. \A i \in DOMAIN prompt : prompt[i] \in Prompt
  OBVIOUS
<1>2. \A i \in DOMAIN prompt :
         /\ prompt'[i] \in Prompt
         /\ SameRow(prompt[i], prompt'[i])
         /\ \/ prompt'[i] = prompt[i]
            \/ prompt'[i] = [prompt[i] EXCEPT !.is_active = FALSE]
  BY <1>1 DEF Deactivated, Prompt, SameRow
<1>3. DOMAIN prompt' = DOMAIN prompt /\ DOMAIN prompt = 1 .. Len(prompt) /\ Len(prompt) \in Nat
  BY DEF Deactivated
<1>4. prompt' = [i \in 1 .. Len(prompt) |-> prompt'[i]]
  BY <1>3 DEF Deactivated
<1>5. prompt' \in Seq(Prompt) /\ Len(prompt') = Len(prompt)
  BY <1>2, <1>3, <1>4
<1> QED
  BY <1>2, <1>3, <1>5

-----------------------------------------------------------------------------
LEMMA RequestFields ==
    ASSUME PromptTypeOK, NEW r \in Requests
    PROVE  /\ admin[r] \in AdminRequest
           /\ admin[r].file \in Seq(RowKinds)
           /\ admin[r].row \in Nat
           /\ admin[r].name \in FileNames
           /\ admin[r].phrasing \in Phrasings
           /\ Len(admin[r].file) \in Nat
           /\ DOMAIN admin[r].file = 1 .. Len(admin[r].file)
<1>1. admin[r] \in AdminRequest
  BY DEF PromptTypeOK
<1>2. /\ admin[r].file \in Files
      /\ admin[r].row \in Nat
      /\ admin[r].name \in FileNames
      /\ admin[r].phrasing \in Phrasings
  BY <1>1 DEF AdminRequest
<1>3. admin[r].file \in Seq(RowKinds)
  BY <1>2, PromptAssumption
<1> QED
  BY <1>1, <1>2, <1>3

LEMMA NewPromptTypes ==
    ASSUME PromptTypeOK
    PROVE  /\ \A old \in 0 .. Len(prompt) : NewPrompt(old) \in Prompt
           /\ \A r \in Requests : Imported(r) \in Prompt
           /\ \A r \in Requests :
                 /\ Imported(r).supersedes = 0
                 /\ Imported(r).version = 1
                 /\ Imported(r).imported_at = r
                 /\ Imported(r).topic_group = [file |-> admin[r].name, row |-> admin[r].row]
                 /\ Imported(r).phrasing = admin[r].phrasing
<1>0. \A i \in 1 .. Len(prompt) : prompt[i] \in Prompt
  BY DEF PromptTypeOK
<1>1. \A i \in 1 .. Len(prompt) : prompt[i].version \in Nat
  BY <1>0 DEF Prompt
<1>2. NoGroup \in TopicGroups /\ "NULL" \in Phrasings
  BY DEF TopicGroups, Phrasings
<1>3. \A old \in 0 .. Len(prompt) : NewPrompt(old) \in Prompt
  <2> TAKE old \in 0 .. Len(prompt)
  <2>1. Len(prompt) \in Nat
    BY DEF PromptTypeOK
  <2>2. (IF old = 0 THEN 1 ELSE prompt[old].version + 1) \in Nat
    BY <1>1, <2>1
  <2> QED
    BY <1>2, <2>1, <2>2 DEF NewPrompt, Prompt
<1>4. ASSUME NEW r \in Requests
      PROVE  /\ Imported(r) \in Prompt
             /\ Imported(r).supersedes = 0
             /\ Imported(r).version = 1
             /\ Imported(r).imported_at = r
             /\ Imported(r).topic_group = [file |-> admin[r].name, row |-> admin[r].row]
             /\ Imported(r).phrasing = admin[r].phrasing
  <2>1. [file |-> admin[r].name, row |-> admin[r].row] \in TopicGroups
    BY RequestFields DEF TopicGroups
  <2>2. admin[r].phrasing \in Phrasings
    BY RequestFields
  <2> QED
    BY <2>1, <2>2 DEF Imported, TopicGroup, NewPrompt, Prompt
<1> QED
  BY <1>3, <1>4

(* What a row of the file is after ImportPrompt(r). *)
LEMMA NextRow ==
    ASSUME PromptTypeOK, ImportingHasARow, NEW r \in Requests, ImportPrompt(r)
    PROVE  /\ admin[r].row \in 1 .. Len(admin[r].file)
           /\ RowFrom(admin[r].file, admin[r].row + 1)
                 \in admin[r].row + 1 .. Len(admin[r].file) + 1
           /\ RowFrom(admin[r].file, admin[r].row + 1) <= Len(admin[r].file) =>
                 admin[r].file[RowFrom(admin[r].file, admin[r].row + 1)] # "blank"
           /\ \A k \in admin[r].row + 1 .. RowFrom(admin[r].file, admin[r].row + 1) - 1 :
                 admin[r].file[k] = "blank"
<1>1. /\ admin[r].row \in Nat /\ Len(admin[r].file) \in Nat
      /\ admin[r].file \in Seq(RowKinds)
  BY RequestFields
<1>2. admin[r].row > 0 /\ admin[r].row <= Len(admin[r].file)
  BY DEF ImportPrompt, ImportingHasARow, AdminAt, InFile
<1> DEFINE f == admin[r].file
           i == admin[r].row + 1
<1>3. f \in Seq(RowKinds) /\ i \in 1 .. Len(f) + 1
  BY <1>1, <1>2
<1> HIDE DEF f, i
<1>4. /\ RowFrom(f, i) \in i .. Len(f) + 1
      /\ RowFrom(f, i) <= Len(f) => f[RowFrom(f, i)] # "blank"
      /\ \A k \in i .. RowFrom(f, i) - 1 : f[k] = "blank"
  BY <1>3, RowFromIsNext
<1>5. admin[r].row \in 1 .. Len(f)
  BY <1>1, <1>2 DEF f
<1> QED
  BY <1>4, <1>5 DEF f, i

(* What a step of r does to the table. *)
LEMMA TableStep ==
    ASSUME PromptTypeOK, NEW r \in Requests, AdminStep(r)
    PROVE  /\ prompt' \in Seq(Prompt)
           /\ DOMAIN prompt = 1 .. Len(prompt) /\ DOMAIN prompt' = 1 .. Len(prompt')
           /\ Len(prompt) \in Nat /\ Len(prompt') \in Nat
           /\ RowsKept
           /\ \/ Len(prompt') = Len(prompt)
              \/ /\ Len(prompt') = Len(prompt) + 1
                 /\ \E old \in 0 .. Len(prompt) :
                       prompt'[Len(prompt) + 1] = NewPrompt(old)
                 /\ ~AdminAt(r, "importing")
              \/ /\ Len(prompt') = Len(prompt) + 1
                 /\ prompt'[Len(prompt) + 1] = Imported(r)
                 /\ ImportPrompt(r)
<1>1. prompt \in Seq(Prompt)
  BY DEF PromptTypeOK
<1>2. CASE UNCHANGED prompt
  BY <1>1, <1>2 DEF RowsKept, SameRow
<1>3. CASE CreatePrompt(r)
  <2>1. PICK old \in 0 .. Len(prompt) : prompt' = Append(prompt, NewPrompt(old))
    BY <1>3 DEF CreatePrompt
  <2>2. NewPrompt(old) \in Prompt
    BY NewPromptTypes
  <2>3. ~AdminAt(r, "importing")
    BY <1>3 DEF CreatePrompt, AdminAt
  <2> HIDE DEF NewPrompt
  <2> QED
    BY <1>1, <2>1, <2>2, <2>3, AppendedRow DEF RowsKept, SameRow
<1>4. CASE ImportPrompt(r)
  <2>1. prompt' = Append(prompt, Imported(r)) /\ Imported(r) \in Prompt
    BY <1>4, NewPromptTypes DEF ImportPrompt
  <2> QED
    BY <1>1, <1>4, <2>1, AppendedRow DEF RowsKept, SameRow
<1>5. ASSUME NEW ids, prompt' = Deactivated(ids)
      PROVE  /\ prompt' \in Seq(Prompt)
             /\ RowsKept
             /\ Len(prompt') = Len(prompt)
  BY <1>1, <1>5, DeactivatedRows DEF RowsKept
<1>6. CASE DeactivatePrompt(r) \/ DeactivateAll(r)
  <2>1. \E ids : prompt' = Deactivated(ids)
    BY <1>6 DEF DeactivatePrompt, DeactivateAll
  <2> QED
    BY <1>1, <1>5, <2>1
<1> QED
  BY <1>2, <1>3, <1>4, <1>6
     DEF AdminStep, CreateOfUnknown, SelectActive, Upload, ImportFails, ImportDone,
         AdminKilled

(* A row that is new is the last one. *)
LEMMA AddedRow ==
    ASSUME PromptTypeOK, NEW r \in Requests, AdminStep(r),
           NEW i \in DOMAIN prompt', i \notin DOMAIN prompt
    PROVE  /\ i = Len(prompt) + 1
           /\ Len(prompt') = Len(prompt) + 1
           /\ \/ /\ \E old \in 0 .. Len(prompt) : prompt'[i] = NewPrompt(old)
                 /\ ~AdminAt(r, "importing")
              \/ prompt'[i] = Imported(r) /\ ImportPrompt(r)
<1>1. /\ DOMAIN prompt = 1 .. Len(prompt) /\ DOMAIN prompt' = 1 .. Len(prompt')
      /\ Len(prompt) \in Nat /\ Len(prompt') \in Nat
  BY TableStep
<1>2. Len(prompt') # Len(prompt)
  BY <1>1
<1>3. Len(prompt') = Len(prompt) + 1
  BY <1>2, TableStep
<1>4. i = Len(prompt) + 1
  BY <1>1, <1>3
<1> QED
  BY <1>2, <1>3, <1>4, TableStep

LEMMA NewAdminTypes == NewAdmin \in AdminRequest
<1>1. (CHOOSE n \in FileNames : TRUE) \in FileNames
  BY PromptAssumption
<1>2. (CHOOSE f \in Files : TRUE) \in Files
  BY PromptAssumption
<1> QED
  BY <1>1, <1>2 DEF NewAdmin, AdminRequest, Phrasings

(* A step of r changes no other request. *)
LEMMA RequestStep ==
    ASSUME PromptTypeOK, ImportingHasARow, NEW r \in Requests, AdminStep(r)
    PROVE  /\ admin' \in [Requests -> AdminRequest]
           /\ \A q \in Requests \ {r} : admin'[q] = admin[q]
<1> USE DEF AdminRequest, Answers, Answer, Phrasings
<1>1. admin \in [Requests -> AdminRequest]
  BY DEF PromptTypeOK
<1>2. \A answer \in Answers : Answer(r, answer) =>
         /\ admin' \in [Requests -> AdminRequest]
         /\ \A q \in Requests \ {r} : admin'[q] = admin[q]
  BY <1>1
<1>3. CASE CreatePrompt(r) \/ CreateOfUnknown(r) \/ DeactivatePrompt(r)
           \/ DeactivateAll(r) \/ ImportFails(r) \/ ImportDone(r) \/ AdminKilled(r)
  <2>1. \E answer \in Answers : Answer(r, answer)
    BY <1>3 DEF CreatePrompt, CreateOfUnknown, DeactivatePrompt, DeactivateAll,
                ImportFails, ImportDone, AdminKilled
  <2> QED
    BY <1>2, <2>1
<1>4. CASE SelectActive(r)
  <2>1. DOMAIN prompt \in SUBSET Nat
    BY DEF PromptTypeOK
  <2> DEFINE ids == {i \in DOMAIN prompt : prompt[i].is_active}
             s == [admin[r] EXCEPT !.at = "deactivating", !.ids = ids]
  <2>2. ids \in SUBSET Nat
    BY <2>1
  <2>3. admin' = [admin EXCEPT ![r] = s]
    BY <1>4 DEF SelectActive
  <2> HIDE DEF ids
  <2>4. s \in AdminRequest
    BY <1>1, <2>2
  <2> HIDE DEF s
  <2> QED
    BY <1>1, <2>3, <2>4
<1>5. CASE Upload(r)
  <2>1. PICK name \in FileNames, file \in Files : ParseWorkbook(r, name, file)
    BY <1>5 DEF Upload
  <2>2. file \in Seq(RowKinds)
    BY PromptAssumption
  <2>3. RowFrom(file, 1) \in Nat
    BY <2>2, RowFromIsNext
  <2> DEFINE row == RowFrom(file, 1)
             refused == [admin[r] EXCEPT !.at = "refused", !.name = name, !.file = file]
             parsed == [admin[r] EXCEPT !.at = "importing", !.name = name, !.file = file,
                                        !.row = row, !.phrasing = "SEARCH_QUERY"]
  <2>4. admin' \in {[admin EXCEPT ![r] = refused], [admin EXCEPT ![r] = parsed]}
    BY <2>1 DEF ParseWorkbook
  <2>5. admin[r] \in AdminRequest /\ row \in Nat
    BY <1>1, <2>3
  <2> HIDE DEF row
  <2>6. refused \in AdminRequest /\ parsed \in AdminRequest
    BY <2>5
  <2> HIDE DEF refused, parsed
  <2> QED
    BY <1>1, <2>4, <2>6
<1>6. CASE ImportPrompt(r)
  <2>1. RowFrom(admin[r].file, admin[r].row + 1) \in Nat
    BY <1>6, NextRow, RequestFields
  <2> DEFINE phrasing == IF admin[r].phrasing = "SEARCH_QUERY" THEN "QUESTION"
                         ELSE "SEARCH_QUERY"
             row == IF admin[r].phrasing = "SEARCH_QUERY" THEN admin[r].row
                    ELSE RowFrom(admin[r].file, admin[r].row + 1)
  <2>2. phrasing \in Phrasings /\ row \in Nat
    BY <2>1, RequestFields
  <2> DEFINE s == [admin[r] EXCEPT !.phrasing = phrasing, !.row = row]
  <2>3. admin' = [admin EXCEPT ![r] = s]
    BY <1>6 DEF ImportPrompt
  <2> HIDE DEF phrasing, row
  <2>4. s \in AdminRequest
    BY <1>1, <2>2
  <2> HIDE DEF s
  <2> QED
    BY <1>1, <2>3, <2>4
<1> QED
  BY <1>3, <1>4, <1>5, <1>6 DEF AdminStep

LEMMA PromptTypeStep ==
    ASSUME PromptTypeOK, ImportingHasARow, NEW r \in Requests, AdminStep(r)
    PROVE  PromptTypeOK'
<1>1. \A i \in DOMAIN prompt' : prompt'[i].supersedes <= Len(prompt')
  <2>1. \A i \in DOMAIN prompt :
           prompt'[i].supersedes = prompt[i].supersedes /\ prompt[i].supersedes \in Nat
    <3>1. \A i \in DOMAIN prompt : prompt[i] \in Prompt
      BY DEF PromptTypeOK
    <3> QED
      BY <3>1, TableStep DEF RowsKept, SameRow, Prompt
  <2>2. \A old \in 0 .. Len(prompt) : NewPrompt(old).supersedes = old
    BY DEF NewPrompt
  <2>3. Imported(r).supersedes = 0
    BY NewPromptTypes
  <2>4. \A i \in DOMAIN prompt : prompt[i].supersedes <= Len(prompt)
    BY DEF PromptTypeOK
  <2>5. /\ Len(prompt) \in Nat /\ Len(prompt') \in Nat
        /\ Len(prompt') = Len(prompt) \/ Len(prompt') = Len(prompt) + 1
    BY TableStep
  <2>6. Len(prompt) <= Len(prompt')
    BY <2>5
  <2>7. ASSUME NEW i \in DOMAIN prompt', i \notin DOMAIN prompt
        PROVE  prompt'[i].supersedes <= Len(prompt')
    <3>2. \/ \E old \in 0 .. Len(prompt) : prompt'[i] = NewPrompt(old)
          \/ prompt'[i] = Imported(r)
      BY <2>7, AddedRow
    <3>3. prompt'[i].supersedes \in 0 .. Len(prompt)
      BY <2>2, <2>3, <2>5, <3>2
    <3> QED
      BY <2>5, <2>6, <3>3
  <2>8. \A i \in DOMAIN prompt : prompt'[i].supersedes <= Len(prompt')
    BY <2>1, <2>4, <2>5, <2>6
  <2> QED
    BY <2>7, <2>8
<1> QED
  BY <1>1, RequestStep, TableStep DEF PromptTypeOK

LEMMA VersionsStep ==
    ASSUME PromptTypeOK, VersionsCountTheChain, NEW r \in Requests, AdminStep(r)
    PROVE  VersionsCountTheChain'
<1>1. /\ DOMAIN prompt = 1 .. Len(prompt) /\ DOMAIN prompt' = 1 .. Len(prompt')
      /\ Len(prompt) \in Nat
      /\ \A i \in DOMAIN prompt :
            /\ i \in DOMAIN prompt'
            /\ prompt'[i].supersedes = prompt[i].supersedes
            /\ prompt'[i].version = prompt[i].version
  BY TableStep DEF RowsKept, SameRow
<1>2. \A i \in DOMAIN prompt : prompt[i].supersedes \in Nat
  <2>1. \A i \in DOMAIN prompt : prompt[i] \in Prompt
    BY DEF PromptTypeOK
  <2> QED
    BY <2>1 DEF Prompt
<1>3. ASSUME NEW i \in DOMAIN prompt
      PROVE  IF prompt'[i].supersedes = 0 THEN prompt'[i].version = 1
             ELSE /\ prompt'[i].supersedes < i
                  /\ prompt'[i].version = prompt'[prompt'[i].supersedes].version + 1
  BY <1>1, <1>2 DEF VersionsCountTheChain
<1>4. ASSUME NEW i \in DOMAIN prompt', i \notin DOMAIN prompt
      PROVE  IF prompt'[i].supersedes = 0 THEN prompt'[i].version = 1
             ELSE /\ prompt'[i].supersedes < i
                  /\ prompt'[i].version = prompt'[prompt'[i].supersedes].version + 1
  <2>1. i = Len(prompt) + 1
    BY <1>4, AddedRow
  <2>2. CASE prompt'[i] = Imported(r)
    <3>1. Imported(r).supersedes = 0 /\ Imported(r).version = 1
      BY NewPromptTypes
    <3> QED
      BY <2>2, <3>1
  <2>3. ASSUME NEW old \in 0 .. Len(prompt), prompt'[i] = NewPrompt(old)
        PROVE  IF prompt'[i].supersedes = 0 THEN prompt'[i].version = 1
               ELSE /\ prompt'[i].supersedes < i
                    /\ prompt'[i].version = prompt'[prompt'[i].supersedes].version + 1
    <3>1. prompt'[i].supersedes = old
      BY <2>3 DEF NewPrompt
    <3>2. CASE old = 0
      BY <2>3, <3>1, <3>2 DEF NewPrompt
    <3>3. CASE old # 0
      <4>1. old \in DOMAIN prompt /\ old < i
        BY <1>1, <2>1, <3>3
      <4>2. prompt'[i].version = prompt[old].version + 1
        BY <2>3, <3>3 DEF NewPrompt
      <4> QED
        BY <1>1, <3>1, <3>3, <4>1, <4>2
    <3> QED
      BY <3>2, <3>3
  <2> QED
    BY <1>4, <2>2, <2>3, AddedRow
<1> QED
  BY <1>3, <1>4 DEF VersionsCountTheChain

-----------------------------------------------------------------------------
(* How r goes on. *)

Answered(r) ==
    /\ admin'[r].at \in Answers
    /\ admin'[r].file = admin[r].file
    /\ admin'[r].name = admin[r].name
    /\ admin'[r].row = admin[r].row
    /\ admin'[r].phrasing = admin[r].phrasing
    /\ AdminAt(r, "importing") /\ admin'[r].at = "ok" => ~InFile(r)

BeginsImport(r) ==
    /\ AdminAt(r, "new")
    /\ admin'[r].at = "importing"
    /\ \A i \in DOMAIN admin'[r].file : admin'[r].file[i] # "unmapped"
    /\ admin'[r].row = RowFrom(admin'[r].file, 1)
    /\ admin'[r].phrasing = "SEARCH_QUERY"

ImportsOne(r) ==
    /\ AdminAt(r, "importing") /\ InFile(r)
    /\ admin'[r].at = "importing"
    /\ admin'[r].file = admin[r].file
    /\ admin'[r].name = admin[r].name
    /\ admin'[r].phrasing =
          IF admin[r].phrasing = "SEARCH_QUERY" THEN "QUESTION" ELSE "SEARCH_QUERY"
    /\ admin'[r].row = IF admin[r].phrasing = "SEARCH_QUERY" THEN admin[r].row
                       ELSE RowFrom(admin[r].file, admin[r].row + 1)

GoesElsewhere(r) ==
    /\ AdminAt(r, "new")
    /\ admin'[r].at \in {"deactivating", "refused"}
    /\ admin'[r].row = admin[r].row

LEMMA RequestOutcome ==
    ASSUME PromptTypeOK, NEW r \in Requests, AdminStep(r)
    PROVE  \/ Answered(r) /\ ~ImportPrompt(r)
           \/ BeginsImport(r) /\ ~ImportPrompt(r)
           \/ GoesElsewhere(r) /\ ~ImportPrompt(r)
           \/ ImportsOne(r) /\ ImportPrompt(r)
<1>1. admin \in [Requests -> AdminRequest] /\ admin[r] \in AdminRequest
  BY DEF PromptTypeOK
<1>2. CASE ImportPrompt(r)
  <2> DEFINE row == RowFrom(admin[r].file, admin[r].row + 1)
  <2>1. admin' = [admin EXCEPT
          ![r].phrasing = IF admin[r].phrasing = "SEARCH_QUERY" THEN "QUESTION"
                          ELSE "SEARCH_QUERY",
          ![r].row = IF admin[r].phrasing = "SEARCH_QUERY" THEN admin[r].row ELSE row]
    BY <1>2 DEF ImportPrompt
  <2>2. AdminAt(r, "importing") /\ InFile(r)
    BY <1>2 DEF ImportPrompt
  <2> HIDE DEF row
  <2>3. /\ admin'[r].phrasing =
              IF admin[r].phrasing = "SEARCH_QUERY" THEN "QUESTION" ELSE "SEARCH_QUERY"
        /\ admin'[r].row = IF admin[r].phrasing = "SEARCH_QUERY" THEN admin[r].row ELSE row
        /\ admin'[r].at = admin[r].at
        /\ admin'[r].file = admin[r].file
        /\ admin'[r].name = admin[r].name
    BY <1>1, <2>1 DEF AdminRequest
  <2> QED
    BY <1>2, <2>2, <2>3 DEF ImportsOne, AdminAt, row
<1>3. ASSUME NEW answer \in Answers, Answer(r, answer),
             AdminAt(r, "importing") /\ answer = "ok" => ~InFile(r)
      PROVE  Answered(r) /\ ~ImportPrompt(r)
  <2>1. /\ admin'[r].at = answer
        /\ admin'[r].file = admin[r].file
        /\ admin'[r].name = admin[r].name
        /\ admin'[r].row = admin[r].row
        /\ admin'[r].phrasing = admin[r].phrasing
    BY <1>1, <1>3 DEF Answer, AdminRequest
  <2>2. ~ImportPrompt(r)
    <3> SUFFICES ASSUME ImportPrompt(r) PROVE FALSE
      OBVIOUS
    <3>1. ImportsOne(r)
      BY <1>2
    <3> QED
      BY <2>1, <3>1 DEF ImportsOne, Answers
  <2> QED
    BY <1>3, <2>1, <2>2 DEF Answered
<1>4. CASE CreatePrompt(r) \/ CreateOfUnknown(r) \/ DeactivatePrompt(r)
           \/ DeactivateAll(r) \/ ImportFails(r) \/ ImportDone(r) \/ AdminKilled(r)
  <2>1. \E answer \in Answers :
           /\ Answer(r, answer)
           /\ AdminAt(r, "importing") /\ answer = "ok" => ~InFile(r)
    BY <1>4 DEF CreatePrompt, CreateOfUnknown, DeactivatePrompt, DeactivateAll,
                ImportFails, ImportDone, AdminKilled, Answers, AdminAt
  <2> QED
    BY <1>3, <2>1
<1>5. CASE SelectActive(r)
  <2>1. AdminAt(r, "new") /\ admin'[r].at = "deactivating" /\ admin'[r].row = admin[r].row
    BY <1>1, <1>5 DEF SelectActive, AdminRequest
  <2> QED
    BY <2>1 DEF GoesElsewhere, ImportPrompt, AdminAt
<1>6. CASE Upload(r)
  <2>1. PICK name \in FileNames, file \in Files : ParseWorkbook(r, name, file)
    BY <1>6 DEF Upload
  <2>2. AdminAt(r, "new") /\ ~ImportPrompt(r)
    BY <1>6 DEF Upload, ImportPrompt, AdminAt
  <2> DEFINE row == RowFrom(file, 1)
  <2>3. CASE \E i \in DOMAIN file : file[i] = "unmapped"
    <3>1. admin' = [admin EXCEPT ![r].at = "refused", ![r].name = name, ![r].file = file]
      BY <2>1, <2>3 DEF ParseWorkbook
    <3>2. admin'[r].at = "refused" /\ admin'[r].row = admin[r].row
      BY <1>1, <3>1 DEF AdminRequest
    <3> QED
      BY <2>2, <3>2 DEF GoesElsewhere
  <2>4. CASE ~\E i \in DOMAIN file : file[i] = "unmapped"
    <3>1. admin' = [admin EXCEPT ![r].at = "importing", ![r].name = name, ![r].file = file,
                                 ![r].row = row, ![r].phrasing = "SEARCH_QUERY"]
      BY <2>1, <2>4 DEF ParseWorkbook
    <3> HIDE DEF row
    <3>2. /\ admin'[r].at = "importing" /\ admin'[r].file = file
          /\ admin'[r].row = row /\ admin'[r].phrasing = "SEARCH_QUERY"
      BY <1>1, <3>1 DEF AdminRequest
    <3> QED
      BY <2>2, <2>4, <3>2 DEF BeginsImport, row
  <2> QED
    BY <2>3, <2>4
<1> QED
  BY <1>2, <1>4, <1>5, <1>6 DEF AdminStep

(* Only ImportPrompt(q) adds to what q has imported. *)
LEMMA ImportedRows ==
    ASSUME PromptTypeOK, NEW r \in Requests, AdminStep(r), NEW q \in Requests
    PROVE  /\ ~(q = r /\ ImportPrompt(r)) => OfImport(q)' = OfImport(q)
           /\ q = r /\ ImportPrompt(r) => OfImport(q)' = OfImport(q) \cup {Len(prompt) + 1}
<1>1. \A i \in DOMAIN prompt :
         i \in DOMAIN prompt' /\ prompt'[i].imported_at = prompt[i].imported_at
  BY TableStep DEF RowsKept, SameRow
<1>2. \A old \in 0 .. Len(prompt) : NewPrompt(old).imported_at = NoRequest
  BY DEF NewPrompt
<1>3. Imported(r).imported_at = r
  BY NewPromptTypes
<1>4. ASSUME NEW i \in DOMAIN prompt', i \notin DOMAIN prompt, prompt'[i].imported_at = q
      PROVE  q = r /\ ImportPrompt(r) /\ i = Len(prompt) + 1
  BY <1>2, <1>3, <1>4, AddedRow, RequestAssumption
<1>5. ASSUME q = r, ImportPrompt(r)
      PROVE  Len(prompt) + 1 \in DOMAIN prompt' /\ prompt'[Len(prompt) + 1].imported_at = q
  <2>1. prompt' = Append(prompt, Imported(r)) /\ Imported(r) \in Prompt /\ prompt \in Seq(Prompt)
    BY <1>5, NewPromptTypes DEF ImportPrompt, PromptTypeOK
  <2> QED
    BY <1>3, <1>5, <2>1, AppendedRow
<1> QED
  BY <1>1, <1>4, <1>5 DEF OfImport

-----------------------------------------------------------------------------
LEMMA RowsStep ==
    ASSUME PromptTypeOK, NoRowYet, ImportingHasARow, NEW r \in Requests, AdminStep(r)
    PROVE  NoRowYet' /\ ImportingHasARow'
<1>1. \A q \in Requests \ {r} : admin'[q] = admin[q]
  BY RequestStep
<1>2. admin'[r].at \in {"new", "deactivating"} => admin'[r].row = 0
  BY RequestOutcome DEF Answered, BeginsImport, ImportsOne, GoesElsewhere, NoRowYet, Answers,
                        AdminAt
<1>3. admin'[r].at = "importing" => admin'[r].row > 0
  <2>1. CASE BeginsImport(r)
    <3>1. admin'[r].file \in Seq(RowKinds)
      BY RequestStep, PromptAssumption DEF AdminRequest
    <3>2. admin'[r].row \in 1 .. Len(admin'[r].file) + 1
      BY <2>1, <3>1, RowFromIsNext DEF BeginsImport
    <3> QED
      BY <3>1, <3>2
  <2>2. CASE ImportPrompt(r)
    <3>1. admin[r].row \in Nat /\ admin[r].row > 0
      BY <2>2, RequestFields DEF ImportingHasARow, ImportPrompt
    <3>2. ImportsOne(r)
      BY <2>2, RequestOutcome
    <3> QED
      BY <2>2, <3>1, <3>2, NextRow, RequestFields DEF ImportsOne
  <2> QED
    BY <2>1, <2>2, RequestOutcome DEF Answered, GoesElsewhere, Answers
<1>4. NoRowYet'
  BY <1>1, <1>2 DEF NoRowYet
<1>5. ImportingHasARow'
  BY <1>1, <1>3 DEF ImportingHasARow, AdminAt
<1> QED
  BY <1>4, <1>5

LEMMA RefusedStep ==
    ASSUME PromptTypeOK, ImportingHasARow, ImportsAreMapped, RefusedImportCreatesNothing,
           NEW r \in Requests, AdminStep(r)
    PROVE  ImportsAreMapped' /\ RefusedImportCreatesNothing'
<1>1. \A q \in Requests \ {r} : admin'[q] = admin[q] /\ OfImport(q)' = OfImport(q)
  BY RequestStep, ImportedRows
<1>2. CASE ImportPrompt(r)
  <2>1. /\ ImportsOne(r)
        /\ \A i \in DOMAIN admin[r].file : admin[r].file[i] # "unmapped"
    BY <1>2, RequestOutcome DEF ImportsAreMapped, ImportPrompt
  <2> QED
    BY <1>1, <2>1 DEF ImportsOne, ImportsAreMapped, RefusedImportCreatesNothing, AdminAt
<1>3. CASE ~ImportPrompt(r)
  <2>1. OfImport(r)' = OfImport(r)
    BY <1>3, ImportedRows
  <2>2. CASE Answered(r)
    BY <1>1, <2>1, <2>2
       DEF Answered, ImportsAreMapped, RefusedImportCreatesNothing, AdminAt, Answers
  <2>3. CASE BeginsImport(r) \/ GoesElsewhere(r)
    BY <1>1, <2>1, <2>3
       DEF BeginsImport, GoesElsewhere, ImportsAreMapped, RefusedImportCreatesNothing, AdminAt
  <2> QED
    BY <1>3, <2>2, <2>3, RequestOutcome
<1> QED
  BY <1>2, <1>3

(* What a request has imported so far does not depend on the others. *)
LEMMA SoFarKept ==
    ASSUME PromptTypeOK, NEW r \in Requests, AdminStep(r), NEW q \in Requests,
           ImportedSoFar(q), OfImport(q)' = OfImport(q),
           admin'[q].file = admin[q].file, admin'[q].name = admin[q].name,
           admin'[q].row = admin[q].row, admin'[q].phrasing = admin[q].phrasing
    PROVE  ImportedSoFar(q)'
<1>1. \A i \in OfImport(q) :
         prompt'[i].topic_group = prompt[i].topic_group /\ prompt'[i].phrasing = prompt[i].phrasing
  BY TableStep DEF RowsKept, SameRow, OfImport
<1> QED
  BY <1>1 DEF ImportedSoFar, Before

(* Importing one prompt moves the position past it, and past nothing else.  *)
LEMMA PositionMoves ==
    ASSUME PromptTypeOK, ImportingHasARow, NEW r \in Requests, ImportPrompt(r),
           AdminStep(r), AtARow(admin[r])
    PROVE  /\ AtARow(admin'[r])
           /\ \A k \in DOMAIN admin[r].file, p \in {"SEARCH_QUERY", "QUESTION"} :
                 admin[r].file[k] # "blank" =>
                     (Before(admin'[r], k, p) <=>
                         \/ Before(admin[r], k, p)
                         \/ k = admin[r].row /\ p = admin[r].phrasing)
<1> DEFINE f == admin[r].file
           row == admin[r].row
           next == RowFrom(admin[r].file, admin[r].row + 1)
<1>1. /\ admin'[r].file = f
      /\ admin'[r].phrasing =
            IF admin[r].phrasing = "SEARCH_QUERY" THEN "QUESTION" ELSE "SEARCH_QUERY"
      /\ admin'[r].row = IF admin[r].phrasing = "SEARCH_QUERY" THEN row ELSE next
  BY RequestOutcome DEF ImportsOne
<1>2. /\ row \in 1 .. Len(f)
      /\ next \in row + 1 .. Len(f) + 1
      /\ next <= Len(f) => f[next] # "blank"
      /\ \A k \in row + 1 .. next - 1 : f[k] = "blank"
  BY NextRow
<1>3. Len(f) \in Nat /\ DOMAIN f = 1 .. Len(f)
  BY RequestFields
<1>4. /\ row <= Len(f) => f[row] # "blank"
      /\ admin[r].phrasing \in {"SEARCH_QUERY", "QUESTION"}
  BY DEF AtARow
<1> HIDE DEF f, row, next
<1>5. CASE admin[r].phrasing = "SEARCH_QUERY"
  <2>1. admin'[r].row = row /\ admin'[r].phrasing = "QUESTION" /\ admin[r].row = row
    BY <1>1, <1>5 DEF row
  <2>2. AtARow(admin'[r])
    BY <1>1, <1>2, <1>3, <1>4, <2>1 DEF AtARow
  <2>3. \A k \in DOMAIN f, p \in {"SEARCH_QUERY", "QUESTION"} :
           Before(admin'[r], k, p) <=>
               Before(admin[r], k, p) \/ (k = row /\ p = "SEARCH_QUERY")
    BY <1>5, <2>1 DEF Before
  <2> QED
    BY <1>5, <2>1, <2>2, <2>3 DEF f
<1>6. CASE admin[r].phrasing = "QUESTION"
  <2>1. admin'[r].row = next /\ admin'[r].phrasing = "SEARCH_QUERY" /\ admin[r].row = row
    BY <1>1, <1>6 DEF row
  <2>2. AtARow(admin'[r])
    BY <1>1, <1>2, <1>3, <2>1 DEF AtARow
  <2>3. ASSUME NEW k \in DOMAIN f, NEW p \in {"SEARCH_QUERY", "QUESTION"}, f[k] # "blank"
        PROVE  Before(admin'[r], k, p) <=>
                  Before(admin[r], k, p) \/ (k = row /\ p = "QUESTION")
    <3>1. k < next <=> k < row \/ k = row
      BY <1>2, <1>3, <2>3
    <3> QED
      BY <1>6, <2>1, <3>1 DEF Before
  <2> QED
    BY <1>6, <2>1, <2>2, <2>3 DEF f
<1> QED
  BY <1>4, <1>5, <1>6

LEMMA ImportOneStep ==
    ASSUME PromptTypeOK, ImportingHasARow, NEW r \in Requests, ImportPrompt(r),
           AdminStep(r), AtARow(admin[r]), ImportedSoFar(r)
    PROVE  ImportedSoFar(r)'
<1> DEFINE new == Len(prompt) + 1
           file == admin[r].file
           name == admin[r].name
<1>1. admin'[r].file = file /\ admin'[r].name = name
  BY RequestOutcome DEF ImportsOne
<1>2. OfImport(r)' = OfImport(r) \cup {new}
  BY ImportedRows
<1>3. /\ prompt'[new].topic_group = [file |-> name, row |-> admin[r].row]
      /\ prompt'[new].phrasing = admin[r].phrasing
      /\ new \notin DOMAIN prompt
  <2>1. prompt' = Append(prompt, Imported(r)) /\ Imported(r) \in Prompt /\ prompt \in Seq(Prompt)
    BY NewPromptTypes DEF ImportPrompt, PromptTypeOK
  <2>2. prompt'[new] = Imported(r) /\ new \notin DOMAIN prompt
    BY <2>1, AppendedRow
  <2> QED
    BY <2>2, NewPromptTypes
<1>4. /\ \A i \in OfImport(r) :
            /\ prompt'[i].topic_group = prompt[i].topic_group
            /\ prompt'[i].phrasing = prompt[i].phrasing
            /\ i # new
  BY <1>3, TableStep DEF RowsKept, SameRow, OfImport
<1>5. /\ admin[r].row \in DOMAIN file /\ file[admin[r].row] # "blank"
      /\ admin[r].phrasing \in {"SEARCH_QUERY", "QUESTION"}
  BY NextRow, RequestFields DEF AtARow
<1>6. \A k \in DOMAIN file, p \in {"SEARCH_QUERY", "QUESTION"} :
         file[k] # "blank" =>
             (Before(admin'[r], k, p) <=>
                 \/ Before(admin[r], k, p)
                 \/ k = admin[r].row /\ p = admin[r].phrasing)
  BY PositionMoves
<1>7. ~Before(admin[r], admin[r].row, admin[r].phrasing)
  <2>1. admin[r].row \in Nat
    BY RequestFields
  <2> QED
    BY <2>1 DEF Before
<1> DEFINE at(k) == [file |-> name, row |-> k]
<1>8. /\ \A i \in OfImport(r) : \E k \in DOMAIN file :
            /\ prompt[i].topic_group = at(k)
            /\ prompt[i].phrasing \in {"SEARCH_QUERY", "QUESTION"}
            /\ file[k] # "blank"
            /\ Before(admin[r], k, prompt[i].phrasing)
      /\ \A k \in DOMAIN file, p \in {"SEARCH_QUERY", "QUESTION"} :
            file[k] # "blank" /\ Before(admin[r], k, p) =>
                \E i \in OfImport(r) : prompt[i].topic_group = at(k) /\ prompt[i].phrasing = p
      /\ \A i, j \in OfImport(r) :
            /\ prompt[i].topic_group = prompt[j].topic_group
            /\ prompt[i].phrasing = prompt[j].phrasing
            => i = j
  BY DEF ImportedSoFar
<1>9. \A k, l : at(k) = at(l) => k = l
  OBVIOUS
<1> HIDE DEF at, new, file, name
<1>10. \A i \in OfImport(r)' : \E k \in DOMAIN file :
            /\ prompt'[i].topic_group = at(k)
            /\ prompt'[i].phrasing \in {"SEARCH_QUERY", "QUESTION"}
            /\ file[k] # "blank"
            /\ Before(admin'[r], k, prompt'[i].phrasing)
  <2>1. ASSUME NEW i \in OfImport(r)
        PROVE  \E k \in DOMAIN file :
                  /\ prompt'[i].topic_group = at(k)
                  /\ prompt'[i].phrasing \in {"SEARCH_QUERY", "QUESTION"}
                  /\ file[k] # "blank"
                  /\ Before(admin'[r], k, prompt'[i].phrasing)
    <3>1. PICK k \in DOMAIN file :
            /\ prompt[i].topic_group = at(k)
            /\ prompt[i].phrasing \in {"SEARCH_QUERY", "QUESTION"}
            /\ file[k] # "blank"
            /\ Before(admin[r], k, prompt[i].phrasing)
      BY <1>8
    <3> QED
      BY <1>4, <1>6, <3>1
  <2>2. prompt'[new].topic_group = at(admin[r].row)
    BY <1>3 DEF at
  <2>3. Before(admin'[r], admin[r].row, prompt'[new].phrasing)
    BY <1>3, <1>5, <1>6
  <2>4. \E k \in DOMAIN file :
            /\ prompt'[new].topic_group = at(k)
            /\ prompt'[new].phrasing \in {"SEARCH_QUERY", "QUESTION"}
            /\ file[k] # "blank"
            /\ Before(admin'[r], k, prompt'[new].phrasing)
    BY <1>3, <1>5, <2>2, <2>3
  <2> QED
    BY <1>2, <2>1, <2>4
<1>11. ASSUME NEW k \in DOMAIN file, NEW p \in {"SEARCH_QUERY", "QUESTION"},
              file[k] # "blank", Before(admin'[r], k, p)
       PROVE  \E i \in OfImport(r)' :
                 prompt'[i].topic_group = at(k) /\ prompt'[i].phrasing = p
  <2>1. CASE Before(admin[r], k, p)
    <3>1. PICK i \in OfImport(r) : prompt[i].topic_group = at(k) /\ prompt[i].phrasing = p
      BY <1>8, <1>11, <2>1
    <3> QED
      BY <1>2, <1>4, <3>1
  <2>2. CASE k = admin[r].row /\ p = admin[r].phrasing
    BY <1>2, <1>3, <2>2 DEF at
  <2> QED
    BY <1>6, <1>11, <2>1, <2>2
<1>12. ASSUME NEW i \in OfImport(r)', NEW j \in OfImport(r)',
              prompt'[i].topic_group = prompt'[j].topic_group,
              prompt'[i].phrasing = prompt'[j].phrasing
       PROVE  i = j
  <2>1. \A m \in OfImport(r) :
           ~(/\ prompt'[m].topic_group = prompt'[new].topic_group
             /\ prompt'[m].phrasing = prompt'[new].phrasing)
    <3> SUFFICES ASSUME NEW m \in OfImport(r),
                        prompt'[m].topic_group = prompt'[new].topic_group,
                        prompt'[m].phrasing = prompt'[new].phrasing
                 PROVE  FALSE
      OBVIOUS
    <3>1. PICK k \in DOMAIN file :
            prompt[m].topic_group = at(k) /\ Before(admin[r], k, prompt[m].phrasing)
      BY <1>8
    <3>2. at(k) = at(admin[r].row)
      BY <1>3, <1>4, <3>1 DEF at
    <3>3. k = admin[r].row
      BY <1>9, <3>2
    <3> QED
      BY <1>3, <1>4, <1>7, <3>1, <3>3
  <2>2. CASE i \in OfImport(r) /\ j \in OfImport(r)
    BY <1>4, <1>8, <1>12, <2>2
  <2> QED
    BY <1>2, <1>12, <2>1, <2>2
<1> QED
  BY <1>1, <1>10, <1>11, <1>12 DEF ImportedSoFar, at

LEMMA ProgressStep ==
    ASSUME PromptInv, NEW r \in Requests, AdminStep(r)
    PROVE  ImportProgress'
<1> USE DEF PromptInv
<1>1. ASSUME NEW q \in Requests, q # r, admin'[q].at \in {"importing", "ok"},
             admin'[q].row > 0
      PROVE  /\ AtARow(admin'[q])
             /\ ImportedSoFar(q)'
             /\ admin'[q].at = "ok" => admin'[q].row > Len(admin'[q].file)
  <2>1. admin'[q] = admin[q] /\ OfImport(q)' = OfImport(q)
    BY <1>1, RequestStep, ImportedRows
  <2>2. /\ AtARow(admin[q]) /\ ImportedSoFar(q)
        /\ admin[q].at = "ok" => admin[q].row > Len(admin[q].file)
    BY <1>1, <2>1 DEF ImportProgress, AdminAt
  <2> QED
    BY <2>1, <2>2, SoFarKept
<1>2. ASSUME admin'[r].at \in {"importing", "ok"}, admin'[r].row > 0
      PROVE  /\ AtARow(admin'[r])
             /\ ImportedSoFar(r)'
             /\ admin'[r].at = "ok" => admin'[r].row > Len(admin'[r].file)
  <2>1. CASE Answered(r) /\ ~ImportPrompt(r)
    <3>1. /\ admin'[r].at = "ok" /\ admin'[r].row = admin[r].row
          /\ admin'[r].file = admin[r].file /\ admin'[r].name = admin[r].name
          /\ admin'[r].phrasing = admin[r].phrasing
      BY <1>2, <2>1 DEF Answered, Answers
    <3>2. AdminAt(r, "importing") /\ admin[r].row > 0
      <4>1. admin[r].at \in {"new", "deactivating", "importing"}
        BY DEF AdminStep, AdminAt, CreatePrompt, CreateOfUnknown, DeactivatePrompt,
               SelectActive, DeactivateAll, Upload, ImportPrompt, ImportFails,
               ImportDone, AdminKilled
      <4>2. admin[r].row # 0
        BY <1>2, <3>1, RequestFields
      <4> QED
        BY <1>2, <3>1, <4>1, <4>2 DEF NoRowYet, AdminAt
    <3>3. /\ AtARow(admin[r]) /\ ImportedSoFar(r)
          /\ admin[r].row > Len(admin[r].file)
      <4>1. ~InFile(r)
        BY <2>1, <3>1, <3>2 DEF Answered
      <4> QED
        BY <3>2, <4>1, RequestFields DEF ImportProgress, AdminAt, InFile
    <3>4. OfImport(r)' = OfImport(r)
      BY <2>1, ImportedRows
    <3> QED
      BY <3>1, <3>3, <3>4, SoFarKept DEF AtARow
  <2>2. CASE BeginsImport(r) /\ ~ImportPrompt(r)
    <3> DEFINE f == admin'[r].file
    <3>1. f \in Seq(RowKinds)
      BY RequestStep, PromptAssumption DEF AdminRequest
    <3>2. admin'[r].row = RowFrom(f, 1) /\ admin'[r].phrasing = "SEARCH_QUERY"
      BY <2>2 DEF BeginsImport
    <3>3. 1 \in 1 .. Len(f) + 1 /\ Len(f) \in Nat /\ DOMAIN f = 1 .. Len(f)
      BY <3>1
    <3>4. /\ RowFrom(f, 1) \in 1 .. Len(f) + 1
          /\ RowFrom(f, 1) <= Len(f) => f[RowFrom(f, 1)] # "blank"
          /\ \A k \in 1 .. RowFrom(f, 1) - 1 : f[k] = "blank"
      BY <3>1, <3>3, RowFromIsNext
    <3>5. AtARow(admin'[r])
      BY <3>2, <3>3, <3>4 DEF AtARow
    <3>6. OfImport(r)' = {}
      BY <2>2, ImportedRows DEF ImportsAreMapped, BeginsImport
    <3>7. \A k \in DOMAIN f, p \in {"SEARCH_QUERY", "QUESTION"} :
             ~(f[k] # "blank" /\ Before(admin'[r], k, p))
      BY <3>2, <3>3, <3>4 DEF Before
    <3>8. ImportedSoFar(r)'
      BY <3>6, <3>7 DEF ImportedSoFar
    <3> QED
      BY <2>2, <3>5, <3>8 DEF BeginsImport
  <2>3. CASE ImportPrompt(r)
    <3>1. ImportsOne(r) /\ AdminAt(r, "importing") /\ admin[r].row > 0
      BY <2>3, RequestOutcome DEF ImportsOne, ImportingHasARow
    <3>2. AtARow(admin[r]) /\ ImportedSoFar(r)
      BY <3>1 DEF ImportProgress, AdminAt
    <3> QED
      BY <2>3, <3>1, <3>2, PositionMoves, ImportOneStep DEF ImportsOne
  <2> QED
    BY <1>2, <2>1, <2>2, <2>3, RequestOutcome DEF GoesElsewhere
<1> QED
  BY <1>1, <1>2 DEF ImportProgress, AdminAt

-----------------------------------------------------------------------------
LEMMA PromptInvInit == PromptInit => PromptInv
<1> SUFFICES ASSUME PromptInit PROVE PromptInv
  OBVIOUS
<1>1. prompt = <<>> /\ DOMAIN prompt = {} /\ prompt \in Seq(Prompt)
  BY DEF PromptInit
<1>2. admin \in [Requests -> AdminRequest] /\ \A r \in Requests : admin[r] = NewAdmin
  BY NewAdminTypes DEF PromptInit
<1>3. NewAdmin.at = "new" /\ NewAdmin.row = 0
  BY DEF NewAdmin
<1>4. \A r \in Requests : OfImport(r) = {}
  BY <1>1 DEF OfImport
<1>5. PromptTypeOK /\ VersionsCountTheChain
  BY <1>1, <1>2 DEF PromptTypeOK, VersionsCountTheChain
<1>6. NoRowYet /\ ImportsAreMapped /\ ImportingHasARow /\ RefusedImportCreatesNothing
  BY <1>2, <1>3, <1>4
     DEF NoRowYet, ImportsAreMapped, ImportingHasARow, RefusedImportCreatesNothing, AdminAt
<1>7. ImportProgress
  BY <1>2, <1>3 DEF ImportProgress
<1> QED
  BY <1>5, <1>6, <1>7 DEF PromptInv

LEMMA PromptInvStep ==
    ASSUME PromptInv, NEW r \in Requests, AdminStep(r)
    PROVE  PromptInv'
BY PromptTypeStep, VersionsStep, RowsStep, RefusedStep, ProgressStep DEF PromptInv

LEMMA PromptInvStutter ==
    ASSUME PromptInv, UNCHANGED promptVars
    PROVE  PromptInv'
<1> USE DEF promptVars
<1>1. PromptTypeOK' /\ VersionsCountTheChain'
  BY DEF PromptInv, PromptTypeOK, VersionsCountTheChain
<1>2. NoRowYet' /\ ImportsAreMapped' /\ ImportingHasARow' /\ RefusedImportCreatesNothing'
  BY DEF PromptInv, NoRowYet, ImportsAreMapped, ImportingHasARow,
         RefusedImportCreatesNothing, OfImport, AdminAt
<1>3. \A r \in Requests : ImportedSoFar(r)' = ImportedSoFar(r)
  BY DEF ImportedSoFar, OfImport
<1>4. ImportProgress'
  BY <1>3 DEF PromptInv, ImportProgress, AdminAt
<1> QED
  BY <1>1, <1>2, <1>4 DEF PromptInv

(* An import that was answered "ok" has come to the end of its file. *)
LEMMA AnsweredIsAtTheEnd == PromptInv => AnsweredImportIsComplete
<1> SUFFICES ASSUME PromptInv, NEW r \in Requests, AdminAt(r, "ok"), admin[r].row > 0
             PROVE
        LET rows == {i \in DOMAIN admin[r].file : admin[r].file[i] # "blank"}
            key == [i \in OfImport(r) |-> <<prompt[i].topic_group, prompt[i].phrasing>>]
        IN  /\ {key[i] : i \in OfImport(r)} =
                  {[file |-> admin[r].name, row |-> i] : i \in rows}
                      \X {"SEARCH_QUERY", "QUESTION"}
            /\ \A i, j \in OfImport(r) : key[i] = key[j] => i = j
  BY DEF AnsweredImportIsComplete
<1> DEFINE q == admin[r]
           rows == {i \in DOMAIN q.file : q.file[i] # "blank"}
           both == {"SEARCH_QUERY", "QUESTION"}
           at(k) == [file |-> q.name, row |-> k]
<1>1. /\ ImportedSoFar(r)
      /\ q.row > Len(q.file)
  BY DEF PromptInv, ImportProgress, AdminAt
<1>2. DOMAIN q.file = 1 .. Len(q.file) /\ Len(q.file) \in Nat /\ q.row \in Nat
  BY RequestFields DEF PromptInv
<1>3. \A k \in rows, p \in both : Before(q, k, p)
  BY <1>1, <1>2 DEF Before
<1>4. \A i \in OfImport(r) :
         /\ \E k \in rows : prompt[i].topic_group = at(k)
         /\ prompt[i].phrasing \in both
  <2>1. ASSUME NEW i \in OfImport(r)
        PROVE  \E k \in DOMAIN q.file :
                  /\ prompt[i].topic_group = at(k)
                  /\ prompt[i].phrasing \in both
                  /\ q.file[k] # "blank"
    BY <1>1 DEF ImportedSoFar
  <2> QED
    BY <2>1
<1>5. \A k \in rows, p \in both :
         \E i \in OfImport(r) : prompt[i].topic_group = at(k) /\ prompt[i].phrasing = p
  <2>1. \A k \in DOMAIN q.file, p \in both :
           q.file[k] # "blank" /\ Before(q, k, p) =>
               \E i \in OfImport(r) : prompt[i].topic_group = at(k) /\ prompt[i].phrasing = p
    BY <1>1 DEF ImportedSoFar
  <2>2. \A k \in rows : k \in DOMAIN q.file /\ q.file[k] # "blank"
    OBVIOUS
  <2> HIDE DEF rows, both, at, q
  <2> QED
    BY <1>3, <2>1, <2>2
<1>6. \A i, j \in OfImport(r) :
         /\ prompt[i].topic_group = prompt[j].topic_group
         /\ prompt[i].phrasing = prompt[j].phrasing
         => i = j
  BY <1>1 DEF ImportedSoFar
<1> HIDE DEF rows, both, at, q
<1>7. {<<prompt[i].topic_group, prompt[i].phrasing>> : i \in OfImport(r)} =
         {at(k) : k \in rows} \X both
  BY <1>4, <1>5
<1> QED
  BY <1>6, <1>7 DEF rows, both, at, q

(* Prompts are only added and deactivated. *)
LEMMA ImmutableStep ==
    ASSUME PromptTypeOK, NEW r \in Requests, AdminStep(r)
    PROVE  /\ Len(prompt') >= Len(prompt)
           /\ \A i \in DOMAIN prompt :
                 \/ prompt'[i] = prompt[i]
                 \/ prompt'[i] = [prompt[i] EXCEPT !.is_active = FALSE]
<1>1. prompt \in Seq(Prompt) /\ Len(prompt) \in Nat
  BY DEF PromptTypeOK
<1>2. CASE CreatePrompt(r) \/ ImportPrompt(r)
  <2>1. \E x \in Prompt : prompt' = Append(prompt, x)
    BY <1>2, NewPromptTypes DEF CreatePrompt, ImportPrompt
  <2> QED
    BY <1>1, <2>1, AppendedRow
<1>3. CASE DeactivatePrompt(r) \/ DeactivateAll(r)
  <2>1. \E ids : prompt' = Deactivated(ids)
    BY <1>3 DEF DeactivatePrompt, DeactivateAll
  <2> QED
    BY <1>1, <2>1, DeactivatedRows
<1>4. CASE UNCHANGED prompt
  BY <1>1, <1>4
<1> QED
  BY <1>2, <1>3, <1>4
     DEF AdminStep, CreateOfUnknown, SelectActive, Upload, ImportFails, ImportDone,
         AdminKilled
=============================================================================
