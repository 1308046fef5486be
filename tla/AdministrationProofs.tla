------------------------ MODULE AdministrationProofs ------------------------
(***************************************************************************)
(* Theorems about Administration, for any number of requests, files of any *)
(* length and any payloads.                                                *)
(***************************************************************************)
EXTENDS Administration, PromptCatalogProofs, BrandCatalogProofs, TLAPS

AdminInv == PromptInv /\ BrandInv

LEMMA AdminInvStep == AdminInv /\ [AdminNext]_adminVars => AdminInv'
<1> SUFFICES ASSUME AdminInv, [AdminNext]_adminVars PROVE AdminInv'
  OBVIOUS
<1>1. CASE UNCHANGED adminVars
  <2>1. UNCHANGED promptVars /\ UNCHANGED brandVars
    BY <1>1 DEF adminVars
  <2> QED
    BY <2>1, PromptInvStutter, BrandInvStutter DEF AdminInv
<1>2. ASSUME NEW r \in Requests, AdminStep(r), UNCHANGED brandVars PROVE AdminInv'
  BY <1>2, PromptInvStep, BrandInvStutter DEF AdminInv
<1>3. ASSUME NEW r \in Requests, EditStep(r), UNCHANGED promptVars PROVE AdminInv'
  BY <1>3, PromptInvStutter, BrandInvStep DEF AdminInv
<1> QED
  BY <1>1, <1>2, <1>3 DEF AdminNext, AllAnswered

LEMMA AdminInvCorrect == AdminSpec => []AdminInv
<1>1. AdminInit => AdminInv
  BY PromptInvInit, BrandInvInit DEF AdminInit, AdminInv
<1> QED
  BY <1>1, AdminInvStep, PTL DEF AdminSpec

(* Types: what the three tables of brands and the table of prompts hold, and *)
(* where each request is.                                                  *)
THEOREM AdminTypeCorrect == AdminSpec => []AdminTypeOK
<1>1. AdminInv => AdminTypeOK
  BY DEF AdminInv, PromptInv, BrandInv, AdminTypeOK
<1> QED
  BY <1>1, AdminInvCorrect, PTL

(* Whatever requests overlap, the history of every prompt leads back to a  *)
(* first version, one number at a time (prompt_service.py).                *)
THEOREM VersionsAreRight == AdminSpec => []VersionsCountTheChain
<1>1. AdminInv => VersionsCountTheChain
  BY DEF AdminInv, PromptInv
<1> QED
  BY <1>1, AdminInvCorrect, PTL

(* A file is imported whole or not at all (prompt_import_service.py).       *)
THEOREM ImportsAreWhole ==
    AdminSpec => [](RefusedImportCreatesNothing /\ AnsweredImportIsComplete)
<1>1. AdminInv => RefusedImportCreatesNothing /\ AnsweredImportIsComplete
  BY AnsweredIsAtTheEnd DEF AdminInv, PromptInv
<1> QED
  BY <1>1, AdminInvCorrect, PTL

(* Prompts are only added and deactivated (models/prompt.py).               *)
THEOREM PromptsStay == AdminSpec => PromptsAreImmutable
<1> DEFINE Immutable ==
        /\ Len(prompt') >= Len(prompt)
        /\ \A i \in DOMAIN prompt :
              \/ prompt'[i] = prompt[i]
              \/ prompt'[i] = [prompt[i] EXCEPT !.is_active = FALSE]
<1>1. AdminInv /\ [AdminNext]_adminVars => [Immutable]_prompt
  BY ImmutableStep DEF AdminInv, PromptInv, AdminNext, AllAnswered, adminVars, promptVars
<1> QED
  BY <1>1, AdminInvCorrect, PTL DEF AdminSpec, PromptsAreImmutable

(* Names and domains stay unique under overlapping transactions, and a      *)
(* transaction that did not commit leaves nothing (brand_service.py).       *)
THEOREM EditsAreTransactions ==
    AdminSpec => [](NamesAndDomainsAreUnique /\ RefusedEditLeavesNothing)
<1>1. AdminInv => NamesAndDomainsAreUnique /\ RefusedEditLeavesNothing
  BY DEF AdminInv, BrandInv
<1> QED
  BY <1>1, AdminInvCorrect, PTL

(* A committed edit has stored all it lists and changed nothing else        *)
(* (update_brand(), create_brand()).                                        *)
THEOREM EditsAreLocal == AdminSpec => EditChangesWhatItLists
<1> DEFINE Local ==
        \A r \in Requests : Committing(r) =>
            LET mine(x) == x.brand = EditOf(r).brand /\ x.table \in Given(r)
            IN  /\ {x \in committed' : ~mine(x)} = {x \in committed : ~mine(x)}
                /\ \A t \in Given(r) \ {"name"} :
                      EditOf(r).fields[t] \subseteq
                          {x.value : x \in {y \in committed' : mine(y) /\ y.table = t}}
<1>1. AdminInv /\ [AdminNext]_adminVars => [Local]_brandVars
  <2> SUFFICES ASSUME AdminInv, [AdminNext]_adminVars, ~UNCHANGED brandVars PROVE Local
    BY Zenon
  <2>1. PICK q \in Requests : EditStep(q)
    BY DEF AdminNext, AllAnswered, adminVars
  <2> QED
    BY <2>1, CommittingStep DEF AdminInv
<1> QED
  BY <1>1, AdminInvCorrect, PTL DEF AdminSpec, EditChangesWhatItLists
=============================================================================
