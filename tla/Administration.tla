--------------------------- MODULE Administration ---------------------------
(***************************************************************************)
(* The requests of administrators together: each member of Requests is a   *)
(* request about prompts or about brands, and any of them may be under way *)
(* at the same time.                                                       *)
(***************************************************************************)
EXTENDS PromptCatalog, BrandCatalog

adminVars == <<promptVars, brandVars>>

AdminTypeOK == PromptTypeOK /\ BrandTypeOK

AdminInit == PromptInit /\ BrandInit

AllAnswered ==
    /\ \A r \in Requests : admin[r].at \in Answers \/ edit[r].at \in EditAnswers
    /\ UNCHANGED adminVars

AdminNext ==
    \/ \E r \in Requests :
          \/ EditAt(r, "new") /\ AdminStep(r) /\ UNCHANGED brandVars
          \/ AdminAt(r, "new") /\ EditStep(r) /\ UNCHANGED promptVars
    \/ AllAnswered

AdminSpec == AdminInit /\ [][AdminNext]_adminVars
=============================================================================
