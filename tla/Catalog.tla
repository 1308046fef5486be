------------------------------ MODULE Catalog ------------------------------
(***************************************************************************)
(* What a weekly batch is made from: the prompts, the LLM providers, the   *)
(* repeat count an administrator sets on the Settings screen, and the ISO  *)
(* week the server's clock is in.  Every operation here is one request of  *)
(* the web process that ends in one commit.                                *)
(***************************************************************************)
EXTENDS Integers, FiniteSets

CONSTANTS
    Prompts,          \* every prompt row that may ever be created
    OwnBrandPrompts,  \* those with brand_type = OWN_BRAND
    Providers,        \* the llm_provider rows
    CliProviders,     \* those the worker has an executor for
    MaxRepeat,        \* upper end of the range the API accepts
    DefaultRepeat,    \* settings.repeat_count
    NumWeeks,         \* the weeks the clock goes through (a bound)
    Workload          \* the administrator requests a run allows

ASSUME CatalogAssumption ==
    /\ IsFiniteSet(Prompts)
    /\ IsFiniteSet(Providers)
    /\ OwnBrandPrompts \subseteq Prompts
    /\ CliProviders \subseteq Providers
    /\ MaxRepeat \in Nat \ {0}
    /\ DefaultRepeat \in 1 .. MaxRepeat
    /\ NumWeeks \in Nat \ {0}

VARIABLES
    prompts,          \* prompt rows; a row is never deleted
    activePrompts,    \* rows with is_active
    activeProviders,  \* llm_provider rows with is_active
    repeatCount,      \* get_repeat_count()
    week              \* compute_current_week_label()

catalogVars == <<prompts, activePrompts, activeProviders, repeatCount, week>>

Batches == 1 .. NumWeeks

CatalogTypeOK ==
    /\ prompts \subseteq Prompts
    /\ activePrompts \subseteq prompts
    /\ activeProviders \subseteq Providers
    /\ repeatCount \in 1 .. MaxRepeat
    /\ week \in Batches

(* The seeded database: the CLI providers active, the legacy ones not. *)
CatalogInit ==
    /\ prompts = {}
    /\ activePrompts = {}
    /\ activeProviders = CliProviders
    /\ repeatCount = DefaultRepeat
    /\ week = 1

CreatePrompt(p) ==
    /\ p \notin prompts
    /\ prompts' = prompts \cup {p}
    /\ activePrompts' = activePrompts \cup {p}
    /\ UNCHANGED <<activeProviders, repeatCount, week>>

DeactivatePrompt(p) ==
    /\ "prompts" \in Workload
    /\ p \in prompts
    /\ activePrompts' = activePrompts \ {p}
    /\ UNCHANGED <<prompts, activeProviders, repeatCount, week>>

DeactivateAllActive ==
    /\ "prompts" \in Workload
    /\ activePrompts' = {}
    /\ UNCHANGED <<prompts, activeProviders, repeatCount, week>>

UpdateLlmProvider(v) ==
    /\ "providers" \in Workload
    /\ \/ activeProviders' = activeProviders \cup {v}
       \/ activeProviders' = activeProviders \ {v}
    /\ UNCHANGED <<prompts, activePrompts, repeatCount, week>>

(* Mutant: the range check of the API lets one value too many through. *)
UpdateRepeatCountOffByOne(n) ==
    /\ "repeat" \in Workload
    /\ repeatCount' = n + 1
    /\ UNCHANGED <<prompts, activePrompts, activeProviders, week>>

UpdateRepeatCount(n) ==
    /\ "repeat" \in Workload
    /\ repeatCount' = n
    /\ UNCHANGED <<prompts, activePrompts, activeProviders, week>>

(* The clock of APP_TIMEZONE enters the next ISO week. *)
WeekPasses ==
    /\ week < NumWeeks
    /\ week' = week + 1
    /\ UNCHANGED <<prompts, activePrompts, activeProviders, repeatCount>>

CatalogNext ==
    \/ \E p \in Prompts : CreatePrompt(p) \/ DeactivatePrompt(p)
    \/ DeactivateAllActive
    \/ \E v \in Providers : UpdateLlmProvider(v)
    \/ \E n \in 1 .. MaxRepeat : UpdateRepeatCount(n)
    \/ WeekPasses

(* estimate_batch_calls().total_calls *)
EstimateBatchCalls ==
    Cardinality(activePrompts) * repeatCount * Cardinality(activeProviders)
=============================================================================
