--------------------------- MODULE ExecutionRuns ---------------------------
(***************************************************************************)
(* The two tables the web process and the worker share: execution_run and  *)
(* weekly_snapshot.  An execution_run row is identified by its unique key  *)
(* (batch_id, prompt_id, llm_provider_id, repeat_index); a key without a   *)
(* row is "ABSENT".  The mention and citation rows of a run are written in *)
(* the transaction that makes it SUCCESS and only there, so SUCCESS stands *)
(* for them.                                                               *)
(***************************************************************************)
EXTENDS Catalog

VARIABLES
    status,    \* execution_run.status by key
    snapshot   \* weekly_snapshot rows by week_label

tableVars == <<status, snapshot>>

Run == [batch : Batches, prompt : Prompts, provider : Providers,
        repeat : 0 .. MaxRepeat - 1]

Status == {"ABSENT", "PENDING", "RUNNING", "SUCCESS", "FAILED"}

(* Scope of a snapshot row: one provider, or all of them (NULL). *)
AllProviders == "ALL"
Scopes == Providers \cup {AllProviders}

(* The rows of one week: the scopes present (none: never aggregated) and   *)
(* the runs whose mentions and citations they were computed from.          *)
Snapshot == [scopes : SUBSET Scopes, runs : SUBSET Run]
NoSnapshot == [scopes |-> {}, runs |-> {}]

TableTypeOK ==
    /\ status \in [Run -> Status]
    /\ snapshot \in [Batches -> Snapshot]

TableInit ==
    /\ status = [r \in Run |-> "ABSENT"]
    /\ snapshot = [b \in Batches |-> NoSnapshot]

WithStatus(S) == {r \in Run : status[r] \in S}

RunsOf(b) == {r \in Run : r.batch = b}

Existing(b) == {r \in RunsOf(b) : status[r] # "ABSENT"}

(* get_batch_status(): success + failed of the batch *)
DoneCount(b) ==
    Cardinality({r \in RunsOf(b) : status[r] \in {"SUCCESS", "FAILED"}})

(* Mutant: EXCEPT the batches with PENDING runs only. *)
CompletedWhileRunning(b) ==
    /\ Existing(b) # {}
    /\ \A r \in RunsOf(b) : status[r] # "PENDING"

(* all_batches EXCEPT pending_or_running *)
Completed(b) ==
    /\ Existing(b) # {}
    /\ \A r \in RunsOf(b) : status[r] \notin {"PENDING", "RUNNING"}

(* run_scope of _compute_scope_snapshots(), all providers *)
CountedRuns(b) ==
    {r \in RunsOf(b) : status[r] = "SUCCESS" /\ r.prompt \notin OwnBrandPrompts}

(* aggregate_week(): every row of the week is replaced. *)
AggregateWeek(b) ==
    snapshot' = [snapshot EXCEPT ![b] =
        [scopes |-> activeProviders \cup {AllProviders},
         runs   |-> CountedRuns(b)]]
=============================================================================
