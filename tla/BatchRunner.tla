---------------------------- MODULE BatchRunner ----------------------------
(***************************************************************************)
(* POST /runs/trigger and POST /runs/<batch_id>/resume.  Each gunicorn     *)
(* worker serves one request at a time; trigger_batch() reads the catalog  *)
(* for the estimate, reads it again in ensure_execution_runs() together    *)
(* with the keys that exist, and only then inserts and commits, so other   *)
(* requests and the worker run between these three steps.                  *)
(***************************************************************************)
EXTENDS ExecutionRuns

CONSTANTS
    WebWorkers,       \* the gunicorn processes
    MaxCalls          \* settings.max_calls_per_batch

ASSUME RunnerAssumption == MaxCalls \in Nat

VARIABLE request      \* the trigger request each web process is serving

Request ==
    [step : {"none", "estimated", "planned", "answered"}, batch : Batches,
     wanted : SUBSET Run, missing : SUBSET Run]

NoRequest == [step |-> "none", batch |-> 1, wanted |-> {}, missing |-> {}]

RunnerTypeOK == request \in [WebWorkers -> Request]

RunnerInit == request = [w \in WebWorkers |-> NoRequest]

(* active prompts x active providers x REPEAT_COUNT *)
Combinations(b) ==
    {r \in RunsOf(b) : /\ r.prompt \in activePrompts
                       /\ r.provider \in activeProviders
                       /\ r.repeat < repeatCount}

(* The keys ensure_execution_runs() finds in the table. *)
ExistingKeys(b) == Existing(b)

(* The week label, then the estimate; over the limit is BatchTooLargeError. *)
TriggerBatch(w) ==
    /\ request[w].step \in {"none", "answered"}
    /\ EstimateBatchCalls <= MaxCalls
    /\ request' = [request EXCEPT ![w] =
                     [step |-> "estimated", batch |-> week,
                      wanted |-> {}, missing |-> {}]]
    /\ UNCHANGED <<catalogVars, tableVars>>

ReadExistingKeys(w) ==
    LET b == request[w].batch
    IN  /\ request[w].step = "estimated"
        /\ request' = [request EXCEPT ![w] =
                         [step |-> "planned", batch |-> b,
                          wanted |-> Combinations(b),
                          missing |-> Combinations(b) \ ExistingKeys(b)]]
        /\ UNCHANGED <<catalogVars, tableVars>>

(* Mutant: the IntegrityError is swallowed and the request answered. *)
EnsureIgnoringConflict(w) ==
    LET new == request[w].missing
    IN  /\ request[w].step = "planned"
        /\ status' = IF \E r \in new : status[r] # "ABSENT" THEN status
                     ELSE [r \in Run |-> IF r \in new THEN "PENDING"
                                                      ELSE status[r]]
        /\ request' = [request EXCEPT ![w] =
                         [step |-> "answered", batch |-> request[w].batch,
                          wanted |-> request[w].wanted, missing |-> {}]]
        /\ UNCHANGED <<catalogVars, snapshot>>

(* The INSERTs and the commit.  If another request inserted one of the keys *)
(* meanwhile, the unique constraint fails the transaction as a whole.       *)
EnsureExecutionRuns(w) ==
    LET new == request[w].missing
    IN  /\ request[w].step = "planned"
        /\ \/ /\ \A r \in new : status[r] = "ABSENT"
              /\ status' = [r \in Run |-> IF r \in new THEN "PENDING"
                                                       ELSE status[r]]
              /\ request' = [request EXCEPT ![w] =
                               [step |-> "answered",
                                batch |-> request[w].batch,
                                wanted |-> request[w].wanted,
                                missing |-> {}]]
           \/ /\ \E r \in new : status[r] # "ABSENT"
              /\ request' = [request EXCEPT ![w] = NoRequest]
              /\ UNCHANGED status
        /\ UNCHANGED <<catalogVars, snapshot>>

(* Mutant: every unfinished run is put back, also one being executed. *)
ResumeUnfinished(b) ==
    /\ "resume" \in Workload
    /\ Existing(b) # {}
    /\ status' = [r \in Run |->
                     IF r.batch = b /\ status[r] \in {"FAILED", "RUNNING"}
                     THEN "PENDING" ELSE status[r]]
    /\ UNCHANGED <<catalogVars, snapshot, request>>

ResumeBatch(b) ==
    /\ "resume" \in Workload
    /\ Existing(b) # {}
    /\ status' = [r \in Run |-> IF r.batch = b /\ status[r] = "FAILED"
                                THEN "PENDING" ELSE status[r]]
    /\ UNCHANGED <<catalogVars, snapshot, request>>

(* gunicorn kills a worker whose request takes longer than its timeout; the *)
(* open transaction is rolled back by the database.                         *)
RequestKilled(w) ==
    /\ request[w].step \in {"estimated", "planned"}
    /\ request' = [request EXCEPT ![w] = NoRequest]
    /\ UNCHANGED <<catalogVars, tableVars>>

RunnerNext ==
    \/ \E w \in WebWorkers : \/ TriggerBatch(w)
                            \/ ReadExistingKeys(w)
                            \/ EnsureExecutionRuns(w)
                            \/ RequestKilled(w)
    \/ \E b \in Batches : ResumeBatch(b)
=============================================================================
