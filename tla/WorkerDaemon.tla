--------------------------- MODULE WorkerDaemon ----------------------------
(***************************************************************************)
(* app/worker/daemon.py: the single worker process.  Its main thread polls *)
(* (poll_once): it selects PENDING runs, marks them RUNNING, loads the     *)
(* brands, submits each run to the ThreadPoolExecutor of its provider, and *)
(* aggregates the batches that have completed.  The pool threads execute   *)
(* the runs meanwhile.  Everything but the tables is lost when the process *)
(* dies.                                                                   *)
(***************************************************************************)
EXTENDS ExecutionRuns, Sequences

CONSTANTS
    Limit,        \* _CONCURRENCY_BY_PROVIDER_NAME: max_workers per provider
    NoRun,        \* what an idle thread holds
    Faults,       \* the failures a run of the model allows
    MaxCrashes    \* how often the process is killed (a bound)

ASSUME WorkerAssumption ==
    /\ Limit \in [CliProviders -> Nat \ {0}]
    /\ NoRun \notin Run
    /\ MaxCrashes \in Nat

VARIABLES
    pc,         \* where the main thread is
    rows,       \* the runs of this poll not yet submitted
    queue,      \* the work queue of each executor
    thread,     \* the run each pool thread executes
    toCheck,    \* completed_batch_ids not yet looked at in this poll
    current,    \* the batch being aggregated and its done_count
    lastDone,   \* _last_aggregated_done_count
    stopping,   \* ~_running
    crashes     \* kills so far

workerVars == <<pc, rows, queue, thread, toCheck, current, lastDone,
                stopping, crashes>>

(* A pool thread: the executor it belongs to and its number. *)
Threads == UNION {{v} \X (1 .. Limit[v]) : v \in CliProviders}

(* _last_aggregated_done_count.get(batch_id) is None *)
Never == -1

Nothing == [batch |-> 1, done |-> 0]

Up == pc \notin {"down", "stopped"}

(* Not running (killed; never started or stopped in order), between polls,  *)
(* the steps of a poll, and shutdown().                                     *)
Phases == {"down", "stopped", "idle", "mark", "load", "submit", "select",
           "check", "write", "drain"}

WorkerTypeOK ==
    /\ pc \in Phases
    /\ rows \subseteq Run
    /\ queue \in [CliProviders -> Seq(Run)]
    /\ thread \in [Threads -> Run \cup {NoRun}]
    /\ toCheck \subseteq Batches
    /\ current \in [batch : Batches, done : Nat]
    /\ lastDone \in [Batches -> Nat \cup {Never}]
    /\ stopping \in BOOLEAN
    /\ crashes \in 0 .. MaxCrashes

EmptyQueues == [v \in CliProviders |-> <<>>]
IdleThreads == [t \in Threads |-> NoRun]

WorkerInit ==
    /\ pc = "stopped"
    /\ rows = {}
    /\ queue = EmptyQueues
    /\ thread = IdleThreads
    /\ toCheck = {}
    /\ current = Nothing
    /\ lastDone = [b \in Batches |-> Never]
    /\ stopping = FALSE
    /\ crashes = 0

-----------------------------------------------------------------------------
(* The process.                                                            *)

(* Mutant: recover_stuck_running_jobs() is not called. *)
StartWithoutRecovery ==
    /\ ~Up
    /\ pc' = "idle"
    /\ stopping' = FALSE
    /\ lastDone' = [b \in Batches |-> Never]
    /\ UNCHANGED <<catalogVars, tableVars, rows, queue, thread, toCheck,
                   current, crashes>>

(* __init__, then recover_stuck_running_jobs() before the first poll. *)
Start ==
    /\ ~Up
    /\ pc' = "idle"
    /\ stopping' = FALSE
    /\ lastDone' = [b \in Batches |-> Never]
    /\ status' = [r \in Run |-> IF status[r] = "RUNNING" THEN "PENDING"
                                                         ELSE status[r]]
    /\ UNCHANGED <<catalogVars, snapshot, rows, queue, thread, toCheck,
                   current, crashes>>

(* SIGTERM or SIGINT *)
Stop ==
    /\ Up
    /\ stopping' = TRUE
    /\ UNCHANGED <<catalogVars, tableVars, pc, rows, queue, thread, toCheck,
                   current, lastDone, crashes>>

(* The loop ends; shutdown(wait=True) stays until the pools have run dry. *)
Shutdown ==
    /\ pc = "idle"
    /\ stopping
    /\ pc' = "drain"
    /\ UNCHANGED <<catalogVars, tableVars, rows, queue, thread, toCheck,
                   current, lastDone, stopping, crashes>>

Exit ==
    /\ pc = "drain"
    /\ queue = EmptyQueues
    /\ thread = IdleThreads
    /\ pc' = "stopped"
    /\ UNCHANGED <<catalogVars, tableVars, rows, queue, thread, toCheck,
                   current, lastDone, stopping, crashes>>

(* kill -9 or a reboot: no finally block runs, open transactions vanish. *)
Crash ==
    /\ "crash" \in Faults
    /\ crashes < MaxCrashes
    /\ Up
    /\ pc' = "down"
    /\ rows' = {}
    /\ queue' = EmptyQueues
    /\ thread' = IdleThreads
    /\ toCheck' = {}
    /\ current' = Nothing
    /\ crashes' = crashes + 1
    /\ UNCHANGED <<catalogVars, tableVars, lastDone, stopping>>

-----------------------------------------------------------------------------
(* poll_once(), main thread.                                               *)

(* Mutant: runs already handed out are selected again. *)
SelectUnfinished ==
    /\ pc = "idle"
    /\ ~stopping
    /\ rows' = WithStatus({"PENDING", "RUNNING"})
    /\ pc' = IF rows' = {} THEN "select" ELSE "mark"
    /\ UNCHANGED <<catalogVars, tableVars, queue, thread, toCheck, current,
                   lastDone, stopping, crashes>>

SelectPending ==
    /\ pc = "idle"
    /\ ~stopping
    /\ rows' = WithStatus({"PENDING"})
    /\ pc' = IF rows' = {} THEN "select" ELSE "mark"
    /\ UNCHANGED <<catalogVars, tableVars, queue, thread, toCheck, current,
                   lastDone, stopping, crashes>>

(* Mutant: the UPDATE is missing (left to the pool thread). *)
MarkNothing ==
    /\ pc = "mark"
    /\ pc' = "load"
    /\ UNCHANGED <<catalogVars, tableVars, rows, queue, thread, toCheck,
                   current, lastDone, stopping, crashes>>

MarkRunning ==
    /\ pc = "mark"
    /\ status' = [r \in Run |-> IF r \in rows THEN "RUNNING" ELSE status[r]]
    /\ pc' = "load"
    /\ UNCHANGED <<catalogVars, snapshot, rows, queue, thread, toCheck,
                   current, lastDone, stopping, crashes>>

LoadBrandInfos ==
    /\ pc = "load"
    /\ pc' = "submit"
    /\ UNCHANGED <<catalogVars, tableVars, rows, queue, thread, toCheck,
                   current, lastDone, stopping, crashes>>

(* A query of the first half raises: poll_once() is left, run_forever() logs *)
(* it and polls again.  What MarkRunning has committed stays.                *)
PollAborts ==
    /\ "poll" \in Faults
    /\ pc \in {"mark", "load"}
    /\ pc' = "idle"
    /\ rows' = {}
    /\ UNCHANGED <<catalogVars, tableVars, queue, thread, toCheck, current,
                   lastDone, stopping, crashes>>

(* One iteration of the submit loop; an unknown provider is only logged. *)
Submit(r) ==
    /\ pc = "submit"
    /\ r \in rows
    /\ rows' = rows \ {r}
    /\ pc' = IF rows' = {} THEN "select" ELSE "submit"
    /\ \/ /\ r.provider \in CliProviders
          /\ queue' = [queue EXCEPT ![r.provider] = Append(@, r)]
       \/ /\ r.provider \notin CliProviders
          /\ UNCHANGED queue
    /\ UNCHANGED <<catalogVars, tableVars, thread, toCheck, current,
                   lastDone, stopping, crashes>>

-----------------------------------------------------------------------------
(* _aggregate_completed_batches(), main thread.                            *)

AfterCheck(todo) == IF todo = {} THEN "idle" ELSE "check"

CompletedBatchIds == {b \in Batches : Completed(b)}

SelectCompleted ==
    /\ pc = "select"
    /\ toCheck' = CompletedBatchIds
    /\ pc' = AfterCheck(toCheck')
    /\ UNCHANGED <<catalogVars, tableVars, rows, queue, thread, current,
                   lastDone, stopping, crashes>>

(* Mutant: a batch is aggregated once and never again. *)
CheckAggregatedOnce(b) ==
    /\ pc = "check"
    /\ b \in toCheck
    /\ toCheck' = toCheck \ {b}
    /\ \/ /\ lastDone[b] # Never
          /\ pc' = AfterCheck(toCheck')
          /\ UNCHANGED current
       \/ /\ lastDone[b] = Never
          /\ pc' = "write"
          /\ current' = [batch |-> b, done |-> DoneCount(b)]
    /\ UNCHANGED <<catalogVars, tableVars, rows, queue, thread, lastDone,
                   stopping, crashes>>

(* get_batch_status() and the comparison with the last done_count *)
CheckDoneCount(b) ==
    /\ pc = "check"
    /\ b \in toCheck
    /\ toCheck' = toCheck \ {b}
    /\ \/ /\ lastDone[b] = DoneCount(b)
          /\ pc' = AfterCheck(toCheck')
          /\ UNCHANGED current
       \/ /\ lastDone[b] # DoneCount(b)
          /\ pc' = "write"
          /\ current' = [batch |-> b, done |-> DoneCount(b)]
    /\ UNCHANGED <<catalogVars, tableVars, rows, queue, thread, lastDone,
                   stopping, crashes>>

(* Mutant: the done_count is cached although aggregate_week() failed. *)
AggregateCachingFailures ==
    /\ pc = "write"
    /\ pc' = AfterCheck(toCheck)
    /\ current' = Nothing
    /\ \/ AggregateWeek(current.batch)
       \/ "aggregate" \in Faults /\ UNCHANGED snapshot
    /\ lastDone' = [lastDone EXCEPT ![current.batch] = current.done]
    /\ UNCHANGED <<catalogVars, status, rows, queue, thread, toCheck,
                   stopping, crashes>>

(* aggregate_week(); an exception rolls back and the next batch follows. *)
AggregateBatch ==
    /\ pc = "write"
    /\ pc' = AfterCheck(toCheck)
    /\ current' = Nothing
    /\ \/ /\ AggregateWeek(current.batch)
          /\ lastDone' = [lastDone EXCEPT ![current.batch] = current.done]
       \/ /\ "aggregate" \in Faults
          /\ UNCHANGED <<snapshot, lastDone>>
    /\ UNCHANGED <<catalogVars, status, rows, queue, thread, toCheck,
                   stopping, crashes>>

(* A query outside the try of aggregate_week() raises: poll_once() logs it. *)
AggregationAborts ==
    /\ "aggregate" \in Faults
    /\ pc \in {"select", "check"}
    /\ pc' = "idle"
    /\ toCheck' = {}
    /\ UNCHANGED <<catalogVars, tableVars, rows, queue, thread, current,
                   lastDone, stopping, crashes>>

-----------------------------------------------------------------------------
(* _run_single_execution(), pool threads.                                  *)

(* An idle thread takes the oldest job of its executor. *)
BeginExecution(t) ==
    LET v == t[1]
    IN  /\ thread[t] = NoRun
        /\ queue[v] # <<>>
        /\ thread' = [thread EXCEPT ![t] = Head(queue[v])]
        /\ queue' = [queue EXCEPT ![v] = Tail(@)]
        /\ UNCHANGED <<catalogVars, tableVars, pc, rows, toCheck, current,
                       lastDone, stopping, crashes>>

(* Mutant: only a success is saved, a failed call leaves the row alone. *)
EndSavingSuccesses(t) ==
    /\ thread[t] # NoRun
    /\ thread' = [thread EXCEPT ![t] = NoRun]
    /\ \/ status' = [status EXCEPT ![thread[t]] = "SUCCESS"]
       \/ UNCHANGED status
    /\ UNCHANGED <<catalogVars, snapshot, pc, rows, queue, toCheck, current,
                   lastDone, stopping, crashes>>

(* The call has returned or raised; the commit of the result may fail too. *)
EndExecution(t) ==
    /\ thread[t] # NoRun
    /\ thread' = [thread EXCEPT ![t] = NoRun]
    /\ \/ \E outcome \in {"SUCCESS", "FAILED"} :
             status' = [status EXCEPT ![thread[t]] = outcome]
       \/ /\ "commit" \in Faults
          /\ UNCHANGED status
    /\ UNCHANGED <<catalogVars, snapshot, pc, rows, queue, toCheck, current,
                   lastDone, stopping, crashes>>

PollStep ==
    \/ SelectPending
    \/ MarkRunning
    \/ LoadBrandInfos
    \/ PollAborts
    \/ \E r \in Run : Submit(r)
    \/ SelectCompleted
    \/ \E b \in Batches : CheckDoneCount(b)
    \/ AggregateBatch
    \/ AggregationAborts

WorkerNext ==
    \/ Start \/ Stop \/ Shutdown \/ Exit \/ Crash
    \/ PollStep
    \/ \E t \in Threads : BeginExecution(t) \/ EndExecution(t)
=============================================================================
