--------------------------- MODULE BatchPipeline ---------------------------
(***************************************************************************)
(* The whole weekly batch: administrators change the catalog, the web      *)
(* process creates and resumes runs, the worker executes and aggregates    *)
(* them.  The three share the database tables and nothing else.            *)
(***************************************************************************)
EXTENDS BatchRunner, WorkerDaemon

vars == <<catalogVars, tableVars, request, workerVars>>

TypeOK ==
    /\ CatalogTypeOK
    /\ TableTypeOK
    /\ RunnerTypeOK
    /\ WorkerTypeOK

Init ==
    /\ CatalogInit
    /\ TableInit
    /\ RunnerInit
    /\ WorkerInit

Next ==
    \/ CatalogNext /\ UNCHANGED <<tableVars, request, workerVars>>
    \/ RunnerNext /\ UNCHANGED workerVars
    \/ WorkerNext /\ UNCHANGED request

Spec == Init /\ [][Next]_vars

(* The loop of run_forever() never blocks; a pool thread takes work when    *)
(* there is some, and every CLI call ends by its timeout; systemd restarts  *)
(* the worker after a kill, unless it was being stopped.  Nobody is bound   *)
(* to stop it or, once stopped, to start it, and requests come or do not.   *)
Fairness ==
    /\ WF_vars((PollStep \/ Shutdown \/ Exit) /\ UNCHANGED request)
    /\ WF_vars(pc = "down" /\ ~stopping /\ Start /\ UNCHANGED request)
    /\ \A t \in Threads :
          /\ WF_vars(BeginExecution(t) /\ UNCHANGED request)
          /\ WF_vars(EndExecution(t) /\ UNCHANGED request)

FairSpec == Spec /\ Fairness

(* Nobody is bound to start the worker: it has not been started yet, or it  *)
(* was told to stop and has ended, by itself or killed while its pools were *)
(* running dry.                                                             *)
Stopped == pc = "stopped" \/ (pc = "down" /\ stopping)

-----------------------------------------------------------------------------
(* Who holds a run: the main thread between marking and submitting it, an   *)
(* executor's queue, or a pool thread.                                      *)

Claimed == IF pc \in {"load", "submit"} THEN rows ELSE {}
InQueue(v) == {queue[v][i] : i \in 1 .. Len(queue[v])}
Queued == UNION {InQueue(v) : v \in CliProviders}
OnThread == {thread[t] : t \in Threads} \ {NoRun}
Held == Claimed \cup Queued \cup OnThread

(* No run is held twice: not by two threads, not by a thread and a queue,   *)
(* not twice in a queue, and not by the main thread as well.  Two holders   *)
(* would mean two CLI calls for one run and two sets of mentions for it     *)
(* (daemon.py: SELECT, UPDATE and submit are three steps).                  *)
OneHolder ==
    /\ Claimed \cap (Queued \cup OnThread) = {}
    /\ Queued \cap OnThread = {}
    /\ \A v \in CliProviders : \A i, j \in 1 .. Len(queue[v]) :
          queue[v][i] = queue[v][j] => i = j
    /\ \A v1, v2 \in CliProviders :
          v1 # v2 => InQueue(v1) \cap InQueue(v2) = {}
    /\ \A t1, t2 \in Threads :
          thread[t1] = thread[t2] /\ thread[t1] # NoRun => t1 = t2

(* Whatever is held is RUNNING in the table: neither a trigger, a resume,   *)
(* nor the recovery at start ever takes a run away from its holder.         *)
HeldIsRunning == \A r \in Held : status[r] = "RUNNING"

(* While the worker is up, or has stopped in order, every RUNNING run is    *)
(* held by somebody who will finish it.  The comment in poll_once() says    *)
(* it: runs committed as RUNNING must be submitted.                         *)
RunningIsHeld == pc # "down" => WithStatus({"RUNNING"}) \subseteq Held

(* From the query that finds the completed batches to the commit of their   *)
(* snapshots no run of them is executing, although requests come in between *)
(* (daemon.py: the list is read once, the aggregation follows statement by  *)
(* statement).                                                              *)
AggregatesSettledBatches ==
    \A b \in toCheck \cup (IF pc = "write" THEN {current.batch} ELSE {}) :
        \A r \in RunsOf(b) : status[r] # "RUNNING"

(* A batch whose done_count equals the cached one has not changed since its *)
(* aggregation, so that skipping it is right (the docstring of              *)
(* _aggregate_completed_batches()).                                         *)
SkippedBatchIsFresh ==
    \A b \in Batches :
        Completed(b) /\ lastDone[b] = DoneCount(b)
            => snapshot[b].runs = CountedRuns(b)

(* Aggregating a batch again with the same successes gives the same rows    *)
(* (the same docstring: delete and insert, hence idempotent).               *)
ReaggregationIsIdempotent ==
    [][\A b \in Batches :
          snapshot[b] # NoSnapshot /\ CountedRuns(b) = snapshot[b].runs
              => snapshot'[b] = snapshot[b]]_vars

(* When a trigger request is answered, every combination it read has a run, *)
(* although other requests created runs between its reads and its commit    *)
(* (ensure_execution_runs()).                                               *)
AnsweredTriggerIsComplete ==
    \A w \in WebWorkers :
        request[w].step = "answered" =>
            \A r \in request[w].wanted : status[r] # "ABSENT"

(* A success is never executed again, and no result is overwritten.         *)
Lifecycle == INSTANCE RunLifecycle WITH executing <- Held
ImplementsLifecycle == Lifecycle!Spec

(* Every PENDING run ends as SUCCESS or FAILED, crashes notwithstanding,    *)
(* unless somebody stops the worker.                                        *)
PendingRunsFinish ==
    \A r \in Run :
        status[r] = "PENDING" ~>
            status[r] \in {"SUCCESS", "FAILED"} \/ Stopped

(* A batch with runs reaches a moment when none of them is pending or        *)
(* running, unless somebody stops the worker: what operations.md tells the  *)
(* administrator to wait for, and the browser polls for.                    *)
TriggeredBatchCompletes ==
    \A b \in Batches :
        Existing(b) # {} ~> Completed(b) \/ Stopped

(* A batch that stays complete gets a snapshot of all its successes and     *)
(* keeps it, unless somebody stops the worker.                              *)
CompletedBatchIsReported ==
    \A b \in Batches :
        <>[]Completed(b) =>
            \/ <>[](snapshot[b].scopes # {} /\ snapshot[b].runs = CountedRuns(b))
            \/ []<>Stopped
=============================================================================
