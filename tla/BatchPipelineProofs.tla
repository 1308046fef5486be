------------------------ MODULE BatchPipelineProofs ------------------------
(***************************************************************************)
(* Machine-checked proofs about BatchPipeline, for every catalog, every    *)
(* number of web processes and pool threads and every set of faults.       *)
(***************************************************************************)
EXTENDS BatchPipeline, FiniteSetTheorems, SequenceTheorems, TLAPS

(* There are finitely many runs, so the counts of a batch are numbers. *)
LEMMA RunIsFinite == IsFiniteSet(Run)
<1> DEFINE Keys == ((Batches \X Prompts) \X Providers) \X (0 .. MaxRepeat - 1)
           f == [r \in Run |-> <<<<<<r.batch, r.prompt>>, r.provider>>, r.repeat>>]
<1>1. IsFiniteSet(Batches) /\ IsFiniteSet(0 .. MaxRepeat - 1)
  BY CatalogAssumption, FS_Interval DEF Batches
<1>2. IsFiniteSet(Keys)
  <2>1. IsFiniteSet(Batches \X Prompts)
    BY <1>1, CatalogAssumption, FS_Product
  <2>2. IsFiniteSet((Batches \X Prompts) \X Providers)
    BY <2>1, CatalogAssumption, FS_Product
  <2> QED BY <1>1, <2>2, FS_Product
<1>3. f \in [Run -> Keys]
  BY DEF Run
<1>4. ASSUME NEW r \in Run, NEW s \in Run, f[r] = f[s] PROVE r = s
  BY <1>4 DEF Run
<1> HIDE DEF f, Keys
<1>5. f \in Injection(Run, Keys)
  BY <1>3, <1>4 DEF Injection, IsInjective
<1> QED BY <1>2, <1>5, FS_Injection

LEMMA DoneCountType == \A b \in Batches : DoneCount(b) \in Nat
<1> SUFFICES ASSUME NEW b \in Batches PROVE DoneCount(b) \in Nat
  OBVIOUS
<1> DEFINE D == {r \in RunsOf(b) : status[r] \in {"SUCCESS", "FAILED"}}
<1>1. D \in SUBSET Run
  BY DEF RunsOf
<1>2. IsFiniteSet(D)
  BY <1>1, RunIsFinite, FS_Subset
<1>3. Cardinality(D) \in Nat
  BY <1>2, FS_CardinalityType
<1> QED BY <1>3 DEF DoneCount

-----------------------------------------------------------------------------
(* Type correctness.                                                       *)

LEMMA TypeInit == Init => TypeOK
<1> SUFFICES ASSUME Init PROVE TypeOK
  OBVIOUS
<1> USE CatalogAssumption, RunnerAssumption, WorkerAssumption
<1>1. CatalogTypeOK
  BY DEF Init, CatalogInit, CatalogTypeOK, Batches
<1>2. TableTypeOK
  BY DEF Init, TableInit, TableTypeOK, Status, Snapshot, NoSnapshot
<1>3. RunnerTypeOK
  BY DEF Init, RunnerInit, RunnerTypeOK, Request, NoRequest, Batches
<1>4. WorkerTypeOK
  <2>1. queue \in [CliProviders -> Seq(Run)]
    BY EmptySeq DEF Init, WorkerInit, EmptyQueues
  <2>2. pc \in Phases
    BY DEF Init, WorkerInit, Phases
  <2>3. thread \in [Threads -> Run \cup {NoRun}]
    BY DEF Init, WorkerInit, IdleThreads
  <2>4. current \in [batch : Batches, done : Nat]
    BY DEF Init, WorkerInit, Nothing, Batches
  <2>5. lastDone \in [Batches -> Nat \cup {Never}]
    BY DEF Init, WorkerInit
  <2>6. rows \subseteq Run /\ toCheck \subseteq Batches
    BY DEF Init, WorkerInit
  <2>7. stopping \in BOOLEAN
    BY DEF Init, WorkerInit
  <2>8. crashes \in 0 .. MaxCrashes
    BY DEF Init, WorkerInit
  <2> QED BY <2>1, <2>2, <2>3, <2>4, <2>5, <2>6, <2>7, <2>8 DEF WorkerTypeOK
<1> QED BY <1>1, <1>2, <1>3, <1>4 DEF TypeOK

LEMMA TypeCatalog == TypeOK /\ CatalogNext => CatalogTypeOK'
<1> SUFFICES ASSUME TypeOK, CatalogNext PROVE CatalogTypeOK'
  OBVIOUS
<1> USE DEF TypeOK, CatalogTypeOK
<1>1. ASSUME NEW p \in Prompts, CreatePrompt(p) \/ DeactivatePrompt(p)
      PROVE  CatalogTypeOK'
  BY <1>1 DEF CreatePrompt, DeactivatePrompt
<1>2. ASSUME NEW v \in Providers, UpdateLlmProvider(v)
      PROVE  CatalogTypeOK'
  BY <1>2 DEF UpdateLlmProvider
<1>3. ASSUME NEW n \in 1 .. MaxRepeat, UpdateRepeatCount(n)
      PROVE  CatalogTypeOK'
  BY <1>3 DEF UpdateRepeatCount
<1>4. CASE WeekPasses
  BY <1>4, CatalogAssumption DEF WeekPasses, Batches
<1>5. CASE DeactivateAllActive
  BY <1>5 DEF DeactivateAllActive
<1> QED BY <1>1, <1>2, <1>3, <1>4, <1>5 DEF CatalogNext

LEMMA TypeRunner ==
    TypeOK /\ RunnerNext => CatalogTypeOK' /\ TableTypeOK' /\ RunnerTypeOK'
<1> SUFFICES ASSUME TypeOK, RunnerNext
             PROVE  CatalogTypeOK' /\ TableTypeOK' /\ RunnerTypeOK'
  OBVIOUS
<1> USE DEF TypeOK, TableTypeOK, RunnerTypeOK
<1>1. CatalogTypeOK' /\ snapshot' = snapshot
  <2>1. UNCHANGED <<catalogVars, snapshot>>
    BY DEF RunnerNext, TriggerBatch, ReadExistingKeys, EnsureExecutionRuns,
           RequestKilled, ResumeBatch, tableVars
  <2> QED BY <2>1 DEF CatalogTypeOK, catalogVars
<1>2. ASSUME NEW w \in WebWorkers, TriggerBatch(w)
      PROVE  TableTypeOK' /\ RunnerTypeOK'
  BY <1>2 DEF TriggerBatch, tableVars, Request, NoRequest, CatalogTypeOK
<1>3. ASSUME NEW w \in WebWorkers, ReadExistingKeys(w)
      PROVE  TableTypeOK' /\ RunnerTypeOK'
  <2>1. request[w].batch \in Batches
    BY DEF Request
  <2>2. Combinations(request[w].batch) \subseteq Run
    BY DEF Combinations, RunsOf
  <2> QED BY <1>3, <2>1, <2>2 DEF ReadExistingKeys, tableVars, Request
<1>4. ASSUME NEW w \in WebWorkers, EnsureExecutionRuns(w)
      PROVE  TableTypeOK' /\ RunnerTypeOK'
  <2>1. status' \in [Run -> Status]
    BY <1>4 DEF EnsureExecutionRuns, Status
  <2>2. RunnerTypeOK'
    BY <1>4, CatalogAssumption
    DEF EnsureExecutionRuns, Request, NoRequest, Batches
  <2> QED BY <1>1, <2>1, <2>2
<1>5. ASSUME NEW w \in WebWorkers, RequestKilled(w)
      PROVE  TableTypeOK' /\ RunnerTypeOK'
  BY <1>5, CatalogAssumption
  DEF RequestKilled, tableVars, Request, NoRequest, Batches
<1>6. ASSUME NEW b \in Batches, ResumeBatch(b)
      PROVE  TableTypeOK' /\ RunnerTypeOK'
  BY <1>6 DEF ResumeBatch, Status
<1> QED BY <1>1, <1>2, <1>3, <1>4, <1>5, <1>6 DEF RunnerNext

LEMMA TypeWorker ==
    TypeOK /\ WorkerNext => CatalogTypeOK' /\ TableTypeOK' /\ WorkerTypeOK'
<1> SUFFICES ASSUME TypeOK, WorkerNext
             PROVE  CatalogTypeOK' /\ TableTypeOK' /\ WorkerTypeOK'
  OBVIOUS
<1> USE DEF WorkerNext, PollStep, Start, Stop, Shutdown, Exit, Crash,
            SelectPending, MarkRunning, LoadBrandInfos, PollAborts, Submit,
            SelectCompleted, CheckDoneCount, AggregateBatch, AggregationAborts,
            BeginExecution, EndExecution, TypeOK, TableTypeOK, WorkerTypeOK
<1>1. CatalogTypeOK'
  <2>1. UNCHANGED catalogVars
    OBVIOUS
  <2> QED BY <2>1 DEF CatalogTypeOK, catalogVars
<1>2. pc' \in Phases
  BY DEF Phases, AfterCheck
<1>3. rows' \subseteq Run
  BY DEF WithStatus
<1>4. queue' \in [CliProviders -> Seq(Run)]
  <2>1. EmptyQueues \in [CliProviders -> Seq(Run)]
    BY EmptySeq DEF EmptyQueues
  <2>2. ASSUME NEW r \in Run, Submit(r)
        PROVE  queue' \in [CliProviders -> Seq(Run)]
    <3>1. CASE r.provider \in CliProviders
      <4>1. Append(queue[r.provider], r) \in Seq(Run)
        BY <3>1
      <4> QED BY <2>2, <3>1, <4>1
    <3>2. CASE r.provider \notin CliProviders
      BY <2>2, <3>2
    <3> QED BY <3>1, <3>2
  <2>3. ASSUME NEW t \in Threads, BeginExecution(t)
        PROVE  queue' \in [CliProviders -> Seq(Run)]
    <3>1. t[1] \in CliProviders
      BY DEF Threads
    <3>2. Tail(queue[t[1]]) \in Seq(Run)
      BY <2>3, <3>1, HeadTailProperties
    <3> QED BY <2>3, <3>1, <3>2
  <2> QED BY <2>1, <2>2, <2>3
<1>5. thread' \in [Threads -> Run \cup {NoRun}]
  <2>1. IdleThreads \in [Threads -> Run \cup {NoRun}]
    BY DEF IdleThreads
  <2>2. ASSUME NEW t \in Threads, BeginExecution(t)
        PROVE  thread' \in [Threads -> Run \cup {NoRun}]
    <3>1. t[1] \in CliProviders
      BY DEF Threads
    <3>2. Head(queue[t[1]]) \in Run
      BY <2>2, <3>1, HeadTailProperties
    <3> QED BY <2>2, <3>2
  <2>3. ASSUME NEW t \in Threads, EndExecution(t)
        PROVE  thread' \in [Threads -> Run \cup {NoRun}]
    BY <2>3
  <2> QED BY <2>1, <2>2, <2>3
<1>6. toCheck' \subseteq Batches
  BY DEF CompletedBatchIds
<1>7. current' \in [batch : Batches, done : Nat]
  <2>1. Nothing \in [batch : Batches, done : Nat]
    BY CatalogAssumption DEF Nothing, Batches
  <2>2. ASSUME NEW b \in Batches, CheckDoneCount(b)
        PROVE  current' \in [batch : Batches, done : Nat]
    BY <2>2, DoneCountType
  <2> QED BY <2>1, <2>2
<1>8. lastDone' \in [Batches -> Nat \cup {Never}]
  <2>1. [b \in Batches |-> Never] \in [Batches -> Nat \cup {Never}]
    OBVIOUS
  <2>2. ASSUME AggregateBatch
        PROVE  lastDone' \in [Batches -> Nat \cup {Never}]
    BY <2>2
  <2> QED BY <2>1, <2>2
<1>9. stopping' \in BOOLEAN
  OBVIOUS
<1>10. crashes' \in 0 .. MaxCrashes
  BY WorkerAssumption
<1>11. status' \in [Run -> Status]
  <2>1. ASSUME NEW t \in Threads, EndExecution(t)
        PROVE  status' \in [Run -> Status]
    BY <2>1 DEF Status
  <2>2. CASE Start \/ MarkRunning
    BY <2>2 DEF Status
  <2> QED BY <2>1, <2>2 DEF tableVars
<1>12. snapshot' \in [Batches -> Snapshot]
  <2>1. CASE AggregateBatch
    <3>1. CountedRuns(current.batch) \subseteq Run
      BY DEF CountedRuns, RunsOf
    <3>2. [scopes |-> activeProviders \cup {AllProviders},
           runs |-> CountedRuns(current.batch)] \in Snapshot
      BY <3>1 DEF Snapshot, Scopes, CatalogTypeOK
    <3> QED BY <2>1, <3>2 DEF AggregateWeek
  <2> QED BY <2>1 DEF tableVars
<1> QED BY <1>1, <1>2, <1>3, <1>4, <1>5, <1>6, <1>7, <1>8, <1>9, <1>10, <1>11,
            <1>12

LEMMA TypeStep == TypeOK /\ [Next]_vars => TypeOK'
<1> SUFFICES ASSUME TypeOK, [Next]_vars PROVE TypeOK'
  OBVIOUS
<1>1. CASE CatalogNext /\ UNCHANGED <<tableVars, request, workerVars>>
  <2>1. CatalogTypeOK'
    BY <1>1, TypeCatalog
  <2> QED
    BY <1>1, <2>1 DEF TypeOK, TableTypeOK, RunnerTypeOK, WorkerTypeOK,
                      tableVars, workerVars
<1>2. CASE RunnerNext /\ UNCHANGED workerVars
  BY <1>2, TypeRunner DEF TypeOK, WorkerTypeOK, workerVars
<1>3. CASE WorkerNext /\ UNCHANGED request
  BY <1>3, TypeWorker DEF TypeOK, RunnerTypeOK
<1>4. CASE UNCHANGED vars
  BY <1>4 DEF TypeOK, CatalogTypeOK, TableTypeOK, RunnerTypeOK, WorkerTypeOK,
              vars, catalogVars, tableVars, workerVars
<1> QED BY <1>1, <1>2, <1>3, <1>4 DEF Next

(* Every variable keeps its type, for every value of the constants. *)
THEOREM TypeCorrect == Spec => []TypeOK
  BY TypeInit, TypeStep, PTL DEF Spec

-----------------------------------------------------------------------------
(* Exclusive holders.                                                      *)

(* What the phases of the main thread imply for its locals, and that a job  *)
(* is in the pool of its run's provider: with TypeOK and the two properties *)
(* above, an invariant that every step preserves by itself.                 *)
PhaseOK ==
    /\ pc \notin {"mark", "load", "submit"} => rows = {}
    /\ pc = "mark" => \A r \in rows : status[r] = "PENDING"
    /\ pc \notin {"check", "write"} => toCheck = {}
    /\ ~Up => queue = EmptyQueues /\ thread = IdleThreads

JobsMatchPool ==
    /\ \A v \in CliProviders : \A r \in InQueue(v) : r.provider = v
    /\ \A t \in Threads : thread[t] # NoRun => thread[t].provider = t[1]

HoldingInv == OneHolder /\ HeldIsRunning /\ PhaseOK /\ JobsMatchPool

LEMMA HeldAreRuns == TypeOK => Held \subseteq Run
<1> SUFFICES ASSUME TypeOK PROVE Held \subseteq Run
  OBVIOUS
<1>1. Claimed \subseteq Run
  BY DEF TypeOK, WorkerTypeOK, Claimed
<1>2. ASSUME NEW v \in CliProviders PROVE InQueue(v) \subseteq Run
  BY ElementOfSeq DEF TypeOK, WorkerTypeOK, InQueue
<1>3. OnThread \subseteq Run
  BY DEF TypeOK, WorkerTypeOK, OnThread
<1> QED BY <1>1, <1>2, <1>3 DEF Held, Queued

LEMMA HoldingInit == Init => HoldingInv
<1> SUFFICES ASSUME Init PROVE HoldingInv
  OBVIOUS
<1> USE DEF Init, WorkerInit
<1>1. \A v \in CliProviders : InQueue(v) = {} /\ Len(queue[v]) = 0
  BY DEF InQueue, EmptyQueues
<1>2. Claimed = {} /\ Queued = {} /\ OnThread = {}
  BY <1>1 DEF Claimed, Queued, OnThread, IdleThreads
<1>3. OneHolder
  BY <1>1, <1>2 DEF OneHolder, IdleThreads
<1>4. HeldIsRunning
  BY <1>2 DEF HeldIsRunning, Held
<1>5. PhaseOK
  BY DEF PhaseOK, Up
<1>6. JobsMatchPool
  BY <1>1 DEF JobsMatchPool, IdleThreads
<1> QED BY <1>3, <1>4, <1>5, <1>6 DEF HoldingInv

(* A step that leaves the jobs alone and takes no held run out of RUNNING. *)
LEMMA HoldingKept ==
    ASSUME TypeOK, OneHolder, HeldIsRunning, JobsMatchPool,
           UNCHANGED <<queue, thread>>, Claimed' \subseteq Claimed,
           \A r \in Run : status[r] = "RUNNING" => status'[r] = "RUNNING"
    PROVE  OneHolder' /\ HeldIsRunning' /\ JobsMatchPool'
<1>1. \A v \in CliProviders : InQueue(v)' = InQueue(v)
  BY DEF InQueue
<1>2. Queued' = Queued /\ OnThread' = OnThread
  BY <1>1 DEF Queued, OnThread
<1>3. OneHolder'
  BY <1>1, <1>2 DEF OneHolder
<1>4. Held' \subseteq Held
  BY <1>2 DEF Held
<1>5. HeldIsRunning'
  BY <1>4, HeldAreRuns DEF HeldIsRunning
<1>6. JobsMatchPool'
  BY <1>1 DEF JobsMatchPool
<1> QED BY <1>3, <1>5, <1>6

(* A step after which no job exists. *)
LEMMA NothingHeld ==
    ASSUME queue' = EmptyQueues, thread' = IdleThreads, Claimed' = {}
    PROVE  OneHolder' /\ HeldIsRunning' /\ JobsMatchPool' /\ Held' = {}
<1>1. \A v \in CliProviders : InQueue(v)' = {} /\ Len(queue'[v]) = 0
  BY DEF InQueue, EmptyQueues
<1>2. Queued' = {} /\ OnThread' = {}
  BY <1>1 DEF Queued, OnThread, IdleThreads
<1>3. OneHolder'
  BY <1>1, <1>2 DEF OneHolder, IdleThreads
<1>4. Held' = {}
  BY <1>2 DEF Held
<1>5. JobsMatchPool'
  BY <1>1 DEF JobsMatchPool, IdleThreads
<1> QED BY <1>3, <1>4, <1>5 DEF HeldIsRunning

(* The UPDATE of the selected rows makes them the main thread's. *)
LEMMA MarkingHolds ==
    ASSUME TypeOK, HoldingInv, MarkRunning
    PROVE  OneHolder' /\ HeldIsRunning' /\ JobsMatchPool'
<1>1. UNCHANGED <<queue, thread, rows>> /\ Claimed' = rows
  BY DEF MarkRunning, Claimed
<1>2. \A v \in CliProviders : InQueue(v)' = InQueue(v)
  BY <1>1 DEF InQueue
<1>3. Queued' = Queued /\ OnThread' = OnThread
  BY <1>1, <1>2 DEF Queued, OnThread
<1>4. rows \cap (Queued \cup OnThread) = {}
  BY DEF MarkRunning, HoldingInv, HeldIsRunning, Held, PhaseOK
<1>5. OneHolder'
  BY <1>1, <1>2, <1>3, <1>4 DEF HoldingInv, OneHolder
<1>6. \A r \in Held' : r \in rows \/ r \in Held
  BY <1>1, <1>3 DEF Held
<1>7. \A r \in Run : r \in rows \/ r \in Held => status'[r] = "RUNNING"
  BY DEF MarkRunning, HoldingInv, HeldIsRunning
<1>8. rows \subseteq Run /\ Held \subseteq Run
  BY HeldAreRuns DEF TypeOK, WorkerTypeOK
<1>9. HeldIsRunning'
  BY <1>6, <1>7, <1>8 DEF HeldIsRunning
<1>10. JobsMatchPool'
  BY <1>1, <1>2 DEF HoldingInv, JobsMatchPool
<1> QED BY <1>5, <1>9, <1>10

(* Submitting moves one run from the main thread to a queue. *)
LEMMA SubmittingHolds ==
    ASSUME TypeOK, HoldingInv, NEW r \in Run, Submit(r)
    PROVE  /\ OneHolder' /\ HeldIsRunning' /\ JobsMatchPool'
           /\ r.provider \in CliProviders => Held' = Held
           /\ r.provider \notin CliProviders => Held' = Held \ {r}
<1> USE DEF HoldingInv
<1>1. r \in Claimed /\ r \notin Queued \cup OnThread
  BY DEF Submit, Claimed, OneHolder
<1>2. Claimed' = Claimed \ {r}
  BY DEF Submit, Claimed
<1>3. UNCHANGED <<status, thread>>
  BY DEF Submit, tableVars
<1>4. CASE r.provider \notin CliProviders
  <2>1. UNCHANGED <<queue, thread>>
    BY <1>3, <1>4 DEF Submit
  <2>2. Queued' = Queued /\ OnThread' = OnThread
    BY <2>1 DEF Queued, InQueue, OnThread
  <2>3. Held' = Held \ {r}
    BY <1>1, <1>2, <2>2 DEF Held
  <2> QED BY <1>2, <1>3, <1>4, <2>1, <2>3, HoldingKept
<1>5. CASE r.provider \in CliProviders
  <2> DEFINE v == r.provider
  <2>1. queue' = [queue EXCEPT ![v] = Append(queue[v], r)]
    BY <1>5 DEF Submit
  <2>2. queue[v] \in Seq(Run)
    BY <1>5 DEF TypeOK, WorkerTypeOK
  <2>3. queue'[v] = Append(queue[v], r)
    BY <1>5, <2>1 DEF TypeOK, WorkerTypeOK
  <2>4. /\ Len(queue'[v]) = Len(queue[v]) + 1
        /\ \A i \in 1 .. Len(queue[v]) : queue'[v][i] = queue[v][i]
        /\ queue'[v][Len(queue[v]) + 1] = r
        /\ Len(queue[v]) \in Nat
    BY <2>2, <2>3
  <2>5. \A u \in CliProviders \ {v} : queue'[u] = queue[u]
    BY <2>1 DEF TypeOK, WorkerTypeOK
  <2>6. InQueue(v)' = InQueue(v) \cup {r}
    <3>1. \A i \in 1 .. Len(queue'[v]) :
             i \in 1 .. Len(queue[v]) \/ i = Len(queue[v]) + 1
      BY <2>4
    <3>2. \A i \in 1 .. Len(queue[v]) : i \in 1 .. Len(queue'[v])
      BY <2>4
    <3>3. Len(queue[v]) + 1 \in 1 .. Len(queue'[v])
      BY <2>4
    <3> QED BY <2>4, <3>1, <3>2, <3>3, Zenon DEF InQueue
  <2>7. \A u \in CliProviders \ {v} : InQueue(u)' = InQueue(u)
    BY <2>5 DEF InQueue
  <2>8. Queued' = Queued \cup {r}
    BY <1>5, <2>6, <2>7 DEF Queued
  <2>9. OnThread' = OnThread
    BY <1>3 DEF OnThread
  <2>10. \A i \in 1 .. Len(queue[v]) : queue[v][i] # r
    BY <1>1, <1>5 DEF Queued, InQueue
  <2>11. \A i, j \in 1 .. Len(queue'[v]) : queue'[v][i] = queue'[v][j] => i = j
    <3>1. \A i, j \in 1 .. Len(queue[v]) : queue[v][i] = queue[v][j] => i = j
      BY <1>5 DEF OneHolder
    <3>2. \A i \in 1 .. Len(queue'[v]) :
             \/ i \in 1 .. Len(queue[v]) /\ queue'[v][i] = queue[v][i]
             \/ i = Len(queue[v]) + 1 /\ queue'[v][i] = r
      BY <2>4
    <3> HIDE DEF v
    <3> QED BY <2>10, <3>1, <3>2, Zenon
  <2>12. \A u \in CliProviders : \A i, j \in 1 .. Len(queue'[u]) :
            queue'[u][i] = queue'[u][j] => i = j
    BY <2>5, <2>11 DEF OneHolder
  <2>13. \A u1, u2 \in CliProviders :
            u1 # u2 => InQueue(u1)' \cap InQueue(u2)' = {}
    BY <1>1, <2>6, <2>7 DEF OneHolder, Queued
  <2>14. OneHolder'
    BY <1>1, <1>2, <1>3, <2>8, <2>9, <2>12, <2>13 DEF OneHolder
  <2>15. Held' = Held
    BY <1>1, <1>2, <2>8, <2>9 DEF Held
  <2>16. HeldIsRunning'
    BY <1>3, <2>15 DEF HeldIsRunning
  <2>17. JobsMatchPool'
    BY <1>3, <2>6, <2>7 DEF JobsMatchPool
  <2> QED BY <1>5, <2>14, <2>15, <2>16, <2>17
<1> QED BY <1>4, <1>5

(* Starting a job moves the head of a queue to an idle thread. *)
LEMMA BeginningHolds ==
    ASSUME TypeOK, HoldingInv, NEW t \in Threads, BeginExecution(t)
    PROVE  OneHolder' /\ HeldIsRunning' /\ JobsMatchPool' /\ Held' = Held
<1> USE DEF HoldingInv
<1> DEFINE v == t[1]
           q == queue[v]
           r == Head(q)
<1>1. v \in CliProviders
  BY DEF Threads
<1>2. q \in Seq(Run) /\ q # <<>>
  BY <1>1 DEF TypeOK, WorkerTypeOK, BeginExecution
<1>3. thread' = [thread EXCEPT ![t] = r] /\ queue' = [queue EXCEPT ![v] = Tail(q)]
  BY DEF BeginExecution
<1>4. UNCHANGED <<status, pc, rows>> /\ thread[t] = NoRun
  BY DEF BeginExecution, tableVars
<1>5. /\ queue'[v] = Tail(q)
      /\ \A u \in CliProviders \ {v} : queue'[u] = queue[u]
      /\ thread'[t] = r
      /\ \A t2 \in Threads \ {t} : thread'[t2] = thread[t2]
  BY <1>1, <1>3 DEF TypeOK, WorkerTypeOK
<1>6. /\ Len(q) \in Nat \ {0}
      /\ Len(Tail(q)) = Len(q) - 1
      /\ \A i \in 1 .. Len(Tail(q)) : Tail(q)[i] = q[i + 1]
      /\ r = q[1] /\ r \in Run
  BY <1>2, HeadTailProperties
<1>7. r # NoRun
  BY <1>6, WorkerAssumption
<1>8. \A i, j \in 1 .. Len(q) : q[i] = q[j] => i = j
  BY <1>1 DEF OneHolder
<1> HIDE DEF r, q, v
<1>9. InQueue(v) = {q[i] : i \in 1 .. Len(q)}
  BY DEF InQueue, q
<1>10. InQueue(v)' = {Tail(q)[i] : i \in 1 .. Len(Tail(q))}
  BY <1>5 DEF InQueue, v
<1>11. InQueue(v)' = InQueue(v) \ {r} /\ r \in InQueue(v)
  <2>1. \A i \in 1 .. Len(Tail(q)) : i + 1 \in 1 .. Len(q) /\ i + 1 # 1
    BY <1>6
  <2>2. \A j \in 1 .. Len(q) : j # 1 =>
           \E i \in 1 .. Len(Tail(q)) : j = i + 1
    <3> SUFFICES ASSUME NEW j \in 1 .. Len(q), j # 1
                 PROVE  \E i \in 1 .. Len(Tail(q)) : j = i + 1
      OBVIOUS
    <3>1. j - 1 \in 1 .. Len(Tail(q)) /\ j = (j - 1) + 1
      BY <1>6
    <3> QED BY <3>1
  <2>3. 1 \in 1 .. Len(q)
    BY <1>6
  <2>4. \A x : x \in InQueue(v)' => x \in InQueue(v) /\ x # r
    BY <1>6, <1>8, <1>9, <1>10, <2>1, <2>3
  <2>5. \A x : x \in InQueue(v) /\ x # r => x \in InQueue(v)'
    BY <1>6, <1>9, <1>10, <2>2
  <2>6. r \in InQueue(v)
    BY <1>6, <1>9, <2>3
  <2> QED BY <2>4, <2>5, <2>6
<1>12. \A u \in CliProviders \ {v} : InQueue(u)' = InQueue(u)
  BY <1>5 DEF InQueue
<1>13. \A u \in CliProviders \ {v} : r \notin InQueue(u)
  BY <1>1, <1>11 DEF OneHolder
<1>14. Queued' = Queued \ {r} /\ r \in Queued
  BY <1>1, <1>11, <1>12, <1>13 DEF Queued
<1>15. OnThread' = OnThread \cup {r}
  BY <1>4, <1>5, <1>7 DEF OnThread
<1>16. Claimed' = Claimed
  BY <1>4 DEF Claimed
<1>17. r \notin OnThread /\ r \notin Claimed
  BY <1>14 DEF OneHolder
<1>18. \A i, j \in 1 .. Len(Tail(q)) : Tail(q)[i] = Tail(q)[j] => i = j
  BY <1>6, <1>8
<1>19. \A u \in CliProviders : \A i, j \in 1 .. Len(queue'[u]) :
          queue'[u][i] = queue'[u][j] => i = j
  BY <1>5, <1>18 DEF OneHolder
<1>20. \A u1, u2 \in CliProviders :
          u1 # u2 => InQueue(u1)' \cap InQueue(u2)' = {}
  BY <1>11, <1>12 DEF OneHolder
<1>21. \A t2 \in Threads \ {t} : thread[t2] # r
  BY <1>7, <1>17 DEF OnThread
<1>22. \A t1, t2 \in Threads :
          thread'[t1] = thread'[t2] /\ thread'[t1] # NoRun => t1 = t2
  BY <1>5, <1>21 DEF OneHolder
<1>23. OneHolder'
  BY <1>14, <1>15, <1>16, <1>17, <1>19, <1>20, <1>22 DEF OneHolder
<1>24. Held' = Held
  BY <1>14, <1>15, <1>16 DEF Held
<1>25. HeldIsRunning'
  BY <1>4, <1>24 DEF HeldIsRunning
<1>26. r.provider = v
  BY <1>1, <1>11 DEF JobsMatchPool
<1>27. JobsMatchPool'
  BY <1>5, <1>11, <1>12, <1>26 DEF JobsMatchPool, v
<1> QED BY <1>23, <1>24, <1>25, <1>27

(* A job that ends is held by nobody and no other run's status changes. *)
LEMMA EndingHolds ==
    ASSUME TypeOK, HoldingInv, NEW t \in Threads, EndExecution(t)
    PROVE  /\ OneHolder' /\ HeldIsRunning' /\ JobsMatchPool'
           /\ Held' = Held \ {thread[t]}
<1> USE DEF HoldingInv
<1> DEFINE r == thread[t]
<1>1. r \in OnThread /\ UNCHANGED <<pc, rows, queue>>
  BY DEF EndExecution, OnThread
<1>2. thread'[t] = NoRun /\ \A t2 \in Threads \ {t} : thread'[t2] = thread[t2]
  BY DEF EndExecution, TypeOK, WorkerTypeOK
<1>3. \A s \in Run \ {r} : status'[s] = status[s]
  BY DEF EndExecution, TypeOK, TableTypeOK
<1> HIDE DEF r
<1>4. Claimed' = Claimed
  BY <1>1 DEF Claimed
<1>5. \A v \in CliProviders : InQueue(v)' = InQueue(v)
  BY <1>1 DEF InQueue
<1>6. Queued' = Queued
  BY <1>5 DEF Queued
<1>7. \A t2 \in Threads \ {t} : thread[t2] # r
  BY <1>1 DEF OneHolder, OnThread, r
<1>8. OnThread' = OnThread \ {r}
  BY <1>2, <1>7 DEF OnThread, r
<1>9. OneHolder'
  <2>1. \A t1, t2 \in Threads :
           thread'[t1] = thread'[t2] /\ thread'[t1] # NoRun => t1 = t2
    BY <1>2 DEF OneHolder
  <2> QED BY <1>1, <1>4, <1>5, <1>6, <1>8, <2>1 DEF OneHolder
<1>10. Held' = Held \ {r}
  BY <1>1, <1>4, <1>6, <1>8 DEF OneHolder, Held
<1>11. HeldIsRunning'
  BY <1>3, <1>10, HeldAreRuns DEF HeldIsRunning
<1>12. JobsMatchPool'
  BY <1>2, <1>5 DEF JobsMatchPool
<1> QED BY <1>9, <1>10, <1>11, <1>12 DEF r

(* What the web process does to the runs somebody works on: nothing. *)
LEMMA RunnerKeepsActive ==
    ASSUME TypeOK, RunnerNext, NEW r \in Run, status[r] \in {"PENDING", "RUNNING"}
    PROVE  status'[r] = status[r]
<1>1. ASSUME NEW w \in WebWorkers,
             TriggerBatch(w) \/ ReadExistingKeys(w) \/ RequestKilled(w)
      PROVE  status'[r] = status[r]
  BY <1>1 DEF TriggerBatch, ReadExistingKeys, RequestKilled, tableVars
<1>2. ASSUME NEW w \in WebWorkers, EnsureExecutionRuns(w)
      PROVE  status'[r] = status[r]
  BY <1>2 DEF EnsureExecutionRuns
<1>3. ASSUME NEW b \in Batches, ResumeBatch(b)
      PROVE  status'[r] = status[r]
  BY <1>3 DEF ResumeBatch
<1> QED BY <1>1, <1>2, <1>3 DEF RunnerNext

LEMMA PhaseStep == TypeOK /\ HoldingInv /\ [Next]_vars => PhaseOK'
<1> SUFFICES ASSUME TypeOK, HoldingInv, [Next]_vars PROVE PhaseOK'
  OBVIOUS
<1>0. PhaseOK
  BY DEF HoldingInv
<1>1. CASE CatalogNext /\ UNCHANGED <<tableVars, request, workerVars>>
  BY <1>0, <1>1 DEF PhaseOK, Up, tableVars, workerVars
<1>2. CASE RunnerNext /\ UNCHANGED workerVars
  <2>1. \A r \in Run : status[r] = "PENDING" => status'[r] = "PENDING"
    BY <1>2, RunnerKeepsActive
  <2>2. rows \subseteq Run
    BY DEF TypeOK, WorkerTypeOK
  <2> QED BY <1>0, <1>2, <2>1, <2>2 DEF PhaseOK, Up, workerVars
<1>3. CASE WorkerNext /\ UNCHANGED request
  <2> USE <1>0, <1>3
          DEF WorkerNext, PollStep, Start, Stop, Shutdown, Exit, Crash,
              SelectPending, MarkRunning, LoadBrandInfos, PollAborts, Submit,
              SelectCompleted, CheckDoneCount, AggregateBatch,
              AggregationAborts, BeginExecution, EndExecution, PhaseOK
  <2>1. (pc \notin {"mark", "load", "submit"} => rows = {})'
    BY DEF AfterCheck, Up
  <2>2. (pc = "mark" => \A r \in rows : status[r] = "PENDING")'
    <3>1. ASSUME NEW t \in Threads, EndExecution(t)
          PROVE  (pc = "mark" => \A r \in rows : status[r] = "PENDING")'
      <4>1. thread[t] \in Held
        BY <3>1 DEF Held, OnThread
      <4>2. status[thread[t]] = "RUNNING"
        BY <4>1 DEF HoldingInv, HeldIsRunning
      <4>3. rows \subseteq Run
        BY DEF TypeOK, WorkerTypeOK
      <4> QED BY <3>1, <4>2, <4>3 DEF TypeOK, TableTypeOK
    <3>2. ASSUME NEW t \in Threads, BeginExecution(t)
          PROVE  (pc = "mark" => \A r \in rows : status[r] = "PENDING")'
      BY <3>2 DEF tableVars
    <3>3. CASE SelectPending
      BY <3>3 DEF WithStatus, tableVars
    <3> QED BY <3>1, <3>2, <3>3 DEF AfterCheck, tableVars
  <2>3. (pc \notin {"check", "write"} => toCheck = {})'
    BY DEF AfterCheck, Up
  <2>4. (~Up => queue = EmptyQueues /\ thread = IdleThreads)'
    <3>1. ASSUME NEW t \in Threads, BeginExecution(t) \/ EndExecution(t), ~Up
          PROVE  FALSE
      <4>1. t[1] \in CliProviders
        BY DEF Threads
      <4> QED BY <3>1, <4>1 DEF EmptyQueues, IdleThreads
    <3> QED BY <3>1 DEF AfterCheck, Up
  <2> QED BY <2>1, <2>2, <2>3, <2>4
<1>4. CASE UNCHANGED vars
  BY <1>0, <1>4 DEF PhaseOK, Up, vars, tableVars, workerVars
<1> QED BY <1>1, <1>2, <1>3, <1>4 DEF Next

LEMMA HoldingStep == TypeOK /\ HoldingInv /\ [Next]_vars => HoldingInv'
<1> SUFFICES ASSUME TypeOK, HoldingInv, [Next]_vars
             PROVE  OneHolder' /\ HeldIsRunning' /\ JobsMatchPool'
  BY PhaseStep DEF HoldingInv
<1>1. OneHolder /\ HeldIsRunning /\ JobsMatchPool /\ PhaseOK
  BY DEF HoldingInv
<1>2. CASE CatalogNext /\ UNCHANGED <<tableVars, request, workerVars>>
  <2>1. UNCHANGED <<status, queue, thread, pc, rows>>
    BY <1>2 DEF tableVars, workerVars
  <2> QED BY <1>1, <2>1, HoldingKept DEF Claimed
<1>3. CASE RunnerNext /\ UNCHANGED workerVars
  <2>1. UNCHANGED <<queue, thread, pc, rows>>
    BY <1>3 DEF workerVars
  <2>2. \A r \in Run : status[r] = "RUNNING" => status'[r] = "RUNNING"
    BY <1>3, RunnerKeepsActive
  <2> QED BY <1>1, <2>1, <2>2, HoldingKept DEF Claimed
<1>4. CASE WorkerNext /\ UNCHANGED request
  <2>1. CASE \/ Stop \/ Shutdown \/ Exit \/ SelectPending \/ LoadBrandInfos
             \/ PollAborts \/ SelectCompleted \/ AggregateBatch
             \/ AggregationAborts \/ \E b \in Batches : CheckDoneCount(b)
    <3> USE <2>1 DEF Stop, Shutdown, Exit, SelectPending, LoadBrandInfos,
                PollAborts, SelectCompleted, AggregateBatch,
                AggregationAborts, CheckDoneCount
    <3>1. UNCHANGED <<status, queue, thread>>
      BY DEF tableVars
    <3>2. Claimed' \subseteq Claimed
      BY DEF Claimed, AfterCheck
    <3> QED BY <1>1, <3>1, <3>2, HoldingKept
  <2>2. CASE Start
    <3>1. queue' = EmptyQueues /\ thread' = IdleThreads
      BY <1>1, <2>2 DEF Start, PhaseOK
    <3>2. Claimed' = {}
      BY <2>2 DEF Start, Claimed
    <3> QED BY <3>1, <3>2, NothingHeld
  <2>3. CASE Crash
    <3>1. queue' = EmptyQueues /\ thread' = IdleThreads /\ Claimed' = {}
      BY <2>3 DEF Crash, Claimed
    <3> QED BY <3>1, NothingHeld
  <2>4. CASE MarkRunning
    BY <2>4, MarkingHolds
  <2>5. ASSUME NEW r \in Run, Submit(r)
        PROVE  OneHolder' /\ HeldIsRunning' /\ JobsMatchPool'
    BY <2>5, SubmittingHolds
  <2>6. ASSUME NEW t \in Threads, BeginExecution(t)
        PROVE  OneHolder' /\ HeldIsRunning' /\ JobsMatchPool'
    BY <2>6, BeginningHolds
  <2>7. ASSUME NEW t \in Threads, EndExecution(t)
        PROVE  OneHolder' /\ HeldIsRunning' /\ JobsMatchPool'
    BY <2>7, EndingHolds
  <2> QED BY <1>4, <2>1, <2>2, <2>3, <2>4, <2>5, <2>6, <2>7
          DEF WorkerNext, PollStep
<1>5. CASE UNCHANGED vars
  <2>1. UNCHANGED <<status, queue, thread, pc, rows>>
    BY <1>5 DEF vars, tableVars, workerVars
  <2> QED BY <1>1, <2>1, HoldingKept DEF Claimed
<1> QED BY <1>2, <1>3, <1>4, <1>5 DEF Next

(* No two holders of one run, and every held run RUNNING, whatever crashes, *)
(* aborted polls and failed commits come in between.                        *)
THEOREM RunsAreHeldOnce == Spec => [](OneHolder /\ HeldIsRunning)
<1>1. HoldingInv => OneHolder /\ HeldIsRunning
  BY DEF HoldingInv
<1> QED
  BY TypeInit, TypeStep, HoldingInit, HoldingStep, <1>1, PTL DEF Spec

LEMMA HoldingCorrect == Spec => []HoldingInv
  BY TypeInit, TypeStep, HoldingInit, HoldingStep, PTL DEF Spec

-----------------------------------------------------------------------------
(* Aggregation only of batches at rest.                                    *)

(* Only the main thread's UPDATE makes a run RUNNING. *)
LEMMA NoNewRunning ==
    ASSUME TypeOK, [Next]_vars, ~MarkRunning, NEW r \in Run,
           status'[r] = "RUNNING"
    PROVE  status[r] = "RUNNING"
<1>1. CASE CatalogNext /\ UNCHANGED <<tableVars, request, workerVars>>
  BY <1>1 DEF tableVars
<1>2. CASE RunnerNext /\ UNCHANGED workerVars
  <2>1. ASSUME NEW w \in WebWorkers,
               TriggerBatch(w) \/ ReadExistingKeys(w) \/ RequestKilled(w)
        PROVE  status[r] = "RUNNING"
    BY <2>1 DEF TriggerBatch, ReadExistingKeys, RequestKilled, tableVars
  <2>2. ASSUME NEW w \in WebWorkers, EnsureExecutionRuns(w)
        PROVE  status[r] = "RUNNING"
    BY <2>2 DEF EnsureExecutionRuns
  <2>3. ASSUME NEW b \in Batches, ResumeBatch(b)
        PROVE  status[r] = "RUNNING"
    BY <2>3 DEF ResumeBatch
  <2> QED BY <1>2, <2>1, <2>2, <2>3 DEF RunnerNext
<1>3. CASE WorkerNext /\ UNCHANGED request
  <2>1. CASE Start
    BY <2>1 DEF Start
  <2>2. ASSUME NEW t \in Threads, EndExecution(t)
        PROVE  status[r] = "RUNNING"
    BY <2>2 DEF EndExecution, TypeOK, TableTypeOK
  <2> QED
    BY <1>3, <2>1, <2>2
    DEF WorkerNext, PollStep, Stop, Shutdown, Exit, Crash, SelectPending,
        LoadBrandInfos, PollAborts, Submit, SelectCompleted, CheckDoneCount,
        AggregateBatch, AggregationAborts, BeginExecution, tableVars
<1>4. CASE UNCHANGED vars
  BY <1>4 DEF vars, tableVars
<1> QED BY <1>1, <1>2, <1>3, <1>4 DEF Next

LEMMA SettledStep ==
    TypeOK /\ PhaseOK /\ AggregatesSettledBatches /\ [Next]_vars
        => AggregatesSettledBatches'
<1> DEFINE Chosen == toCheck \cup (IF pc = "write" THEN {current.batch} ELSE {})
<1> SUFFICES ASSUME TypeOK, PhaseOK, AggregatesSettledBatches, [Next]_vars,
                    NEW b \in Chosen', NEW r \in RunsOf(b),
                    status'[r] = "RUNNING"
             PROVE  FALSE
  BY DEF AggregatesSettledBatches, RunsOf
<1>1. r \in Run /\ r.batch = b
  BY DEF RunsOf
<1>2. CASE MarkRunning
  BY <1>2 DEF MarkRunning, PhaseOK
<1>3. CASE ~MarkRunning
  <2>1. status[r] = "RUNNING"
    BY <1>1, <1>3, NoNewRunning
  <2>2. b \notin Chosen
    BY <2>1 DEF AggregatesSettledBatches
  <2>3. CASE SelectCompleted
    BY <1>1, <2>1, <2>3
    DEF SelectCompleted, CompletedBatchIds, Completed, RunsOf, AfterCheck
  <2>4. CASE /\ ~SelectCompleted
             /\ WorkerNext
    BY <1>3, <2>2, <2>4
    DEF WorkerNext, PollStep, Start, Stop, Shutdown, Exit, Crash,
        SelectPending, LoadBrandInfos, PollAborts, Submit, CheckDoneCount,
        AggregateBatch, AggregationAborts, BeginExecution, EndExecution,
        AfterCheck
  <2>5. CASE UNCHANGED workerVars
    BY <2>2, <2>5 DEF workerVars
  <2> QED BY <2>3, <2>4, <2>5 DEF Next, vars, workerVars
<1> QED BY <1>2, <1>3

(* No run of a batch executes while its snapshots are computed. *)
THEOREM SettledBatches == Spec => []AggregatesSettledBatches
<1>1. Init => AggregatesSettledBatches
  BY DEF Init, WorkerInit, AggregatesSettledBatches
<1>2. HoldingInv => PhaseOK
  BY DEF HoldingInv
<1> QED
  BY <1>1, <1>2, SettledStep, TypeCorrect, HoldingCorrect, PTL DEF Spec

-----------------------------------------------------------------------------
(* Every RUNNING run has a holder, when no query of the first half of a    *)
(* poll and no commit of a result fails and every provider is known.       *)

LEMMA RunningStep ==
    ASSUME Providers \subseteq CliProviders, Faults \cap {"poll", "commit"} = {},
           TypeOK, HoldingInv, RunningIsHeld, [Next]_vars
    PROVE  RunningIsHeld'
<1> SUFFICES ASSUME pc' # "down", NEW r \in Run, status'[r] = "RUNNING"
             PROVE  r \in Held'
  BY DEF RunningIsHeld, WithStatus
<1>1. CASE MarkRunning
  <2>1. Claimed' = rows /\ UNCHANGED <<queue, thread>> /\ Claimed = {}
    BY <1>1 DEF MarkRunning, Claimed
  <2>2. Queued' = Queued /\ OnThread' = OnThread
    BY <2>1 DEF Queued, InQueue, OnThread
  <2>3. r \in rows \/ r \in Held
    BY <1>1 DEF MarkRunning, RunningIsHeld, WithStatus
  <2> QED BY <2>1, <2>2, <2>3 DEF Held
<1>2. CASE ~MarkRunning
  <2>1. status[r] = "RUNNING"
    BY <1>2, NoNewRunning
  <2>2. ~Start /\ pc # "down"
    <3>1. ~Start
      BY <2>1 DEF Start
    <3>2. ASSUME pc = "down", NEW t \in Threads,
                 BeginExecution(t) \/ EndExecution(t)
          PROVE  FALSE
      <4>1. t[1] \in CliProviders
        BY DEF Threads
      <4> QED BY <3>2, <4>1 DEF HoldingInv, PhaseOK, Up, EmptyQueues,
                                IdleThreads, BeginExecution, EndExecution
    <3> QED
      BY <3>1, <3>2, <1>2
      DEF Next, vars, WorkerNext, PollStep, Stop, Shutdown, Exit, Crash, Up,
          SelectPending, LoadBrandInfos, PollAborts, Submit, SelectCompleted,
          CheckDoneCount, AggregateBatch, AggregationAborts, workerVars
  <2>3. r \in Held
    BY <2>1, <2>2 DEF RunningIsHeld, WithStatus
  <2>4. CASE UNCHANGED <<queue, thread>> /\ Claimed' = Claimed
    <3>1. Queued' = Queued /\ OnThread' = OnThread
      BY <2>4 DEF Queued, InQueue, OnThread
    <3> QED BY <2>3, <2>4, <3>1 DEF Held
  <2>5. ASSUME NEW s \in Run, Submit(s) PROVE r \in Held'
    <3>1. s.provider \in CliProviders
      BY DEF Run
    <3> QED BY <2>3, <2>5, <3>1, SubmittingHolds
  <2>6. ASSUME NEW t \in Threads, BeginExecution(t) PROVE r \in Held'
    BY <2>3, <2>6, BeginningHolds
  <2>7. ASSUME NEW t \in Threads, EndExecution(t) PROVE r \in Held'
    <3>1. status'[thread[t]] \in {"SUCCESS", "FAILED"}
      BY <2>7 DEF EndExecution, TypeOK, TableTypeOK, WorkerTypeOK
    <3> QED BY <2>1, <2>3, <2>7, <3>1, EndingHolds
  <2>8. CASE CatalogNext /\ UNCHANGED <<tableVars, request, workerVars>>
    BY <2>4, <2>8 DEF workerVars, Claimed
  <2>9. CASE RunnerNext /\ UNCHANGED workerVars
    BY <2>4, <2>9 DEF workerVars, Claimed
  <2>10. CASE WorkerNext
    <3>1. ~Crash /\ ~PollAborts
      BY DEF Crash, PollAborts
    <3>2. CASE \/ Stop \/ Shutdown \/ Exit \/ SelectPending \/ LoadBrandInfos
               \/ SelectCompleted \/ AggregateBatch \/ AggregationAborts
               \/ \E b \in Batches : CheckDoneCount(b)
      BY <2>4, <3>2
      DEF Stop, Shutdown, Exit, SelectPending, LoadBrandInfos,
          SelectCompleted, AggregateBatch, AggregationAborts, CheckDoneCount,
          Claimed, AfterCheck
    <3> QED BY <1>2, <2>2, <2>5, <2>6, <2>7, <2>10, <3>1, <3>2
            DEF WorkerNext, PollStep
  <2>11. CASE UNCHANGED vars
    BY <2>4, <2>11 DEF vars, workerVars, Claimed
  <2> QED BY <2>8, <2>9, <2>10, <2>11 DEF Next
<1> QED BY <1>1, <1>2

(* No run stays RUNNING without a holder, unless one of the three failures  *)
(* excluded here occurs; each of them does leave one behind.                *)
THEOREM RunningRunsAreHeld ==
    ASSUME Providers \subseteq CliProviders, Faults \cap {"poll", "commit"} = {}
    PROVE  Spec => []RunningIsHeld
<1>1. Init => RunningIsHeld
  BY DEF Init, TableInit, RunningIsHeld, WithStatus
<1>2. TypeOK /\ HoldingInv /\ RunningIsHeld /\ [Next]_vars => RunningIsHeld'
  BY RunningStep
<1> QED
  BY <1>1, <1>2, TypeCorrect, HoldingCorrect, PTL DEF Spec

-----------------------------------------------------------------------------
(* Triggers.                                                               *)

(* What a planned request still has to insert covers what is missing. *)
PlanCovers ==
    \A w \in WebWorkers :
        \A r \in request[w].wanted :
            \/ request[w].step = "planned" /\ r \in request[w].missing
            \/ status[r] # "ABSENT"

(* A row is never deleted. *)
LEMMA RowsStay ==
    ASSUME TypeOK, HoldingInv, [Next]_vars, NEW r \in Run, status[r] # "ABSENT"
    PROVE  status'[r] # "ABSENT"
<1>1. CASE CatalogNext /\ UNCHANGED <<tableVars, request, workerVars>>
  BY <1>1 DEF tableVars
<1>2. CASE RunnerNext /\ UNCHANGED workerVars
  <2>1. ASSUME NEW w \in WebWorkers,
               TriggerBatch(w) \/ ReadExistingKeys(w) \/ RequestKilled(w)
        PROVE  status'[r] # "ABSENT"
    BY <2>1 DEF TriggerBatch, ReadExistingKeys, RequestKilled, tableVars
  <2>2. ASSUME NEW w \in WebWorkers, EnsureExecutionRuns(w)
        PROVE  status'[r] # "ABSENT"
    BY <2>2 DEF EnsureExecutionRuns
  <2>3. ASSUME NEW b \in Batches, ResumeBatch(b)
        PROVE  status'[r] # "ABSENT"
    BY <2>3 DEF ResumeBatch
  <2> QED BY <1>2, <2>1, <2>2, <2>3 DEF RunnerNext
<1>3. CASE WorkerNext /\ UNCHANGED request
  <2>1. CASE Start \/ MarkRunning
    BY <2>1 DEF Start, MarkRunning
  <2>2. ASSUME NEW t \in Threads, EndExecution(t)
        PROVE  status'[r] # "ABSENT"
    BY <2>2 DEF EndExecution, TypeOK, TableTypeOK
  <2> QED
    BY <1>3, <2>1, <2>2
    DEF WorkerNext, PollStep, Stop, Shutdown, Exit, Crash, SelectPending,
        LoadBrandInfos, PollAborts, Submit, SelectCompleted, CheckDoneCount,
        AggregateBatch, AggregationAborts, BeginExecution, tableVars
<1>4. CASE UNCHANGED vars
  BY <1>4 DEF vars, tableVars
<1> QED BY <1>1, <1>2, <1>3, <1>4 DEF Next

LEMMA PlanStep ==
    TypeOK /\ HoldingInv /\ PlanCovers /\ [Next]_vars => PlanCovers'
<1> SUFFICES ASSUME TypeOK, HoldingInv, PlanCovers, [Next]_vars,
                    NEW w \in WebWorkers, NEW r \in request'[w].wanted
             PROVE  \/ request'[w].step = "planned" /\ r \in request'[w].missing
                    \/ status'[r] # "ABSENT"
  BY DEF PlanCovers
<1>1. request'[w].wanted \subseteq Run
  BY TypeStep DEF TypeOK, RunnerTypeOK, Request
<1>2. CASE request'[w] = request[w]
  BY <1>1, <1>2, RowsStay DEF PlanCovers
<1>3. ASSUME NEW w2 \in WebWorkers,
             \/ TriggerBatch(w2) \/ ReadExistingKeys(w2)
             \/ EnsureExecutionRuns(w2) \/ RequestKilled(w2),
             w2 # w
      PROVE  request'[w] = request[w]
  BY <1>3 DEF TriggerBatch, ReadExistingKeys, EnsureExecutionRuns,
              RequestKilled, TypeOK, RunnerTypeOK
<1>4. CASE TriggerBatch(w) \/ RequestKilled(w)
  BY <1>4 DEF TriggerBatch, RequestKilled, NoRequest, TypeOK, RunnerTypeOK
<1>5. CASE ReadExistingKeys(w)
  <2>1. request'[w].step = "planned"
        /\ request'[w].wanted = Combinations(request[w].batch)
        /\ request'[w].missing = Combinations(request[w].batch)
                                     \ ExistingKeys(request[w].batch)
    BY <1>5 DEF ReadExistingKeys, TypeOK, RunnerTypeOK
  <2>2. status' = status
    BY <1>5 DEF ReadExistingKeys, tableVars
  <2> QED BY <2>1, <2>2 DEF ExistingKeys, Existing
<1>6. CASE EnsureExecutionRuns(w)
  <2>1. CASE request'[w] = NoRequest
    BY <2>1 DEF NoRequest
  <2>2. CASE request'[w] # NoRequest
    <3>1. /\ request'[w].wanted = request[w].wanted
          /\ \A s \in Run : s \in request[w].missing => status'[s] = "PENDING"
      BY <1>6, <2>2 DEF EnsureExecutionRuns, TypeOK, RunnerTypeOK
    <3> QED BY <1>1, <3>1, RowsStay DEF PlanCovers
  <2> QED BY <2>1, <2>2
<1>7. CASE CatalogNext /\ UNCHANGED <<tableVars, request, workerVars>>
  BY <1>2, <1>7
<1>8. CASE RunnerNext
  <2>1. ASSUME NEW b \in Batches, ResumeBatch(b) PROVE request'[w] = request[w]
    BY <2>1 DEF ResumeBatch
  <2> QED BY <1>2, <1>3, <1>4, <1>5, <1>6, <1>8, <2>1 DEF RunnerNext
<1>9. CASE WorkerNext /\ UNCHANGED request
  BY <1>2, <1>9
<1>10. CASE UNCHANGED vars
  BY <1>2, <1>10 DEF vars
<1> QED BY <1>7, <1>8, <1>9, <1>10 DEF Next

(* An answered trigger has left no combination it read without a run. *)
THEOREM TriggersAreComplete == Spec => []AnsweredTriggerIsComplete
<1>1. Init => PlanCovers
  BY DEF Init, RunnerInit, NoRequest, PlanCovers
<1>2. PlanCovers => AnsweredTriggerIsComplete
  BY DEF PlanCovers, AnsweredTriggerIsComplete
<1> QED
  BY <1>1, <1>2, PlanStep, TypeCorrect, HoldingCorrect, PTL DEF Spec

-----------------------------------------------------------------------------
(* Skipped batches.  Without resume a finished run stays as it is, so that  *)
(* the number of finished runs of a batch tells whether it has changed.    *)

Finished == {"SUCCESS", "FAILED"}

LEMMA ResultsStay ==
    ASSUME "resume" \notin Workload, TypeOK, HoldingInv, [Next]_vars,
           NEW r \in Run, status'[r] # status[r]
    PROVE  status[r] \notin Finished /\ (status'[r] \in Finished => status[r] = "RUNNING")
<1>1. CASE CatalogNext /\ UNCHANGED <<tableVars, request, workerVars>>
  BY <1>1 DEF tableVars
<1>2. CASE RunnerNext /\ UNCHANGED workerVars
  <2>1. PICK w \in WebWorkers : EnsureExecutionRuns(w)
    BY <1>2 DEF RunnerNext, TriggerBatch, ReadExistingKeys, RequestKilled,
       ResumeBatch, tableVars
  <2> QED BY <2>1 DEF EnsureExecutionRuns, Finished
<1>3. CASE WorkerNext /\ UNCHANGED request
  <2>1. CASE Start
    BY <2>1 DEF Start, Finished
  <2>2. CASE MarkRunning
    BY <2>2 DEF MarkRunning, HoldingInv, PhaseOK, Finished
  <2>3. ASSUME NEW t \in Threads, EndExecution(t)
        PROVE  status[r] = "RUNNING"
    <3>1. r = thread[t]
      BY <2>3 DEF EndExecution, TypeOK, TableTypeOK
    <3>2. r \in Held
      BY <2>3, <3>1 DEF EndExecution, Held, OnThread
    <3> QED BY <3>2 DEF HoldingInv, HeldIsRunning
  <2> QED
    BY <1>3, <2>1, <2>2, <2>3
    DEF WorkerNext, PollStep, Stop, Shutdown, Exit, Crash, SelectPending,
        LoadBrandInfos, PollAborts, Submit, SelectCompleted, CheckDoneCount,
        AggregateBatch, AggregationAborts, BeginExecution, tableVars, Finished
<1>4. CASE UNCHANGED vars
  BY <1>4 DEF vars, tableVars
<1> QED BY <1>1, <1>2, <1>3, <1>4 DEF Next

(* Either nothing has changed, or the count has grown. *)
LEMMA CountTellsChange ==
    ASSUME "resume" \notin Workload, TypeOK, HoldingInv, [Next]_vars,
           NEW b \in Batches
    PROVE  /\ DoneCount(b) \in Nat /\ DoneCount(b)' \in Nat
           /\ \/ DoneCount(b)' = DoneCount(b) /\ CountedRuns(b)' = CountedRuns(b)
              \/ /\ DoneCount(b)' > DoneCount(b)
                 /\ \E r \in RunsOf(b) : status[r] = "RUNNING"
<1> DEFINE D == {r \in RunsOf(b) : status[r] \in Finished}
           E == {r \in RunsOf(b) : status'[r] \in Finished}
<1>1. DoneCount(b) = Cardinality(D) /\ DoneCount(b)' = Cardinality(E)
  BY DEF DoneCount, RunsOf, Finished
<1>2. RunsOf(b) \subseteq Run
  BY DEF RunsOf
<1>3. D \subseteq E
  BY <1>2, ResultsStay
<1>6. Cardinality(D) \in Nat /\ Cardinality(E) \in Nat
  <2>1. IsFiniteSet(E) /\ IsFiniteSet(D)
    BY <1>2, RunIsFinite, FS_Subset
  <2> QED BY <2>1, FS_CardinalityType
<1>4. CASE D = E
  <2>1. \A r \in RunsOf(b) : status'[r] = "SUCCESS" <=> status[r] = "SUCCESS"
    BY <1>2, <1>4, ResultsStay DEF Finished
  <2> QED BY <1>1, <1>4, <1>6, <2>1 DEF CountedRuns, RunsOf
<1>5. CASE D # E
  <2>1. PICK r \in E : r \notin D
    BY <1>3, <1>5
  <2>2. r \in RunsOf(b) /\ status[r] = "RUNNING"
    BY <1>2, <2>1, ResultsStay
  <2>3. IsFiniteSet(E) /\ IsFiniteSet(D)
    BY <1>2, RunIsFinite, FS_Subset
  <2>4. /\ Cardinality(D) \in Nat /\ Cardinality(E) \in Nat
        /\ Cardinality(D) <= Cardinality(E)
        /\ Cardinality(D) # Cardinality(E)
    <3> HIDE DEF D, E
    <3> QED BY <1>3, <1>5, <2>3, FS_Subset, FS_CardinalityType
  <2> QED BY <1>1, <2>2, <2>4
<1> QED BY <1>4, <1>5

(* The count that is cached is not larger than the count of now, and where  *)
(* they are equal the snapshot is that of the successes of now; the count  *)
(* that is about to be cached is that of now.                              *)
CacheOK ==
    /\ \A b \in Batches : lastDone[b] # Never =>
          /\ lastDone[b] <= DoneCount(b)
          /\ lastDone[b] = DoneCount(b) => snapshot[b].runs = CountedRuns(b)
    /\ pc = "write" => current.done = DoneCount(current.batch)

LEMMA CacheStep ==
    ASSUME "resume" \notin Workload, TypeOK, HoldingInv,
           AggregatesSettledBatches, CacheOK, [Next]_vars
    PROVE  CacheOK'
<1>1. ASSUME UNCHANGED <<lastDone, snapshot>>, pc' = "write" => UNCHANGED <<pc, current>>
      PROVE  CacheOK'
  <2>1. ASSUME NEW b \in Batches, lastDone[b] # Never
        PROVE  /\ lastDone[b] <= DoneCount(b)'
               /\ lastDone[b] = DoneCount(b)' => snapshot[b].runs = CountedRuns(b)'
    <3>1. lastDone[b] \in Nat
      BY <2>1 DEF TypeOK, WorkerTypeOK
    <3> QED BY <2>1, <3>1, CountTellsChange DEF CacheOK
  <2>2. ASSUME pc' = "write" PROVE current.done = DoneCount(current.batch)'
    <3>1. pc = "write" /\ current' = current /\ current.batch \in Batches
      BY <1>1, <2>2 DEF TypeOK, WorkerTypeOK
    <3>2. \A r \in RunsOf(current.batch) : status[r] # "RUNNING"
      BY <3>1 DEF AggregatesSettledBatches
    <3>3. PICK b \in Batches : b = current.batch
      BY <3>1
    <3>4. DoneCount(b)' = DoneCount(b)
      BY <3>2, <3>3, CountTellsChange
    <3> QED BY <3>1, <3>3, <3>4 DEF CacheOK
  <2>3. pc' = "write" => current'.done = DoneCount(current.batch)'
    BY <1>1, <2>2
  <2> QED BY <1>1, <2>1, <2>3 DEF CacheOK
<1>3. CASE Start
  BY <1>3 DEF Start, CacheOK
<1>4. ASSUME NEW b \in Batches, CheckDoneCount(b)
      PROVE  CacheOK'
  <2>1. UNCHANGED <<status, lastDone, snapshot>>
    BY <1>4 DEF CheckDoneCount, tableVars
  <2>2. pc' = "write" => current' = [batch |-> b, done |-> DoneCount(b)]
    BY <1>4 DEF CheckDoneCount, AfterCheck
  <2> QED BY <2>1, <2>2 DEF CacheOK, DoneCount, CountedRuns
<1>5. CASE AggregateBatch
  <2>1. status' = status /\ pc' # "write" /\ current.done = DoneCount(current.batch)
    BY <1>5 DEF AggregateBatch, AfterCheck, CacheOK
  <2>2. CASE UNCHANGED <<snapshot, lastDone>>
    BY <2>1, <2>2 DEF CacheOK, DoneCount, CountedRuns
  <2>3. CASE /\ AggregateWeek(current.batch)
             /\ lastDone' = [lastDone EXCEPT ![current.batch] = current.done]
    <3>1. ASSUME NEW b \in Batches, lastDone'[b] # Never
          PROVE  /\ lastDone'[b] <= DoneCount(b)
                 /\ lastDone'[b] = DoneCount(b) => snapshot'[b].runs = CountedRuns(b)
      <4>1. CASE b = current.batch
        BY <2>1, <2>3, <4>1, DoneCountType
        DEF AggregateWeek, TypeOK, WorkerTypeOK, TableTypeOK
      <4>2. CASE b # current.batch
        BY <2>3, <3>1, <4>2
        DEF AggregateWeek, CacheOK, TypeOK, WorkerTypeOK, TableTypeOK
      <4> QED BY <4>1, <4>2
    <3> QED BY <2>1, <3>1 DEF CacheOK, DoneCount, CountedRuns
  <2> QED BY <1>5, <2>2, <2>3 DEF AggregateBatch
<1>6. CASE CatalogNext /\ UNCHANGED <<tableVars, request, workerVars>>
  BY <1>1, <1>6 DEF tableVars, workerVars
<1>7. CASE RunnerNext /\ UNCHANGED workerVars
  <2>1. UNCHANGED snapshot
    BY <1>7 DEF RunnerNext, TriggerBatch, ReadExistingKeys, EnsureExecutionRuns,
       RequestKilled, ResumeBatch, tableVars
  <2> QED BY <1>1, <1>7, <2>1 DEF workerVars
<1>8. CASE WorkerNext
  <2>1. CASE \/ Stop \/ Shutdown \/ Exit \/ Crash
             \/ SelectPending \/ MarkRunning \/ LoadBrandInfos \/ PollAborts
             \/ SelectCompleted \/ AggregationAborts
             \/ \E r \in Run : Submit(r)
             \/ \E t \in Threads : BeginExecution(t) \/ EndExecution(t)
    BY <1>1, <2>1
    DEF Stop, Shutdown, Exit, Crash, SelectPending, MarkRunning, LoadBrandInfos,
        PollAborts, SelectCompleted, AggregationAborts, Submit, BeginExecution,
        EndExecution, AfterCheck, tableVars
  <2> QED BY <1>3, <1>4, <1>5, <1>8, <2>1 DEF WorkerNext, PollStep
<1>9. CASE UNCHANGED vars
  BY <1>1, <1>9 DEF vars, tableVars, workerVars
<1> QED BY <1>6, <1>7, <1>8, <1>9 DEF Next

(* A batch that the worker leaves alone because its count of finished runs *)
(* is the one it has cached has the snapshot of its successes of now, as   *)
(* long as no run is resumed (_aggregate_completed_batches()).             *)
THEOREM SkippedBatchesAreFresh ==
    ASSUME "resume" \notin Workload
    PROVE  Spec => []SkippedBatchIsFresh
<1>1. Init => CacheOK
  BY DEF Init, WorkerInit, CacheOK
<1>2. TypeOK /\ HoldingInv /\ AggregatesSettledBatches /\ CacheOK /\ [Next]_vars
         => CacheOK'
  BY CacheStep
<1>3. TypeOK /\ CacheOK => SkippedBatchIsFresh
  <2> SUFFICES ASSUME TypeOK, CacheOK, NEW b \in Batches, lastDone[b] = DoneCount(b)
               PROVE  snapshot[b].runs = CountedRuns(b)
    BY DEF SkippedBatchIsFresh
  <2>1. lastDone[b] # Never
    BY DoneCountType DEF Never
  <2> QED BY <2>1 DEF CacheOK
<1> QED
  BY <1>1, <1>2, <1>3, TypeCorrect, HoldingCorrect, SettledBatches, PTL DEF Spec

-----------------------------------------------------------------------------
(***************************************************************************)
(* BatchPipeline implements RunLifecycle, the set of held runs standing    *)
(* for the runs being executed: each action of the pipeline is an action   *)
(* of the life cycle or changes neither the table nor who holds a run.     *)
(***************************************************************************)
LEMMA LifecycleInit == Init => Lifecycle!Init
<1> SUFFICES ASSUME Init PROVE Lifecycle!Init
  OBVIOUS
<1>1. queue = EmptyQueues /\ thread = IdleThreads /\ pc = "stopped"
  BY DEF Init, WorkerInit
<1>2. \A v \in CliProviders : InQueue(v) = {}
  BY <1>1 DEF InQueue, EmptyQueues
<1>3. Queued = {} /\ OnThread = {} /\ Claimed = {}
  BY <1>1, <1>2 DEF Queued, OnThread, Claimed, IdleThreads
<1>4. Held = {}
  BY <1>3 DEF Held
<1> QED BY <1>4 DEF Init, TableInit, Lifecycle!Init

(* A step that touches neither the jobs nor the main thread's claim. *)
LEMMA HeldKept ==
    ASSUME UNCHANGED <<queue, thread>>, Claimed' = Claimed
    PROVE  Held' = Held
  BY DEF Held, Queued, InQueue, OnThread

(* Requests create runs and retry failures. *)
LEMMA RunnerImplements ==
    ASSUME TypeOK, RunnerNext, UNCHANGED workerVars
    PROVE  Lifecycle!Next \/ UNCHANGED Lifecycle!vars
<1>1. Held' = Held
  BY HeldKept DEF workerVars, Claimed
<1>2. ASSUME NEW w \in WebWorkers,
             TriggerBatch(w) \/ ReadExistingKeys(w) \/ RequestKilled(w)
      PROVE  UNCHANGED Lifecycle!vars
  BY <1>1, <1>2 DEF TriggerBatch, ReadExistingKeys, RequestKilled, tableVars,
                    Lifecycle!vars
<1>3. ASSUME NEW w \in WebWorkers, EnsureExecutionRuns(w)
      PROVE  Lifecycle!Next \/ UNCHANGED Lifecycle!vars
  <2> DEFINE S == request[w].missing
  <2>1. S \in SUBSET Run
    BY DEF TypeOK, RunnerTypeOK, Request
  <2>2. CASE \A r \in S : status[r] = "ABSENT"
    <3>1. status' = [r \in Run |-> IF r \in S THEN "PENDING" ELSE status[r]]
      BY <1>3, <2>2 DEF EnsureExecutionRuns
    <3>2. Lifecycle!Create(S)
      BY <1>1, <2>1, <2>2, <3>1
      DEF Lifecycle!Create, Lifecycle!In, Lifecycle!Move
    <3> QED BY <2>1, <3>2 DEF Lifecycle!Next
  <2>3. CASE ~ \A r \in S : status[r] = "ABSENT"
    BY <1>1, <1>3, <2>3 DEF EnsureExecutionRuns, Lifecycle!vars
  <2> QED BY <2>2, <2>3
<1>4. ASSUME NEW b \in Batches, ResumeBatch(b)
      PROVE  Lifecycle!Next
  <2> DEFINE S == {r \in Run : r.batch = b /\ status[r] = "FAILED"}
  <2>1. status' = [r \in Run |-> IF r \in S THEN "PENDING" ELSE status[r]]
    BY <1>4 DEF ResumeBatch
  <2>2. Lifecycle!Retry(S)
    BY <1>1, <2>1 DEF Lifecycle!Retry, Lifecycle!In, Lifecycle!Move
  <2>3. S \in SUBSET Run
    OBVIOUS
  <2> QED BY <2>2, <2>3 DEF Lifecycle!Next
<1> QED BY <1>2, <1>3, <1>4 DEF RunnerNext

(* The process starts with nothing held and puts the RUNNING runs back. *)
LEMMA StartImplements ==
    ASSUME TypeOK, HoldingInv, Start
    PROVE  Lifecycle!Next
<1>1. queue = EmptyQueues /\ thread = IdleThreads
  BY DEF Start, HoldingInv, PhaseOK
<1>2. Claimed = {} /\ Claimed' = {}
  BY DEF Start, Claimed, Up
<1>3. \A v \in CliProviders : InQueue(v) = {}
  BY <1>1 DEF InQueue, EmptyQueues
<1>4. Held = {}
  BY <1>1, <1>2, <1>3 DEF Held, Queued, OnThread, IdleThreads
<1>5. Held' = {}
  BY <1>2, <1>4, HeldKept DEF Start
<1>6. status' = [r \in Run |-> IF r \in {s \in Run : status[s] = "RUNNING"}
                               THEN "PENDING" ELSE status[r]]
  BY DEF Start
<1>7. Lifecycle!PutBack
  BY <1>4, <1>5, <1>6 DEF Lifecycle!PutBack, Lifecycle!In, Lifecycle!Move
<1> QED BY <1>7 DEF Lifecycle!Next

(* The UPDATE of the selected rows hands them out. *)
LEMMA MarkingImplements ==
    ASSUME TypeOK, HoldingInv, MarkRunning
    PROVE  Lifecycle!Next
<1>1. Claimed = {} /\ Claimed' = rows /\ UNCHANGED <<queue, thread>>
  BY DEF MarkRunning, Claimed
<1>2. Held' = Held \cup rows
  BY <1>1 DEF Held, Queued, InQueue, OnThread
<1>3. rows \in SUBSET Run
  BY DEF TypeOK, WorkerTypeOK
<1>4. \A r \in rows : status[r] = "PENDING"
  BY DEF MarkRunning, HoldingInv, PhaseOK
<1>5. Lifecycle!HandOut(rows)
  BY <1>2, <1>3, <1>4
  DEF MarkRunning, Lifecycle!HandOut, Lifecycle!In, Lifecycle!Move
<1> QED BY <1>3, <1>5 DEF Lifecycle!Next

(* A killed process, an aborted poll, a run of an unknown provider and a    *)
(* result that cannot be committed all lose runs that were handed out.      *)
LEMMA LosingImplements ==
    ASSUME TypeOK, status' = status, NEW S, Held' = Held \ S
    PROVE  Lifecycle!Next
<1> DEFINE L == S \cap Run
<1>1. L \in SUBSET Run /\ Held' = Held \ L
  BY HeldAreRuns
<1>2. Lifecycle!Lose(L)
  BY <1>1 DEF Lifecycle!Lose
<1> QED BY <1>1, <1>2 DEF Lifecycle!Next

LEMMA CrashImplements ==
    ASSUME TypeOK, Crash
    PROVE  Lifecycle!Next
<1>1. queue' = EmptyQueues /\ thread' = IdleThreads /\ Claimed' = {}
  BY DEF Crash, Claimed
<1>2. Held' = Held \ Held
  BY <1>1, NothingHeld
<1>3. status' = status
  BY DEF Crash, tableVars
<1> QED BY <1>2, <1>3, LosingImplements

LEMMA PollAbortsImplements ==
    ASSUME TypeOK, HoldingInv, PollAborts
    PROVE  Lifecycle!Next
<1>1. UNCHANGED <<queue, thread, status>> /\ Claimed' = {}
  BY DEF PollAborts, Claimed, tableVars
<1>2. Queued' = Queued /\ OnThread' = OnThread
  BY <1>1 DEF Queued, InQueue, OnThread
<1>3. Held' = Held \ Claimed
  BY <1>1, <1>2 DEF Held, HoldingInv, OneHolder
<1> QED BY <1>1, <1>3, LosingImplements

(* A result is stored for a run that its executor held and that is RUNNING. *)
LEMMA EndingImplements ==
    ASSUME TypeOK, HoldingInv, NEW t \in Threads, EndExecution(t)
    PROVE  Lifecycle!Next
<1> DEFINE r == thread[t]
<1>1. Held' = Held \ {r}
  BY EndingHolds
<1>2. r \in Held /\ r \in Run
  BY DEF EndExecution, Held, OnThread, TypeOK, WorkerTypeOK
<1>3. status[r] = "RUNNING"
  BY <1>2 DEF HoldingInv, HeldIsRunning
<1>4. CASE status' = status
  BY <1>1, <1>4, LosingImplements
<1>5. ASSUME NEW outcome \in {"SUCCESS", "FAILED"},
             status' = [status EXCEPT ![r] = outcome]
      PROVE  Lifecycle!Next
  <2>1. status' = [s \in Run |-> IF s \in {r} THEN outcome ELSE status[s]]
    BY <1>2, <1>5 DEF TypeOK, TableTypeOK
  <2>2. Lifecycle!Finish(r, outcome)
    BY <1>1, <1>2, <1>3, <2>1
    DEF Lifecycle!Finish, Lifecycle!In, Lifecycle!Move
  <2> QED BY <1>2, <2>2 DEF Lifecycle!Next
<1> QED BY <1>4, <1>5 DEF EndExecution

LEMMA LifecycleStep ==
    TypeOK /\ HoldingInv /\ [Next]_vars
        => Lifecycle!Next \/ UNCHANGED Lifecycle!vars
<1> SUFFICES ASSUME TypeOK, HoldingInv, [Next]_vars
             PROVE  Lifecycle!Next \/ UNCHANGED Lifecycle!vars
  OBVIOUS
<1>1. CASE UNCHANGED <<status, queue, thread>> /\ Claimed' = Claimed
  BY <1>1, HeldKept DEF Lifecycle!vars
<1>2. CASE CatalogNext /\ UNCHANGED <<tableVars, request, workerVars>>
  BY <1>1, <1>2 DEF tableVars, workerVars, Claimed
<1>3. CASE RunnerNext /\ UNCHANGED workerVars
  BY <1>3, RunnerImplements
<1>4. CASE WorkerNext /\ UNCHANGED request
  <2>1. CASE \/ Stop \/ Shutdown \/ Exit \/ SelectPending \/ LoadBrandInfos
             \/ SelectCompleted \/ AggregateBatch \/ AggregationAborts
             \/ \E b \in Batches : CheckDoneCount(b)
    BY <1>1, <2>1
    DEF Stop, Shutdown, Exit, SelectPending, LoadBrandInfos, SelectCompleted,
        AggregateBatch, AggregationAborts, CheckDoneCount, Claimed,
        AfterCheck, tableVars
  <2>2. ASSUME NEW r \in Run, Submit(r)
        PROVE  Lifecycle!Next \/ UNCHANGED Lifecycle!vars
    <3>1. status' = status
      BY <2>2 DEF Submit, tableVars
    <3>2. CASE r.provider \in CliProviders
      BY <2>2, <3>1, <3>2, SubmittingHolds DEF Lifecycle!vars
    <3>3. CASE r.provider \notin CliProviders
      BY <2>2, <3>1, <3>3, SubmittingHolds, LosingImplements
    <3> QED BY <3>2, <3>3
  <2>3. ASSUME NEW t \in Threads, BeginExecution(t)
        PROVE  UNCHANGED Lifecycle!vars
    <3>1. status' = status
      BY <2>3 DEF BeginExecution, tableVars
    <3> QED BY <2>3, <3>1, BeginningHolds DEF Lifecycle!vars
  <2> QED
    BY <1>4, <2>1, <2>2, <2>3, StartImplements, CrashImplements,
       MarkingImplements, PollAbortsImplements, EndingImplements
    DEF WorkerNext, PollStep
<1>5. CASE UNCHANGED vars
  BY <1>1, <1>5 DEF vars, tableVars, workerVars, Claimed
<1> QED BY <1>2, <1>3, <1>4, <1>5 DEF Next

(* A success is never executed again and no result is overwritten, for      *)
(* every instance and every set of faults.                                  *)
THEOREM PipelineImplementsLifecycle == Spec => ImplementsLifecycle
<1>1. TypeOK /\ HoldingInv /\ [Next]_vars => [Lifecycle!Next]_(Lifecycle!vars)
  BY LifecycleStep
<1> QED
  BY <1>1, LifecycleInit, TypeCorrect, HoldingCorrect, PTL
  DEF Spec, ImplementsLifecycle, Lifecycle!Spec

(* How a run may change in one step, H being the runs somebody holds.       *)
Moved(r, H) ==
    \/ status[r] = "ABSENT" /\ status'[r] = "PENDING"
    \/ status[r] = "PENDING" /\ status'[r] = "RUNNING"
    \/ status[r] = "RUNNING" /\ status'[r] \in {"SUCCESS", "FAILED"} /\ r \in H
    \/ status[r] = "RUNNING" /\ status'[r] = "PENDING" /\ H = {}
    \/ status[r] = "FAILED" /\ status'[r] = "PENDING"

LEMMA LifecycleMoves ==
    ASSUME Lifecycle!Next, NEW r \in Run, status'[r] # status[r]
    PROVE  Moved(r, Held)
<1>1. ASSUME NEW S \in SUBSET Run, Lifecycle!Create(S) PROVE Moved(r, Held)
  BY <1>1 DEF Lifecycle!Create, Lifecycle!In, Lifecycle!Move, Moved
<1>2. ASSUME NEW S \in SUBSET Run, Lifecycle!HandOut(S) PROVE Moved(r, Held)
  BY <1>2 DEF Lifecycle!HandOut, Lifecycle!In, Lifecycle!Move, Moved
<1>3. ASSUME NEW S \in SUBSET Run, Lifecycle!Lose(S) PROVE Moved(r, Held)
  BY <1>3 DEF Lifecycle!Lose
<1>4. ASSUME NEW S \in SUBSET Run, Lifecycle!Retry(S) PROVE Moved(r, Held)
  BY <1>4 DEF Lifecycle!Retry, Lifecycle!In, Lifecycle!Move, Moved
<1>5. ASSUME NEW x \in Run, NEW outcome \in {"SUCCESS", "FAILED"},
             Lifecycle!Finish(x, outcome)
      PROVE  Moved(r, Held)
  BY <1>5 DEF Lifecycle!Finish, Lifecycle!In, Lifecycle!Move, Moved
<1>6. CASE Lifecycle!PutBack
  BY <1>6 DEF Lifecycle!PutBack, Lifecycle!In, Lifecycle!Move, Moved
<1> QED
  BY <1>1, <1>2, <1>3, <1>4, <1>5, <1>6 DEF Lifecycle!Next

(* A success is final; a result is stored only for a run that somebody      *)
(* holds; and a RUNNING run is queued again only when nobody holds any, so  *)
(* that no run is given to two executors (recover_stuck_running_jobs() and *)
(* the guards of daemon.py).                                               *)
THEOREM RunsMoveLegally ==
    Spec => [][\A r \in Run : status'[r] # status[r] => Moved(r, Held)]_status
<1>1. TypeOK /\ HoldingInv /\ [Next]_vars
         => [\A r \in Run : status'[r] # status[r] => Moved(r, Held)]_status
  <2> SUFFICES ASSUME TypeOK, HoldingInv, [Next]_vars, status' # status,
                      NEW r \in Run, status'[r] # status[r]
               PROVE  Moved(r, Held)
    OBVIOUS
  <2>1. Lifecycle!Next
    BY LifecycleStep DEF Lifecycle!vars
  <2> QED
    BY <2>1, LifecycleMoves
<1> QED
  BY <1>1, TypeCorrect, HoldingCorrect, PTL DEF Spec
=============================================================================
