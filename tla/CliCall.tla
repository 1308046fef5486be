------------------------------ MODULE CliCall ------------------------------
(***************************************************************************)
(* query() of the three CLI adapters (MOCK_LLM=false): pool threads run    *)
(* command line programs, retry what may pass by itself, and share one     *)
(* working directory that has to be empty whenever a program is started.   *)
(* The codex adapter reads its answer from a file, the others from stdout. *)
(* The programs themselves are external: they write or do not write, exit  *)
(* or hang.                                                                *)
(***************************************************************************)
EXTENDS Integers

CONSTANTS
    Calls,         \* the calls of query(), each on a pool thread of its own
    CodexCalls,    \* those made through the codex adapter
    NoCall,        \* the author of a file that does not exist
    MaxAttempts    \* MAX_RETRY_ATTEMPTS

ASSUME CallAssumption ==
    /\ CodexCalls \subseteq Calls
    /\ NoCall \notin Calls
    /\ MaxAttempts \in Nat \ {0}

VARIABLES
    step,      \* where each call is
    attempt,   \* how often it has called run_cli()
    said,      \* the patterns in the output of its last attempt
    result,    \* what query() has returned or raised
    outFile,   \* who wrote the output file of that name
    litter     \* the calls whose program has a file in CLI_WORKDIR

callVars == <<step, attempt, said, result, outFile, litter>>

Steps == {"query", "attempt", "start", "running", "waiting", "parse",
          "unlink", "ended"}

(* _RATE_LIMIT_PATTERNS, _AUTH_ERROR_PATTERNS *)
Patterns == {"rate", "auth"}

Retryable == {"CLITimeoutError", "CLIProcessError", "CLIRateLimitError"}

Failures == {"MissingAPIKeyError", "CLIWorkdirNotEmptyError", "OSError",
             "LLMRequestError", "LLMAdapterError"}

Pending == [kind |-> "pending", author |-> NoCall]

CallTypeOK ==
    /\ step \in [Calls -> Steps]
    /\ attempt \in [Calls -> 0 .. MaxAttempts]
    /\ said \in [Calls -> SUBSET Patterns]
    /\ result \in [Calls -> [kind : Failures \cup {"pending", "answer"},
                             author : Calls \cup {NoCall}]]
    /\ outFile \in [CodexCalls -> CodexCalls \cup {NoCall}]
    /\ litter \subseteq Calls

CallInit ==
    /\ step = [c \in Calls |-> "query"]
    /\ attempt = [c \in Calls |-> 0]
    /\ said = [c \in Calls |-> {}]
    /\ result = [c \in Calls |-> Pending]
    /\ outFile = [c \in CodexCalls |-> NoCall]
    /\ litter = {}

-----------------------------------------------------------------------------
(* The output file: its name has a fresh uuid, so it is named by the call. *)

(* Mutant: one fixed name for all calls. *)
OutputPathFixed(c) == CHOOSE d \in CodexCalls : TRUE

OutputPath(c) == c

At(c, s) == step[c] = s

Go(c, s) == step' = [step EXCEPT ![c] = s]

(* Mutant: the finally clause is missing, only a success removes the file. *)
LeaveWithoutFinally(c, outcome) ==
    /\ result' = [result EXCEPT ![c] = outcome]
    /\ Go(c, IF c \in CodexCalls /\ outcome.kind = "answer"
             THEN "unlink" ELSE "ended")

(* Leaving the body of query(); codex passes through its finally clause. *)
Leave(c, outcome) ==
    /\ result' = [result EXCEPT ![c] = outcome]
    /\ Go(c, IF c \in CodexCalls THEN "unlink" ELSE "ended")

Failed(error) == [kind |-> error, author |-> NoCall]

(* Mutant: the last attempt is not told from the others. *)
RaiseRetryingOnce(c, error) ==
    \/ /\ error \in Retryable
       /\ attempt[c] <= MaxAttempts
       /\ Go(c, "waiting")
       /\ UNCHANGED result
    \/ /\ error \notin Retryable
       /\ Leave(c, Failed(error))

(* Mutant: the attempts are counted from one where the code counts from     *)
(* zero.                                                                    *)
RaiseOneEarly(c, error) ==
    \/ /\ error \in Retryable
       /\ attempt[c] < MaxAttempts - 1
       /\ Go(c, "waiting")
       /\ UNCHANGED result
    \/ /\ error \in Retryable
       /\ attempt[c] >= MaxAttempts - 1
       /\ Leave(c, Failed("LLMRequestError"))
    \/ /\ error \notin Retryable
       /\ Leave(c, Failed(error))

(* What retry_with_backoff() does with an exception of run_cli(). *)
Raise(c, error) ==
    \/ /\ error \in Retryable
       /\ attempt[c] < MaxAttempts
       /\ Go(c, "waiting")
       /\ UNCHANGED result
    \/ /\ error \in Retryable
       /\ attempt[c] = MaxAttempts
       /\ Leave(c, Failed("LLMRequestError"))
    \/ /\ error \notin Retryable
       /\ Leave(c, Failed(error))

-----------------------------------------------------------------------------
(* The adapters and run_cli().                                             *)

(* require_cli_installed() *)
Query(c) ==
    /\ At(c, "query")
    /\ \/ Go(c, "attempt") /\ UNCHANGED result
       \/ /\ result' = [result EXCEPT ![c] = Failed("MissingAPIKeyError")]
          /\ Go(c, "ended")
    /\ UNCHANGED <<attempt, said, outFile, litter>>

(* The directory is looked at before the program is started, and while the  *)
(* programs of other calls run in it.                                       *)
EnsureWorkdirReady(c) ==
    /\ At(c, "attempt")
    /\ attempt' = [attempt EXCEPT ![c] = @ + 1]
    /\ said' = [said EXCEPT ![c] = {}]
    /\ \/ litter = {} /\ Go(c, "start") /\ UNCHANGED result
       \/ litter # {} /\ Leave(c, Failed("CLIWorkdirNotEmptyError"))
    /\ UNCHANGED <<outFile, litter>>

Popen(c) ==
    /\ At(c, "start")
    /\ \/ Go(c, "running") /\ UNCHANGED result
       \/ Leave(c, Failed("OSError"))
    /\ UNCHANGED <<attempt, said, outFile, litter>>

(* exit code 0 *)
ExitOk(c) ==
    /\ At(c, "running")
    /\ Go(c, "parse")
    /\ UNCHANGED <<attempt, said, result, outFile, litter>>

(* Mutant: the usage limit is looked for first. *)
ClassifyRateFirst(output) ==
    IF "rate" \in output THEN "CLIRateLimitError"
    ELSE IF "auth" \in output THEN "MissingAPIKeyError"
    ELSE "CLIProcessError"

Classify(output) ==
    IF "auth" \in output THEN "MissingAPIKeyError"
    ELSE IF "rate" \in output THEN "CLIRateLimitError"
    ELSE "CLIProcessError"

ExitError(c) ==
    /\ At(c, "running")
    /\ \E output \in SUBSET Patterns :
          /\ said' = [said EXCEPT ![c] = output]
          /\ Raise(c, Classify(output))
    /\ UNCHANGED <<attempt, outFile, litter>>

(* Mutant: communicate() without a timeout. *)
TimeoutNever(c) ==
    /\ FALSE
    /\ UNCHANGED callVars

(* TimeoutExpired: the process group is killed, whatever it has written     *)
(* stays.                                                                   *)
Timeout(c) ==
    /\ At(c, "running")
    /\ Raise(c, "CLITimeoutError")
    /\ UNCHANGED <<attempt, said, outFile, litter>>

(* time.sleep(delay) is over. *)
Wake(c) ==
    /\ At(c, "waiting")
    /\ Go(c, "attempt")
    /\ UNCHANGED <<attempt, said, result, outFile, litter>>

(* _parse_stdout() of claude and gemini; reading the file of codex, where a *)
(* missing file is an empty answer.                                         *)
ParseAnswer(c) ==
    /\ At(c, "parse")
    /\ \/ /\ c \in CodexCalls
          /\ Leave(c, [kind |-> "answer", author |-> outFile[OutputPath(c)]])
       \/ /\ c \notin CodexCalls
          /\ \/ Leave(c, [kind |-> "answer", author |-> c])
             \/ Leave(c, Failed("LLMAdapterError"))
    /\ UNCHANGED <<attempt, said, outFile, litter>>

Unlink(c) ==
    /\ At(c, "unlink")
    /\ outFile' = [outFile EXCEPT ![OutputPath(c)] = NoCall]
    /\ Go(c, "ended")
    /\ UNCHANGED <<attempt, said, result, litter>>

-----------------------------------------------------------------------------
(* The programs.                                                           *)

WriteOutput(c) ==
    /\ At(c, "running")
    /\ c \in CodexCalls
    /\ outFile' = [outFile EXCEPT ![OutputPath(c)] = c]
    /\ UNCHANGED <<step, attempt, said, result, litter>>

UseWorkdir(c) ==
    /\ At(c, "running")
    /\ litter' \in {litter \cup {c}, litter \ {c}}
    /\ UNCHANGED <<step, attempt, said, result, outFile>>

ThreadStep(c) ==
    \/ Query(c) \/ EnsureWorkdirReady(c) \/ Popen(c) \/ Wake(c)
    \/ ParseAnswer(c) \/ Unlink(c) \/ Timeout(c)

AllEnded ==
    /\ \A c \in Calls : At(c, "ended")
    /\ UNCHANGED callVars

CallNext ==
    \/ \E c \in Calls : \/ ThreadStep(c) \/ ExitOk(c) \/ ExitError(c)
                        \/ WriteOutput(c) \/ UseWorkdir(c)
    \/ AllEnded

CallSpec == CallInit /\ [][CallNext]_callVars

(* A thread goes on; a program need not end by itself, but communicate()    *)
(* gives up after CLI_TIMEOUT_SEC.                                          *)
CallFairSpec == CallSpec /\ \A c \in Calls : WF_callVars(ThreadStep(c))

-----------------------------------------------------------------------------
(* Properties.                                                             *)

(* An answer of codex is one its own call's program wrote, never that of a  *)
(* call running at the same time (codex_cli_adapter.py: a new name for the  *)
(* output file of every call).                                              *)
AnswerIsOwn ==
    \A c \in Calls : result[c].author \in {c, NoCall}

(* A call that has ended, by an answer or by any exception at any attempt,  *)
(* has left no output file (the finally clause of the codex adapter).       *)
EndedLeavesNoFile ==
    \A c \in Calls : At(c, "ended") =>
        \A f \in CodexCalls : outFile[f] # c

(* An attempt whose output looks like a missing login is the last one, even *)
(* if it also looks like a usage limit: the call raises MissingAPIKeyError  *)
(* (run_cli(), llm_clis.md section 5).                                      *)
LoginIsNotRetried ==
    \A c \in Calls : "auth" \in said[c] =>
        result[c].kind = "MissingAPIKeyError" /\ step[c] \in {"unlink", "ended"}

(* A call gives up on failures that may pass only after MAX_RETRY_ATTEMPTS  *)
(* attempts, none of which asked for a login (retry_with_backoff()).        *)
GivesUpAfterAllAttempts ==
    \A c \in Calls : result[c].kind = "LLMRequestError" =>
        attempt[c] = MaxAttempts /\ "auth" \notin said[c]

(* Every call ends, however its programs hang: what the fairness of the     *)
(* pool threads in BatchPipeline rests on.                                  *)
EveryCallEnds == \A c \in Calls : <>At(c, "ended")
=============================================================================
