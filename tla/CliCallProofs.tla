--------------------------- MODULE CliCallProofs ---------------------------
(***************************************************************************)
(* Theorems about CliCall, for any number of calls and attempts.           *)
(***************************************************************************)
EXTENDS CliCall, TLAPS

(* A call that may still make an attempt has one left. *)
AttemptsLeft ==
    \A c \in Calls : step[c] \in {"query", "attempt", "waiting"} =>
        attempt[c] < MaxAttempts

(* An output file is written by the call it is named after, and exists only *)
(* while that call is between its first attempt and its finally clause.     *)
OwnFiles ==
    \A c \in CodexCalls :
        /\ outFile[c] \in {c, NoCall}
        /\ outFile[c] = c => step[c] \notin {"query", "ended"}

Over(c) == step[c] \in {"unlink", "ended"}

LoginIsLast ==
    \A c \in Calls : "auth" \in said[c] =>
        result[c].kind = "MissingAPIKeyError" /\ Over(c)

ExhaustedIsLast ==
    \A c \in Calls : result[c].kind = "LLMRequestError" =>
        attempt[c] = MaxAttempts /\ "auth" \notin said[c] /\ Over(c)

CallInv ==
    /\ CallTypeOK
    /\ AttemptsLeft
    /\ OwnFiles
    /\ AnswerIsOwn
    /\ LoginIsLast
    /\ ExhaustedIsLast

CallStep(c) ==
    \/ Query(c) \/ EnsureWorkdirReady(c) \/ Popen(c) \/ Wake(c)
    \/ ParseAnswer(c) \/ Unlink(c) \/ Timeout(c)
    \/ ExitOk(c) \/ ExitError(c) \/ WriteOutput(c) \/ UseWorkdir(c)

-----------------------------------------------------------------------------
(* What a step of call c does to the variables of the others: nothing.      *)
LEMMA OthersUnchanged ==
    ASSUME CallTypeOK, NEW c \in Calls, CallStep(c), NEW d \in Calls, d # c
    PROVE  /\ step'[d] = step[d]
           /\ attempt'[d] = attempt[d]
           /\ said'[d] = said[d]
           /\ result'[d] = result[d]
<1> USE DEF CallTypeOK
<1>1. step'[d] = step[d] /\ result'[d] = result[d]
  BY DEF CallStep, Query, EnsureWorkdirReady, Popen, Wake, ParseAnswer, Unlink,
         Timeout, ExitOk, ExitError, WriteOutput, UseWorkdir, Go, Leave, Raise
<1>2. attempt'[d] = attempt[d] /\ said'[d] = said[d]
  BY DEF CallStep, Query, EnsureWorkdirReady, Popen, Wake, ParseAnswer, Unlink,
         Timeout, ExitOk, ExitError, WriteOutput, UseWorkdir
<1> QED
  BY <1>1, <1>2

(* What a failed attempt leads to. *)
LEMMA RaiseOutcome ==
    ASSUME CallTypeOK, NEW c \in Calls, NEW error \in Retryable \cup Failures,
           Raise(c, error)
    PROVE  /\ step' \in [Calls -> Steps]
           /\ result' \in [Calls -> [kind : Failures \cup {"pending", "answer"},
                                     author : Calls \cup {NoCall}]]
           /\ \/ /\ step'[c] = "waiting"
                 /\ attempt[c] < MaxAttempts
                 /\ error \in Retryable
                 /\ result' = result
              \/ /\ step'[c] \in {"unlink", "ended"}
                 /\ c \in CodexCalls => step'[c] = "unlink"
                 /\ result'[c].author = NoCall
                 /\ \/ error \notin Retryable /\ result'[c].kind = error
                    \/ /\ error \in Retryable
                       /\ attempt[c] = MaxAttempts
                       /\ result'[c].kind = "LLMRequestError"
<1> USE DEF CallTypeOK, Steps, Failures
<1>1. CASE error \in Retryable /\ attempt[c] < MaxAttempts
  BY <1>1 DEF Raise, Go
<1>2. CASE error \in Retryable /\ attempt[c] = MaxAttempts
  BY <1>2 DEF Raise, Go, Leave, Failed
<1>3. CASE error \notin Retryable
  BY <1>3 DEF Raise, Go, Leave, Failed
<1>4. attempt[c] < MaxAttempts \/ attempt[c] = MaxAttempts
  BY CallAssumption
<1> QED
  BY <1>1, <1>2, <1>3, <1>4

-----------------------------------------------------------------------------
(* CallTypeOK, per variable.                                               *)

LEMMA StepResultType ==
    ASSUME CallInv, NEW c \in Calls, CallStep(c)
    PROVE  /\ step' \in [Calls -> Steps]
           /\ result' \in [Calls -> [kind : Failures \cup {"pending", "answer"},
                                     author : Calls \cup {NoCall}]]
<1> USE CallAssumption DEF CallInv, CallTypeOK, Steps, Failures
<1>1. CASE Query(c) \/ EnsureWorkdirReady(c) \/ Popen(c) \/ Wake(c)
  BY <1>1 DEF Query, EnsureWorkdirReady, Popen, Wake, Go, Leave, Failed
<1>2. CASE ParseAnswer(c)
  <2>1. c \in CodexCalls => outFile[OutputPath(c)] \in Calls \cup {NoCall}
    BY DEF OutputPath
  <2> QED
    BY <1>2, <2>1 DEF ParseAnswer, Go, Leave, Failed
<1>3. CASE Unlink(c) \/ ExitOk(c) \/ WriteOutput(c) \/ UseWorkdir(c)
  BY <1>3 DEF Unlink, ExitOk, WriteOutput, UseWorkdir, Go
<1>4. CASE Timeout(c)
  BY <1>4, RaiseOutcome DEF Timeout, Retryable
<1>5. CASE ExitError(c)
  <2>1. PICK output \in SUBSET Patterns : Raise(c, Classify(output))
    BY <1>5 DEF ExitError
  <2>2. Classify(output) \in Retryable \cup Failures
    BY DEF Classify, Retryable
  <2> QED
    BY <2>1, <2>2, RaiseOutcome
<1> QED
  BY <1>1, <1>2, <1>3, <1>4, <1>5 DEF CallStep

LEMMA OtherTypes ==
    ASSUME CallInv, NEW c \in Calls, CallStep(c)
    PROVE  /\ attempt' \in [Calls -> 0 .. MaxAttempts]
           /\ said' \in [Calls -> SUBSET Patterns]
           /\ outFile' \in [CodexCalls -> CodexCalls \cup {NoCall}]
           /\ litter' \subseteq Calls
<1> USE CallAssumption DEF CallInv, CallTypeOK
<1>1. attempt' \in [Calls -> 0 .. MaxAttempts]
  <2>1. CASE EnsureWorkdirReady(c)
    <3>1. attempt[c] + 1 \in 0 .. MaxAttempts
      BY <2>1 DEF EnsureWorkdirReady, At, AttemptsLeft
    <3> QED
      BY <2>1, <3>1 DEF EnsureWorkdirReady
  <2>2. CASE ~EnsureWorkdirReady(c)
    BY <2>2 DEF CallStep, Query, Popen, Wake, ParseAnswer, Unlink, Timeout,
                ExitOk, ExitError, WriteOutput, UseWorkdir
  <2> QED
    BY <2>1, <2>2
<1>2. said' \in [Calls -> SUBSET Patterns]
  BY DEF CallStep, Query, EnsureWorkdirReady, Popen, Wake, ParseAnswer, Unlink,
         Timeout, ExitOk, ExitError, WriteOutput, UseWorkdir
<1>3. outFile' \in [CodexCalls -> CodexCalls \cup {NoCall}]
  BY DEF CallStep, Query, EnsureWorkdirReady, Popen, Wake, ParseAnswer, Unlink,
         Timeout, ExitOk, ExitError, WriteOutput, UseWorkdir
<1>4. litter' \subseteq Calls
  BY DEF CallStep, Query, EnsureWorkdirReady, Popen, Wake, ParseAnswer, Unlink,
         Timeout, ExitOk, ExitError, WriteOutput, UseWorkdir
<1> QED
  BY <1>1, <1>2, <1>3, <1>4

-----------------------------------------------------------------------------
(* What call c itself looks like after a step of its own.                  *)

LEMMA AttemptsStep ==
    ASSUME CallInv, NEW c \in Calls, CallStep(c),
           step'[c] \in {"query", "attempt", "waiting"}
    PROVE  attempt'[c] < MaxAttempts
<1> USE CallAssumption DEF CallInv, CallTypeOK, AttemptsLeft
<1>1. CASE Query(c) \/ Wake(c) \/ WriteOutput(c) \/ UseWorkdir(c)
  BY <1>1 DEF Query, Wake, WriteOutput, UseWorkdir, At
<1>2. CASE EnsureWorkdirReady(c) \/ Popen(c) \/ ParseAnswer(c) \/ Unlink(c)
           \/ ExitOk(c)
  <2>1. step'[c] \in {"start", "running", "parse", "unlink", "ended"}
    BY <1>2 DEF EnsureWorkdirReady, Popen, ParseAnswer, Unlink, ExitOk, Go, Leave
  <2> QED
    BY <2>1
<1>3. CASE Timeout(c)
  <2>1. Raise(c, "CLITimeoutError") /\ attempt' = attempt
    BY <1>3 DEF Timeout
  <2> QED
    BY <2>1, RaiseOutcome DEF Retryable
<1>4. CASE ExitError(c)
  <2>1. PICK output \in SUBSET Patterns : Raise(c, Classify(output))
    BY <1>4 DEF ExitError
  <2>2. Classify(output) \in Retryable \cup Failures
    BY DEF Classify, Retryable, Failures
  <2>3. attempt' = attempt
    BY <1>4 DEF ExitError
  <2> QED
    BY <2>1, <2>2, <2>3, RaiseOutcome
<1> QED
  BY <1>1, <1>2, <1>3, <1>4 DEF CallStep

LEMMA LoginStep ==
    ASSUME CallInv, NEW c \in Calls, CallStep(c), "auth" \in said'[c]
    PROVE  result'[c].kind = "MissingAPIKeyError" /\ Over(c)'
<1> USE DEF CallInv, CallTypeOK, LoginIsLast, Over
<1>1. CASE ExitError(c)
  <2>1. PICK output \in SUBSET Patterns :
           said' = [said EXCEPT ![c] = output] /\ Raise(c, Classify(output))
    BY <1>1 DEF ExitError
  <2>2. Classify(output) = "MissingAPIKeyError"
    BY <2>1 DEF Classify
  <2> QED
    BY <2>1, <2>2, RaiseOutcome DEF Retryable, Failures
<1>2. CASE EnsureWorkdirReady(c)
  BY <1>2 DEF EnsureWorkdirReady
<1>3. CASE Query(c) \/ Popen(c) \/ Wake(c) \/ ParseAnswer(c) \/ Timeout(c)
           \/ ExitOk(c)
  BY <1>3 DEF Query, Popen, Wake, ParseAnswer, Timeout, ExitOk, At
<1>4. CASE Unlink(c) \/ WriteOutput(c) \/ UseWorkdir(c)
  BY <1>4 DEF Unlink, WriteOutput, UseWorkdir, At, Go
<1> QED
  BY <1>1, <1>2, <1>3, <1>4 DEF CallStep

LEMMA ExhaustedStep ==
    ASSUME CallInv, NEW c \in Calls, CallStep(c),
           result'[c].kind = "LLMRequestError"
    PROVE  attempt'[c] = MaxAttempts /\ "auth" \notin said'[c] /\ Over(c)'
<1> USE DEF CallInv, CallTypeOK, ExhaustedIsLast, Over
<1>1. "auth" \notin said'[c]
  BY LoginStep
<1>2. CASE ExitError(c)
  <2>1. PICK output \in SUBSET Patterns : Raise(c, Classify(output))
    BY <1>2 DEF ExitError
  <2>2. attempt' = attempt /\ step[c] = "running"
    BY <1>2 DEF ExitError, At
  <2>3. Classify(output) \in Retryable \cup Failures
        /\ Classify(output) # "LLMRequestError"
    BY DEF Classify, Retryable, Failures
  <2> QED
    BY <1>1, <2>1, <2>2, <2>3, RaiseOutcome
<1>3. CASE Timeout(c)
  <2>1. Raise(c, "CLITimeoutError") /\ attempt' = attempt /\ step[c] = "running"
    BY <1>3 DEF Timeout, At
  <2> QED
    BY <1>1, <2>1, RaiseOutcome DEF Retryable
<1>4. CASE Query(c) \/ EnsureWorkdirReady(c) \/ Popen(c) \/ ParseAnswer(c)
  <2>1. step[c] \notin {"unlink", "ended"}
    BY <1>4 DEF Query, EnsureWorkdirReady, Popen, ParseAnswer, At
  <2>2. result'[c] = result[c] \/ result'[c].kind # "LLMRequestError"
    BY <1>4 DEF Query, EnsureWorkdirReady, Popen, ParseAnswer, Leave, Failed
  <2> QED
    BY <2>1, <2>2
<1>5. CASE Wake(c) \/ Unlink(c) \/ ExitOk(c) \/ WriteOutput(c) \/ UseWorkdir(c)
  BY <1>1, <1>5 DEF Wake, Unlink, ExitOk, WriteOutput, UseWorkdir, At, Go
<1> QED
  BY <1>2, <1>3, <1>4, <1>5 DEF CallStep

LEMMA AnswerStep ==
    ASSUME CallInv, NEW c \in Calls, CallStep(c)
    PROVE  result'[c].author \in {c, NoCall}
<1> USE DEF CallInv, CallTypeOK, AnswerIsOwn
<1>1. CASE ParseAnswer(c)
  BY <1>1 DEF ParseAnswer, Leave, Failed, OutputPath, OwnFiles
<1>2. CASE ExitError(c)
  <2>1. PICK output \in SUBSET Patterns : Raise(c, Classify(output))
    BY <1>2 DEF ExitError
  <2>2. Classify(output) \in Retryable \cup Failures
    BY DEF Classify, Retryable, Failures
  <2> QED
    BY <2>1, <2>2, RaiseOutcome
<1>3. CASE Timeout(c)
  BY <1>3, RaiseOutcome DEF Timeout, Retryable
<1>4. CASE Query(c) \/ EnsureWorkdirReady(c) \/ Popen(c)
  BY <1>4 DEF Query, EnsureWorkdirReady, Popen, Leave, Failed
<1>5. CASE Wake(c) \/ Unlink(c) \/ ExitOk(c) \/ WriteOutput(c) \/ UseWorkdir(c)
  BY <1>5 DEF Wake, Unlink, ExitOk, WriteOutput, UseWorkdir
<1> QED
  BY <1>1, <1>2, <1>3, <1>4, <1>5 DEF CallStep

LEMMA FilesStep ==
    ASSUME CallInv, NEW c \in Calls, CallStep(c)
    PROVE  OwnFiles'
<1> USE CallAssumption DEF CallInv, CallTypeOK, OwnFiles, OutputPath
<1> SUFFICES ASSUME NEW f \in CodexCalls
             PROVE  /\ outFile'[f] \in {f, NoCall}
                    /\ outFile'[f] = f => step'[f] \notin {"query", "ended"}
  OBVIOUS
<1>1. CASE Unlink(c)
  BY <1>1 DEF Unlink, Go, At
<1>2. CASE WriteOutput(c)
  BY <1>2 DEF WriteOutput, At
<1>3. CASE Query(c) \/ EnsureWorkdirReady(c) \/ Popen(c) \/ Wake(c)
           \/ ParseAnswer(c) \/ ExitOk(c) \/ UseWorkdir(c)
  BY <1>3 DEF Query, EnsureWorkdirReady, Popen, Wake, ParseAnswer, ExitOk,
              UseWorkdir, Go, Leave, At
<1>4. CASE Timeout(c) \/ ExitError(c)
  <2>1. outFile' = outFile
    BY <1>4 DEF Timeout, ExitError
  <2>2. PICK error \in Retryable \cup Failures : Raise(c, error)
    <3>1. CASE Timeout(c)
      BY <3>1 DEF Timeout, Retryable
    <3>2. CASE ExitError(c)
      BY <3>2 DEF ExitError, Classify, Retryable, Failures
    <3> QED
      BY <1>4, <3>1, <3>2
  <2>3. f = c => step'[f] \in {"waiting", "unlink"}
    BY <2>2, RaiseOutcome
  <2>4. f # c => step'[f] = step[f]
    BY OthersUnchanged
  <2> QED
    BY <2>1, <2>3, <2>4
<1> QED
  BY <1>1, <1>2, <1>3, <1>4 DEF CallStep

-----------------------------------------------------------------------------

LEMMA CallInvInit == CallInit => CallInv
<1> USE CallAssumption DEF CallInit, CallInv
<1>1. CallInit => CallTypeOK
  BY DEF CallTypeOK, Steps, Failures, Patterns, Pending
<1>2. CallInit => AttemptsLeft /\ OwnFiles /\ AnswerIsOwn
  BY DEF AttemptsLeft, OwnFiles, AnswerIsOwn, Pending
<1>3. CallInit => LoginIsLast /\ ExhaustedIsLast
  BY DEF LoginIsLast, ExhaustedIsLast, Pending
<1> QED
  BY <1>1, <1>2, <1>3

LEMMA CallInvStep == CallInv /\ [CallNext]_callVars => CallInv'
<1> SUFFICES ASSUME CallInv, [CallNext]_callVars
             PROVE  CallInv'
  OBVIOUS
<1>1. CASE UNCHANGED callVars
  BY <1>1 DEF callVars, CallInv, CallTypeOK, AttemptsLeft, OwnFiles, AnswerIsOwn,
              LoginIsLast, ExhaustedIsLast, Over
<1>2. ASSUME NEW c \in Calls, CallStep(c)
      PROVE  CallInv'
  <2> USE <1>2
  <2>1. \A d \in Calls : d # c =>
           /\ step'[d] = step[d] /\ attempt'[d] = attempt[d]
           /\ said'[d] = said[d] /\ result'[d] = result[d]
    BY OthersUnchanged DEF CallInv
  <2>2. CallTypeOK'
    BY StepResultType, OtherTypes DEF CallTypeOK
  <2>3. AttemptsLeft'
    BY <2>1, AttemptsStep DEF AttemptsLeft, CallInv
  <2>4. OwnFiles'
    BY FilesStep
  <2>5. AnswerIsOwn'
    BY <2>1, AnswerStep DEF AnswerIsOwn, CallInv
  <2>6. LoginIsLast'
    BY <2>1, LoginStep DEF LoginIsLast, Over, CallInv
  <2>7. ExhaustedIsLast'
    BY <2>1, ExhaustedStep DEF ExhaustedIsLast, Over, CallInv
  <2> QED
    BY <2>2, <2>3, <2>4, <2>5, <2>6, <2>7 DEF CallInv
<1>3. CallNext => (\E c \in Calls : CallStep(c)) \/ UNCHANGED callVars
  BY DEF CallNext, ThreadStep, CallStep, AllEnded
<1> QED
  BY <1>1, <1>2, <1>3

LEMMA CallInvCorrect == CallSpec => []CallInv
  BY CallInvInit, CallInvStep, PTL DEF CallSpec

(* Types, and no more than MAX_RETRY_ATTEMPTS attempts. *)
THEOREM CallTypeCorrect == CallSpec => []CallTypeOK
<1>1. CallInv => CallTypeOK
  BY DEF CallInv
<1> QED
  BY <1>1, CallInvCorrect, PTL

(* Answers come from the call's own program, and no output file is left     *)
(* behind (codex_cli_adapter.py: query()).                                  *)
THEOREM OutputFilesAreSeparate == CallSpec => [](AnswerIsOwn /\ EndedLeavesNoFile)
<1>1. CallInv => AnswerIsOwn /\ EndedLeavesNoFile
  BY CallAssumption DEF CallInv, CallTypeOK, OwnFiles, EndedLeavesNoFile, At
<1> QED
  BY <1>1, CallInvCorrect, PTL

(* A missing login is never retried, anything that may pass is retried      *)
(* until the attempts are used up (run_cli(), retry_with_backoff()).        *)
THEOREM RetriesAreRight == CallSpec => [](LoginIsNotRetried /\ GivesUpAfterAllAttempts)
<1>1. CallInv => LoginIsNotRetried /\ GivesUpAfterAllAttempts
  BY DEF CallInv, LoginIsLast, ExhaustedIsLast, Over, LoginIsNotRetried,
         GivesUpAfterAllAttempts
<1> QED
  BY <1>1, CallInvCorrect, PTL
=============================================================================
