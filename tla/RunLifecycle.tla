---------------------------- MODULE RunLifecycle ---------------------------
(***************************************************************************)
(* What the batch pipeline promises about its execution runs, without any  *)
(* of its machinery: a table of runs and the set of those that somebody is *)
(* executing.  A run is executed by one executor at a time and only while  *)
(* it is RUNNING, a success is final, a failure is only ever retried, and  *)
(* RUNNING runs are put back only when nothing is being executed.          *)
(***************************************************************************)
CONSTANT Run

VARIABLES
    status,      \* where each run stands
    executing    \* the runs handed out for execution

vars == <<status, executing>>

In(s) == {r \in Run : status[r] = s}

Move(S, s) == status' = [r \in Run |-> IF r \in S THEN s ELSE status[r]]

Init ==
    /\ status = [r \in Run |-> "ABSENT"]
    /\ executing = {}

Create(S) ==
    /\ S \subseteq In("ABSENT")
    /\ Move(S, "PENDING")
    /\ UNCHANGED executing

HandOut(S) ==
    /\ S \subseteq In("PENDING")
    /\ Move(S, "RUNNING")
    /\ executing' = executing \cup S

Finish(r, outcome) ==
    /\ r \in executing \cap In("RUNNING")
    /\ Move({r}, outcome)
    /\ executing' = executing \ {r}

(* The executors lose these runs without a result. *)
Lose(S) ==
    /\ executing' = executing \ S
    /\ UNCHANGED status

PutBack ==
    /\ executing = {}
    /\ Move(In("RUNNING"), "PENDING")
    /\ UNCHANGED executing

Retry(S) ==
    /\ S \subseteq In("FAILED")
    /\ Move(S, "PENDING")
    /\ UNCHANGED executing

Next ==
    \/ \E S \in SUBSET Run : Create(S) \/ HandOut(S) \/ Lose(S) \/ Retry(S)
    \/ \E r \in Run, outcome \in {"SUCCESS", "FAILED"} : Finish(r, outcome)
    \/ PutBack

Spec == Init /\ [][Next]_vars
=============================================================================
