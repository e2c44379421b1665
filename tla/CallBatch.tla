----------------------------- MODULE CallBatch -----------------------------
(***************************************************************************)
(* What a batch of contract reads promises its caller, whatever schedules  *)
(* it: the reads adapters/pons makes for one quote or one curve state are  *)
(* the tasks of a batch.  A task begins at most once and ends at most      *)
(* once; nothing begins or ends after the batch has returned; a nil result *)
(* means that every task wrote its output; an error result names the task  *)
(* that really failed, and names a task that was merely cancelled, or the  *)
(* context itself, only if the caller's context was done.                  *)
(***************************************************************************)
EXTENDS Integers

CONSTANT MaxTasks

VARIABLES
    n,          \* number of tasks of this batch
    outcome,    \* outcome[t]: what task t has done so far
    callerDone, \* the caller's own context was cancelled or timed out first
    result      \* what the call returned, or kind "none"

batchVars == <<n, outcome, callerDone, result>>

Tasks == 1..MaxTasks

NoResult == [kind |-> "none", task |-> 0]

Quiet == \A t \in Tasks : outcome[t] # "running"

BatchInit ==
    /\ n \in 0..MaxTasks
    /\ outcome = [t \in Tasks |-> "idle"]
    /\ callerDone \in BOOLEAN
    /\ result = NoResult

Begin(t) ==
    /\ result = NoResult
    /\ t <= n
    /\ outcome[t] = "idle"
    /\ outcome' = [outcome EXCEPT ![t] = "running"]
    /\ UNCHANGED <<n, callerDone, result>>

(* A task that was cancelled needs a reason to have been: the caller, or   *)
(* a sibling that had already failed.                                      *)
Finish(t) ==
    /\ result = NoResult
    /\ outcome[t] = "running"
    /\ \E o \in {"ok", "failed", "aborted"} :
         /\ o = "aborted" => callerDone \/ \E s \in Tasks : outcome[s] = "failed"
         /\ outcome' = [outcome EXCEPT ![t] = o]
    /\ UNCHANGED <<n, callerDone, result>>

CallerStops ==
    /\ ~callerDone
    /\ callerDone' = TRUE
    /\ UNCHANGED <<n, outcome, result>>

ReturnNil ==
    /\ result = NoResult
    /\ \A t \in 1..n : outcome[t] = "ok"
    /\ result' = [kind |-> "nil", task |-> 0]
    /\ UNCHANGED <<n, outcome, callerDone>>

ReturnTaskError ==
    /\ result = NoResult
    /\ Quiet
    /\ \E t \in Tasks :
         /\ \/ outcome[t] = "failed"
            \/ outcome[t] = "aborted" /\ callerDone
         /\ result' = [kind |-> "task", task |-> t]
    /\ UNCHANGED <<n, outcome, callerDone>>

ReturnContextError ==
    /\ result = NoResult
    /\ Quiet
    /\ callerDone
    /\ result' = [kind |-> "ctx", task |-> 0]
    /\ UNCHANGED <<n, outcome, callerDone>>

RefuseNilContext ==
    /\ result = NoResult
    /\ \A t \in Tasks : outcome[t] = "idle"
    /\ result' = [kind |-> "nilctx", task |-> 0]
    /\ UNCHANGED <<n, outcome, callerDone>>

BatchNext ==
    \/ \E t \in Tasks : Begin(t) \/ Finish(t)
    \/ CallerStops
    \/ ReturnNil \/ ReturnTaskError \/ ReturnContextError \/ RefuseNilContext

BatchSpec == BatchInit /\ [][BatchNext]_batchVars
=============================================================================
