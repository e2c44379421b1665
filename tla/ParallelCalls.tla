--------------------------- MODULE ParallelCalls ---------------------------
(***************************************************************************)
(* parallelCalls and parallelCallsLimit of adapters/pons/bind.go: the      *)
(* scheduler (the calling goroutine) offers the tasks one by one on an     *)
(* unbuffered channel, a pool of workers takes them, the first error goes  *)
(* into a one-slot channel and cancels the derived context.                *)
(*                                                                         *)
(* A receive and the send it meets are one step.  A task is a contract     *)
(* read: it ends with its output written ("ok"), with an error of its own  *)
(* ("failed"), or, once the derived context is done, with that context's   *)
(* error ("aborted").  The outcome of a task stands for the write through  *)
(* its output pointer and for the error value it returns.                  *)
(***************************************************************************)
EXTENDS Integers

CONSTANTS
    MaxTasks,   \* bound on the tasks of a call
    LimitArgs   \* values of the limit argument

ASSUME ParallelAssumption == MaxTasks \in Nat /\ LimitArgs \subseteq Int

VARIABLES
    n,        \* len(tasks)
    pc,       \* the calling goroutine: "enter", "send", "wait", "done"
    next,     \* the task the scheduler offers
    worker,   \* worker[w]: "select", "run", "report", "cancel" or "exited"
    job,      \* job[w]: the task worker w holds, 0 if none
    ctx,      \* derived context: "absent" (nil), "live", "canceled" (by the
              \* call itself) or "parent" (the caller's context was done first)
    closed,   \* close(jobs) has run
    errCh,    \* task whose error is in errCh, 0 while it is empty
    outcome,  \* outcome[t]: "idle", "running", "ok", "failed" or "aborted"
    result    \* the returned error: kind "nil", "task", "ctx" or "nilctx"

vars == <<n, pc, next, worker, job, ctx, closed, errCh, outcome, result>>

Tasks == 1..MaxTasks
Workers == Tasks            \* limit is clamped to len(tasks)

NoResult == [kind |-> "none", task |-> 0]
Returned(k, t) == [kind |-> k, task |-> t]

Exited == \A w \in Workers : worker[w] = "exited"

(* The scheduler never offers a task past the last one, and the error slot *)
(* and the workers' jobs name tasks of this call.                          *)
TypeOK ==
    /\ n \in 0..MaxTasks
    /\ pc \in {"enter", "send", "wait", "done"}
    /\ next \in 1..MaxTasks + 1
    /\ worker \in [Workers -> {"select", "run", "report", "cancel", "exited"}]
    /\ job \in [Workers -> 0..MaxTasks]
    /\ ctx \in {"absent", "live", "canceled", "parent"}
    /\ closed \in BOOLEAN
    /\ errCh \in 0..MaxTasks
    /\ outcome \in [Tasks -> {"idle", "running", "ok", "failed", "aborted"}]
    /\ result \in [kind : {"none", "nil", "task", "ctx", "nilctx"}, task : 0..MaxTasks]

Init ==
    /\ n \in 0..MaxTasks
    /\ pc = "enter"
    /\ next = 1
    /\ worker = [w \in Workers |-> "exited"]
    /\ job = [w \in Workers |-> 0]
    /\ ctx \in {"absent", "live", "parent"}
    /\ closed = FALSE
    /\ errCh = 0
    /\ outcome = [t \in Tasks |-> "idle"]
    /\ result = NoResult
-----------------------------------------------------------------------------
(* The calling goroutine.                                                  *)

ReturnEmpty ==
    /\ pc = "enter"
    /\ n = 0
    /\ pc' = "done"
    /\ result' = Returned("nil", 0)
    /\ UNCHANGED <<n, next, worker, job, ctx, closed, errCh, outcome>>

RefuseNilContext ==
    /\ pc = "enter"
    /\ n > 0
    /\ ctx = "absent"
    /\ pc' = "done"
    /\ result' = Returned("nilctx", 0)
    /\ UNCHANGED <<n, next, worker, job, ctx, closed, errCh, outcome>>

Clamp(limit, len) ==
    IF limit <= 0 THEN 1 ELSE IF limit > len THEN len ELSE limit

Spawn ==
    /\ pc = "enter"
    /\ n > 0
    /\ ctx # "absent"
    /\ \E limit \in LimitArgs :
         worker' = [w \in Workers |-> IF w <= Clamp(limit, n) THEN "select" ELSE "exited"]
    /\ pc' = "send"
    /\ UNCHANGED <<n, next, job, ctx, closed, errCh, outcome, result>>

(* case jobs <- task, met by a worker's case task, ok := <-jobs            *)
Dispatch(w) ==
    /\ pc = "send"
    /\ next <= n
    /\ worker[w] = "select"
    /\ worker' = [worker EXCEPT ![w] = "run"]
    /\ job' = [job EXCEPT ![w] = next]
    /\ outcome' = [outcome EXCEPT ![next] = "running"]
    /\ next' = next + 1
    /\ UNCHANGED <<n, pc, ctx, closed, errCh, result>>

(* Wrong: the scheduler does not look at the context.                      *)
CloseJobsWhenSent ==
    /\ pc = "send"
    /\ next > n
    /\ closed' = TRUE
    /\ pc' = "wait"
    /\ UNCHANGED <<n, next, worker, job, ctx, errCh, outcome, result>>

(* The loop over the tasks ends, or leaves on ctx.Done(); close(jobs).     *)
CloseJobs ==
    /\ pc = "send"
    /\ next > n \/ ctx # "live"
    /\ closed' = TRUE
    /\ pc' = "wait"
    /\ UNCHANGED <<n, next, worker, job, ctx, errCh, outcome, result>>

(* What the code returns after wg.Wait(): the reported error if there is   *)
(* one, ctx.Err() otherwise.                                               *)
Verdict ==
    IF errCh # 0 THEN Returned("task", errCh)
    ELSE IF ctx = "live" THEN Returned("nil", 0)
    ELSE Returned("ctx", 0)

(* Wrong: nil as soon as nobody has reported an error.                     *)
VerdictIgnoringContext ==
    /\ pc = "wait"
    /\ Exited
    /\ result' = IF errCh # 0 THEN Returned("task", errCh) ELSE Returned("nil", 0)
    /\ ctx' = IF ctx = "live" THEN "canceled" ELSE ctx
    /\ pc' = "done"
    /\ UNCHANGED <<n, next, worker, job, closed, errCh, outcome>>

(* Wrong: the call returns without wg.Wait().                              *)
ReturnWithoutWait ==
    /\ pc = "wait"
    /\ result' = Verdict
    /\ ctx' = IF ctx = "live" THEN "canceled" ELSE ctx
    /\ pc' = "done"
    /\ UNCHANGED <<n, next, worker, job, closed, errCh, outcome>>

(* wg.Wait() returns, the verdict is formed, the deferred cancel runs.     *)
Return ==
    /\ pc = "wait"
    /\ Exited
    /\ result' = Verdict
    /\ ctx' = IF ctx = "live" THEN "canceled" ELSE ctx
    /\ pc' = "done"
    /\ UNCHANGED <<n, next, worker, job, closed, errCh, outcome>>
-----------------------------------------------------------------------------
(* The workers, and the tasks they run.                                    *)

TaskSucceeds(w) ==
    /\ worker[w] = "run"
    /\ worker' = [worker EXCEPT ![w] = "select"]
    /\ job' = [job EXCEPT ![w] = 0]
    /\ outcome' = [outcome EXCEPT ![job[w]] = "ok"]
    /\ UNCHANGED <<n, pc, next, ctx, closed, errCh, result>>

TaskFails(w) ==
    /\ worker[w] = "run"
    /\ worker' = [worker EXCEPT ![w] = "report"]
    /\ outcome' = [outcome EXCEPT ![job[w]] = "failed"]
    /\ UNCHANGED <<n, pc, next, job, ctx, closed, errCh, result>>

TaskAborts(w) ==
    /\ worker[w] = "run"
    /\ ctx # "live"
    /\ worker' = [worker EXCEPT ![w] = "report"]
    /\ outcome' = [outcome EXCEPT ![job[w]] = "aborted"]
    /\ UNCHANGED <<n, pc, next, job, ctx, closed, errCh, result>>

(* Wrong: the latest error replaces the one already waiting.               *)
ReportLatest(w) ==
    /\ worker[w] = "report"
    /\ errCh' = job[w]
    /\ worker' = [worker EXCEPT ![w] = "cancel"]
    /\ UNCHANGED <<n, pc, next, job, ctx, closed, outcome, result>>

(* select { case errCh <- err: default: }                                  *)
Report(w) ==
    /\ worker[w] = "report"
    /\ errCh' = IF errCh = 0 THEN job[w] ELSE errCh
    /\ worker' = [worker EXCEPT ![w] = "cancel"]
    /\ UNCHANGED <<n, pc, next, job, ctx, closed, outcome, result>>

(* Wrong: the worker returns without cancelling its siblings.              *)
LeaveWithoutCancel(w) ==
    /\ worker[w] = "cancel"
    /\ worker' = [worker EXCEPT ![w] = "exited"]
    /\ job' = [job EXCEPT ![w] = 0]
    /\ UNCHANGED <<n, pc, next, ctx, closed, errCh, outcome, result>>

(* cancel(), return and the deferred wg.Done().                            *)
Cancel(w) ==
    /\ worker[w] = "cancel"
    /\ ctx' = IF ctx = "live" THEN "canceled" ELSE ctx
    /\ worker' = [worker EXCEPT ![w] = "exited"]
    /\ job' = [job EXCEPT ![w] = 0]
    /\ UNCHANGED <<n, pc, next, closed, errCh, outcome, result>>

(* The idle worker sees ctx.Done() or the closed channel.                  *)
Leave(w) ==
    /\ worker[w] = "select"
    /\ ctx # "live" \/ closed
    /\ worker' = [worker EXCEPT ![w] = "exited"]
    /\ UNCHANGED <<n, pc, next, job, ctx, closed, errCh, outcome, result>>

(* The context passed in is cancelled or reaches its deadline.             *)
ParentDone ==
    /\ ctx = "live"
    /\ ctx' = "parent"
    /\ UNCHANGED <<n, pc, next, worker, job, closed, errCh, outcome, result>>

Finished == pc = "done" /\ UNCHANGED vars
-----------------------------------------------------------------------------
Scheduler ==
    \/ ReturnEmpty \/ RefuseNilContext \/ Spawn
    \/ (\E w \in Workers : Dispatch(w))
    \/ CloseJobs \/ Return

TaskReturns(w) == TaskSucceeds(w) \/ TaskFails(w) \/ TaskAborts(w)

WorkerStep(w) == Report(w) \/ Cancel(w) \/ Leave(w)

Next ==
    \/ Scheduler
    \/ \E w \in Workers : TaskReturns(w) \/ WorkerStep(w)
    \/ ParentDone
    \/ Finished

(* Goroutines that can run do run.  A task is only assumed to return once  *)
(* its context is done: a read without a deadline may hang for ever.       *)
Fairness ==
    /\ WF_vars(Scheduler)
    /\ \A w \in Workers :
         /\ WF_vars(WorkerStep(w))
         /\ WF_vars(ctx # "live" /\ TaskReturns(w))

Spec == Init /\ [][Next]_vars /\ Fairness
-----------------------------------------------------------------------------
(* A nil error means that every task ran to the end and wrote its output:  *)
(* QuoteBuy and CurveState read all their fields after it.                 *)
NilMeansAllRead ==
    result.kind = "nil" => \A t \in 1..n : outcome[t] = "ok"

(* The reported error is the cause and not an echo of it: a task that only *)
(* gave up because a sibling failed is never the one whose error the call  *)
(* returns, and the bare context error is returned only when the caller's  *)
(* own context was done.                                                   *)
RootCauseReported ==
    /\ result.kind = "task" =>
         \/ outcome[result.task] = "failed"
         \/ outcome[result.task] = "aborted" /\ ctx = "parent"
    /\ result.kind = "ctx" => ctx = "parent"

(* No task touches its output pointer, and no task starts, once the call   *)
(* has returned to code that reads those variables.                        *)
NoLateWrite == [][result # NoResult => UNCHANGED outcome]_vars

(* The pool implements the batch its callers rely on.                      *)
Batch == INSTANCE CallBatch WITH callerDone <- (ctx = "parent")
ImplementsBatch == Batch!BatchSpec

(* A failed task, or a cancelled caller, ends the call even if every other *)
(* read would otherwise hang: cancellation reaches scheduler and workers.  *)
StopsOnFailure ==
    (ctx = "parent" \/ \E t \in Tasks : outcome[t] = "failed") ~> (pc = "done")

(* If no read hangs, the call returns: scheduler and workers never wait on *)
(* each other, whatever limit was asked for.                               *)
CompletesIfReadsReturn ==
    (\A w \in Workers : []<>(worker[w] # "run")) => <>(pc = "done")
=============================================================================
