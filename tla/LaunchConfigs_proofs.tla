------------------------ MODULE LaunchConfigs_proofs ------------------------
(***************************************************************************)
(* Proofs about ParallelCalls, about SnapshotRead on top of it and about   *)
(* LaunchConfigs on top of both, for any number of tasks, fields and       *)
(* configurations, any limits and any length of the chain; all rest on the *)
(* invariant of the pool.                                                  *)
(***************************************************************************)
EXTENDS LaunchConfigs, TLAPS

USE DEF Tasks, Workers

(* The scheduler's index never runs past the end of its loop.              *)
NextBound == next <= n + 1

(* The types, and the bound of the scheduler's loop, hold at the call.     *)
LEMMA InitTypeOK == Init => TypeOK /\ NextBound
<1> SUFFICES ASSUME Init PROVE TypeOK /\ NextBound
  OBVIOUS
<1> USE ParallelAssumption DEF Init
<1>1. worker \in [Workers -> {"select", "run", "report", "cancel", "exited"}]
  OBVIOUS
<1>2. job \in [Workers -> 0..MaxTasks]
  OBVIOUS
<1>3. outcome \in [Tasks -> {"idle", "running", "ok", "failed", "aborted"}]
  OBVIOUS
<1>4. result \in [kind : {"none", "nil", "task", "ctx", "nilctx"}, task : 0..MaxTasks]
  BY DEF NoResult
<1>5. next \in 1..MaxTasks + 1 /\ n \in 0..MaxTasks /\ next <= n + 1 /\ errCh \in 0..MaxTasks
  OBVIOUS
<1>. QED
  BY <1>1, <1>2, <1>3, <1>4, <1>5 DEF TypeOK, NextBound

(* Every step of scheduler, workers and tasks preserves them.              *)
LEMMA TypeInductive == TypeOK /\ NextBound /\ [Next]_vars => TypeOK' /\ NextBound'
<1> SUFFICES ASSUME TypeOK, NextBound, [Next]_vars PROVE TypeOK' /\ NextBound'
  OBVIOUS
<1> USE ParallelAssumption DEF TypeOK, NextBound
<1>1. ASSUME ReturnEmpty PROVE TypeOK' /\ NextBound'
  BY <1>1 DEF ReturnEmpty, Returned
<1>2. ASSUME RefuseNilContext PROVE TypeOK' /\ NextBound'
  BY <1>2 DEF RefuseNilContext, Returned
<1>3. ASSUME Spawn PROVE TypeOK' /\ NextBound'
  BY <1>3 DEF Spawn
<1>4. ASSUME NEW w \in Workers, Dispatch(w) PROVE TypeOK' /\ NextBound'
  BY <1>4 DEF Dispatch
<1>5. ASSUME CloseJobs PROVE TypeOK' /\ NextBound'
  BY <1>5 DEF CloseJobs
<1>6. ASSUME Return PROVE TypeOK' /\ NextBound'
  BY <1>6 DEF Return, Verdict, Returned
<1>7. ASSUME NEW w \in Workers, TaskSucceeds(w) PROVE TypeOK' /\ NextBound'
  <2>1. worker' \in [Workers -> {"select", "run", "report", "cancel", "exited"}]
    BY <1>7 DEF TaskSucceeds
  <2>2. job' \in [Workers -> 0..MaxTasks]
    BY <1>7 DEF TaskSucceeds
  <2>3. outcome' \in [Tasks -> {"idle", "running", "ok", "failed", "aborted"}]
    BY <1>7 DEF TaskSucceeds
  <2>. QED
    BY <1>7, <2>1, <2>2, <2>3 DEF TaskSucceeds
<1>8. ASSUME NEW w \in Workers, TaskFails(w) PROVE TypeOK' /\ NextBound'
  BY <1>8 DEF TaskFails
<1>9. ASSUME NEW w \in Workers, TaskAborts(w) PROVE TypeOK' /\ NextBound'
  BY <1>9 DEF TaskAborts
<1>10. ASSUME NEW w \in Workers, Report(w) PROVE TypeOK' /\ NextBound'
  BY <1>10 DEF Report
<1>11. ASSUME NEW w \in Workers, Cancel(w) PROVE TypeOK' /\ NextBound'
  BY <1>11 DEF Cancel
<1>12. ASSUME NEW w \in Workers, Leave(w) PROVE TypeOK' /\ NextBound'
  BY <1>12 DEF Leave
<1>13. ASSUME ParentDone PROVE TypeOK' /\ NextBound'
  BY <1>13 DEF ParentDone
<1>14. CASE UNCHANGED vars
  BY <1>14 DEF vars
<1>. QED
  BY <1>1, <1>2, <1>3, <1>4, <1>5, <1>6, <1>7, <1>8, <1>9, <1>10, <1>11, <1>12, <1>13, <1>14
     DEF Next, Scheduler, TaskReturns, WorkerStep, Finished

(* For any number of tasks: no task past the last one is ever offered, and *)
(* error slot and jobs name tasks of the call.                             *)
THEOREM TypeCorrect == Spec => []TypeOK
<1>1. Init => TypeOK /\ NextBound
  BY InitTypeOK
<1>. QED
  BY <1>1, TypeInductive, PTL DEF Spec
-----------------------------------------------------------------------------
(* Who holds what: a running task has one worker, a worker that reports or *)
(* cancels holds a task that ended badly, an idle or gone worker nothing.  *)
Holding ==
    /\ \A w \in Workers :
         /\ worker[w] = "run" => job[w] \in Tasks /\ outcome[job[w]] = "running"
         /\ worker[w] \in {"report", "cancel"} =>
              job[w] \in Tasks /\ outcome[job[w]] \in {"failed", "aborted"}
         /\ worker[w] \in {"select", "exited"} => job[w] = 0
    /\ \A v, w \in Workers : v # w /\ job[v] # 0 => job[v] # job[w]
    /\ \A t \in Tasks : outcome[t] = "running" =>
         \E w \in Workers : worker[w] = "run" /\ job[w] = t

(* The tasks before next have been started, the others have not.           *)
Frontier ==
    /\ NextBound
    /\ \A t \in Tasks : (outcome[t] = "idle") = (t >= next)

(* An error a task returned is in the channel or with its worker; the      *)
(* context is cancelled by the call only after the channel holds a cause.  *)
Errors ==
    /\ \A t \in Tasks : outcome[t] \in {"failed", "aborted"} =>
         \/ errCh # 0
         \/ \E w \in Workers : worker[w] = "report" /\ job[w] = t
    /\ \A w \in Workers : worker[w] = "cancel" => errCh # 0
    /\ errCh # 0 =>
         \/ outcome[errCh] = "failed"
         \/ outcome[errCh] = "aborted" /\ ctx = "parent"
    /\ \A t \in Tasks : outcome[t] = "aborted" /\ errCh = 0 => ctx = "parent"
    /\ ctx = "canceled" /\ pc # "done" => errCh # 0 /\ outcome[errCh] = "failed"

Phases ==
    /\ pc = "enter" => Exited /\ next = 1 /\ errCh = 0
    /\ pc \in {"send", "wait"} => ctx # "absent"
    /\ pc = "wait" => next > n \/ ctx # "live"
    /\ pc = "done" => Exited
    /\ (pc = "done") = (result.kind # "none")
    /\ pc # "done" => result = NoResult
    /\ ctx = "absent" => Exited

PoolInv ==
    /\ TypeOK /\ Holding /\ Frontier /\ Errors /\ Phases
    /\ NilMeansAllRead /\ RootCauseReported

(* The invariant of the pool holds at the call.                            *)
LEMMA InitPool == Init => PoolInv
<1> SUFFICES ASSUME Init PROVE PoolInv
  OBVIOUS
<1> USE ParallelAssumption
<1>1. TypeOK /\ NextBound
  BY InitTypeOK
<1>2. Holding
  BY DEF Init, Holding
<1>3. Frontier
  BY <1>1 DEF Init, Frontier
<1>4. Errors
  BY DEF Init, Errors
<1>5. Phases /\ NilMeansAllRead /\ RootCauseReported
  BY DEF Init, Phases, Exited, NoResult, NilMeansAllRead, RootCauseReported
<1>. QED
  BY <1>1, <1>2, <1>3, <1>4, <1>5 DEF PoolInv

(* The verdict of Return, from what the invariant says of its parts.       *)
LEMMA VerdictSound ==
  ASSUME PoolInv, Return
  PROVE  /\ result'.kind = "nil" => \A t \in 1..n : outcome[t] = "ok"
         /\ result'.kind = "task" =>
              /\ result'.task \in Tasks
              /\ \/ outcome[result'.task] = "failed"
                 \/ outcome[result'.task] = "aborted" /\ ctx = "parent"
         /\ result'.kind = "ctx" => ctx = "parent"
         /\ result'.kind \in {"nil", "task", "ctx"}
         /\ \A t \in Tasks : outcome[t] # "running"
<1> USE ParallelAssumption DEF PoolInv
<1>1. \A t \in Tasks : outcome[t] # "running"
  BY DEF Return, Exited, Holding
<1>2. result'.kind = "nil" => \A t \in 1..n : outcome[t] = "ok"
  <2> SUFFICES ASSUME result'.kind = "nil", NEW t \in 1..n PROVE outcome[t] = "ok"
    OBVIOUS
  <2>1. errCh = 0 /\ ctx = "live"
    BY DEF Return, Verdict, Returned
  <2>2. next > n
    BY <2>1 DEF Return, Phases
  <2>3. t \in Tasks /\ outcome[t] # "idle"
    BY <2>2 DEF Frontier, NextBound, TypeOK
  <2>4. outcome[t] \notin {"failed", "aborted"}
    BY <2>1, <2>3 DEF Errors, Return, Exited
  <2>. QED
    BY <1>1, <2>3, <2>4 DEF TypeOK
<1>3. result'.kind = "task" => result'.task = errCh /\ errCh # 0
  BY DEF Return, Verdict, Returned
<1>4. result'.kind = "ctx" => errCh = 0 /\ ctx # "live"
  BY DEF Return, Verdict, Returned
<1>5. ctx \in {"live", "parent", "canceled"}
  BY DEF Return, Phases, TypeOK
<1>6. result'.kind \in {"nil", "task", "ctx"}
  BY DEF Return, Verdict, Returned
<1>7. result'.kind = "ctx" => ctx = "parent"
  BY <1>4, <1>5 DEF Errors, Return
<1>. QED
  BY <1>1, <1>2, <1>3, <1>6, <1>7 DEF Errors, TypeOK

(* Every step of scheduler, workers and tasks preserves it.                *)
LEMMA PoolInductive == PoolInv /\ TypeOK' /\ NextBound' /\ [Next]_vars => PoolInv'
<1> SUFFICES ASSUME PoolInv, TypeOK', NextBound', [Next]_vars PROVE PoolInv'
  OBVIOUS
<1> USE ParallelAssumption DEF PoolInv
<1>1. ASSUME ReturnEmpty PROVE PoolInv'
  BY <1>1 DEF ReturnEmpty, Returned, TypeOK, Holding, Frontier, Errors, Phases,
     Exited, NilMeansAllRead, RootCauseReported
<1>2. ASSUME RefuseNilContext PROVE PoolInv'
  BY <1>2 DEF RefuseNilContext, Returned, TypeOK, Holding, Frontier, Errors, Phases,
     Exited, NilMeansAllRead, RootCauseReported
<1>3. ASSUME Spawn PROVE PoolInv'
  <2>1. \A w \in Workers : job[w] = 0 /\ worker'[w] \in {"select", "exited"}
    BY <1>3 DEF Spawn, Phases, Exited, Holding
  <2>2. Holding'
    BY <1>3, <2>1 DEF Spawn, Holding, Phases, Exited
  <2>3. Errors'
    BY <1>3, <2>1 DEF Spawn, Errors, Phases, Exited
  <2>. QED
    BY <1>3, <2>2, <2>3 DEF Spawn, Frontier, Phases, NoResult, NilMeansAllRead, RootCauseReported
<1>4. ASSUME NEW w \in Workers, Dispatch(w) PROVE PoolInv'
  <2>1. next \in Tasks /\ outcome[next] = "idle" /\ job[w] = 0
    BY <1>4 DEF Dispatch, Frontier, Holding, TypeOK
  <2>0. \A v \in Workers : job[v] # next
    <3> SUFFICES ASSUME NEW v \in Workers, job[v] = next PROVE FALSE
      OBVIOUS
    <3>1. job[v] # 0
      BY <2>1
    <3>2. worker[v] \in {"select", "run", "report", "cancel", "exited"}
      BY DEF TypeOK
    <3>3. worker[v] \notin {"select", "exited"}
      BY <3>1 DEF Holding
    <3>4. outcome[job[v]] \in {"running", "failed", "aborted"}
      BY <3>2, <3>3 DEF Holding
    <3>. QED
      BY <2>1, <3>4
  <2>2. Holding'
    <3>1. \A v \in Workers :
            /\ worker'[v] = "run" => job'[v] \in Tasks /\ outcome'[job'[v]] = "running"
            /\ worker'[v] \in {"report", "cancel"} =>
                 job'[v] \in Tasks /\ outcome'[job'[v]] \in {"failed", "aborted"}
            /\ worker'[v] \in {"select", "exited"} => job'[v] = 0
      BY <1>4, <2>1 DEF Dispatch, Holding, TypeOK
    <3>2. \A u, v \in Workers : u # v /\ job'[u] # 0 => job'[u] # job'[v]
      BY <1>4, <2>1, <2>0 DEF Dispatch, Holding, TypeOK
    <3>3. \A t \in Tasks : outcome'[t] = "running" =>
            \E v \in Workers : worker'[v] = "run" /\ job'[v] = t
      BY <1>4, <2>1 DEF Dispatch, Holding, TypeOK
    <3>. QED
      BY <3>1, <3>2, <3>3 DEF Holding
  <2>3. Frontier'
    BY <1>4, <2>1 DEF Dispatch, Frontier, TypeOK
  <2>4. Errors'
    BY <1>4, <2>1 DEF Dispatch, Errors, TypeOK
  <2>5. Phases' /\ NilMeansAllRead' /\ RootCauseReported'
    BY <1>4 DEF Dispatch, Phases, NoResult, NilMeansAllRead, RootCauseReported, Exited
  <2>. QED
    BY <2>2, <2>3, <2>4, <2>5
<1>5. ASSUME CloseJobs PROVE PoolInv'
  BY <1>5 DEF CloseJobs, Holding, Frontier, Errors, Phases, Exited, NoResult,
     NilMeansAllRead, RootCauseReported
<1>6. ASSUME Return PROVE PoolInv'
  <2>1. Holding' /\ Frontier'
    BY <1>6 DEF Return, Holding, Frontier
  <2>2. Errors'
    BY <1>6 DEF Return, Errors
  <2>3. NilMeansAllRead' /\ RootCauseReported' /\ result'.kind \in {"nil", "task", "ctx"}
    BY <1>6, VerdictSound DEF Return, NilMeansAllRead, RootCauseReported
  <2>4. Phases'
    BY <1>6, <2>3 DEF Return, Phases, Exited
  <2>. QED
    BY <2>1, <2>2, <2>3, <2>4
<1>7. ASSUME NEW w \in Workers, TaskSucceeds(w) PROVE PoolInv'
  <2>1. job[w] \in Tasks /\ outcome[job[w]] = "running" /\ pc # "done" /\ ctx # "absent"
    BY <1>7 DEF TaskSucceeds, Holding, Phases, Exited
  <2>2. Holding'
    BY <1>7, <2>1 DEF TaskSucceeds, Holding, TypeOK
  <2>3. Frontier'
    BY <1>7, <2>1 DEF TaskSucceeds, Frontier, TypeOK
  <2>4. Errors'
    BY <1>7, <2>1 DEF TaskSucceeds, Errors, TypeOK
  <2>5. Phases' /\ NilMeansAllRead' /\ RootCauseReported'
    BY <1>7, <2>1 DEF TaskSucceeds, Phases, NoResult, NilMeansAllRead, RootCauseReported, Exited
  <2>. QED
    BY <2>2, <2>3, <2>4, <2>5
<1>8. ASSUME NEW w \in Workers, TaskFails(w) \/ TaskAborts(w) PROVE PoolInv'
  <2>1. job[w] \in Tasks /\ outcome[job[w]] = "running" /\ pc # "done" /\ ctx # "absent"
    BY <1>8 DEF TaskFails, TaskAborts, Holding, Phases, Exited
  <2>2. Holding'
    <3>1. \A v \in Workers :
            /\ worker'[v] = "run" => job'[v] \in Tasks /\ outcome'[job'[v]] = "running"
            /\ worker'[v] \in {"report", "cancel"} =>
                 job'[v] \in Tasks /\ outcome'[job'[v]] \in {"failed", "aborted"}
            /\ worker'[v] \in {"select", "exited"} => job'[v] = 0
      <4>1. /\ worker[w] = "run" /\ worker' = [worker EXCEPT ![w] = "report"]
            /\ job' = job /\ outcome' \in {[outcome EXCEPT ![job[w]] = "failed"],
                                          [outcome EXCEPT ![job[w]] = "aborted"]}
        BY <1>8 DEF TaskFails, TaskAborts
      <4>2. \A v \in Workers : v # w /\ job[v] # 0 => job[v] # job[w]
        BY <2>1 DEF Holding
      <4>. QED
        BY <4>1, <4>2, <2>1 DEF Holding, TypeOK
    <3>2. \A u, v \in Workers : u # v /\ job'[u] # 0 => job'[u] # job'[v]
      BY <1>8, <2>1 DEF TaskFails, TaskAborts, Holding, TypeOK
    <3>3. \A t \in Tasks : outcome'[t] = "running" =>
            \E v \in Workers : worker'[v] = "run" /\ job'[v] = t
      <4> SUFFICES ASSUME NEW t \in Tasks, outcome'[t] = "running"
                   PROVE \E v \in Workers : worker'[v] = "run" /\ job'[v] = t
        OBVIOUS
      <4>1. t # job[w] /\ outcome[t] = "running" /\ job' = job
        BY <1>8, <2>1 DEF TaskFails, TaskAborts, TypeOK
      <4>2. PICK v \in Workers : worker[v] = "run" /\ job[v] = t
        BY <4>1 DEF Holding
      <4>3. worker'[v] = "run"
        BY <1>8, <4>1, <4>2 DEF TaskFails, TaskAborts, TypeOK
      <4>. QED
        BY <4>1, <4>2, <4>3
    <3>. QED
      BY <3>1, <3>2, <3>3 DEF Holding
  <2>3. Frontier'
    BY <1>8, <2>1 DEF TaskFails, TaskAborts, Frontier, TypeOK
  <2>4. Errors'
    <3>1. /\ worker[w] = "run" /\ worker' = [worker EXCEPT ![w] = "report"]
          /\ pc' = pc /\ ctx' = ctx /\ errCh' = errCh /\ job' = job
      BY <1>8 DEF TaskFails, TaskAborts
    <3>2. /\ worker'[w] = "report"
          /\ \A v \in Workers \ {w} : worker'[v] = worker[v]
      BY <3>1 DEF TypeOK
    <3>3. \A t \in Tasks \ {job[w]} : outcome'[t] = outcome[t]
      BY <1>8 DEF TaskFails, TaskAborts, TypeOK
    <3>4. \/ outcome'[job[w]] = "failed"
          \/ outcome'[job[w]] = "aborted" /\ ctx # "live"
      BY <1>8, <2>1 DEF TaskFails, TaskAborts, TypeOK
    <3>5. errCh # 0 => errCh # job[w]
      BY <2>1 DEF Errors
    <3>6. errCh \in Tasks \cup {0} /\ ctx \in {"live", "parent", "canceled"}
      BY <2>1 DEF TypeOK
    <3>. QED
      BY <2>1, <3>1, <3>2, <3>3, <3>4, <3>5, <3>6 DEF Errors
  <2>5. Phases'
    <3>1. /\ n' = n /\ pc' = pc /\ ctx' = ctx /\ next' = next
          /\ errCh' = errCh /\ result' = result
      BY <1>8 DEF TaskFails, TaskAborts
    <3>2. worker[w] # "exited"
      BY <1>8 DEF TaskFails, TaskAborts
    <3>3. pc # "enter"
      BY <3>2 DEF Phases, Exited
    <3>. QED
      BY <2>1, <3>1, <3>3 DEF Phases
  <2>6. NilMeansAllRead' /\ RootCauseReported'
    <3>1. result = NoResult /\ result' = result
      BY <1>8, <2>1 DEF TaskFails, TaskAborts, Phases
    <3>. QED
      BY <3>1 DEF NoResult, NilMeansAllRead, RootCauseReported
  <2>. QED
    BY <2>2, <2>3, <2>4, <2>5, <2>6
<1>9. ASSUME NEW w \in Workers, Report(w) PROVE PoolInv'
  <2>1. /\ job[w] \in Tasks /\ outcome[job[w]] \in {"failed", "aborted"}
        /\ pc # "done" /\ ctx # "absent" /\ pc # "enter"
    BY <1>9 DEF Report, Holding, Phases, Exited
  <2>2. Holding' /\ Frontier'
    BY <1>9, <2>1 DEF Report, Holding, Frontier, TypeOK
  <2>3. Errors'
    <3>1. errCh' # 0
      BY <1>9, <2>1 DEF Report
    <3>2. \/ outcome'[errCh'] = "failed"
          \/ outcome'[errCh'] = "aborted" /\ ctx' = "parent"
      <4>1. CASE errCh = 0
        BY <1>9, <2>1, <4>1 DEF Report, Errors
      <4>2. CASE errCh # 0
        BY <1>9, <4>2 DEF Report, Errors
      <4>. QED
        BY <4>1, <4>2
    <3>3. ctx' = "canceled" => outcome'[errCh'] = "failed"
      BY <1>9, <2>1 DEF Report, Errors
    <3>. QED
      BY <3>1, <3>2, <3>3 DEF Errors
  <2>4. Phases' /\ NilMeansAllRead' /\ RootCauseReported'
    BY <1>9, <2>1 DEF Report, Phases, NoResult, NilMeansAllRead, RootCauseReported, Exited
  <2>. QED
    BY <2>2, <2>3, <2>4
<1>10. ASSUME NEW w \in Workers, Cancel(w) PROVE PoolInv'
  <2>1. errCh # 0 /\ pc # "done" /\ ctx # "absent" /\ pc # "enter"
    BY <1>10 DEF Cancel, Errors, Phases, Exited
  <2>2. Holding' /\ Frontier'
    BY <1>10, <2>1 DEF Cancel, Holding, Frontier, TypeOK
  <2>3. Errors'
    BY <1>10, <2>1 DEF Cancel, Errors, TypeOK
  <2>4. Phases' /\ NilMeansAllRead' /\ RootCauseReported'
    BY <1>10, <2>1 DEF Cancel, Phases, NoResult, NilMeansAllRead, RootCauseReported, Exited, TypeOK
  <2>. QED
    BY <2>2, <2>3, <2>4
<1>11. ASSUME NEW w \in Workers, Leave(w) PROVE PoolInv'
  <2>1. Holding' /\ Frontier'
    BY <1>11 DEF Leave, Holding, Frontier, TypeOK
  <2>2. Errors'
    BY <1>11 DEF Leave, Errors, TypeOK
  <2>3. Phases' /\ NilMeansAllRead' /\ RootCauseReported'
    BY <1>11 DEF Leave, Phases, NoResult, NilMeansAllRead, RootCauseReported, Exited, TypeOK
  <2>. QED
    BY <2>1, <2>2, <2>3
<1>12. ASSUME ParentDone PROVE PoolInv'
  <2>1. Holding' /\ Frontier' /\ Errors'
    BY <1>12 DEF ParentDone, Holding, Frontier, Errors
  <2>2. Phases' /\ NilMeansAllRead' /\ RootCauseReported'
    BY <1>12 DEF ParentDone, Phases, NilMeansAllRead, RootCauseReported, Exited
  <2>. QED
    BY <2>1, <2>2
<1>13. CASE UNCHANGED vars
  BY <1>13 DEF vars, Holding, Frontier, NextBound, Errors, Phases, Exited, NoResult,
     NilMeansAllRead, RootCauseReported
<1>. QED
  BY <1>1, <1>2, <1>3, <1>4, <1>5, <1>6, <1>7, <1>8, <1>9, <1>10, <1>11, <1>12, <1>13
     DEF Next, Scheduler, TaskReturns, WorkerStep, Finished

(* The invariant of the pool holds in every reachable state.               *)
LEMMA PoolInvHolds == Spec => []PoolInv
<1>1. PoolInv => TypeOK /\ NextBound
  BY DEF PoolInv, Frontier
<1>. QED
  BY <1>1, InitPool, TypeInductive, PoolInductive, PTL DEF Spec
-----------------------------------------------------------------------------
(* For any number of tasks, workers and any interleaving: a nil error      *)
(* means that every task wrote its output.                                 *)
THEOREM NilIsComplete == Spec => []NilMeansAllRead
BY PoolInvHolds, PTL DEF PoolInv

(* The returned error is a cause: an induced cancellation, or a bare       *)
(* context error, is returned only if the caller's context was done.       *)
THEOREM ErrorIsRootCause == Spec => []RootCauseReported
BY PoolInvHolds, PTL DEF PoolInv

(* No task starts, ends or writes once the call has returned.              *)
THEOREM NothingAfterReturn == Spec => NoLateWrite
<1>1. PoolInv /\ [Next]_vars => [result # NoResult => UNCHANGED outcome]_vars
  <2> SUFFICES ASSUME PoolInv, Next, result # NoResult PROVE UNCHANGED outcome
    OBVIOUS
  <2>1. pc = "done" /\ Exited
    BY DEF PoolInv, Phases
  <2>. QED
    BY <2>1 DEF Next, Scheduler, TaskReturns, WorkerStep, Finished, Exited, vars,
       ReturnEmpty, RefuseNilContext, Spawn, Dispatch, CloseJobs, Return, TaskSucceeds,
       TaskFails, TaskAborts, Report, Cancel, Leave, ParentDone
<1>. QED
  BY <1>1, PoolInvHolds, PTL DEF Spec, NoLateWrite

(* The pool implements the batch of CallBatch.                             *)
THEOREM BatchImplemented == Spec => ImplementsBatch
<1>1. Init => Batch!BatchInit
  BY DEF Init, Batch!BatchInit, Batch!Tasks, Batch!NoResult, NoResult
<1>2. PoolInv /\ [Next]_vars => [Batch!BatchNext]_(Batch!batchVars)
  <2> SUFFICES ASSUME PoolInv, [Next]_vars PROVE [Batch!BatchNext]_(Batch!batchVars)
    OBVIOUS
  <2> DEFINE Stutter == UNCHANGED Batch!batchVars
  <2> USE ParallelAssumption DEF PoolInv, Batch!Tasks
  <2>0. pc # "done" => result = Batch!NoResult
    BY DEF Phases, NoResult, Batch!NoResult
  <2>1. ASSUME ReturnEmpty PROVE Batch!ReturnNil
    BY <2>0, <2>1 DEF ReturnEmpty, Returned, Batch!ReturnNil
  <2>2. ASSUME RefuseNilContext PROVE Batch!RefuseNilContext
    <3>1. \A t \in Tasks : outcome[t] = "idle"
      BY <2>2 DEF RefuseNilContext, Phases, Frontier
    <3>. QED
      BY <2>0, <2>2, <3>1 DEF RefuseNilContext, Returned, Batch!RefuseNilContext
  <2>3. ASSUME Spawn PROVE Stutter
    BY <2>3 DEF Spawn, Batch!batchVars
  <2>4. ASSUME NEW w \in Workers, Dispatch(w) PROVE \E t \in Tasks : Batch!Begin(t)
    <3>1. next \in Tasks /\ outcome[next] = "idle"
      BY <2>4 DEF Dispatch, Frontier, TypeOK
    <3>2. Batch!Begin(next)
      BY <2>0, <2>4, <3>1 DEF Dispatch, Batch!Begin
    <3>. QED
      BY <3>1, <3>2
  <2>5. ASSUME CloseJobs PROVE Stutter
    BY <2>5 DEF CloseJobs, Batch!batchVars
  <2>6. ASSUME Return
        PROVE Batch!ReturnNil \/ Batch!ReturnTaskError \/ Batch!ReturnContextError
    <3>1. result = Batch!NoResult /\ Batch!Quiet
      BY <2>0, <2>6, VerdictSound DEF Return, Batch!Quiet
    <3>2. UNCHANGED <<n, outcome>> /\ (ctx = "parent")' = (ctx = "parent")
      BY <2>6 DEF Return
    <3>3. CASE result'.kind = "nil"
      BY <2>6, <3>1, <3>2, <3>3, VerdictSound DEF Return, Verdict, Returned, Batch!ReturnNil
    <3>4. CASE result'.kind = "task"
      <4>1. result' = [kind |-> "task", task |-> result'.task]
        BY <2>6, <3>4 DEF Return, Verdict, Returned
      <4>2. /\ result'.task \in Tasks
            /\ \/ outcome[result'.task] = "failed"
               \/ outcome[result'.task] = "aborted" /\ ctx = "parent"
        BY <2>6, <3>4, VerdictSound
      <4>. QED
        BY <3>1, <3>2, <4>1, <4>2 DEF Batch!ReturnTaskError
    <3>5. CASE result'.kind = "ctx"
      BY <2>6, <3>1, <3>2, <3>5, VerdictSound DEF Return, Verdict, Returned, Batch!ReturnContextError
    <3>. QED
      BY <2>6, <3>3, <3>4, <3>5, VerdictSound
  <2>7. ASSUME NEW w \in Workers, TaskReturns(w) PROVE \E t \in Tasks : Batch!Finish(t)
    <3>1. job[w] \in Tasks /\ outcome[job[w]] = "running" /\ pc # "done" /\ ctx # "absent"
      BY <2>7 DEF TaskReturns, TaskSucceeds, TaskFails, TaskAborts, Holding, Phases, Exited
    <3>2. PICK o \in {"ok", "failed", "aborted"} :
            /\ outcome' = [outcome EXCEPT ![job[w]] = o]
            /\ o = "aborted" => ctx # "live"
      BY <2>7 DEF TaskReturns, TaskSucceeds, TaskFails, TaskAborts
    <3>3. ctx # "live" => ctx = "parent" \/ \E s \in Tasks : outcome[s] = "failed"
      BY <3>1 DEF Errors, TypeOK
    <3>4. UNCHANGED <<n, ctx, result>>
      BY <2>7 DEF TaskReturns, TaskSucceeds, TaskFails, TaskAborts
    <3>5. Batch!Finish(job[w])
      BY <2>0, <3>1, <3>2, <3>3, <3>4 DEF Batch!Finish
    <3>. QED
      BY <3>1, <3>5
  <2>8. ASSUME NEW w \in Workers, WorkerStep(w) PROVE Stutter
    BY <2>8 DEF WorkerStep, Report, Cancel, Leave, Batch!batchVars
  <2>9. ASSUME ParentDone PROVE Batch!CallerStops
    BY <2>9 DEF ParentDone, Batch!CallerStops
  <2>10. CASE UNCHANGED vars
    BY <2>10 DEF vars, Batch!batchVars
  <2>. QED
    BY <2>1, <2>2, <2>3, <2>4, <2>5, <2>6, <2>7, <2>8, <2>9, <2>10
       DEF Next, Scheduler, Finished, Batch!BatchNext
<1>. QED
  BY <1>1, <1>2, PoolInvHolds, PTL DEF Spec, ImplementsBatch, Batch!BatchSpec
-----------------------------------------------------------------------------
(* Every step of a composite read is a step of the pool, or none of its.   *)
LEMMA PoolBelow == [ReadNext]_allVars => [Next]_vars
<1> SUFFICES ASSUME [ReadNext]_allVars PROVE [Next]_vars
  OBVIOUS
<1>1. CASE Refuse \/ KeepExplicitBlock \/ PinLatestBlock \/ ReadUnpinned \/ PinFails \/ NewBlock
  BY <1>1 DEF Refuse, KeepExplicitBlock, PinLatestBlock, ReadUnpinned, PinFails, NewBlock
<1>2. CASE QuoteBuy \/ QuoteSell \/ CurveState \/ TokenMetadata \/ VestState
  BY <1>2 DEF QuoteBuy, QuoteSell, CurveState, TokenMetadata, VestState, Replies
<1>3. ASSUME NEW w \in Workers, ReadField(w) PROVE [Next]_vars
  BY <1>3 DEF ReadField, Next, TaskReturns
<1>4. CASE PoolStep
  BY <1>4 DEF PoolStep, Next, TaskReturns
<1>5. CASE CallerCancels
  BY <1>5 DEF CallerCancels, Next
<1>6. CASE Answered
  BY <1>6 DEF Answered, allVars
<1>7. CASE UNCHANGED allVars
  BY <1>7 DEF allVars
<1>. QED
  BY <1>1, <1>2, <1>3, <1>4, <1>5, <1>6, <1>7 DEF ReadNext

(* So the invariant of the pool holds in every state of a composite read.  *)
LEMMA PoolHoldsBelow == ReadSpec => []PoolInv
<1>1. ReadInit => PoolInv
  BY InitPool DEF ReadInit
<1>2. PoolInv /\ [ReadNext]_allVars => PoolInv'
  BY PoolBelow, PoolInductive, TypeInductive DEF PoolInv, Frontier
<1>. QED
  BY <1>1, <1>2, PTL DEF ReadSpec
-----------------------------------------------------------------------------
(* No task has run before the block is settled; from then on the options   *)
(* do not change, and what was read was read by them.                      *)
Settled ==
    /\ {head, asked} \subseteq Nat /\ asked <= head
    /\ got \in [Tasks -> Nat] /\ tag \in Nat
    /\ phase \in {"opts", "pinned", "latest", "refused"}
    /\ phase = "opts" => tag = wanted /\ reply = "none"
    /\ phase \in {"opts", "refused"} => pc = "enter" /\ ~FromFields
    /\ phase = "latest" => wanted = 0
    /\ wanted # 0 => tag = wanted
    /\ phase = "pinned" /\ wanted = 0 => tag \in asked..head
    /\ FromFields => pc = "done" /\ result.kind = "nil"
    /\ \A t \in Tasks : outcome[t] = "ok" =>
         /\ phase = "pinned" => got[t] = tag
         /\ wanted = 0 => got[t] \in asked..head

(* The block of a read is settled before any field is read.                *)
LEMMA SettledInit == ReadInit => Settled
BY SnapshotAssumption DEF ReadInit, CallInit, Init, Settled, FromFields, Tasks

(* Every step of the operation, its pool and the chain preserves that.     *)
LEMMA SettledStep == PoolInv /\ Settled /\ [ReadNext]_allVars => Settled'
<1> SUFFICES ASSUME PoolInv, Settled, [ReadNext]_allVars PROVE Settled'
  OBVIOUS
<1> USE DEF Settled, FromFields
<1>0. pc = "enter" => \A t \in Tasks : outcome[t] # "ok"
  <2> SUFFICES ASSUME pc = "enter", NEW t \in Tasks PROVE outcome[t] # "ok"
    OBVIOUS
  <2>1. next = 1 /\ ((outcome[t] = "idle") = (t >= next))
    BY DEF PoolInv, Frontier, Phases
  <2>2. t >= 1
    BY ParallelAssumption
  <2>. QED
    BY <2>1, <2>2
<1>1. CASE Refuse \/ KeepExplicitBlock \/ PinLatestBlock \/ ReadUnpinned \/ PinFails
  BY <1>0, <1>1 DEF Refuse, KeepExplicitBlock, PinLatestBlock, ReadUnpinned, PinFails, vars
<1>2. CASE NewBlock
  BY <1>2 DEF NewBlock, vars
<1>3. CASE QuoteBuy \/ QuoteSell \/ CurveState \/ TokenMetadata \/ VestState
  <2>1. pc = "done" /\ (reply' \in {"closed", "quote", "fields"} => result.kind = "nil")
    BY <1>3 DEF QuoteBuy, QuoteSell, CurveState, TokenMetadata, VestState, Replies
  <2>. QED
    BY <1>3, <2>1 DEF QuoteBuy, QuoteSell, CurveState, TokenMetadata, VestState, Replies,
                      vars, callVars
<1>4. ASSUME NEW w \in Workers, ReadField(w) PROVE Settled'
  <2>1. job[w] \in Tasks
    BY <1>4 DEF ReadField, TaskSucceeds, PoolInv, Holding
  <2>2. FieldBlock \in Nat /\ (phase = "pinned" => FieldBlock = tag)
        /\ (wanted = 0 => FieldBlock \in asked..head)
    BY <1>4 DEF FieldBlock, ReadField
  <2>3. got' \in [Tasks -> Nat] /\ got'[job[w]] = FieldBlock
        /\ \A t \in Tasks \ {job[w]} : got'[t] = got[t] /\ outcome'[t] = outcome[t]
    BY <1>4, <2>1, <2>2 DEF ReadField, TaskSucceeds, PoolInv, TypeOK
  <2>4. \A t \in Tasks : outcome'[t] = "ok" =>
          /\ phase = "pinned" => got'[t] = tag
          /\ wanted = 0 => got'[t] \in asked..head
    BY <2>2, <2>3
  <2>. QED
    BY <1>4, <2>3, <2>4 DEF ReadField, TaskSucceeds
<1>5. CASE PoolStep
  <2>1. \A t \in Tasks : outcome'[t] = "ok" => outcome[t] = "ok"
    <3>1. CASE Scheduler
      BY <3>1 DEF Scheduler, ReturnEmpty, RefuseNilContext, Spawn, Dispatch, CloseJobs, Return,
                  PoolInv, TypeOK
    <3>2. ASSUME NEW w \in Workers, TaskFails(w) \/ TaskAborts(w) \/ WorkerStep(w)
          PROVE \A t \in Tasks : outcome'[t] = "ok" => outcome[t] = "ok"
      BY <3>2 DEF TaskFails, TaskAborts, WorkerStep, Report, Cancel, Leave, PoolInv, TypeOK
    <3>. QED
      BY <1>5, <3>1, <3>2 DEF PoolStep
  <2>2. pc = "done" => pc' = "done" /\ result' = result
    <3>1. CASE Scheduler
      BY <3>1 DEF Scheduler, ReturnEmpty, RefuseNilContext, Spawn, Dispatch, CloseJobs, Return
    <3>2. ASSUME NEW w \in Workers, TaskFails(w) \/ TaskAborts(w) \/ WorkerStep(w)
          PROVE pc' = pc /\ result' = result
      BY <3>2 DEF TaskFails, TaskAborts, WorkerStep, Report, Cancel, Leave
    <3>. QED
      BY <1>5, <3>1, <3>2 DEF PoolStep
  <2>3. phase \in {"pinned", "latest"} /\ UNCHANGED readVars
    BY <1>5 DEF PoolStep
  <2>. QED
    BY <2>1, <2>2, <2>3 DEF readVars, callVars
<1>6. CASE CallerCancels
  BY <1>6 DEF CallerCancels, ParentDone, readVars, callVars
<1>7. CASE UNCHANGED allVars
  BY <1>7 DEF allVars, vars, readVars, callVars
<1>. QED
  BY <1>1, <1>2, <1>3, <1>4, <1>5, <1>6, <1>7 DEF ReadNext, Answered

(* Both invariants together hold in every state of a composite read.       *)
LEMMA SettledHolds == ReadSpec => []Settled
BY PoolHoldsBelow, SettledInit, SettledStep, PTL DEF ReadSpec
-----------------------------------------------------------------------------
(* For any number of fields, workers and blocks: the fields of a pinned    *)
(* answer come from one block, the one the caller named if it named one.   *)
THEOREM PinnedIsOneBlock == ReadSpec => []SnapshotIsOneBlock
<1>1. PoolInv /\ Settled => SnapshotIsOneBlock
  <2> SUFFICES ASSUME PoolInv, Settled, FromFields PROVE SnapshotIsOneBlock
    BY DEF SnapshotIsOneBlock
  <2>1. \A t \in 1..n : t \in Tasks /\ outcome[t] = "ok"
    BY ParallelAssumption DEF PoolInv, Settled, NilMeansAllRead, TypeOK
  <2>. QED
    BY <2>1 DEF Settled, SnapshotIsOneBlock
<1>. QED
  BY <1>1, PoolHoldsBelow, SettledHolds, PTL

(* No field of an answer is older than the call, for any interleaving of   *)
(* reads and new blocks.                                                   *)
THEOREM NeverStale == ReadSpec => []AnswerIsNotStale
<1>1. PoolInv /\ Settled => AnswerIsNotStale
  <2> SUFFICES ASSUME PoolInv, Settled, FromFields PROVE AnswerIsNotStale
    BY DEF AnswerIsNotStale
  <2>1. \A t \in 1..n : t \in Tasks /\ outcome[t] = "ok"
    BY ParallelAssumption DEF PoolInv, Settled, NilMeansAllRead, TypeOK
  <2>. QED
    BY <2>1 DEF Settled, AnswerIsNotStale
<1>. QED
  BY <1>1, PoolHoldsBelow, SettledHolds, PTL
-----------------------------------------------------------------------------
(* A step of the enumeration is a step of a composite read, the reading of *)
(* the number of configurations, or its refusal.                           *)
LEMMA ReadBelow ==
  ASSUME [EnumerationNext]_enumerationVars
  PROVE  [ReadNext]_allVars \/ Count \/ CountRefused
<1>1. CASE PinBlock
  BY <1>1 DEF PinBlock, ReadNext
<1>2. ASSUME NEW w \in Workers, GetLaunchConfig(w) PROVE [ReadNext]_allVars
  BY <1>2 DEF GetLaunchConfig, ReadNext
<1>3. CASE Enumerate
  BY <1>3 DEF Enumerate, ReadNext
<1>4. CASE OpenLaunchConfigs
  BY <1>4 DEF OpenLaunchConfigs, ReadNext, CurveState
<1>5. CASE Meanwhile
  BY <1>5 DEF Meanwhile, ReadNext
<1>6. CASE UNCHANGED enumerationVars
  BY <1>6 DEF enumerationVars
<1>. QED
  BY <1>1, <1>2, <1>3, <1>4, <1>5, <1>6 DEF EnumerationNext

(* The pool has not started before the configurations are counted; their   *)
(* number is that of the block named by the options, or of a block since   *)
(* the call.                                                               *)
Enumerated ==
    /\ chain \in Chains
    /\ {head, tag} \subseteq 0..MaxHead /\ asked \in 1..MaxHead
    /\ phase = "pinned" => tag # 0
    /\ ~counted => pc = "enter" /\ ~FromFields
    /\ counted => phase \in {"pinned", "latest"}
    /\ counted /\ phase = "pinned" => n = chain[tag].count
    /\ counted /\ wanted = 0 => \E b \in asked..head : n = chain[b].count
    /\ FromFields => listed = {t \in 1..n : Enabled(t)}

EnumerationInv == PoolInv /\ Settled /\ Enumerated

(* The three invariants hold when the enumeration is asked for.            *)
LEMMA EnumerationInvInit == EnumerationInit => EnumerationInv
<1> SUFFICES ASSUME EnumerationInit PROVE EnumerationInv
  OBVIOUS
<1>1. PoolInv
  BY InitPool DEF EnumerationInit
<1>2. Settled
  BY SnapshotAssumption DEF EnumerationInit, CallInit, Init, Settled, FromFields
<1>3. Enumerated
  BY SnapshotAssumption DEF EnumerationInit, CallInit, Init, Enumerated, FromFields
<1>. QED
  BY <1>1, <1>2, <1>3 DEF EnumerationInv

(* The number read from the chain is one the tasks can be made for.        *)
LEMMA CountFits ==
  ASSUME chain \in Chains, NEW b \in 1..MaxHead, chain[b].count <= MaxConfigs
  PROVE  chain[b].count \in 0..MaxTasks
BY ConfigsAssumption, ParallelAssumption DEF Chains, Configurations

(* The pool's invariant survives the reading of the number of tasks, which *)
(* comes before the pool is started.                                       *)
LEMMA PoolSurvivesCount == EnumerationInv /\ Count => PoolInv'
<1> SUFFICES ASSUME EnumerationInv, Count PROVE PoolInv'
  OBVIOUS
<1>1. pc = "enter" /\ result = NoResult /\ next = 1 /\ Exited /\ errCh = 0
  BY DEF Count, EnumerationInv, Enumerated, PoolInv, Phases
<1>2. FieldBlock \in 1..MaxHead
  BY SnapshotAssumption DEF EnumerationInv, Enumerated, Settled, Count, FieldBlock
<1>3. n' \in 0..MaxTasks
  BY <1>2, CountFits DEF Count, EnumerationSize, EnumerationInv, Enumerated
<1>. QED
  BY <1>1, <1>3 DEF Count, EnumerationInv, PoolInv, TypeOK, Holding, Frontier, NextBound,
     Errors, Phases, NilMeansAllRead, RootCauseReported, Exited, NoResult

(* The pool's invariant and that of the read survive every step.           *)
LEMMA ReadInvStep ==
  EnumerationInv /\ [EnumerationNext]_enumerationVars => PoolInv' /\ Settled'
<1> SUFFICES ASSUME EnumerationInv, [EnumerationNext]_enumerationVars
             PROVE  PoolInv' /\ Settled'
  OBVIOUS
<1>1. CASE [ReadNext]_allVars
  BY <1>1, PoolBelow, PoolInductive, TypeInductive, SettledStep
     DEF EnumerationInv, PoolInv, Frontier
<1>2. CASE Count
  BY <1>2, PoolSurvivesCount
     DEF Count, EnumerationInv, Settled, FromFields, readVars, callVars
<1>3. CASE CountRefused
  <2>1. PoolInv'
    BY <1>3, PoolInductive, TypeInductive DEF CountRefused, EnumerationInv, PoolInv, Frontier
  <2>2. Settled'
    BY <1>3 DEF CountRefused, EnumerationInv, Enumerated, Settled, FromFields, vars
  <2>. QED
    BY <2>1, <2>2
<1>. QED
  BY <1>1, <1>2, <1>3, ReadBelow

(* Before the count, the number of tasks is the block's; after it, it is   *)
(* fixed, and the block it came from stays within the call's time.         *)
LEMMA EnumeratedStep ==
  EnumerationInv /\ [EnumerationNext]_enumerationVars => Enumerated'
<1> SUFFICES ASSUME EnumerationInv, [EnumerationNext]_enumerationVars PROVE Enumerated'
  OBVIOUS
<1> USE DEF Enumerated, FromFields
<1>1. CASE PinBlock
  BY <1>1, SnapshotAssumption DEF PinBlock, Refuse, KeepExplicitBlock, PinLatestBlock,
     ReadUnpinned, PinFails, enumVars, vars, EnumerationInv, Settled
<1>2. CASE Count
  <2>1. pc = "enter" /\ phase \in {"pinned", "latest"} /\ reply' = reply
    BY <1>2 DEF Count, EnumerationInv, readVars
  <2>2. FieldBlock \in 1..MaxHead /\ (phase = "pinned" => FieldBlock = tag)
        /\ (wanted = 0 => FieldBlock \in asked..head)
    BY <2>1, SnapshotAssumption DEF EnumerationInv, Settled, FieldBlock
  <2>3. n' = chain[FieldBlock].count
    BY <1>2 DEF Count, EnumerationSize
  <2>4. counted' /\ UNCHANGED <<phase, wanted, tag, head, asked, chain>> /\ ~FromFields'
    BY <1>2, <2>1 DEF Count, EnumerationInv, readVars, callVars
  <2>5. wanted' = 0 => \E b \in asked'..head' : n' = chain'[b].count
    BY <2>2, <2>3, <2>4
  <2>6. phase' = "pinned" => n' = chain'[tag'].count
    BY <2>2, <2>3, <2>4
  <2>. QED
    BY <2>1, <2>4, <2>5, <2>6 DEF EnumerationInv
<1>3. CASE CountRefused
  BY <1>3 DEF CountRefused, EnumerationInv, enumVars, vars
<1>4. ASSUME NEW w \in Workers, GetLaunchConfig(w) PROVE Enumerated'
  <2>1. ~FromFields /\ reply' = reply
    BY <1>4 DEF GetLaunchConfig, ReadField, TaskSucceeds, EnumerationInv, Settled, PoolInv,
       Phases, Exited
  <2>2. counted /\ counted' /\ n' = n /\ UNCHANGED <<phase, wanted, tag, head, asked, chain>>
    BY <1>4 DEF GetLaunchConfig, ReadField, TaskSucceeds, enumVars
  <2>3. (wanted = 0 => \E b \in asked..head : n = chain[b].count)'
    BY <2>2 DEF EnumerationInv
  <2>. QED
    BY <2>1, <2>2, <2>3 DEF EnumerationInv
<1>5. CASE Enumerate
  <2>1. n' = n
    BY <1>5 DEF Enumerate, PoolStep, Scheduler, ReturnEmpty, RefuseNilContext, Spawn, Dispatch,
       CloseJobs, Return, TaskFails, TaskAborts, WorkerStep, Report, Cancel, Leave
  <2>. QED
    BY <1>5, <2>1 DEF Enumerate, PoolStep, enumVars, readVars, callVars, EnumerationInv, Enabled
<1>6. CASE OpenLaunchConfigs
  <2>1. n' = n /\ got' = got /\ chain' = chain /\ counted' = counted
        /\ UNCHANGED <<phase, wanted, tag, head, asked, pc>>
    BY <1>6 DEF OpenLaunchConfigs, Replies, vars, callVars
  <2>2. counted
    BY <1>6 DEF OpenLaunchConfigs, Replies, EnumerationInv
  <2>3. reply' \in {"fields", "error"}
    BY <1>6 DEF OpenLaunchConfigs, Replies
  <2>4. reply' = "fields" => listed' = {t \in 1..n : Enabled(t)}
    BY <1>6 DEF OpenLaunchConfigs
  <2>5. FromFields' => listed' = {t \in 1..n : t \in chain[got[t]].enabled}
    BY <2>3, <2>4 DEF Enabled
  <2>6. FromFields' => listed' = {t \in 1..n : Enabled(t)}'
    BY <2>1, <2>5 DEF Enabled
  <2>7. (wanted = 0 => \E b \in asked..head : n = chain[b].count)'
    BY <2>1, <2>2 DEF EnumerationInv
  <2>. QED
    BY <2>1, <2>2, <2>6, <2>7 DEF EnumerationInv
<1>7. CASE Meanwhile
  <2>1. CASE NewBlock
    <3>1. head' = head + 1 /\ head' <= MaxHead
          /\ UNCHANGED <<n, pc, phase, wanted, tag, asked, got, reply, chain, counted, listed>>
      BY <1>7, <2>1, SnapshotAssumption DEF Meanwhile, NewBlock, vars, enumVars, EnumerationInv
    <3>2. asked..head \subseteq asked..head' /\ head' \in 0..MaxHead
      BY <3>1, SnapshotAssumption DEF EnumerationInv
    <3>3. (counted /\ wanted = 0 => \E b \in asked..head : n = chain[b].count)'
      BY <3>1, <3>2 DEF EnumerationInv
    <3>4. (FromFields => listed = {t \in 1..n : Enabled(t)})'
      BY <3>1 DEF EnumerationInv, Enabled
    <3>. QED
      BY <3>1, <3>2, <3>3, <3>4 DEF EnumerationInv
  <2>2. CASE CallerCancels
    BY <1>7, <2>2 DEF Meanwhile, CallerCancels, ParentDone, readVars, callVars, enumVars,
       EnumerationInv, Enabled
  <2>3. CASE Answered
    BY <1>7, <2>3 DEF Meanwhile, Answered, allVars, vars, readVars, callVars, enumVars,
       EnumerationInv, Enabled
  <2>. QED
    BY <1>7, <2>1, <2>2, <2>3 DEF Meanwhile
<1>8. CASE UNCHANGED enumerationVars
  BY <1>8 DEF enumerationVars, allVars, vars, readVars, callVars, enumVars, EnumerationInv, Enabled
<1>. QED
  BY <1>1, <1>2, <1>3, <1>4, <1>5, <1>6, <1>7, <1>8 DEF EnumerationNext

(* The three invariants hold in every state of an enumeration.             *)
LEMMA EnumerationInvHolds == EnumerationSpec => []EnumerationInv
<1>1. EnumerationInv /\ [EnumerationNext]_enumerationVars => EnumerationInv'
  BY ReadInvStep, EnumeratedStep DEF EnumerationInv
<1>. QED
  BY <1>1, EnumerationInvInit, PTL DEF EnumerationSpec
-----------------------------------------------------------------------------
(* For any number of configurations and limits: a pinned list is exactly   *)
(* what its block has enabled.                                             *)
THEOREM PinnedListIsExact == EnumerationSpec => []ListIsOneBlock
<1>1. EnumerationInv => ListIsOneBlock
  <2> SUFFICES ASSUME EnumerationInv, FromFields, phase = "pinned"
               PROVE  listed = chain[tag].enabled
    BY DEF ListIsOneBlock
  <2>1. counted /\ n = chain[tag].count /\ tag \in 1..MaxHead
    BY SnapshotAssumption DEF EnumerationInv, Enumerated
  <2>2. \A t \in 1..n : got[t] = tag
    BY ParallelAssumption DEF EnumerationInv, PoolInv, Settled, NilMeansAllRead, TypeOK
  <2>3. listed = {t \in 1..n : t \in chain[tag].enabled}
    BY <2>2 DEF EnumerationInv, Enumerated, Enabled
  <2>4. chain[tag].enabled \subseteq 1..n
    BY <2>1 DEF EnumerationInv, Enumerated, Chains, Configurations
  <2>. QED
    BY <2>3, <2>4
<1>. QED
  BY <1>1, EnumerationInvHolds, PTL

(* For any history of the chain: a list, pinned or not, has nothing that   *)
(* was never enabled during the call and lacks nothing that always was.    *)
THEOREM ListOfThisTime == EnumerationSpec => []ListIsOfThisTime
<1>1. EnumerationInv => ListIsOfThisTime
  <2> SUFFICES ASSUME EnumerationInv, FromFields, wanted = 0
               PROVE  /\ \A t \in listed : \E b \in asked..head : t \in chain[b].enabled
                      /\ \A t \in Ids : (\A b \in asked..head : t \in chain[b].enabled)
                                        => t \in listed
    BY DEF ListIsOfThisTime
  <2>1. \A t \in 1..n : got[t] \in asked..head
    BY ParallelAssumption DEF EnumerationInv, PoolInv, Settled, NilMeansAllRead, TypeOK
  <2>2. listed = {t \in 1..n : t \in chain[got[t]].enabled}
    BY DEF EnumerationInv, Enumerated, Enabled
  <2>3. ASSUME NEW t \in Ids, \A b \in asked..head : t \in chain[b].enabled
        PROVE  t \in listed
    <3>1. PICK b \in asked..head : n = chain[b].count
      BY DEF EnumerationInv, Enumerated
    <3>2. b \in 1..MaxHead
      BY SnapshotAssumption DEF EnumerationInv, Enumerated
    <3>3. chain[b].enabled \subseteq 1..n
      BY <3>1, <3>2 DEF EnumerationInv, Enumerated, Chains, Configurations
    <3>4. t \in 1..n
      BY <2>3, <3>3
    <3>. QED
      BY <2>1, <2>2, <2>3, <3>4
  <2>. QED
    BY <2>1, <2>2, <2>3
<1>. QED
  BY <1>1, EnumerationInvHolds, PTL
=============================================================================
