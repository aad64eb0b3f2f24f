------------------------------ MODULE McpBatch ------------------------------
(***************************************************************************)
(* Execute of internal/mcpbatch: a validated batch of MCP calls, a         *)
(* scheduler that hands call indices to a pool of workers over an          *)
(* unbuffered channel, one shared context that fail_fast and the parent    *)
(* cancel, and one result slot per call.                                   *)
(***************************************************************************)
EXTENDS Naturals, FiniteSets

CONSTANTS
  Workers,   \* goroutines of the pool: MaxConcurrency many
  N,         \* calls of the batch
  CallErrors, \* the errors a call of the client may end with
  NoCall     \* what a worker without a job holds

ASSUME BatchAssumption ==
  /\ N \in Nat \ {0}
  /\ Workers # {} /\ IsFiniteSet(Workers)
  /\ CallErrors \subseteq {"deadline", "canceled", "transport"}
  /\ NoCall \notin Nat

VARIABLES
  failFast,    \* fail_fast of the batch
  scheduler,   \* where the scheduling goroutine is
  scheduled,   \* indices sent so far
  worker,      \* where each worker is
  job,         \* the index each worker holds
  results,     \* the status of each call
  failed,      \* executor.failed
  cancelled,   \* the executor cancelled its context
  parentDone,  \* the parent context is cancelled or past its deadline
  starts,      \* ghost: how often each call was sent to the server
  lateStarts   \* ghost: calls sent after `failed` was set

pool == <<worker, job>>
ctx  == <<failFast, failed, cancelled, parentDone>>
vars == <<scheduler, scheduled, pool, results, ctx, starts, lateStarts>>

Calls    == 1..N
Failures == {"tool_error", "transport_error", "timeout"}
Statuses == Failures \cup {"ok", "skipped", "canceled"}
CtxDone  == cancelled \/ parentDone

Init ==
  /\ failFast \in BOOLEAN
  /\ scheduler = "check" /\ scheduled = 0
  /\ worker = [w \in Workers |-> "idle"]
  /\ job = [w \in Workers |-> NoCall]
  /\ results = [i \in Calls |-> "none"]
  /\ failed = FALSE /\ cancelled = FALSE /\ parentDone = FALSE
  /\ starts = [i \in Calls |-> 0] /\ lateStarts = 0
-----------------------------------------------------------------------------
(* The scheduler.                                                          *)

Check_IgnoresFailed ==  \* mutant: sends until the context is done
  /\ scheduler = "check"
  /\ scheduler' = IF scheduled < N THEN "select" ELSE "close"
  /\ UNCHANGED <<scheduled, pool, results, ctx, starts, lateStarts>>

\* Between two sends it looks at `failed`.
Check ==
  /\ scheduler = "check"
  /\ scheduler' = IF scheduled < N /\ ~(failFast /\ failed) THEN "select" ELSE "close"
  /\ UNCHANGED <<scheduled, pool, results, ctx, starts, lateStarts>>

Send_Twice(w) ==  \* mutant: the index moves on only after the next look at `failed`
  /\ scheduler = "select" /\ worker[w] = "idle"
  /\ scheduled' = IF scheduled > 0 /\ \E v \in Workers : job[v] = scheduled
                    THEN scheduled ELSE scheduled + 1
  /\ worker' = [worker EXCEPT ![w] = "received"]
  /\ job' = [job EXCEPT ![w] = scheduled']
  /\ scheduler' = "check"
  /\ UNCHANGED <<results, ctx, starts, lateStarts>>

\* The select: a worker receives the next index, or the context is done.  When
\* both can happen either does.
Send(w) ==
  /\ scheduler = "select" /\ worker[w] = "idle"
  /\ scheduled' = scheduled + 1
  /\ worker' = [worker EXCEPT ![w] = "received"]
  /\ job' = [job EXCEPT ![w] = scheduled + 1]
  /\ scheduler' = "check"
  /\ UNCHANGED <<results, ctx, starts, lateStarts>>

GiveUp ==
  /\ scheduler = "select" /\ CtxDone
  /\ scheduler' = "close"
  /\ UNCHANGED <<scheduled, pool, results, ctx, starts, lateStarts>>

Close ==
  /\ scheduler = "close"
  /\ scheduler' = "wait"
  /\ UNCHANGED <<scheduled, pool, results, ctx, starts, lateStarts>>

\* What becomes of a call that is not sent to the server.
NotRun == IF failFast /\ failed THEN "skipped" ELSE "canceled"

Finalize_FromTheLast ==  \* mutant: the call after the last one sent is forgotten
  /\ scheduler = "wait" /\ \A w \in Workers : worker[w] = "stopped"
  /\ results' = [i \in Calls |-> IF i > scheduled + 1 THEN NotRun ELSE results[i]]
  /\ scheduler' = "done"
  /\ UNCHANGED <<scheduled, pool, ctx, starts, lateStarts>>

Finalize ==
  /\ scheduler = "wait" /\ \A w \in Workers : worker[w] = "stopped"
  /\ results' = [i \in Calls |-> IF i > scheduled THEN NotRun ELSE results[i]]
  /\ scheduler' = "done"
  /\ UNCHANGED <<scheduled, pool, ctx, starts, lateStarts>>
-----------------------------------------------------------------------------
(* A worker.                                                               *)

Idle(w) == /\ worker' = [worker EXCEPT ![w] = "idle"]
           /\ job' = [job EXCEPT ![w] = NoCall]

\* The channel is closed.
Stop(w) ==
  /\ worker[w] = "idle" /\ scheduler = "wait"
  /\ worker' = [worker EXCEPT ![w] = "stopped"]
  /\ UNCHANGED <<scheduler, scheduled, job, results, ctx, starts, lateStarts>>

Skip(w) ==
  /\ worker[w] = "received" /\ CtxDone
  /\ results' = [results EXCEPT ![job[w]] = NotRun]
  /\ Idle(w)
  /\ UNCHANGED <<scheduler, scheduled, ctx, starts, lateStarts>>

Call(w) ==
  /\ worker[w] = "received" /\ ~CtxDone
  /\ worker' = [worker EXCEPT ![w] = "calling"]
  /\ starts' = [starts EXCEPT ![job[w]] = @ + 1]
  /\ lateStarts' = IF failed THEN lateStarts + 1 ELSE lateStarts
  /\ UNCHANGED <<scheduler, scheduled, job, results, ctx>>

ErrorStatus_DeadlineCancels(err) ==  \* mutant: a deadline counts as a cancellation
  IF CtxDone \/ err # "transport" THEN "canceled" ELSE "transport_error"

\* A call that ends with an error while the context is done counts as
\* cancelled, whatever the error says.
ErrorStatus(err) ==
  CASE CtxDone \/ err = "canceled"     -> "canceled"
    [] ~CtxDone /\ err = "deadline"  -> "timeout"
    [] ~CtxDone /\ err = "transport" -> "transport_error"

\* The server answers, usably or not, the deadline of the call passes, the
\* transport fails, or the context of the batch interrupts the call.
Answers ==
  {"ok", "tool_error", "transport_error"} \cup {ErrorStatus(err) : err \in CallErrors}

Answer_KeepsSlot(w) ==  \* mutant: a worker fills the slot of the last index sent
  /\ worker[w] = "calling"
  /\ \E status \in Answers :
       /\ results' = [results EXCEPT ![scheduled] = status]
       /\ IF status # "ok" /\ failFast
            THEN worker' = [worker EXCEPT ![w] = "failing"] /\ UNCHANGED job
            ELSE Idle(w)
  /\ UNCHANGED <<scheduler, scheduled, ctx, starts, lateStarts>>

Answer(w) ==
  /\ worker[w] = "calling"
  /\ \E status \in Answers :
       /\ results' = [results EXCEPT ![job[w]] = status]
       /\ IF status # "ok" /\ failFast
            THEN worker' = [worker EXCEPT ![w] = "failing"] /\ UNCHANGED job
            ELSE Idle(w)
  /\ UNCHANGED <<scheduler, scheduled, ctx, starts, lateStarts>>

\* CompareAndSwap: the first failure goes on to cancel the context.
Fail(w) ==
  /\ worker[w] = "failing"
  /\ failed' = TRUE
  /\ IF failed THEN Idle(w)
               ELSE worker' = [worker EXCEPT ![w] = "cancelling"] /\ UNCHANGED job
  /\ UNCHANGED <<scheduler, scheduled, results, failFast, cancelled, parentDone, starts, lateStarts>>

Cancel_Exits(w) ==  \* mutant: the worker that cancels does not go on receiving
  /\ worker[w] = "cancelling"
  /\ cancelled' = TRUE
  /\ job' = [job EXCEPT ![w] = NoCall]
  /\ UNCHANGED <<scheduler, scheduled, worker, results, failFast, failed, parentDone, starts, lateStarts>>

Cancel(w) ==
  /\ worker[w] = "cancelling"
  /\ cancelled' = TRUE
  /\ Idle(w)
  /\ UNCHANGED <<scheduler, scheduled, results, failFast, failed, parentDone, starts, lateStarts>>

ParentCancels ==
  /\ ~parentDone
  /\ parentDone' = TRUE
  /\ UNCHANGED <<scheduler, scheduled, pool, results, failFast, failed, cancelled, starts, lateStarts>>
-----------------------------------------------------------------------------
Schedule == Check \/ (\E w \in Workers : Send(w)) \/ GiveUp \/ Close \/ Finalize

Work(w) == Stop(w) \/ Skip(w) \/ Call(w) \/ Answer(w) \/ Fail(w) \/ Cancel(w)

Returned == scheduler = "done" /\ UNCHANGED vars

Next == Schedule \/ (\E w \in Workers : Work(w)) \/ ParentCancels \/ Returned

Spec == Init /\ [][Next]_vars

\* The Go scheduler runs every goroutine that can run, and the timeout of a
\* call ends it at the latest.
FairSpec == Spec /\ WF_vars(Schedule) /\ \A w \in Workers : WF_vars(Work(w))
-----------------------------------------------------------------------------
\* Type correctness of the scheduler, the workers and the results.
TypeOK ==
  /\ scheduler \in {"check", "select", "close", "wait", "done"}
  /\ scheduled \in 0..N
  /\ worker \in [Workers -> {"idle", "received", "calling", "failing", "cancelling",
                             "stopped"}]
  /\ job \in [Workers -> Calls \cup {NoCall}]
  /\ results \in [Calls -> Statuses \cup {"none"}]
  /\ failFast \in BOOLEAN /\ failed \in BOOLEAN /\ cancelled \in BOOLEAN /\ parentDone \in BOOLEAN
  /\ starts \in [Calls -> Nat] /\ lateStarts \in Nat

\* When Execute returns, every call of the batch has a status, and the status
\* tells whether it was sent: a skipped call never was, and a call that never
\* was is skipped or canceled.
Accounted ==
  scheduler = "done" =>
    \A i \in Calls :
      /\ results[i] # "none"
      /\ results[i] = "skipped" => starts[i] = 0
      /\ starts[i] = 0 => results[i] \in {"skipped", "canceled"}

\* A call is sent at most once, and a result once written stays: no worker
\* and not the final sweep writes over the result of another call.
SentOnce == \A i \in Calls : starts[i] <= 1

WrittenOnce ==
  [][\A i \in Calls : results[i] # "none" => results'[i] = results[i]]_vars

\* The cause is reported: if the caller did not cancel the batch and yet not
\* every call went well, some call that was sent carries the failure itself
\* (with a client that reports a cancellation only when its context is done).
CauseReported ==
  scheduler = "done" /\ ~parentDone /\ (\E i \in Calls : results[i] # "ok")
    => \E i \in Calls : starts[i] = 1 /\ results[i] \in Failures

\* fail_fast stops the batch: a batch of one worker sends nothing after a
\* failure, and in a larger pool no more calls slip in than there are workers.
StopsFast ==
  failFast => lateStarts <= (IF Cardinality(Workers) = 1 THEN 0 ELSE Cardinality(Workers))

\* Every batch ends, whoever cancels it and whatever the server does, within
\* the timeouts of its calls.
BatchEnds == <>(scheduler = "done")
=============================================================================
