--------------------------- MODULE McpBatchProofs ---------------------------
(***************************************************************************)
(* Theorems about McpBatch, for every number of workers and calls.         *)
(***************************************************************************)
EXTENDS McpBatch, FiniteSetTheorems, TLAPS

\* A worker holds an index exactly while it is busy; the index has been sent,
\* and no other worker holds it.
JobsInv ==
  /\ scheduler = "select" => scheduled < N
  /\ \A w \in Workers : (job[w] = NoCall) <=> (worker[w] \in {"idle", "stopped"})
  /\ \A w \in Workers : job[w] # NoCall => job[w] <= scheduled
  /\ \A v, w \in Workers : v # w /\ job[v] # NoCall => job[v] # job[w]

\* What the place of a worker says about the call it holds.
HeldInv ==
  \A w \in Workers :
    /\ worker[w] = "received" => results[job[w]] = "none" /\ starts[job[w]] = 0
    /\ worker[w] = "calling"  => results[job[w]] = "none" /\ starts[job[w]] = 1
    /\ worker[w] \in {"failing", "cancelling"} => results[job[w]] # "none"

\* What the slot of a call says: a slot is empty because the call has not been
\* sent yet or because a worker holds it.
SlotsInv ==
  /\ scheduler # "done" =>
       \A i \in Calls : i > scheduled => results[i] = "none" /\ starts[i] = 0
  /\ scheduler # "done" =>
       \A i \in Calls : i <= scheduled /\ results[i] = "none" => \E w \in Workers : job[w] = i
  /\ scheduler = "done" =>
       \A i \in Calls : results[i] # "none"
  /\ scheduler = "done" => \A w \in Workers : worker[w] = "stopped"
  /\ \A i \in Calls : starts[i] <= 1
  /\ \A i \in Calls : results[i] = "skipped" => starts[i] = 0
  /\ \A i \in Calls : results[i] # "none" /\ starts[i] = 0 => results[i] \in {"skipped", "canceled"}

BatchInv == TypeOK /\ JobsInv /\ HeldInv /\ SlotsInv

\* Before the pool starts no slot is filled and no worker holds a call.
THEOREM BatchInit == Init => BatchInv
<1> SUFFICES ASSUME Init PROVE BatchInv
  OBVIOUS
<1>1. \A i \in Calls : results[i] = "none" /\ starts[i] = 0 /\ i > 0
  BY BatchAssumption DEF Init, Calls
<1>2. \A w \in Workers : worker[w] = "idle" /\ job[w] = NoCall
  BY DEF Init
<1>3. scheduler = "check" /\ scheduled = 0
  BY DEF Init
<1>4. TypeOK
  <2>1. scheduled \in 0..N
    BY <1>3, BatchAssumption
  <2>2. starts \in [Calls -> Nat] /\ lateStarts \in Nat
    BY DEF Init
  <2>3. /\ worker \in [Workers -> {"idle", "received", "calling", "failing", "cancelling", "stopped"}]
        /\ job \in [Workers -> Calls \cup {NoCall}]
    BY DEF Init
  <2>4. results \in [Calls -> Statuses \cup {"none"}]
    BY DEF Init
  <2>5. failFast \in BOOLEAN /\ failed \in BOOLEAN /\ cancelled \in BOOLEAN /\ parentDone \in BOOLEAN
    BY DEF Init
  <2> QED
    BY <1>3, <2>1, <2>2, <2>3, <2>4, <2>5 DEF TypeOK
<1>5. JobsInv
  BY <1>2, <1>3 DEF JobsInv
<1>6. HeldInv
  BY <1>2 DEF HeldInv
<1>7. SlotsInv
  BY <1>1, <1>3 DEF SlotsInv, Calls
<1> QED
  BY <1>4, <1>5, <1>6, <1>7 DEF BatchInv

\* The index of a busy worker is a call.
LEMMA BusyHoldsCall ==
  ASSUME BatchInv, NEW w \in Workers, worker[w] \notin {"idle", "stopped"}
  PROVE  job[w] \in Calls /\ job[w] # NoCall /\ job[w] <= scheduled
BY DEF BatchInv, TypeOK, JobsInv

LEMMA CheckStep == BatchInv /\ (Check \/ GiveUp \/ Close) => BatchInv'
<1> SUFFICES ASSUME BatchInv, Check \/ GiveUp \/ Close PROVE BatchInv'
  OBVIOUS
<1>1. /\ UNCHANGED <<scheduled, pool, results, ctx, starts, lateStarts>>
      /\ scheduler # "done" /\ scheduler' \in {"select", "close", "wait"}
      /\ scheduler' = "select" => scheduled < N
  BY DEF Check, GiveUp, Close
<1> QED
  BY <1>1 DEF BatchInv, TypeOK, JobsInv, HeldInv, SlotsInv, pool, ctx

LEMMA SendStep ==
  ASSUME BatchInv, NEW w \in Workers, Send(w)
  PROVE  BatchInv'
<1>1. scheduled < N /\ scheduled + 1 \in Calls /\ scheduled + 1 # NoCall
  BY BatchAssumption DEF Send, BatchInv, TypeOK, JobsInv, Calls
<1>2. TypeOK'
  BY <1>1, BatchAssumption DEF Send, BatchInv, TypeOK, ctx
<1>3. JobsInv'
  <2>1. \A v \in Workers : job[v] # NoCall => job[v] # scheduled + 1
    BY <1>1 DEF BatchInv, JobsInv, TypeOK, Calls
  <2>2. /\ worker' = [worker EXCEPT ![w] = "received"] /\ job' = [job EXCEPT ![w] = scheduled + 1]
        /\ scheduled' = scheduled + 1 /\ scheduler' = "check" /\ job[w] = NoCall
    BY DEF Send, BatchInv, JobsInv
  <2>3. \A v \in Workers : job'[v] # NoCall => job'[v] <= scheduled'
    BY <1>1, <2>2 DEF BatchInv, TypeOK, JobsInv, Calls
  <2>4. \A v \in Workers : (job'[v] = NoCall) <=> (worker'[v] \in {"idle", "stopped"})
    BY <1>1, <2>2 DEF BatchInv, TypeOK, JobsInv
  <2>5. \A u, v \in Workers : u # v /\ job'[u] # NoCall => job'[u] # job'[v]
    BY <1>1, <2>1, <2>2 DEF BatchInv, TypeOK, JobsInv
  <2> QED
    BY <2>2, <2>3, <2>4, <2>5 DEF JobsInv
<1>4. HeldInv'
  BY <1>1, BusyHoldsCall DEF Send, BatchInv, TypeOK, HeldInv, SlotsInv, Calls
<1>5. SlotsInv'
  <2>1. \A i \in Calls : i <= scheduled' /\ results[i] = "none" => \E v \in Workers : job'[v] = i
    <3> SUFFICES ASSUME NEW i \in Calls, i <= scheduled + 1, results[i] = "none"
                 PROVE  \E v \in Workers : job'[v] = i
      BY DEF Send
    <3>1. CASE i = scheduled + 1
      BY <3>1 DEF Send, BatchInv, TypeOK
    <3>2. CASE i # scheduled + 1
      <4>1. i <= scheduled
        BY <1>1, <3>2 DEF Calls, BatchInv, TypeOK
      <4>2. PICK v \in Workers : job[v] = i
        BY <4>1 DEF Send, BatchInv, SlotsInv
      <4>3. v # w
        BY <4>2, BatchAssumption DEF Send, BatchInv, JobsInv, Calls
      <4> QED
        BY <4>2, <4>3 DEF Send, BatchInv, TypeOK
    <3> QED
      BY <3>1, <3>2
  <2> QED
    BY <1>1, <2>1 DEF Send, BatchInv, TypeOK, SlotsInv, Calls
<1> QED
  BY <1>2, <1>3, <1>4, <1>5 DEF BatchInv

LEMMA FinalizeStep == BatchInv /\ Finalize => BatchInv'
<1> SUFFICES ASSUME BatchInv, Finalize PROVE BatchInv'
  OBVIOUS
<1>1. /\ UNCHANGED <<scheduled, worker, job, failFast, failed, cancelled, parentDone, starts, lateStarts>>
      /\ scheduler = "wait" /\ scheduler' = "done"
      /\ results' = [i \in Calls |-> IF i > scheduled THEN NotRun ELSE results[i]]
      /\ \A w \in Workers : worker[w] = "stopped" /\ job[w] = NoCall
  BY DEF Finalize, pool, ctx, BatchInv, JobsInv
<1>2. NotRun \in {"skipped", "canceled"}
  BY DEF NotRun
<1>3. \A i \in Calls : i <= scheduled => results[i] # "none"
  BY <1>1, BatchAssumption DEF BatchInv, SlotsInv, Calls
<1>4. TypeOK'
  BY <1>1, <1>2 DEF BatchInv, TypeOK, Statuses
<1>5. JobsInv' /\ HeldInv'
  BY <1>1 DEF BatchInv, JobsInv, HeldInv
<1>6. SlotsInv'
  <2>1. \A i \in Calls : i > scheduled => starts[i] = 0
    BY <1>1 DEF BatchInv, SlotsInv
  <2>2. \A i \in Calls : \/ i > scheduled /\ results'[i] \in {"skipped", "canceled"}
                         \/ i <= scheduled /\ results'[i] = results[i]
    BY <1>1, <1>2 DEF BatchInv, TypeOK, Calls
  <2> QED
    BY <1>1, <1>3, <2>1, <2>2 DEF BatchInv, SlotsInv
<1> QED
  BY <1>4, <1>5, <1>6 DEF BatchInv

\* A worker that is not the scheduler's partner leaves what the scheduler has
\* done alone, and only writes to the slot of the call it holds.
LEMMA WorkStep ==
  ASSUME BatchInv, NEW w \in Workers, Work(w)
  PROVE  BatchInv'
<1> DEFINE k == job[w]
<1>1. CASE Stop(w)
  <2>1. job[w] = NoCall
    BY <1>1 DEF Stop, BatchInv, JobsInv
  <2>2. /\ UNCHANGED <<scheduler, scheduled, job, results, failFast, failed, cancelled,
                       parentDone, starts, lateStarts>>
        /\ worker' = [worker EXCEPT ![w] = "stopped"] /\ scheduler = "wait"
    BY <1>1 DEF Stop, ctx
  <2>3. TypeOK'
    BY <2>2 DEF BatchInv, TypeOK
  <2>4. JobsInv'
    BY <2>1, <2>2 DEF BatchInv, TypeOK, JobsInv
  <2>5. HeldInv' /\ SlotsInv'
    BY <2>2 DEF BatchInv, TypeOK, HeldInv, SlotsInv
  <2> QED
    BY <2>3, <2>4, <2>5 DEF BatchInv
<1>2. CASE Call(w)
  <2>1. k \in Calls /\ k # NoCall /\ k <= scheduled /\ starts[k] = 0 /\ results[k] = "none"
    BY <1>2, BusyHoldsCall DEF Call, BatchInv, HeldInv
  <2>2. /\ UNCHANGED <<scheduler, scheduled, job, results, failFast, failed, cancelled, parentDone>>
        /\ worker' = [worker EXCEPT ![w] = "calling"] /\ worker[w] = "received"
        /\ starts' = [starts EXCEPT ![k] = starts[k] + 1]
    BY <1>2 DEF Call, ctx
  <2>3. TypeOK'
    BY <1>2, <2>1, <2>2 DEF Call, BatchInv, TypeOK
  <2>4. JobsInv'
    BY <2>1, <2>2 DEF BatchInv, TypeOK, JobsInv
  <2>5. \A v \in Workers : v # w /\ worker[v] \notin {"idle", "stopped"} => job[v] # k /\ job[v] \in Calls
    BY <2>1, BusyHoldsCall DEF BatchInv, JobsInv
  <2>6. HeldInv'
    BY <2>1, <2>2, <2>5 DEF BatchInv, TypeOK, HeldInv
  <2>7. SlotsInv'
    BY <2>1, <2>2 DEF BatchInv, TypeOK, SlotsInv, Calls
  <2> QED
    BY <2>3, <2>4, <2>6, <2>7 DEF BatchInv
<1>3. ASSUME NEW status \in Statuses, NEW next \in {"idle", "failing"},
             worker[w] \in {"received", "calling"},
             results' = [results EXCEPT ![job[w]] = status],
             worker' = [worker EXCEPT ![w] = next],
             job' = IF next = "idle" THEN [job EXCEPT ![w] = NoCall] ELSE job,
             worker[w] = "received" => status \in {"skipped", "canceled"},
             worker[w] = "calling" => status # "skipped",
             UNCHANGED <<scheduler, scheduled, failFast, failed, cancelled, parentDone, starts, lateStarts>>
      PROVE  BatchInv'
  <2>1. k \in Calls /\ k # NoCall /\ k <= scheduled /\ status # "none"
    BY <1>3, BusyHoldsCall DEF Statuses, Failures
  <2>2. worker[w] = "received" => starts[k] = 0
    BY DEF BatchInv, HeldInv
  <2>3. worker[w] = "calling" => starts[k] = 1
    BY DEF BatchInv, HeldInv
  <2>4. TypeOK'
    BY <1>3, <2>1 DEF BatchInv, TypeOK
  <2>5. JobsInv'
    BY <1>3, <2>1, BatchAssumption DEF BatchInv, TypeOK, JobsInv
  <2>6. \A v \in Workers : v # w /\ worker[v] \notin {"idle", "stopped"} => job[v] # k /\ job[v] \in Calls
    BY <2>1, BusyHoldsCall DEF BatchInv, JobsInv
  <2>7. HeldInv'
    BY <1>3, <2>1, <2>6 DEF BatchInv, TypeOK, HeldInv
  <2>8. \A i \in Calls : results'[i] = "none" => results[i] = "none" /\ i # k
    BY <1>3, <2>1 DEF BatchInv, TypeOK
  <2>9. scheduler # "done" =>
          \A i \in Calls : i <= scheduled /\ results'[i] = "none" => \E v \in Workers : job'[v] = i
    <3> SUFFICES ASSUME scheduler # "done", NEW i \in Calls, i <= scheduled, results'[i] = "none"
                 PROVE  \E v \in Workers : job'[v] = i
      OBVIOUS
    <3>1. PICK v \in Workers : job[v] = i
      BY <2>8 DEF BatchInv, SlotsInv
    <3>2. v # w
      BY <2>8, <3>1
    <3> QED
      BY <1>3, <3>1, <3>2 DEF BatchInv, TypeOK
  <2>10. SlotsInv'
    <3>1. scheduler # "done"
      BY <1>3 DEF BatchInv, SlotsInv
    <3>2. \A i \in Calls : i # k => results'[i] = results[i]
      BY <1>3, <2>1 DEF BatchInv, TypeOK
    <3>3. results'[k] = status
      BY <1>3, <2>1 DEF BatchInv, TypeOK
    <3>4. k <= scheduled /\ (status = "skipped" => starts[k] = 0)
          /\ (starts[k] = 0 => status \in {"skipped", "canceled"})
      BY <1>3, <2>1, <2>2, <2>3
    <3>5. \A i \in Calls : i > scheduled => i # k
      BY <2>1 DEF Calls, BatchInv, TypeOK
    <3> QED
      BY <1>3, <2>9, <3>1, <3>2, <3>3, <3>4, <3>5 DEF BatchInv, SlotsInv
  <2> QED
    BY <2>4, <2>5, <2>7, <2>10 DEF BatchInv
<1>4. CASE Skip(w)
  BY <1>3, <1>4 DEF Skip, Idle, NotRun, ctx, Statuses
<1>5. CASE Answer(w)
  <2>1. PICK status \in Answers :
          /\ results' = [results EXCEPT ![job[w]] = status]
          /\ \/ worker' = [worker EXCEPT ![w] = "failing"] /\ UNCHANGED job
             \/ Idle(w)
    BY <1>5 DEF Answer
  <2>2. status \in Statuses /\ status # "skipped"
    <3>1. \A err \in CallErrors : ErrorStatus(err) \in {"canceled", "timeout", "transport_error"}
      BY BatchAssumption DEF ErrorStatus
    <3> QED
      BY <3>1 DEF Answers, Statuses, Failures
  <2>3. /\ worker[w] = "calling"
        /\ UNCHANGED <<scheduler, scheduled, failFast, failed, cancelled, parentDone, starts, lateStarts>>
    BY <1>5 DEF Answer, ctx
  <2> QED
    BY <1>3, <2>1, <2>2, <2>3 DEF Idle
<1>6. CASE Fail(w) \/ Cancel(w)
  <2>1. k \in Calls /\ k # NoCall /\ results[k] # "none"
    BY <1>6, BusyHoldsCall DEF Fail, Cancel, BatchInv, HeldInv
  <2>2. /\ UNCHANGED <<scheduler, scheduled, results, failFast, parentDone, starts, lateStarts>>
        /\ failed' \in BOOLEAN /\ cancelled' \in BOOLEAN
        /\ \/ worker' = [worker EXCEPT ![w] = "cancelling"] /\ UNCHANGED job
           \/ worker' = [worker EXCEPT ![w] = "idle"] /\ job' = [job EXCEPT ![w] = NoCall]
        /\ worker[w] \in {"failing", "cancelling"}
    BY <1>6 DEF Fail, Cancel, Idle, BatchInv, TypeOK
  <2>3. TypeOK'
    BY <2>2 DEF BatchInv, TypeOK
  <2>4. JobsInv'
    BY <2>1, <2>2 DEF BatchInv, TypeOK, JobsInv
  <2>5. HeldInv'
    BY <2>1, <2>2 DEF BatchInv, TypeOK, HeldInv
  <2>6. scheduler # "done" =>
          \A i \in Calls : i <= scheduled /\ results[i] = "none" => \E v \in Workers : job'[v] = i
    <3> SUFFICES ASSUME scheduler # "done", NEW i \in Calls, i <= scheduled, results[i] = "none"
                 PROVE  \E v \in Workers : job'[v] = i
      OBVIOUS
    <3>1. PICK v \in Workers : job[v] = i
      BY DEF BatchInv, SlotsInv
    <3>2. v # w
      BY <2>1, <3>1
    <3> QED
      BY <2>2, <3>1, <3>2 DEF BatchInv, TypeOK
  <2>7. scheduler # "done"
    BY <2>2 DEF BatchInv, SlotsInv
  <2>8. SlotsInv'
    BY <2>2, <2>6, <2>7 DEF BatchInv, SlotsInv
  <2> QED
    BY <2>3, <2>4, <2>5, <2>8 DEF BatchInv
<1> QED
  BY <1>1, <1>2, <1>4, <1>5, <1>6 DEF Work

\* Every step of the scheduler, of a worker and of the caller keeps what each of
\* them holds and what the slots say.
THEOREM BatchStep == BatchInv /\ [Next]_vars => BatchInv'
<1> SUFFICES ASSUME BatchInv, [Next]_vars PROVE BatchInv'
  OBVIOUS
<1>1. CASE UNCHANGED vars
  BY <1>1 DEF vars, pool, ctx, BatchInv, TypeOK, JobsInv, HeldInv, SlotsInv
<1>2. CASE Schedule
  BY <1>2, CheckStep, SendStep, FinalizeStep DEF Schedule
<1>3. CASE \E w \in Workers : Work(w)
  BY <1>3, WorkStep
<1>4. CASE ParentCancels
  BY <1>4 DEF ParentCancels, pool, BatchInv, TypeOK, JobsInv, HeldInv, SlotsInv
<1> QED
  BY <1>1, <1>2, <1>3, <1>4 DEF Next, Returned

\* The scheduler, the workers and the results keep their types.
THEOREM TypeCorrect == Spec => []TypeOK
<1>1. BatchInv => TypeOK
  BY DEF BatchInv
<1> QED
  BY <1>1, BatchInit, BatchStep, PTL DEF Spec

\* When Execute returns, every call has a status that tells whether it was
\* sent, for every size of the pool and of the batch.
THEOREM EveryCallAccounted == Spec => []Accounted
<1>1. BatchInv => Accounted
  BY DEF BatchInv, SlotsInv, Accounted
<1> QED
  BY <1>1, BatchInit, BatchStep, PTL DEF Spec

\* No call is sent to the server twice.
THEOREM NoCallSentTwice == Spec => []SentOnce
<1>1. BatchInv => SentOnce
  BY DEF BatchInv, SlotsInv, SentOnce
<1> QED
  BY <1>1, BatchInit, BatchStep, PTL DEF Spec

\* A step of Execute leaves the results that are there alone.
LEMMA ResultsKept ==
  ASSUME BatchInv, [Next]_vars
  PROVE  \A i \in Calls : results[i] # "none" => results'[i] = results[i]
<1> DEFINE Kept == \A i \in Calls : results[i] # "none" => results'[i] = results[i]
<1>1. CASE UNCHANGED results
  BY <1>1
<1>2. CASE Finalize
  <2>1. \A i \in Calls : i > scheduled => results[i] = "none"
    BY <1>2 DEF Finalize, BatchInv, SlotsInv
  <2> QED
    BY <1>2, <2>1 DEF Finalize
<1>3. ASSUME NEW w \in Workers, Skip(w) \/ Answer(w) PROVE Kept
  <2>1. results[job[w]] = "none"
    BY <1>3 DEF Skip, Answer, BatchInv, HeldInv
  <2>2. \A i \in Calls : i # job[w] => results'[i] = results[i]
    BY <1>3 DEF Skip, Answer, BatchInv, TypeOK
  <2> QED
    BY <2>1, <2>2
<1> QED
  BY <1>1, <1>2, <1>3
  DEF Next, Schedule, Work, Check, Send, GiveUp, Close, Stop, Call, Fail, Cancel, ParentCancels,
      Returned, vars

\* No result is ever written over, by a worker or by the final sweep.
THEOREM NoResultOverwritten == Spec => WrittenOnce
<1>1. BatchInv /\ [Next]_vars =>
        [\A i \in Calls : results[i] # "none" => results'[i] = results[i]]_vars
  BY ResultsKept
<1>2. Spec => []BatchInv
  BY BatchInit, BatchStep, PTL DEF Spec
<1> QED
  BY <1>1, <1>2, PTL DEF Spec, WrittenOnce
-----------------------------------------------------------------------------
(* How many calls are sent after a failure.                                *)

\* The workers that have received an index and not looked at the context yet,
\* and the index on offer.
Receivers == {w \in Workers : worker[w] = "received"}
Received == Cardinality(Receivers)
Offered == IF scheduler = "select" THEN 1 ELSE 0

\* A call is sent late only by a worker that had received it when the first
\* failure was noted, or that receives the one index the scheduler may be
\* offering by then.  Meanwhile a worker is busy cancelling and does neither;
\* once it has, nobody sends.
LateInv ==
  /\ \A w \in Workers : worker[w] \in {"failing", "cancelling"} => failFast
  /\ \A w \in Workers : worker[w] = "cancelling" => failed
  /\ failed => failFast
  /\ ~failed => lateStarts = 0
  /\ failed /\ ~cancelled => \E w \in Workers : worker[w] = "cancelling"
  /\ failed => lateStarts + Received + Offered <= Cardinality(Workers)
  /\ Cardinality(Workers) = 1 => lateStarts = 0

LEMMA ReceivedBound ==
  /\ IsFiniteSet(Receivers) /\ Received \in Nat /\ Cardinality(Workers) \in Nat
  /\ \A w \in Workers : worker[w] # "received" => Received <= Cardinality(Workers) - 1
  /\ Received = 0 => Receivers = {}
<1>1. Receivers \in SUBSET Workers /\ IsFiniteSet(Workers)
  BY BatchAssumption DEF Receivers
<1>2. IsFiniteSet(Receivers) /\ Received \in Nat /\ Cardinality(Workers) \in Nat
  BY <1>1, FS_Subset, FS_CardinalityType DEF Received
<1>3. ASSUME NEW w \in Workers, worker[w] # "received"
      PROVE  Received <= Cardinality(Workers) - 1
  <2>1. IsFiniteSet(Workers \ {w}) /\ Cardinality(Workers \ {w}) = Cardinality(Workers) - 1
    BY <1>1, FS_RemoveElement
  <2>2. Receivers \in SUBSET (Workers \ {w})
    BY <1>3 DEF Receivers
  <2> QED
    BY <2>1, <2>2, FS_Subset DEF Received
<1>4. Received = 0 => Receivers = {}
  BY <1>2, FS_EmptySet DEF Received
<1> QED
  BY <1>2, <1>3, <1>4

\* What a move of one worker does to the number of those that have received.
LEMMA WorkerMoves ==
  ASSUME NEW w \in Workers, \A v \in Workers : v # w => worker'[v] = worker[v]
  PROVE  /\ worker[w] # "received" /\ worker'[w] # "received" => Received' = Received
         /\ worker[w] # "received" /\ worker'[w] = "received" => Received' = Received + 1
         /\ worker[w] = "received" /\ worker'[w] # "received" => Received' = Received - 1
<1>1. IsFiniteSet(Receivers) /\ Received \in Nat
  BY ReceivedBound
<1>2. w \in Receivers <=> worker[w] = "received"
  BY DEF Receivers
<1>3. CASE worker'[w] = "received"
  <2>1. Receivers' = Receivers \cup {w}
    BY <1>3 DEF Receivers
  <2>2. Cardinality(Receivers \cup {w}) = IF w \in Receivers THEN Received ELSE Received + 1
    BY <1>1, FS_AddElement DEF Received
  <2>3. Received' = Cardinality(Receivers \cup {w})
    BY <2>1 DEF Received
  <2> QED
    BY <1>2, <1>3, <2>2, <2>3
<1>4. CASE worker'[w] # "received"
  <2>1. Receivers' = Receivers \ {w}
    BY <1>4 DEF Receivers
  <2>2. Cardinality(Receivers \ {w}) = IF w \in Receivers THEN Received - 1 ELSE Received
    BY <1>1, FS_RemoveElement DEF Received
  <2>3. Received' = Cardinality(Receivers \ {w})
    BY <2>1 DEF Received
  <2> QED
    BY <1>2, <1>4, <2>2, <2>3
<1> QED
  BY <1>3, <1>4

LEMMA LateInit == Init => LateInv
<1> SUFFICES ASSUME Init PROVE LateInv
  OBVIOUS
<1> QED
  BY DEF Init, LateInv

LEMMA LateStep == BatchInv /\ LateInv /\ [Next]_vars => LateInv'
<1> SUFFICES ASSUME BatchInv, LateInv, [Next]_vars PROVE LateInv'
  OBVIOUS
<1> DEFINE W == Cardinality(Workers)
<1>1. Received \in Nat /\ W \in Nat /\ lateStarts \in Nat /\ TypeOK
  BY ReceivedBound DEF BatchInv, TypeOK
<1>2. CASE UNCHANGED <<scheduler, worker, ctx, lateStarts>>
  BY <1>2 DEF LateInv, ctx, Receivers, Received, Offered
<1>3. CASE Check
  <2>1. Received' = Received /\ (failed => Offered' = 0 \/ ~failFast) /\ Offered \in {0, 1}
    BY <1>3 DEF Check, pool, Receivers, Received, Offered
  <2>2. UNCHANGED <<worker, failFast, failed, cancelled, lateStarts>>
    BY <1>3 DEF Check, pool, ctx
  <2> QED
    BY <1>1, <2>1, <2>2 DEF LateInv
<1>4. CASE GiveUp \/ Close \/ Finalize \/ ParentCancels
  <2>1. Received' = Received /\ Offered' <= Offered /\ Offered \in {0, 1} /\ Offered' \in {0, 1}
    BY <1>4 DEF GiveUp, Close, Finalize, ParentCancels, pool, Receivers, Received, Offered
  <2>2. UNCHANGED <<worker, failFast, failed, cancelled, lateStarts>>
    BY <1>4 DEF GiveUp, Close, Finalize, ParentCancels, pool, ctx
  <2> QED
    BY <1>1, <2>1, <2>2 DEF LateInv
<1>5. ASSUME NEW w \in Workers, Send(w) PROVE LateInv'
  <2>1. /\ worker' = [worker EXCEPT ![w] = "received"] /\ worker[w] = "idle"
        /\ UNCHANGED <<failFast, failed, cancelled, lateStarts>>
        /\ Offered = 1 /\ Offered' = 0
    BY <1>5 DEF Send, ctx, Offered
  <2>2. Received' = Received + 1
    <3>1. worker'[w] = "received" /\ \A v \in Workers : v # w => worker'[v] = worker[v]
      BY <1>1, <2>1 DEF TypeOK
    <3> QED
      BY <2>1, <3>1, WorkerMoves
  <2>3. \A v \in Workers : worker'[v] \in {"failing", "cancelling"} <=> worker[v] \in {"failing", "cancelling"}
    BY <1>1, <2>1 DEF TypeOK
  <2>4. \A v \in Workers : worker'[v] = "cancelling" <=> worker[v] = "cancelling"
    BY <1>1, <2>1 DEF TypeOK
  <2> QED
    BY <1>1, <2>1, <2>2, <2>3, <2>4 DEF LateInv
<1>6. ASSUME NEW w \in Workers, Work(w) PROVE LateInv'
  <2>1. Offered' = Offered /\ Offered \in {0, 1} /\ failFast' = failFast
    BY <1>6 DEF Work, Stop, Skip, Call, Answer, Fail, Cancel, ctx, Offered
  <2>2. CASE Call(w)
    <3>1. /\ worker' = [worker EXCEPT ![w] = "calling"] /\ worker[w] = "received"
          /\ UNCHANGED <<failed, cancelled>> /\ ~cancelled
          /\ lateStarts' = IF failed THEN lateStarts + 1 ELSE lateStarts
      BY <2>2 DEF Call, ctx, CtxDone
    <3>2. \A v \in Workers : v # w => worker'[v] = worker[v]
      BY <1>1, <3>1 DEF TypeOK
    <3>3. worker'[w] = "calling"
      BY <1>1, <3>1 DEF TypeOK
    <3>4. Received' = Received - 1
      BY <3>1, <3>2, <3>3, WorkerMoves
    <3>5. W = 1 => ~failed
      <4> SUFFICES ASSUME W = 1, failed PROVE FALSE
        OBVIOUS
      <4>1. PICK v \in Workers : worker[v] = "cancelling"
        BY <3>1 DEF LateInv
      <4>2. Received <= W - 1
        BY <4>1, ReceivedBound
      <4>3. Receivers = {}
        BY <1>1, <4>2, ReceivedBound
      <4> QED
        BY <3>1, <4>3 DEF Receivers
    <3> QED
      BY <1>1, <2>1, <3>1, <3>2, <3>3, <3>4, <3>5 DEF LateInv
  <2>3. CASE Stop(w) \/ Skip(w) \/ Answer(w)
    <3>1. PICK pc \in {"stopped", "idle", "failing"} :
            /\ worker' = [worker EXCEPT ![w] = pc] /\ worker[w] \in {"idle", "received", "calling"}
            /\ pc = "failing" => failFast
      BY <2>3 DEF Stop, Skip, Answer, Idle
    <3>2. UNCHANGED <<failed, cancelled, lateStarts>>
      BY <2>3 DEF Stop, Skip, Answer, ctx
    <3>3. Received' <= Received /\ Received' \in Nat
      <4>1. Received' = Received - (IF worker[w] = "received" THEN 1 ELSE 0)
        <5>1. worker'[w] = pc /\ \A v \in Workers : v # w => worker'[v] = worker[v]
          BY <1>1, <3>1 DEF TypeOK
        <5> QED
          BY <1>1, <3>1, <5>1, WorkerMoves
      <4>2. (Received \in Nat)'
        BY ReceivedBound, PTL
      <4> QED
        BY <1>1, <4>1, <4>2
    <3>4. \A v \in Workers : worker'[v] = "cancelling" <=> worker[v] = "cancelling"
      BY <1>1, <3>1 DEF TypeOK
    <3>5. \A v \in Workers : worker'[v] \in {"failing", "cancelling"} => failFast
      BY <1>1, <3>1 DEF TypeOK, LateInv
    <3> QED
      BY <1>1, <2>1, <3>2, <3>3, <3>4, <3>5 DEF LateInv
  <2>4. CASE Fail(w)
    <3>1. /\ worker[w] = "failing" /\ failed' /\ UNCHANGED <<cancelled, lateStarts>>
          /\ worker' = [worker EXCEPT ![w] = IF failed THEN "idle" ELSE "cancelling"]
      BY <2>4 DEF Fail, Idle
    <3>2. \A v \in Workers : v # w => worker'[v] = worker[v]
      BY <1>1, <3>1 DEF TypeOK
    <3>3. worker'[w] = IF failed THEN "idle" ELSE "cancelling"
      BY <1>1, <3>1 DEF TypeOK
    <3>4. Received' = Received
      BY <3>1, <3>2, <3>3, WorkerMoves
    <3>5. Received <= W - 1 /\ failFast
      BY <3>1, ReceivedBound DEF LateInv
    <3>6. failed /\ ~cancelled => \E v \in Workers : v # w /\ worker[v] = "cancelling"
      BY <3>1 DEF LateInv
    <3> QED
      BY <1>1, <2>1, <3>1, <3>2, <3>3, <3>4, <3>5, <3>6 DEF LateInv
  <2>5. CASE Cancel(w)
    <3>1. /\ worker[w] = "cancelling" /\ cancelled' /\ UNCHANGED <<failed, lateStarts>>
          /\ worker' = [worker EXCEPT ![w] = "idle"]
      BY <2>5 DEF Cancel, Idle
    <3>2. Received' = Received
      <4>1. worker'[w] = "idle" /\ \A v \in Workers : v # w => worker'[v] = worker[v]
        BY <1>1, <3>1 DEF TypeOK
      <4> QED
        BY <3>1, <4>1, WorkerMoves
    <3>3. \A v \in Workers : worker'[v] \in {"failing", "cancelling"} => worker'[v] = worker[v]
      BY <1>1, <3>1 DEF TypeOK
    <3> QED
      BY <1>1, <2>1, <3>1, <3>2, <3>3 DEF LateInv
  <2> QED
    BY <1>6, <2>2, <2>3, <2>4, <2>5 DEF Work
<1> QED
  BY <1>2, <1>3, <1>4, <1>5, <1>6 DEF Next, Schedule, Returned, vars, pool

\* fail_fast lets no more calls slip in after a failure than there are workers,
\* and none in a batch that runs its calls one by one, for every size of pool.
THEOREM FailFastStops == Spec => []StopsFast
<1>1. BatchInv /\ LateInv => StopsFast
  <2> SUFFICES ASSUME BatchInv, LateInv PROVE StopsFast
    OBVIOUS
  <2>1. Received \in Nat /\ Cardinality(Workers) \in Nat /\ lateStarts \in Nat
    BY ReceivedBound DEF BatchInv, TypeOK
  <2> QED
    BY <2>1 DEF LateInv, StopsFast, Offered
<1>2. BatchInv /\ LateInv /\ [Next]_vars => (BatchInv /\ LateInv)'
  BY BatchStep, LateStep
<1> QED
  BY <1>1, <1>2, BatchInit, LateInit, PTL DEF Spec
-----------------------------------------------------------------------------
(* Why a batch that was not cancelled from outside failed.                 *)

\* A client that reports a cancellation only when its context is done.
PlainErrors == "canceled" \notin CallErrors

Cause == \E i \in Calls : starts[i] = 1 /\ results[i] \in Failures

\* As long as the caller is there, nothing is cancelled, skipped or failed
\* before some call has the failure in its slot; and a scheduler that stops
\* before the last call does so for a failure or a context that is done.
CauseInv ==
  /\ ~parentDone /\ (failed \/ cancelled) => Cause
  /\ ~parentDone /\ (\E i \in Calls : results[i] \notin {"none", "ok"}) => Cause
  /\ scheduler \in {"close", "wait"} /\ scheduled < N => failed \/ CtxDone
  /\ \A w \in Workers : worker[w] \in {"failing", "cancelling"} => results[job[w]] # "ok"

LEMMA CauseInit == Init => CauseInv
BY DEF Init, CauseInv

LEMMA CauseKept == BatchInv /\ [Next]_vars /\ Cause => Cause'
<1> SUFFICES ASSUME BatchInv, [Next]_vars, Cause PROVE Cause'
  OBVIOUS
<1>1. PICK i \in Calls : starts[i] = 1 /\ results[i] \in Failures
  BY DEF Cause
<1>2. results'[i] = results[i]
  BY <1>1, ResultsKept DEF Failures
<1>3. starts'[i] = 1
  <2>1. starts'[i] >= starts[i]
    BY <1>1 DEF Next, Schedule, Work, Check, Send, GiveUp, Close, Finalize, Stop, Skip, Call, Answer,
                Fail, Cancel, ParentCancels, Returned, vars, BatchInv, TypeOK
  <2>2. starts'[i] <= 1 /\ starts'[i] \in Nat
    BY BatchStep DEF BatchInv, SlotsInv, TypeOK
  <2> QED
    BY <1>1, <2>1, <2>2
<1> QED
  BY <1>1, <1>2, <1>3 DEF Cause, Calls

LEMMA CauseStep == PlainErrors /\ BatchInv /\ CauseInv /\ [Next]_vars => CauseInv'
<1> SUFFICES ASSUME PlainErrors, BatchInv, CauseInv, [Next]_vars PROVE CauseInv'
  OBVIOUS
<1>1. TypeOK /\ N \in Nat /\ scheduled \in Nat
  BY BatchAssumption DEF BatchInv, TypeOK
<1>2. CASE UNCHANGED <<scheduler, scheduled, worker, job, results, failed, cancelled, starts>>
           /\ (parentDone => parentDone')
  BY <1>1, <1>2 DEF CauseInv, CtxDone, Cause
<1>3. CASE Check \/ GiveUp \/ Close
  <2>1. UNCHANGED <<scheduled, worker, job, results, failed, cancelled, parentDone>>
    BY <1>3 DEF Check, GiveUp, Close, pool, ctx
  <2>2. scheduler' \in {"close", "wait"} /\ scheduled < N => failed \/ CtxDone
    BY <1>1, <1>3 DEF Check, GiveUp, Close, CauseInv
  <2> QED
    BY <2>1, <2>2, CauseKept DEF CauseInv, CtxDone
<1>4. CASE \E w \in Workers : Send(w)
  <2>1. PICK w \in Workers : Send(w)
    BY <1>4
  <2>2. /\ UNCHANGED <<results, failed, cancelled, parentDone>> /\ scheduler' = "check"
        /\ \A v \in Workers : worker'[v] \in {"failing", "cancelling"}
                               => worker[v] \in {"failing", "cancelling"} /\ job'[v] = job[v]
    BY <1>1, <2>1 DEF Send, ctx, TypeOK
  <2> QED
    BY <2>2, CauseKept DEF CauseInv
<1>5. CASE Finalize
  <2>1. /\ UNCHANGED <<scheduled, worker, job, failed, cancelled, parentDone>>
        /\ scheduler = "wait" /\ scheduler' = "done"
        /\ \A v \in Workers : worker[v] = "stopped"
        /\ \A i \in Calls : i <= scheduled => results'[i] = results[i]
    BY <1>1, <1>5 DEF Finalize, pool, ctx, Calls
  <2>2. ~parentDone /\ (\E i \in Calls : results'[i] \notin {"none", "ok"}) => Cause
    <3> SUFFICES ASSUME ~parentDone, NEW i \in Calls, results'[i] \notin {"none", "ok"} PROVE Cause
      OBVIOUS
    <3>1. CASE i <= scheduled
      BY <2>1, <3>1 DEF CauseInv
    <3>2. CASE i > scheduled
      BY <1>1, <2>1, <3>2 DEF CauseInv, CtxDone, Calls
    <3> QED
      BY <1>1, <3>1, <3>2 DEF Calls
  <2> QED
    BY <2>1, <2>2, CauseKept DEF CauseInv
<1>6. ASSUME NEW w \in Workers, Work(w) PROVE CauseInv'
  <2>1. /\ UNCHANGED <<scheduler, scheduled, parentDone>>
        /\ (failed => failed') /\ (cancelled => cancelled')
    BY <1>6 DEF Work, Stop, Skip, Call, Answer, Fail, Cancel, ctx
  <2>2. CASE Stop(w) \/ Call(w)
    <3>1. /\ UNCHANGED <<results, failed, cancelled, job>>
          /\ \A v \in Workers : worker'[v] \in {"failing", "cancelling"} => worker'[v] = worker[v]
      BY <1>1, <2>2 DEF Stop, Call, ctx, TypeOK
    <3> QED
      BY <2>1, <3>1, CauseKept DEF CauseInv, CtxDone
  <2>3. CASE Skip(w)
    <3>1. /\ UNCHANGED <<failed, cancelled>> /\ CtxDone
          /\ \A v \in Workers : worker'[v] \in {"failing", "cancelling"} =>
               v # w /\ worker'[v] = worker[v] /\ job'[v] = job[v]
      BY <1>1, <2>3 DEF Skip, Idle, ctx, TypeOK
    <3>2. \A v \in Workers : worker[v] \in {"failing", "cancelling"} => results'[job[v]] = results[job[v]]
      BY BusyHoldsCall, ResultsKept DEF BatchInv, HeldInv
    <3>3. ~parentDone => Cause
      BY <3>1 DEF CauseInv, CtxDone
    <3> QED
      BY <2>1, <3>1, <3>2, <3>3, CauseKept DEF CauseInv, CtxDone
  <2>4. CASE Answer(w)
    <3>1. PICK status \in Answers :
            /\ results' = [results EXCEPT ![job[w]] = status]
            /\ IF status # "ok" /\ failFast
                 THEN worker' = [worker EXCEPT ![w] = "failing"] /\ UNCHANGED job ELSE Idle(w)
      BY <2>4 DEF Answer
    <3>2. UNCHANGED <<failed, cancelled, starts>> /\ worker[w] = "calling"
      BY <2>4 DEF Answer, ctx
    <3>3. job[w] \in Calls /\ starts[job[w]] = 1
      BY <3>2, BusyHoldsCall DEF BatchInv, HeldInv
    <3>4. ~parentDone /\ (\E i \in Calls : results'[i] \notin {"none", "ok"}) => Cause'
      <4> SUFFICES ASSUME ~parentDone, NEW i \in Calls, results'[i] \notin {"none", "ok"} PROVE Cause'
        OBVIOUS
      <4>1. CASE i # job[w] \/ cancelled
        BY <1>1, <3>1, <4>1, CauseKept DEF CauseInv, TypeOK
      <4>2. CASE i = job[w] /\ ~cancelled
        <5>1. status # "ok" /\ results'[i] = status
          BY <1>1, <3>1, <4>2 DEF TypeOK
        <5>2. \A err \in CallErrors : ErrorStatus(err) \in Failures
          BY <4>2, BatchAssumption DEF ErrorStatus, CtxDone, PlainErrors, Failures
        <5>3. status \in Failures
          BY <5>1, <5>2 DEF Answers, Failures
        <5>4. starts'[i] = 1
          BY <3>2, <3>3, <4>2
        <5> QED
          BY <5>1, <5>3, <5>4 DEF Cause
      <4> QED
        BY <4>1, <4>2
    <3>5. \A v \in Workers : worker'[v] \in {"failing", "cancelling"} => results'[job'[v]] # "ok"
      <4> SUFFICES ASSUME NEW v \in Workers, worker'[v] \in {"failing", "cancelling"}
                   PROVE  results'[job'[v]] # "ok"
        OBVIOUS
      <4>1. CASE v = w
        BY <1>1, <3>1, <3>3, <4>1 DEF Idle, TypeOK
      <4>2. CASE v # w
        <5>1. worker'[v] = worker[v] /\ job'[v] = job[v]
          BY <1>1, <3>1, <4>2 DEF Idle, TypeOK
        <5>2. results'[job[v]] = results[job[v]]
          BY <5>1, BusyHoldsCall, ResultsKept DEF BatchInv, HeldInv
        <5> QED
          BY <5>1, <5>2 DEF CauseInv
      <4> QED
        BY <4>1, <4>2
    <3> QED
      BY <2>1, <3>2, <3>4, <3>5, CauseKept DEF CauseInv, CtxDone
  <2>5. CASE Fail(w) \/ Cancel(w)
    <3>1. results[job[w]] \notin {"none", "ok"} /\ job[w] \in Calls
      BY <2>5, BusyHoldsCall DEF Fail, Cancel, CauseInv, BatchInv, HeldInv
    <3>2. ~parentDone => Cause
      BY <3>1 DEF CauseInv
    <3>3. /\ UNCHANGED results
          /\ \A v \in Workers : worker'[v] \in {"failing", "cancelling"} =>
               worker[v] \in {"failing", "cancelling"} /\ job'[v] = job[v]
      BY <1>1, <2>5 DEF Fail, Cancel, Idle, TypeOK
    <3> QED
      BY <2>1, <3>2, <3>3, CauseKept DEF CauseInv, CtxDone
  <2> QED
    BY <1>6, <2>2, <2>3, <2>4, <2>5 DEF Work
<1> QED
  BY <1>2, <1>3, <1>4, <1>5, <1>6 DEF Next, Schedule, ParentCancels, Returned, vars, pool, ctx

\* A batch that its caller did not cancel and that did not go well reports the
\* failure itself, in the slot of a call that was sent, for every size of pool.
THEOREM FailureReported == PlainErrors /\ Spec => []CauseReported
<1>1. BatchInv /\ CauseInv => CauseReported
  BY DEF BatchInv, SlotsInv, CauseInv, CauseReported, Cause
<1>2. PlainErrors /\ BatchInv /\ CauseInv /\ [Next]_vars => (BatchInv /\ CauseInv)'
  BY BatchStep, CauseStep
<1>3. CASE PlainErrors
  BY <1>1, <1>2, <1>3, BatchInit, CauseInit, PTL DEF Spec
<1> QED
  BY <1>3
=============================================================================
