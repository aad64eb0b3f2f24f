--------------------------- MODULE ShellRunProofs ---------------------------
(***************************************************************************)
(* Theorems about ShellRun, for every size of pipes, tail and capture,     *)
(* every set of faults and every amount of output.                         *)
(***************************************************************************)
EXTENDS ShellRun, TLAPS

\* The command does not itself exit with the code that stands for a timeout.
Plain124 == 124 \notin OwnCodes

\* A call that waits no longer has a reason, and while that reason is the exit of
\* the shell its pipes are open.
Reason ==
  \/ run = Canceled /\ ctxDone
  \/ run = TimedOut /\ expired
  \/ run = Limited /\ limited
  \/ readEnds /\ \E c \in codes : run = Plain(c)

RunInv ==
  /\ call = "start" => codes = {} /\ ownEnds /\ \A p \in Processes : ~Alive(p)
  /\ call \in {"start", "select"} => readEnds /\ run = NoRun
  /\ codes # {} => ~Alive("shell")
  /\ call = "drain" => run.code # 124 /\ ~run.canceled /\ ~run.limited
  /\ call \notin {"start", "select"} => Reason

StoppedInv == run \in {Canceled, TimedOut} => \A p \in Group : ~Alive(p)

\* Where the bytes are.  Those in the pipes and in the hands of the goroutines are
\* lost only when the read ends are closed or the capture is full.
Underway == pipe["stdout"] + pipe["stderr"] + chunk["stdout"] + chunk["stderr"]

FlowInv ==
  /\ written >= total + Underway
  /\ readEnds /\ ~limited => written = total + Underway
  /\ limited => written > SpillMax

\* A goroutine that saw the end of its pipe left nothing behind.
CopyInv ==
  \A s \in Streams :
    /\ copier[s] # "writing" => chunk[s] = 0
    /\ copier[s] = "ended" /\ readEnds /\ ~limited =>
         pipe[s] = 0 /\ ~ownEnds /\ \A p \in Processes : <<p, s>> \notin holds

SpillInv ==
  /\ spill /\ ~spillErr => spilled = total
  /\ ~spill /\ ~spillErr => total <= TailLimit
  /\ spill => total > TailLimit \/ call = "returned"
  /\ reported => spill

ReturnInv ==
  /\ call # "returned" => outcome = [kind |-> "none", code |-> 0]
  /\ call = "returned" => Drained /\ outcome = Outcome

ShellInv == TypeOK /\ RunInv /\ StoppedInv /\ FlowInv /\ CopyInv /\ SpillInv /\ ReturnInv
-----------------------------------------------------------------------------
RunType == [code : Int, canceled : BOOLEAN, limited : BOOLEAN]

\* The results of a run have the type of its variable.
LEMMA RunResults ==
  /\ NoRun \in RunType /\ Canceled \in RunType /\ TimedOut \in RunType /\ Limited \in RunType
  /\ \A c \in Int : Plain(c) \in RunType
<1>1. NoRun \in RunType /\ Canceled \in RunType
  BY DEF NoRun, Canceled, RunType
<1>2. TimedOut \in RunType /\ Limited \in RunType
  BY DEF TimedOut, Limited, RunType
<1>3. \A c \in Int : Plain(c) \in RunType
  BY DEF Plain, RunType
<1> QED
  BY <1>1, <1>2, <1>3

\* The capture takes no more than it is given and than it has room for, and
\* what it does not take is what exceeds its limit.
LEMMA AcceptedBounds ==
  ASSUME NEW n \in Nat, TypeOK
  PROVE  /\ Accepted(n) \in 0..n
         /\ total + Accepted(n) \in 0..SpillMax
         /\ Accepted(n) < n => total + n > SpillMax
BY ShellAssumption DEF Accepted, TypeOK

\* The spill file after n bytes more: what it holds is all that was captured,
\* unless writing to it failed.
LEMMA SpillEffect ==
  ASSUME NEW n \in Nat, TypeOK, Spill(n)
  PROVE  /\ spill' \in BOOLEAN /\ spilled' \in Nat /\ spillErr' \in BOOLEAN
         /\ spill' \/ spillErr'
         /\ spill => spill'
         /\ ~spillErr' => /\ ~spillErr
                         /\ spilled' = IF spill THEN spilled + n ELSE total + n
<1> USE DEF TypeOK
<1>0. total \in Nat /\ spilled \in Nat
  OBVIOUS
<1>1. CASE spill /\ spilled' = spilled + n /\ UNCHANGED <<spill, spillErr>>
  BY <1>0, <1>1
<1>2. CASE ~spill /\ ~spillErr /\ spill' = TRUE /\ spilled' = total + n /\ UNCHANGED spillErr
  BY <1>0, <1>2
<1>3. CASE ~spill /\ spillErr' = TRUE /\ UNCHANGED <<spill, spilled>>
  BY <1>0, <1>3
<1>4. CASE spill /\ spillErr' = TRUE /\ spilled' \in spilled..(spilled + n) /\ UNCHANGED spill
  BY <1>0, <1>4
<1>5. CASE ~spill /\ spill' = TRUE /\ spillErr' = TRUE /\ spilled' \in 0..(total + n)
  BY <1>0, <1>5
<1>6. CASE spillErr /\ ~spill /\ UNCHANGED <<spill, spilled, spillErr>>
  BY <1>0, <1>6
<1> QED
  BY <1>1, <1>2, <1>3, <1>4, <1>5, <1>6 DEF Spill

\* The invariant holds initially.
LEMMA InitInv == Init => ShellInv
<1> SUFFICES ASSUME Init PROVE ShellInv
  OBVIOUS
<1>1. TypeOK
  <2>1. total \in 0..SpillMax
    BY ShellAssumption DEF Init
  <2>2. proc \in [Processes -> {"none", "running", "over"}] /\ codes = {} /\ holds = {}
    BY DEF Init
  <2>3. pipe \in [Streams -> Nat] /\ chunk \in [Streams -> Nat]
    BY DEF Init
  <2>4. copier \in [Streams -> {"reading", "writing", "ended"}]
    BY DEF Init
  <2>5. run \in [code : Int, canceled : BOOLEAN, limited : BOOLEAN]
    BY DEF Init, NoRun
  <2>6. outcome \in [kind : {"none", "exit", "timeout", "canceled", "resource_limit"}, code : Int]
    BY DEF Init
  <2> QED
    BY <2>1, <2>2, <2>3, <2>4, <2>5, <2>6 DEF Init, TypeOK
<1>2. RunInv
  BY DEF Init, RunInv, Alive
<1>3. StoppedInv
  BY DEF Init, StoppedInv, NoRun, Canceled, TimedOut
<1>4. FlowInv
  BY DEF Init, FlowInv, Underway, Streams
<1>5. CopyInv
  BY DEF Init, CopyInv
<1>6. SpillInv
  BY ShellAssumption DEF Init, SpillInv
<1>7. ReturnInv
  BY DEF Init, ReturnInv
<1> QED
  BY <1>1, <1>2, <1>3, <1>4, <1>5, <1>6, <1>7 DEF ShellInv
-----------------------------------------------------------------------------
\* Every step keeps the types.
LEMMA TypeStep == TypeOK /\ [Next]_vars => TypeOK'
<1> SUFFICES ASSUME TypeOK, [Next]_vars PROVE TypeOK'
  OBVIOUS
<1> USE DEF TypeOK
<1>0. OwnCodes \cup {1} \subseteq Int
  BY ShellAssumption
<1>1. ASSUME NEW p \in Processes, Fork(p) PROVE TypeOK'
  <2>1. holds' \subseteq Processes \X Streams
    BY <1>1 DEF Fork
  <2> QED
    BY <1>1, <2>1 DEF Fork, ends, copies, capture, told
<1>2. ASSUME NEW p \in Processes, Exit(p) PROVE TypeOK'
  BY <1>2 DEF Exit, ends, copies, capture, told
<1>3. ASSUME NEW p \in Processes, NEW s \in Streams, Emit(p, s) PROVE TypeOK'
  BY <1>3 DEF Emit, command, ends, copies, capture, told
<1>4. ASSUME NEW s \in Streams, Ended(s) PROVE TypeOK'
  BY <1>4 DEF Ended, command, ends, capture, told
<1>5. ASSUME NEW s \in Streams, Read(s) PROVE TypeOK'
  BY <1>5 DEF Read, command, ends, capture, told
<1>6. ASSUME NEW s \in Streams, Write(s) PROVE TypeOK'
  <2> DEFINE n == Accepted(chunk[s])
  <2>1. chunk[s] \in Nat
    OBVIOUS
  <2>2. n \in Nat /\ total + n \in 0..SpillMax
    BY <2>1, AcceptedBounds
  <2>3. spill' \in BOOLEAN /\ spilled' \in Nat /\ spillErr' \in BOOLEAN
    <3>1. CASE n > 0 /\ total + n > TailLimit
      <4>1. Spill(n)
        BY <1>6, <3>1 DEF Write
      <4> QED
        BY <4>1, <2>2, SpillEffect
    <3>2. CASE ~(n > 0 /\ total + n > TailLimit)
      BY <1>6, <3>2 DEF Write
    <3> QED
      BY <3>1, <3>2
  <2>4. total' \in 0..SpillMax /\ limited' \in BOOLEAN
    BY <1>6, <2>2 DEF Write
  <2>5. copier' \in [Streams -> {"reading", "writing", "ended"}] /\ chunk' \in [Streams -> Nat]
    BY <1>6 DEF Write
  <2>6. UNCHANGED <<call, run, expired, ctxDone, proc, codes, holds, pipe, ownEnds, readEnds, reported, outcome, written>>
    BY <1>6 DEF Write, command, ends, told
  <2> QED
    BY <2>3, <2>4, <2>5, <2>6
<1>7. ASSUME Expire \/ Cancel PROVE TypeOK'
  <2>1. expired' \in BOOLEAN /\ ctxDone' \in BOOLEAN
    BY <1>7 DEF Expire, Cancel
  <2>2. UNCHANGED <<call, run, command, ends, pipe, copies, capture, told, written>>
    BY <1>7 DEF Expire, Cancel
  <2>3. UNCHANGED <<proc, codes, holds, ownEnds, readEnds, copier, chunk, total, limited,
                    spill, spilled, spillErr, reported, outcome>>
    BY <2>2 DEF command, ends, copies, capture, told
  <2> QED
    BY <2>1, <2>2, <2>3
<1>8. ASSUME Start PROVE TypeOK'
  <2>1. run' \in [code : Int, canceled : BOOLEAN, limited : BOOLEAN]
    <3>1. run' = Canceled \/ run' = Plain(1) \/ run' = run
      BY <1>8 DEF Start
    <3> QED
      BY <3>1, RunResults DEF RunType
  <2>2. codes' \subseteq OwnCodes \cup {1} /\ call' \in {"close", "select"}
    BY <1>8 DEF Start, command
  <2>3. proc' \in [Processes -> {"none", "running", "over"}]
    BY <1>8 DEF Start, command
  <2>4. holds' \subseteq Processes \X Streams
    BY <1>8 DEF Start, command, Processes, Group
  <2> QED
    BY <1>8, <2>1, <2>2, <2>3, <2>4 DEF Start, ends, copies, capture, told
<1>9. ASSUME Exits PROVE TypeOK'
  BY <1>9, <1>0 DEF Exits, Plain, command, ends, copies, capture, told
<1>10. ASSUME GiveUp \/ Interrupt PROVE TypeOK'
  <2>1. run' \in [code : Int, canceled : BOOLEAN, limited : BOOLEAN]
    <3>1. run' = TimedOut \/ run' = Canceled \/ run' = Limited
      BY <1>10 DEF GiveUp, Interrupt, Give
    <3> QED
      BY <3>1, RunResults DEF RunType
  <2>2. proc' \in [Processes -> {"none", "running", "over"}] /\ holds' \subseteq Processes \X Streams
    BY <1>10 DEF GiveUp, Interrupt, Kill
  <2>3. /\ call' \in {"close", "await"} /\ ownEnds' = FALSE /\ readEnds' = FALSE
        /\ UNCHANGED <<expired, ctxDone, codes, pipe, copies, capture, told, written>>
    BY <1>10 DEF GiveUp, Interrupt, Kill
  <2>4. UNCHANGED <<copier, chunk, total, limited, spill, spilled, spillErr, reported, outcome>>
    BY <2>3 DEF copies, capture, told
  <2> QED
    BY <2>1, <2>2, <2>3, <2>4
<1>11. ASSUME Close PROVE TypeOK'
  <2>1. /\ ownEnds' \in BOOLEAN
        /\ call' \in {"start", "select", "close", "drain", "await", "returned"}
    BY <1>11 DEF Close
  <2>2. UNCHANGED <<run, expired, ctxDone, command, readEnds, pipe, copies, capture, told, written>>
    BY <1>11 DEF Close
  <2>3. UNCHANGED <<proc, codes, holds, copier, chunk, total, limited,
                    spill, spilled, spillErr, reported, outcome>>
    BY <2>2 DEF command, copies, capture, told
  <2> QED
    BY <2>1, <2>2, <2>3
<1>12. ASSUME Return PROVE TypeOK'
  <2>1. spill' \in BOOLEAN /\ spilled' \in Nat /\ spillErr' \in BOOLEAN /\ reported' \in BOOLEAN
    BY <1>12, SpillEffect DEF Return
  <2>2. outcome' \in [kind : {"none", "exit", "timeout", "canceled", "resource_limit"}, code : Int]
    BY <1>12 DEF Return, Outcome
  <2> QED
    BY <1>12, <2>1, <2>2 DEF Return, command, ends, copies
<1>13. ASSUME UNCHANGED vars PROVE TypeOK'
  BY <1>13 DEF vars, command, ends, copies, capture, told
<1> QED
  BY <1>1, <1>2, <1>3, <1>4, <1>5, <1>6, <1>7, <1>8, <1>9, <1>10, <1>11, <1>12, <1>13
  DEF Next, Command, Copy, Advance, Idle
-----------------------------------------------------------------------------
\* Every step keeps what is known of the run: its reason is one that happened.
LEMMA RunStep == ShellInv /\ Plain124 /\ [Next]_vars => RunInv'
<1> SUFFICES ASSUME ShellInv, Plain124, [Next]_vars PROVE RunInv'
  OBVIOUS
<1> USE DEF ShellInv, RunInv, Reason, Alive
<1>1. ASSUME NEW p \in Processes, Fork(p) PROVE RunInv'
  <2>1. proc' = [proc EXCEPT ![p] = "running"] /\ proc["shell"] = "running" /\ p # "shell"
    BY <1>1 DEF Fork
  <2>2. proc'["shell"] = proc["shell"] /\ call # "start"
    BY <2>1 DEF TypeOK, Processes, Group
  <2> QED
    BY <1>1, <2>1, <2>2 DEF Fork, ends, capture
<1>2. ASSUME NEW p \in Processes, Exit(p) PROVE RunInv'
  <2>1. proc' = [proc EXCEPT ![p] = "over"] /\ proc[p] = "running"
    BY <1>2 DEF Exit
  <2>2. call # "start" /\ (proc'["shell"] = "running" => proc["shell"] = "running" /\ p # "shell")
    BY <2>1 DEF TypeOK, Processes, Group
  <2>3. p = "shell" => codes = {}
    BY <2>1
  <2> QED
    BY <1>2, <2>1, <2>2, <2>3 DEF Exit, ends, capture
<1>3. ASSUME NEW p \in Processes, NEW s \in Streams, Emit(p, s) PROVE RunInv'
  BY <1>3 DEF Emit, command, ends, capture
<1>4. ASSUME NEW s \in Streams, Ended(s) \/ Read(s) PROVE RunInv'
  BY <1>4 DEF Ended, Read, command, ends, capture
<1>5. ASSUME NEW s \in Streams, Write(s) PROVE RunInv'
  BY <1>5 DEF Write, command, ends
<1>6. ASSUME Expire \/ Cancel PROVE RunInv'
  BY <1>6 DEF Expire, Cancel, command, ends, capture
<1>7. ASSUME Start PROVE RunInv'
  <2>1. CASE run' = Canceled /\ call' = "close" /\ ctxDone /\ UNCHANGED command
    BY <1>7, <2>1 DEF Start, command, ends, capture
  <2>2. CASE run' = Plain(1) /\ call' = "close" /\ codes' = {1} /\ UNCHANGED <<proc, holds>>
    BY <1>7, <2>2 DEF Start, ends, capture, Processes, Group
  <2>3. CASE call' = "select" /\ UNCHANGED <<run, codes>>
    BY <1>7, <2>3 DEF Start, ends, capture
  <2> QED
    BY <1>7, <2>1, <2>2, <2>3 DEF Start
<1>8. ASSUME Exits PROVE RunInv'
  BY <1>8 DEF Exits, command, ends, capture
<1>9. ASSUME GiveUp \/ Interrupt PROVE RunInv'
  <2>1. call' \in {"close", "await"} /\ UNCHANGED <<expired, ctxDone, codes, capture>>
    BY <1>9 DEF GiveUp, Interrupt
  <2>2. codes # {} => proc'["shell"] # "running"
    BY <1>9 DEF GiveUp, Interrupt, Kill, Processes, Group
  <2>3. \/ run' = TimedOut /\ expired
        \/ run' = Canceled /\ ctxDone
        \/ run' = Limited /\ limited
    BY <1>9 DEF GiveUp, Interrupt, Give
  <2> QED
    BY <2>1, <2>2, <2>3 DEF capture
<1>10. ASSUME Close PROVE RunInv'
  BY <1>10 DEF Close, command, capture
<1>11. ASSUME Return PROVE RunInv'
  BY <1>11 DEF Return, command, ends
<1>12. ASSUME UNCHANGED vars PROVE RunInv'
  BY <1>12 DEF vars, command, ends, capture
<1> QED
  BY <1>1, <1>2, <1>3, <1>4, <1>5, <1>6, <1>7, <1>8, <1>9, <1>10, <1>11, <1>12
  DEF Next, Command, Copy, Advance, Idle

\* Every step keeps the group of a stopped call dead.
LEMMA StoppedStep == ShellInv /\ Plain124 /\ [Next]_vars => StoppedInv'
<1> SUFFICES ASSUME ShellInv, Plain124, [Next]_vars PROVE StoppedInv'
  OBVIOUS
<1> USE DEF ShellInv, StoppedInv, Alive
<1>0. NoRun \notin {Canceled, TimedOut} /\ Limited \notin {Canceled, TimedOut}
  BY DEF NoRun, Canceled, TimedOut, Limited
<1>1. \A c \in OwnCodes \cup {1} : Plain(c) \notin {Canceled, TimedOut}
  BY DEF Plain, Canceled, TimedOut, Plain124
<1>2. ASSUME NEW p \in Processes, Fork(p) PROVE StoppedInv'
  BY <1>2 DEF Fork, Group
<1>3. ASSUME NEW p \in Processes, Exit(p) PROVE StoppedInv'
  BY <1>3 DEF Exit, TypeOK
<1>4. ASSUME NEW p \in Processes, NEW s \in Streams, Emit(p, s) \/ Ended(s) \/ Read(s) \/ Write(s)
      PROVE StoppedInv'
  BY <1>4 DEF Emit, Ended, Read, Write, command
<1>5. ASSUME Expire \/ Cancel \/ Close \/ Return PROVE StoppedInv'
  BY <1>5 DEF Expire, Cancel, Close, Return, command
<1>6. ASSUME Start PROVE StoppedInv'
  <2>1. call = "start" /\ run = NoRun /\ \A p \in Group : proc[p] # "running"
    BY <1>6 DEF Start, RunInv, Processes
  <2>2. CASE UNCHANGED proc
    BY <2>1, <2>2
  <2>3. CASE UNCHANGED run
    BY <1>0, <2>1, <2>3
  <2> QED
    BY <1>6, <2>2, <2>3 DEF Start, command
<1>7. ASSUME Exits PROVE StoppedInv'
  BY <1>1, <1>7 DEF Exits, TypeOK
<1>8. ASSUME GiveUp \/ Interrupt PROVE StoppedInv'
  BY <1>8 DEF GiveUp, Interrupt, Kill, Processes
<1>9. ASSUME UNCHANGED vars PROVE StoppedInv'
  BY <1>9 DEF vars, command
<1> QED
  BY <1>2, <1>3, <1>4, <1>5, <1>6, <1>7, <1>8, <1>9 DEF Next, Command, Copy, Advance, Idle, Processes, Group
\* Every step keeps account of the bytes.
LEMMA FlowStep == ShellInv /\ [Next]_vars => FlowInv'
<1> SUFFICES ASSUME ShellInv, [Next]_vars PROVE FlowInv'
  OBVIOUS
<1> USE DEF ShellInv, FlowInv
<1>0. /\ total \in Nat /\ written \in Nat /\ SpillMax \in Nat /\ Underway \in Nat
      /\ \A s \in Streams : pipe[s] \in Nat /\ chunk[s] \in Nat
  BY ShellAssumption DEF TypeOK, Underway, Streams
<1>1. ASSUME UNCHANGED <<pipe, chunk, total, limited, written>>, readEnds' => readEnds PROVE FlowInv'
  BY <1>1 DEF Underway
<1>2. ASSUME NEW p \in Processes, NEW s \in Streams, Emit(p, s) PROVE FlowInv'
  <2>1. pipe' = [pipe EXCEPT ![s] = @ + 1] /\ written' = written + 1
        /\ UNCHANGED <<chunk, total, limited, readEnds>>
    BY <1>2 DEF Emit, ends, copies, capture
  <2>2. Underway' = Underway + 1
    BY <2>1, <1>0 DEF Underway, Streams, TypeOK
  <2> QED
    BY <2>1, <2>2, <1>0
<1>3. ASSUME NEW s \in Streams, Read(s) PROVE FlowInv'
  <2>1. PICK n \in 1..pipe[s] : pipe' = [pipe EXCEPT ![s] = @ - n] /\ chunk' = [chunk EXCEPT ![s] = n]
    BY <1>3 DEF Read
  <2>2. chunk[s] = 0 /\ n \in Nat
    BY <1>3, <1>0 DEF Read, CopyInv
  <2>3. Underway' = Underway
    BY <2>1, <2>2, <1>0 DEF Underway, Streams, TypeOK
  <2> QED
    BY <1>3, <2>3 DEF Read, ends, capture
<1>4. ASSUME NEW s \in Streams, Write(s) PROVE FlowInv'
  <2> DEFINE n == Accepted(chunk[s])
  <2>1. n \in 0..chunk[s] /\ (n < chunk[s] => total + chunk[s] > SpillMax)
    BY <1>0, AcceptedBounds
  <2>2. total' = total + n /\ limited' = (limited \/ n < chunk[s]) /\ chunk' = [chunk EXCEPT ![s] = 0]
        /\ UNCHANGED <<pipe, written, readEnds>>
    BY <1>4 DEF Write, ends
  <2>3. Underway' = Underway - chunk[s] /\ Underway >= chunk[s]
    BY <2>2, <1>0 DEF Underway, Streams, TypeOK
  <2> HIDE DEF n
  <2>4. n < chunk[s] => written > SpillMax
    BY <2>1, <2>3, <1>0
  <2>5. chunk[s] \in Nat /\ n \in Nat /\ n <= chunk[s]
    BY <1>0, <2>1
  <2>6. written' >= total' + Underway'
    BY <2>2, <2>3, <2>5, <1>0
  <2>7. readEnds' /\ ~limited' => written' = total' + Underway'
    <3> SUFFICES ASSUME readEnds', ~limited' PROVE written' = total' + Underway'
      OBVIOUS
    <3>1. ~limited /\ ~(n < chunk[s])
      BY <2>2
    <3>2. n = chunk[s] /\ written = total + Underway
      BY <2>2, <2>5, <3>1
    <3> QED
      BY <2>2, <2>3, <2>5, <3>2, <1>0
  <2>8. limited' => written' > SpillMax
    BY <2>2, <2>4
  <2> QED
    BY <2>6, <2>7, <2>8
<1>5. ASSUME GiveUp \/ Interrupt PROVE FlowInv'
  BY <1>1, <1>5 DEF GiveUp, Interrupt, Kill, copies, capture
<1>6. ASSUME NEW p \in Processes, Fork(p) \/ Exit(p) PROVE FlowInv'
  BY <1>1, <1>6 DEF Fork, Exit, ends, copies, capture
<1>7. ASSUME NEW s \in Streams, Ended(s) PROVE FlowInv'
  BY <1>1, <1>7 DEF Ended, ends, capture
<1>8. ASSUME Expire \/ Cancel \/ Start \/ Exits \/ Close PROVE FlowInv'
  BY <1>1, <1>8 DEF Expire, Cancel, Start, Exits, Close, ends, copies, capture
<1>9. ASSUME Return PROVE FlowInv'
  BY <1>1, <1>9 DEF Return, ends, copies
<1>10. ASSUME UNCHANGED vars PROVE FlowInv'
  BY <1>1, <1>10 DEF vars, ends, copies, capture
<1> QED
  BY <1>2, <1>3, <1>4, <1>5, <1>6, <1>7, <1>8, <1>9, <1>10 DEF Next, Command, Copy, Advance, Idle

\* Every step keeps what is known of the goroutines: nobody can write to a pipe
\* whose end was seen.
LEMMA CopyStep == ShellInv /\ [Next]_vars => CopyInv'
<1> SUFFICES ASSUME ShellInv, [Next]_vars, NEW s \in Streams
    PROVE  /\ (copier[s] # "writing" => chunk[s] = 0)'
           /\ (copier[s] = "ended" /\ readEnds /\ ~limited =>
                 pipe[s] = 0 /\ ~ownEnds /\ \A p \in Processes : <<p, s>> \notin holds)'
  BY DEF CopyInv
<1> DEFINE Goal == /\ (copier[s] # "writing" => chunk[s] = 0)'
                   /\ (copier[s] = "ended" /\ readEnds /\ ~limited =>
                         pipe[s] = 0 /\ ~ownEnds /\ \A p \in Processes : <<p, s>> \notin holds)'
<1>0. /\ copier[s] # "writing" => chunk[s] = 0
      /\ copier[s] = "ended" /\ readEnds /\ ~limited =>
           pipe[s] = 0 /\ ~ownEnds /\ \A p \in Processes : <<p, s>> \notin holds
  BY DEF ShellInv, CopyInv
<1>1. ASSUME UNCHANGED <<pipe, copier, chunk>>, readEnds' => readEnds, limited' = limited,
             ownEnds' => ownEnds, holds' \subseteq holds
      PROVE  Goal
  BY <1>0, <1>1
<1>2. ASSUME NEW p \in Processes, Fork(p) PROVE Goal
  <2>1. PICK kept \in SUBSET {x \in Streams : <<"shell", x>> \in holds} : holds' = holds \cup ({p} \X kept)
    BY <1>2 DEF Fork
  <2>2. \A q \in Processes : <<q, s>> \in holds' => <<q, s>> \in holds \/ <<"shell", s>> \in holds
    BY <2>1
  <2>3. "shell" \in Processes
    BY DEF Processes, Group
  <2> QED
    BY <1>0, <1>2, <2>2, <2>3 DEF Fork, ends, copies, capture
<1>3. ASSUME NEW p \in Processes, Exit(p) PROVE Goal
  BY <1>1, <1>3 DEF Exit, ends, copies, capture
<1>4. ASSUME NEW p \in Processes, NEW x \in Streams, Emit(p, x) PROVE Goal
  <2>1. CASE x = s
    BY <1>0, <1>4, <2>1 DEF Emit, command, ends, copies, capture
  <2>2. CASE x # s
    BY <1>0, <1>4, <2>2 DEF Emit, command, ends, copies, capture, ShellInv, TypeOK
  <2> QED
    BY <2>1, <2>2
<1>5. ASSUME NEW x \in Streams, Ended(x) PROVE Goal
  <2>1. CASE x = s
    BY <1>0, <1>5, <2>1 DEF Ended, command, ends, capture, ShellInv, TypeOK
  <2>2. CASE x # s
    BY <1>0, <1>5, <2>2 DEF Ended, command, ends, capture, ShellInv, TypeOK
  <2> QED
    BY <2>1, <2>2
<1>6. ASSUME NEW x \in Streams, Read(x) PROVE Goal
  <2>1. PICK n \in 1..pipe[x] : pipe' = [pipe EXCEPT ![x] = @ - n] /\ chunk' = [chunk EXCEPT ![x] = n]
    BY <1>6 DEF Read
  <2>2. copier' = [copier EXCEPT ![x] = "writing"] /\ UNCHANGED <<readEnds, limited, ownEnds, holds>>
    BY <1>6 DEF Read, command, ends, capture
  <2>3. CASE x = s
    BY <2>2, <2>3 DEF ShellInv, TypeOK
  <2>4. CASE x # s
    BY <1>0, <2>1, <2>2, <2>4 DEF ShellInv, TypeOK
  <2> QED
    BY <2>3, <2>4
<1>7. ASSUME NEW x \in Streams, Write(x) PROVE Goal
  <2>1. /\ chunk' = [chunk EXCEPT ![x] = 0]
        /\ limited' = (limited \/ Accepted(chunk[x]) < chunk[x])
        /\ copier' = [copier EXCEPT ![x] = IF Accepted(chunk[x]) < chunk[x] THEN "ended" ELSE "reading"]
        /\ UNCHANGED <<pipe, readEnds, ownEnds, holds>>
    BY <1>7 DEF Write, command, ends
  <2>2. CASE x = s
    BY <1>0, <2>1, <2>2 DEF ShellInv, TypeOK
  <2>3. CASE x # s
    BY <1>0, <2>1, <2>3 DEF ShellInv, TypeOK
  <2> QED
    BY <2>2, <2>3
<1>8. ASSUME Start PROVE Goal
  BY <1>0, <1>8 DEF Start, command, ends, copies, capture, ShellInv, RunInv
<1>9. ASSUME GiveUp \/ Interrupt PROVE Goal
  BY <1>1, <1>9 DEF GiveUp, Interrupt, Kill, copies, capture
<1>10. ASSUME Expire \/ Cancel \/ Exits \/ Close PROVE Goal
  BY <1>1, <1>10 DEF Expire, Cancel, Exits, Close, command, ends, copies, capture
<1>11. ASSUME Return PROVE Goal
  BY <1>1, <1>11 DEF Return, command, ends, copies
<1>12. ASSUME UNCHANGED vars PROVE Goal
  BY <1>1, <1>12 DEF vars, command, ends, copies, capture
<1> QED
  BY <1>2, <1>3, <1>4, <1>5, <1>6, <1>7, <1>8, <1>9, <1>10, <1>11, <1>12
  DEF Next, Command, Copy, Advance, Idle

\* Every step keeps the spill file complete unless an error is remembered.
LEMMA SpillStep == ShellInv /\ [Next]_vars => SpillInv'
<1> SUFFICES ASSUME ShellInv, [Next]_vars PROVE SpillInv'
  OBVIOUS
<1> USE DEF ShellInv, SpillInv
<1>0. total \in Nat /\ TailLimit \in Nat
  BY ShellAssumption DEF TypeOK
<1>1. ASSUME UNCHANGED <<capture, reported>>, call' = "returned" <=> call = "returned" PROVE SpillInv'
  BY <1>1 DEF capture
<1>2. ASSUME NEW s \in Streams, Write(s) PROVE SpillInv'
  <2> DEFINE n == Accepted(chunk[s])
  <2>1. n \in Nat /\ total' = total + n /\ UNCHANGED <<reported, call>>
    BY <1>2, AcceptedBounds DEF Write, TypeOK, told
  <2>2. call # "returned"
    BY <1>2 DEF Write, ReturnInv, Drained
  <2>3. CASE n > 0 /\ total + n > TailLimit
    <3>1. Spill(n)
      BY <1>2, <2>3 DEF Write
    <3> HIDE DEF n
    <3> QED
      BY <2>1, <2>2, <2>3, <3>1, <1>0, SpillEffect
  <2>4. CASE ~(n > 0 /\ total + n > TailLimit)
    <3>1. UNCHANGED <<spill, spilled, spillErr>>
      BY <1>2, <2>4 DEF Write
    <3> HIDE DEF n
    <3> QED
      BY <2>1, <2>2, <2>4, <3>1, <1>0
  <2> QED
    BY <2>3, <2>4
<1>3. ASSUME Return PROVE SpillInv'
  <2>1. call # "returned" /\ call' = "returned" /\ total' = total
    BY <1>3 DEF Return
  <2>2. CASE total <= TailLimit /\ UNCHANGED <<spill, spilled, spillErr, reported>>
    BY <2>1, <2>2
  <2>3. CASE Spill(0) /\ reported' = spill'
    BY <2>1, <2>3, <1>0, SpillEffect DEF TypeOK
  <2> QED
    BY <1>3, <2>2, <2>3 DEF Return
<1>4. ASSUME NEW p \in Processes, NEW s \in Streams, Fork(p) \/ Exit(p) \/ Emit(p, s) PROVE SpillInv'
  BY <1>1, <1>4 DEF Fork, Exit, Emit, told
<1>5. ASSUME NEW s \in Streams, Ended(s) \/ Read(s) PROVE SpillInv'
  BY <1>1, <1>5 DEF Ended, Read, told
<1>6. ASSUME Expire \/ Cancel \/ Start \/ Exits \/ GiveUp \/ Close \/ Interrupt PROVE SpillInv'
  BY <1>1, <1>6 DEF Expire, Cancel, Start, Exits, GiveUp, Close, Interrupt, told
<1>7. ASSUME UNCHANGED vars PROVE SpillInv'
  BY <1>1, <1>7 DEF vars, told
<1>8. Streams # {}
  BY DEF Streams
<1> QED
  BY <1>2, <1>3, <1>4, <1>5, <1>6, <1>7, <1>8 DEF Next, Command, Copy, Advance, Idle

\* Every step keeps what a call that returned has told.
LEMMA ReturnStep == ShellInv /\ [Next]_vars => ReturnInv'
<1> SUFFICES ASSUME ShellInv, [Next]_vars PROVE ReturnInv'
  OBVIOUS
<1> USE DEF ShellInv, ReturnInv
<1>1. ASSUME UNCHANGED <<outcome, run, copier, limited>>, call' = "returned" <=> call = "returned"
      PROVE  ReturnInv'
  BY <1>1 DEF Drained, Outcome
<1>2. ASSUME NEW s \in Streams, Write(s) \/ Ended(s) \/ Read(s) PROVE ReturnInv'
  <2>1. call # "returned" /\ UNCHANGED <<call, outcome>>
    BY <1>2 DEF Write, Ended, Read, told, Drained
  <2> QED
    BY <2>1
<1>3. ASSUME Return PROVE ReturnInv'
  BY <1>3 DEF Return, Drained, Outcome, copies
<1>4. ASSUME Start \/ Exits \/ GiveUp \/ Close \/ Interrupt PROVE ReturnInv'
  BY <1>4 DEF Start, Exits, GiveUp, Close, Interrupt, told
<1>5. ASSUME NEW p \in Processes, NEW s \in Streams, Fork(p) \/ Exit(p) \/ Emit(p, s) PROVE ReturnInv'
  BY <1>1, <1>5 DEF Fork, Exit, Emit, copies, capture, told
<1>6. ASSUME Expire \/ Cancel PROVE ReturnInv'
  BY <1>1, <1>6 DEF Expire, Cancel, copies, capture, told
<1>7. ASSUME UNCHANGED vars PROVE ReturnInv'
  BY <1>1, <1>7 DEF vars, copies, capture, told
<1>8. Streams # {}
  BY DEF Streams
<1> QED
  BY <1>2, <1>3, <1>4, <1>5, <1>6, <1>7, <1>8 DEF Next, Command, Copy, Advance, Idle-----------------------------------------------------------------------------
\* The types are kept, and the capture never exceeds its limit, whatever the
\* command exits with.
THEOREM TypeCorrect == Spec => []TypeOK
<1>1. Init => TypeOK
  BY InitInv DEF ShellInv
<1> QED
  BY <1>1, TypeStep, PTL DEF Spec

\* The invariant holds for every command that leaves the code 124 alone.
THEOREM ShellInvariant == Plain124 /\ Spec => []ShellInv
<1>1. Plain124 /\ ShellInv /\ [Next]_vars => ShellInv'
  BY TypeStep, RunStep, StoppedStep, FlowStep, CopyStep, SpillStep, ReturnStep DEF ShellInv
<1>2. CASE Plain124
  BY <1>1, <1>2, InitInv, PTL DEF Spec
<1> QED
  BY <1>2

\* A command that ends by itself loses no output.
THEOREM NoOutputLost == Plain124 /\ Spec => []OutputComplete
<1>1. ShellInv => OutputComplete
  <2> SUFFICES ASSUME ShellInv, outcome.kind = "exit" PROVE total = written
    BY DEF OutputComplete
  <2>1. call = "returned" /\ Drained /\ outcome = Outcome
    BY DEF ShellInv, ReturnInv
  <2>2. ~limited /\ ~run.limited /\ ~run.canceled /\ run.code # 124
    BY <2>1 DEF Outcome
  <2>3. readEnds
    BY <2>1, <2>2 DEF ShellInv, RunInv, Reason, Canceled, TimedOut, Limited
  <2>4. \A s \in Streams : pipe[s] = 0 /\ chunk[s] = 0
    BY <2>1, <2>2, <2>3 DEF ShellInv, CopyInv, Drained
  <2>5. Underway = 0
    BY <2>4 DEF Underway, Streams
  <2> QED
    BY <2>2, <2>3, <2>5 DEF ShellInv, FlowInv, TypeOK
<1> QED
  BY <1>1, ShellInvariant, PTL

\* A call that timed out or was cancelled leaves no process of its group behind.
THEOREM NoSurvivors == Plain124 /\ Spec => []GroupGone
<1>1. Plain124 /\ ShellInv => GroupGone
  <2> SUFFICES ASSUME Plain124, ShellInv, outcome.kind \in {"timeout", "canceled"}
               PROVE  \A p \in Group : ~Alive(p)
    BY DEF GroupGone
  <2>1. call = "returned" /\ outcome = Outcome
    BY DEF ShellInv, ReturnInv
  <2>2. ~run.limited /\ (run.canceled \/ run.code = 124)
    BY <2>1 DEF Outcome
  <2>3. \A c \in codes : run # Plain(c)
    BY <2>2 DEF Plain, Plain124, ShellInv, TypeOK
  <2>4. run \in {Canceled, TimedOut}
    BY <2>1, <2>2, <2>3 DEF ShellInv, RunInv, Reason, Limited
  <2> QED
    BY <2>4 DEF ShellInv, StoppedInv
<1>2. CASE Plain124
  BY <1>1, <1>2, ShellInvariant, PTL
<1> QED
  BY <1>2

\* A spill file that is announced is complete, unless writing to it failed.
THEOREM SpillComplete == Plain124 /\ Spec => []SpillWhole
<1>1. ShellInv => SpillWhole
  BY DEF ShellInv, SpillInv, SpillWhole
<1> QED
  BY <1>1, ShellInvariant, PTL
-----------------------------------------------------------------------------
\* The first states of a run are first states of the promise.
LEMMA PromiseInit == Init => Promise!Init
BY ShellAssumption DEF Init, Promise!Init, Promise!Untold

\* Every step but a return is an event of the promise or none at all.
LEMMA EventStep ==
  ASSUME ShellInv, expired' \in {expired, TRUE}, ctxDone' \in {ctxDone, TRUE},
         written' = written \/ written' = written + 1, outcome' = outcome,
         codes' = codes \/ (codes = {} /\ \E c \in OwnCodes \cup {1} : codes' = {c})
  PROVE  Promise!Event
<1>1. (written' > SpillMax) \in {written > SpillMax, TRUE}
  <2> DEFINE over == written > SpillMax
             overNext == written' > SpillMax
  <2>1. over => overNext
    BY ShellAssumption DEF ShellInv, TypeOK
  <2>2. over \in BOOLEAN /\ overNext \in BOOLEAN
    OBVIOUS
  <2> HIDE DEF over, overNext
  <2>3. overNext \in {over, TRUE}
    BY <2>1, <2>2
  <2> QED
    BY <2>3 DEF over, overNext
<1> QED
  BY <1>1 DEF Promise!Event

\* A return tells an outcome that happened.
LEMMA TellStep == Plain124 /\ ShellInv /\ Return => Promise!Tell
<1> SUFFICES ASSUME Plain124, ShellInv, Return PROVE Promise!Tell
  OBVIOUS
<1>1. outcome = Promise!Untold /\ UNCHANGED <<expired, ctxDone, codes, written>>
  BY DEF Return, ShellInv, ReturnInv, Promise!Untold, command
<1>2. call \in {"drain", "await"} /\ Drained /\ outcome' = Outcome
  BY DEF Return
<1>3. Reason
  BY <1>2 DEF ShellInv, RunInv
<1>4. CASE run.limited \/ limited
  <2>1. limited
    BY <1>3, <1>4 DEF Reason, Canceled, TimedOut, Plain
  <2>2. written > SpillMax
    BY <2>1 DEF ShellInv, FlowInv
  <2>3. outcome' = Promise!Stopped("resource_limit")
    BY <1>2, <1>4 DEF Outcome, Promise!Stopped
  <2> QED
    BY <1>1, <2>2, <2>3 DEF Promise!Tell
<1>5. CASE ~run.limited /\ ~limited /\ run.canceled
  <2>1. ctxDone
    BY <1>3, <1>5 DEF Reason, TimedOut, Limited, Plain
  <2>2. outcome' = Promise!Stopped("canceled")
    BY <1>2, <1>5 DEF Outcome, Promise!Stopped
  <2> QED
    BY <1>1, <2>1, <2>2 DEF Promise!Tell
<1>6. CASE ~run.limited /\ ~limited /\ ~run.canceled /\ run.code = 124
  <2>1. expired
    BY <1>3, <1>6 DEF Reason, Canceled, Limited, Plain, Plain124, ShellInv, TypeOK
  <2>2. outcome' = Promise!Stopped("timeout")
    BY <1>2, <1>6 DEF Outcome, Promise!Stopped
  <2> QED
    BY <1>1, <2>1, <2>2 DEF Promise!Tell
<1>7. CASE ~run.limited /\ ~limited /\ ~run.canceled /\ run.code # 124
  <2>1. readEnds /\ \E c \in codes : run = Plain(c)
    BY <1>3, <1>7 DEF Reason, Canceled, Limited, TimedOut
  <2>2. run.code \in codes
    BY <2>1 DEF Plain
  <2>3. \A s \in Streams : pipe[s] = 0 /\ chunk[s] = 0
    BY <1>2, <1>7, <2>1 DEF ShellInv, CopyInv, Drained
  <2>4. Underway = 0
    BY <2>3 DEF Underway, Streams
  <2>5. ~(written > SpillMax)
    BY <1>7, <2>1, <2>4, ShellAssumption DEF ShellInv, FlowInv, TypeOK
  <2>6. outcome' = Promise!Exited(run.code)
    BY <1>2, <1>7 DEF Outcome, Promise!Exited
  <2> QED
    BY <1>1, <2>2, <2>5, <2>6 DEF Promise!Tell
<1> QED
  BY <1>4, <1>5, <1>6, <1>7

\* Every step of a run is a step of the promise or leaves it alone.
LEMMA PromiseStep == Plain124 /\ ShellInv /\ [Next]_vars => [Promise!Next]_(Promise!vars)
<1> SUFFICES ASSUME Plain124, ShellInv, [Next]_vars PROVE Promise!Next
  OBVIOUS
<1> USE DEF Promise!Next
<1>1. ASSUME NEW p \in Processes, Fork(p) PROVE Promise!Event
  BY <1>1, EventStep DEF Fork, told
<1>2. ASSUME NEW p \in Processes, Exit(p) PROVE Promise!Event
  <2>1. p = "shell" => codes = {}
    BY <1>2 DEF Exit, ShellInv, RunInv
  <2> QED
    BY <1>2, <2>1, EventStep DEF Exit, told
<1>3. ASSUME NEW p \in Processes, NEW s \in Streams, Emit(p, s) PROVE Promise!Event
  BY <1>3, EventStep DEF Emit, command, told
<1>4. ASSUME NEW s \in Streams, Ended(s) \/ Read(s) \/ Write(s) PROVE Promise!Event
  BY <1>4, EventStep DEF Ended, Read, Write, command, told
<1>5. ASSUME Expire \/ Cancel PROVE Promise!Event
  BY <1>5, EventStep DEF Expire, Cancel, command, told
<1>6. ASSUME Start PROVE Promise!Event
  <2>1. codes = {} /\ (codes' = codes \/ codes' = {1})
    BY <1>6 DEF Start, ShellInv, RunInv, command
  <2> QED
    BY <1>6, <2>1, EventStep DEF Start, told
<1>7. ASSUME Exits \/ GiveUp \/ Close \/ Interrupt PROVE Promise!Event
  BY <1>7, EventStep DEF Exits, GiveUp, Close, Interrupt, command, told
<1>8. ASSUME Return PROVE Promise!Tell
  BY <1>8, TellStep
<1>9. ASSUME UNCHANGED vars PROVE Promise!Event
  BY <1>9, EventStep DEF vars, command, told
<1> QED
  BY <1>1, <1>2, <1>3, <1>4, <1>5, <1>6, <1>7, <1>8, <1>9 DEF Next, Command, Copy, Advance, Idle

\* run_shell implements its promise.
THEOREM Implements == Plain124 /\ Spec => KeepsPromise
<1>1. Plain124 /\ ShellInv /\ [Next]_vars => [Promise!Next]_(Promise!vars)
  BY PromiseStep
<1>2. CASE Plain124
  BY <1>1, <1>2, PromiseInit, ShellInvariant, PTL DEF Spec, KeepsPromise, Promise!Spec
<1> QED
  BY <1>2
=============================================================================
