------------------------------ MODULE ShellRun ------------------------------
(***************************************************************************)
(* executeShellCommand of internal/jinn: a command and the processes it    *)
(* leaves behind, the two pipes they hold, the two goroutines that copy    *)
(* the pipes into one bounded capture, and the goroutine that waits for    *)
(* the exit, the deadline, the cancellation and the output limit at once.  *)
(***************************************************************************)
EXTENDS Integers

CONSTANTS
  OwnCodes,    \* codes with which a command may exit by itself
  TailLimit,   \* bytes kept in memory
  SpillMax,    \* bytes captured at all
  PipeSize,    \* bytes a pipe holds
  MaxWritten,  \* bound on the bytes the command writes
  Faults       \* what may fail: "start", "create" and "write" of the spill file

ASSUME ShellAssumption ==
  /\ OwnCodes \subseteq Int
  /\ TailLimit \in Nat /\ SpillMax \in Nat /\ TailLimit < SpillMax
  /\ PipeSize \in Nat \ {0} /\ MaxWritten \in Nat
  /\ Faults \subseteq {"start", "create", "write"}

VARIABLES
  call,        \* where executeShellCommand is
  run,         \* shellRunResult: exit code, canceled, resourceLimited
  expired,     \* the deadline of the call has passed
  ctxDone,     \* the context of the call is done
  proc,        \* the shell, a background job, a job that left the group
  codes,       \* the exit code of the shell, once it has exited by itself
  holds,       \* the write ends the processes hold: <<process, stream>>
  ownEnds,     \* jinn holds its write ends
  readEnds,    \* jinn holds its read ends
  pipe,        \* bytes in each pipe
  copier,      \* where the goroutine of each pipe is
  chunk,       \* bytes it has read and not yet handed on
  total,       \* shellOutputCapture: bytes accepted
  limited,     \* resourceLimited, and limitCh closed
  spill,       \* the spill file is open
  spilled,     \* bytes in the spill file
  spillErr,    \* creating it or writing to it failed
  reported,    \* the result names the spill file
  outcome,     \* what the caller was told
  written      \* ghost: bytes the command wrote

command == <<proc, codes, holds>>
copies  == <<copier, chunk>>
capture == <<total, limited, spill, spilled, spillErr>>
ends    == <<ownEnds, readEnds>>
told    == <<reported, outcome>>
vars == <<call, run, expired, ctxDone, command, ends, pipe, copies, capture, told, written>>

Streams   == {"stdout", "stderr"}
Group     == {"shell", "job"}
Processes == Group \cup {"daemon"}

NoRun == [code |-> 0, canceled |-> FALSE, limited |-> FALSE]

Init ==
  /\ call = "start" /\ run = NoRun
  /\ expired = FALSE /\ ctxDone = FALSE
  /\ proc = [p \in Processes |-> "none"] /\ codes = {} /\ holds = {}
  /\ ownEnds = TRUE /\ readEnds = TRUE
  /\ pipe = [s \in Streams |-> 0]
  /\ copier = [s \in Streams |-> "reading"] /\ chunk = [s \in Streams |-> 0]
  /\ total = 0 /\ limited = FALSE
  /\ spill = FALSE /\ spilled = 0 /\ spillErr = FALSE
  /\ reported = FALSE /\ outcome = [kind |-> "none", code |-> 0]
  /\ written = 0
-----------------------------------------------------------------------------
(* The command.                                                            *)

Alive(p) == proc[p] = "running"

\* A background job, in the group of the shell or in a session of its own, with
\* those write ends that are not redirected.
Fork(p) ==
  /\ Alive("shell") /\ proc[p] = "none"
  /\ proc' = [proc EXCEPT ![p] = "running"]
  /\ \E kept \in SUBSET {s \in Streams : <<"shell", s>> \in holds} :
       holds' = holds \cup ({p} \X kept)
  /\ UNCHANGED <<call, run, expired, ctxDone, codes, ends, pipe, copies, capture, told, written>>

Emit(p, s) ==
  /\ Alive(p) /\ <<p, s>> \in holds /\ readEnds
  /\ pipe[s] < PipeSize /\ written < MaxWritten
  /\ pipe' = [pipe EXCEPT ![s] = @ + 1]
  /\ written' = written + 1
  /\ UNCHANGED <<call, run, expired, ctxDone, command, ends, copies, capture, told>>

Exit(p) ==
  /\ Alive(p)
  /\ proc' = [proc EXCEPT ![p] = "over"]
  /\ holds' = holds \ ({p} \X Streams)
  /\ IF p = "shell" THEN \E c \in OwnCodes : codes' = {c} ELSE UNCHANGED codes
  /\ UNCHANGED <<call, run, expired, ctxDone, ends, pipe, copies, capture, told, written>>
-----------------------------------------------------------------------------
(* The two copying goroutines.                                             *)

\* End of file, or a read end closed under the reader.
Ended(s) ==
  /\ copier[s] = "reading"
  /\ ~readEnds \/ (pipe[s] = 0 /\ ~ownEnds /\ \A p \in Processes : <<p, s>> \notin holds)
  /\ copier' = [copier EXCEPT ![s] = "ended"]
  /\ UNCHANGED <<call, run, expired, ctxDone, command, ends, pipe, chunk, capture, told, written>>

Read(s) ==
  /\ copier[s] = "reading" /\ readEnds
  /\ \E n \in 1..pipe[s] :
       /\ pipe' = [pipe EXCEPT ![s] = @ - n]
       /\ chunk' = [chunk EXCEPT ![s] = n]
  /\ copier' = [copier EXCEPT ![s] = "writing"]
  /\ UNCHANGED <<call, run, expired, ctxDone, command, ends, capture, told, written>>

Spill_NoTail(n) ==  \* mutant: what was captured before the file was needed is left out
  \/ /\ spill /\ spilled' = spilled + n /\ UNCHANGED <<spill, spillErr>>
  \/ /\ ~spill /\ ~spillErr
     /\ spill' = TRUE /\ spilled' = n /\ UNCHANGED spillErr
  \/ /\ spillErr /\ ~spill /\ UNCHANGED <<spill, spilled, spillErr>>

\* ensureSpillLocked, and n bytes appended: a file that is new begins with the
\* tail, which is all that was captured so far.  An error is kept, and a file
\* that could be created stays, whatever becomes of its content.
Spill(n) ==
  \/ /\ spill
     /\ spilled' = spilled + n
     /\ UNCHANGED <<spill, spillErr>>
  \/ /\ ~spill /\ ~spillErr
     /\ spill' = TRUE /\ spilled' = total + n
     /\ UNCHANGED spillErr
  \/ /\ "create" \in Faults /\ ~spill /\ ~spillErr
     /\ spillErr' = TRUE
     /\ UNCHANGED <<spill, spilled>>
  \/ /\ "write" \in Faults /\ spill /\ n > 0
     /\ spillErr' = TRUE /\ spilled' \in spilled..(spilled + n)
     /\ UNCHANGED spill
  \/ /\ "write" \in Faults /\ ~spill /\ ~spillErr
     /\ spill' = TRUE /\ spillErr' = TRUE /\ spilled' \in 0..(total + n)
  \/ /\ spillErr /\ ~spill
     /\ UNCHANGED <<spill, spilled, spillErr>>

Accepted_All(n) == n  \* mutant: no cut at the limit

\* What the capture takes of n bytes.
Accepted(n) == IF total + n > SpillMax THEN SpillMax - total ELSE n

Write(s) ==
  /\ copier[s] = "writing"
  /\ LET n == Accepted(chunk[s]) IN
       /\ total' = total + n
       /\ limited' = (limited \/ n < chunk[s])
       /\ IF n > 0 /\ total + n > TailLimit THEN Spill(n)
                                           ELSE UNCHANGED <<spill, spilled, spillErr>>
       /\ copier' = [copier EXCEPT ![s] = IF n < chunk[s] THEN "ended" ELSE "reading"]
  /\ chunk' = [chunk EXCEPT ![s] = 0]
  /\ UNCHANGED <<call, run, expired, ctxDone, command, ends, pipe, told, written>>
-----------------------------------------------------------------------------
(* The call.                                                               *)

Expire ==
  /\ call # "start" /\ ~expired
  /\ expired' = TRUE
  /\ UNCHANGED <<call, run, ctxDone, command, ends, pipe, copies, capture, told, written>>

Cancel ==
  /\ ~ctxDone
  /\ ctxDone' = TRUE
  /\ UNCHANGED <<call, run, expired, command, ends, pipe, copies, capture, told, written>>

Canceled == [code |-> 130, canceled |-> TRUE, limited |-> FALSE]
TimedOut == [code |-> 124, canceled |-> FALSE, limited |-> FALSE]
Limited  == [code |-> 1, canceled |-> FALSE, limited |-> TRUE]
Plain(c) == [code |-> c, canceled |-> FALSE, limited |-> FALSE]

\* The context is looked at before the command is started.
Start ==
  /\ call = "start"
  /\ \/ /\ ctxDone
        /\ run' = Canceled /\ call' = "close"
        /\ UNCHANGED command
     \/ /\ ~ctxDone /\ "start" \in Faults
        /\ run' = Plain(1) /\ call' = "close"
        /\ codes' = {1}
        /\ UNCHANGED <<proc, holds>>
     \/ /\ ~ctxDone
        /\ proc' = [proc EXCEPT !["shell"] = "running"]
        /\ holds' = {"shell"} \X Streams
        /\ call' = "select"
        /\ UNCHANGED <<run, codes>>
  /\ UNCHANGED <<expired, ctxDone, ends, pipe, copies, capture, told, written>>

Kill_ShellOnly ==  \* mutant: the process, not its group
  /\ proc' = [p \in Processes |-> IF p = "shell" /\ Alive(p) THEN "over" ELSE proc[p]]
  /\ holds' = {h \in holds : h[1] # "shell"}
  /\ ownEnds' = FALSE /\ readEnds' = FALSE

Kill_NoInterrupt ==  \* mutant: the read ends stay open
  /\ proc' = [p \in Processes |-> IF p \in Group /\ Alive(p) THEN "over" ELSE proc[p]]
  /\ holds' = {h \in holds : h[1] \notin Group}
  /\ UNCHANGED ends

\* killGroup: the group is killed, and interrupt closes the pipes under whoever
\* has left it.
Kill ==
  /\ proc' = [p \in Processes |-> IF p \in Group /\ Alive(p) THEN "over" ELSE proc[p]]
  /\ holds' = {h \in holds : h[1] \notin Group}
  /\ ownEnds' = FALSE /\ readEnds' = FALSE

\* One of the causes for which a call that waits kills the command.
Give ==
  \/ expired /\ run' = TimedOut
  \/ ctxDone /\ run' = Canceled
  \/ limited /\ run' = Limited

\* The first select.  After a kill the exit of the shell is awaited.
Exits ==
  /\ call = "select" /\ proc["shell"] = "over"
  /\ \E c \in codes : run' = Plain(c)
  /\ call' = "close"
  /\ UNCHANGED <<expired, ctxDone, command, ends, pipe, copies, capture, told, written>>

GiveUp ==
  /\ call = "select" /\ Give /\ Kill
  /\ call' = "close"
  /\ UNCHANGED <<expired, ctxDone, codes, pipe, copies, capture, told, written>>

\* The own write ends are closed.  The deadline goes on for a command that was not
\* stopped, which is told by its exit code.
Close ==
  /\ call = "close"
  /\ ownEnds' = FALSE
  /\ call' = IF run.code = 124 \/ run.canceled \/ run.limited THEN "await" ELSE "drain"
  /\ UNCHANGED <<run, expired, ctxDone, command, readEnds, pipe, copies, capture, told, written>>

Drained_First == \E s \in Streams : copier[s] = "ended"  \* mutant: one copyDone

Drained == \A s \in Streams : copier[s] = "ended"

\* The second select.  The exit of the shell is forgotten.
Interrupt ==
  /\ call = "drain" /\ Give /\ Kill
  /\ call' = "await"
  /\ UNCHANGED <<expired, ctxDone, codes, pipe, copies, capture, told, written>>

Outcome_RunOnly ==  \* mutant: the limit counts only if a select saw it
  IF run.limited THEN [kind |-> "resource_limit", code |-> 0]
  ELSE IF run.canceled THEN [kind |-> "canceled", code |-> 0]
  ELSE IF run.code = 124 THEN [kind |-> "timeout", code |-> 0]
  ELSE [kind |-> "exit", code |-> run.code]

\* runShell: the limit goes first, then the cancellation, then the code.
Outcome ==
  IF run.limited \/ limited THEN [kind |-> "resource_limit", code |-> 0]
  ELSE IF run.canceled THEN [kind |-> "canceled", code |-> 0]
  ELSE IF run.code = 124 THEN [kind |-> "timeout", code |-> 0]
  ELSE [kind |-> "exit", code |-> run.code]

\* shapeShellOutput and the return: output too long for the tail, or for the
\* narrower limits of a response, is announced with the spill file.
Return ==
  /\ call \in {"drain", "await"} /\ Drained
  /\ \/ total <= TailLimit /\ UNCHANGED <<spill, spilled, spillErr, reported>>
     \/ /\ total > 0
        /\ Spill(0)
        /\ reported' = spill'
  /\ outcome' = Outcome
  /\ call' = "returned"
  /\ UNCHANGED <<run, expired, ctxDone, command, ends, pipe, copies, total, limited, written>>
-----------------------------------------------------------------------------
Command == \E p \in Processes : Fork(p) \/ Exit(p) \/ \E s \in Streams : Emit(p, s)

Copy(s) == Ended(s) \/ Read(s) \/ Write(s)

Advance == Start \/ Exits \/ GiveUp \/ Close \/ Interrupt \/ Return

Idle == call = "returned" /\ UNCHANGED vars

Next == Command \/ (\E s \in Streams : Copy(s)) \/ Expire \/ Cancel \/ Advance \/ Idle

Spec == Init /\ [][Next]_vars

\* Time passes and the Go scheduler runs what can run.  The command may do
\* nothing for ever, and the caller need not cancel.
FairSpec ==
  Spec /\ WF_vars(Expire) /\ WF_vars(Advance) /\ \A s \in Streams : WF_vars(Copy(s))
-----------------------------------------------------------------------------
\* Type correctness of the call, the processes, the pipes and the capture, which
\* never exceeds its limit.
TypeOK ==
  /\ call \in {"start", "select", "close", "drain", "await", "returned"}
  /\ run \in [code : Int, canceled : BOOLEAN, limited : BOOLEAN]
  /\ expired \in BOOLEAN /\ ctxDone \in BOOLEAN /\ ownEnds \in BOOLEAN /\ readEnds \in BOOLEAN
  /\ proc \in [Processes -> {"none", "running", "over"}]
  /\ codes \subseteq OwnCodes \cup {1} /\ holds \subseteq Processes \X Streams
  /\ pipe \in [Streams -> Nat] /\ chunk \in [Streams -> Nat]
  /\ copier \in [Streams -> {"reading", "writing", "ended"}]
  /\ total \in 0..SpillMax /\ limited \in BOOLEAN
  /\ spill \in BOOLEAN /\ spilled \in Nat /\ spillErr \in BOOLEAN /\ reported \in BOOLEAN
  /\ outcome \in [kind : {"none", "exit", "timeout", "canceled", "resource_limit"}, code : Int]
  /\ written \in Nat

\* A command that ends by itself loses no output: when its exit is reported, every
\* byte its processes wrote to the pipes has been captured, also what background
\* jobs wrote after the shell was gone.
OutputComplete == outcome.kind = "exit" => total = written

\* A call that timed out or was cancelled leaves no process of its group behind.
GroupGone ==
  outcome.kind \in {"timeout", "canceled"} => \A p \in Group : ~Alive(p)

\* A spill file announced as the full output holds every byte that was captured,
\* unless writing to it failed.
SpillWhole == reported /\ ~spillErr => spilled = total

\* run_shell keeps its promise: one outcome, with a cause that happened, and never
\* the exit of a command part of whose output was dropped.
Promise == INSTANCE CallPromise WITH
  Codes <- OwnCodes \cup {1}, due <- expired, cancelled <- ctxDone,
  overflow <- written > SpillMax
KeepsPromise == Promise!Spec

\* No call outlives its deadline or its context, whatever its processes do with
\* the pipes.
EndsInTime == expired \/ ctxDone ~> call = "returned"
=============================================================================
