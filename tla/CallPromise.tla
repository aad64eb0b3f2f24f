----------------------------- MODULE CallPromise -----------------------------
(***************************************************************************)
(* What run_shell promises its caller: one outcome, and one that happened. *)
(* The cause of an outcome is the exit of the command with all its output  *)
(* captured, the deadline, a cancellation, or more output than is kept.    *)
(***************************************************************************)
EXTENDS Integers

CONSTANT Codes   \* exit codes of a command

VARIABLES
  due,        \* the deadline has passed
  cancelled,  \* the caller has cancelled
  codes,      \* the exit code of the command, once it has one
  overflow,   \* the command wrote more than is kept
  outcome     \* what the caller was told

vars == <<due, cancelled, codes, overflow, outcome>>

Untold    == [kind |-> "none", code |-> 0]
Exited(c) == [kind |-> "exit", code |-> c]
Stopped(kind) == [kind |-> kind, code |-> 0]

Init == /\ due = FALSE /\ cancelled = FALSE /\ overflow = FALSE
        /\ codes = {} /\ outcome = Untold

Event ==
  /\ due' \in {due, TRUE} /\ cancelled' \in {cancelled, TRUE} /\ overflow' \in {overflow, TRUE}
  /\ \/ codes' = codes
     \/ codes = {} /\ \E c \in Codes : codes' = {c}
  /\ UNCHANGED outcome

Tell ==
  /\ outcome = Untold
  /\ \/ due       /\ outcome' = Stopped("timeout")
     \/ cancelled /\ outcome' = Stopped("canceled")
     \/ overflow  /\ outcome' = Stopped("resource_limit")
     \/ \E c \in codes : ~overflow /\ outcome' = Exited(c)
  /\ UNCHANGED <<due, cancelled, codes, overflow>>

Next == Event \/ Tell

Spec == Init /\ [][Next]_vars
=============================================================================
