----------------------------- MODULE MCShellRun -----------------------------
(* Instances of ShellRun for TLC. *)
EXTENDS ShellRun

\* Success, and the code that also stands for a cancellation.
PlainCodes == {0, 130}
=============================================================================
