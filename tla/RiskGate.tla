------------------------------ MODULE RiskGate ------------------------------
(***************************************************************************)
(* The gate of run_shell (internal/jinn/tool_shell.go): a command line is  *)
(* judged before it runs, previewed, or blocked.  The line is built the    *)
(* way scripts are, from commands in lists, pipes, substitutions,          *)
(* functions and wrappers, so that what it would run is known.             *)
(***************************************************************************)
EXTENDS CommandRisk

CONSTANTS
    GateCommands,    \* simple commands, as sequences of symbols
    GateContexts,    \* the ways to build on a line, of ContextNames
    GateDepth,       \* how often a line is built upon
    GateCodes        \* exit codes

VARIABLES
    gateLine,        \* the command line
    gateHolds,       \* the highest risk of the simple commands it would run
    gateBuilt,       \* how often it was built upon
    gateAnswer       \* what run_shell did with it

gateVars == <<gateLine, gateHolds, gateBuilt, gateAnswer>>

Unasked == [did |-> "nothing", risk |-> None, class |-> "", forced |-> FALSE]

-----------------------------------------------------------------------------
(* What bash runs.                                                         *)

Subst(s) == <<"$", "(">> \o s \o <<")">>
In(name, s, other) ==
    CASE name = "and"      -> other \o <<" ", "&", "&", " ">> \o s
      [] name = "or"       -> s \o <<" ", "|", "|", " ">> \o other
      [] name = "then"     -> s \o <<";", " ">> \o other
      [] name = "line"     -> other \o <<"nl">> \o s
      [] name = "pipe"     -> s \o <<" ", "|", " ">> \o other
      [] name = "job"      -> s \o <<" ", "&", " ">> \o other
      [] name = "not"      -> <<"!", " ">> \o s
      [] name = "subst"    -> <<"echo", " ">> \o Subst(s)
      [] name = "quoted"   -> <<"echo", " ", "\"">> \o Subst(s) \o <<"\"">>
      [] name = "backtick" -> <<"echo", " ", "bt">> \o s \o <<"bt">>
      [] name = "process"  -> <<"cat", " ", "<", "(">> \o s \o <<")">>
      [] name = "assigned" -> <<"x=1", " ">> \o s
      [] name = "function" -> <<"f", "(", ")", " ", "{", " ">> \o s \o <<";", " ", "}", ";", " ", "f">>
      [] name = "subshell" -> <<"(">> \o s \o <<")">>
      [] name = "group"    -> <<"{", " ">> \o s \o <<";", " ", "}">>
      [] name = "if"       -> <<"if", " ">> \o other \o <<";", " ", "then", " ">> \o s \o <<";", " ", "fi">>
      [] name = "while"    -> <<"while", " ">> \o other \o <<";", " ", "do", " ">> \o s \o <<";", " ", "done">>
      [] name = "remark"   -> s \o <<" ", "#", " ", "note">>
      [] name = "bash"     -> <<"bash", " ", "-c", " ", "'">> \o s \o <<"'">>
      [] name = "env"      -> <<"env", " ">> \o s
      [] name = "nohup"    -> <<"nohup", " ">> \o s
      [] name = "timeout"  -> <<"timeout", " ", "5", " ">> \o s
      [] name = "time"     -> <<"time", " ">> \o s
      [] name = "command"  -> <<"command", " ">> \o s
      [] name = "xargs"    -> <<"xargs", " ">> \o s
      [] name = "find"     -> <<"find", " ", ".", " ", "-exec", " ">> \o s \o <<" ", "\\", ";">>
      [] name = "to"       -> s \o <<" ", ">", " ", "out">>

\* What bash makes of a line depends on where it stands: a wrapper takes one
\* simple command, a comment hides what follows it, "$((" and "((" start
\* arithmetic.  A parenthesis is written onto a command word: the lexer takes
\* "(x=1" and "({" for one word and the command in it for one it does not know.
Wrappers == {"assigned", "env", "nohup", "timeout", "command", "xargs", "find"}
Simple == Wrappers \cup {"subst", "quoted", "backtick", "process", "bash"}
Outermost(built) == IF built = <<>> THEN "bash" ELSE Last(built)
Buildable(name, built, s) ==
    /\ name \in Wrappers => Outermost(built) \in Simple
    /\ name \in {"subst", "quoted"} => s[1] # "("
    /\ name = "subshell" => s[1] \notin {"(", "{", "x=1"}
    /\ "remark" \in Range(built) => name \in {"and", "line"}
    /\ name = "bash" => "'" \notin Range(s)
    /\ name = "backtick" => Backtick \notin Range(s)

-----------------------------------------------------------------------------
(* What an exit code says of a command (exitcode.go).                      *)

ExpectedNonzero(verb, code) ==
    \/ code = 1 /\ verb \in {"grep", "rg", "ag", "diff", "cmp", "test", "["}
    \/ code = 22 /\ verb = "curl"
ClassifyExitCode(verb, code) ==
    CASE code = 0 -> "success"
      [] code < 0 \/ code > 128 -> "signal"
      [] code = 124 -> "timeout"
      [] ExpectedNonzero(verb, code) -> "expected_nonzero"
      [] OTHER -> "error"
VerbOf(segs) == IF Len(segs) # 1 THEN "" ELSE EffectiveCommand(ShellFields(segs[1])).verb
ExtractArgv0(s) == IF ContainsCommandExpansion(s) THEN "" ELSE VerbOf(SplitOnOperators(s))

-----------------------------------------------------------------------------
(* The gate.                                                               *)

GateInit ==
    /\ \E c \in GateCommands : gateLine = c /\ gateHolds = ClassifyCommand(c)
    /\ gateBuilt = <<>>
    /\ gateAnswer = Unasked

Build(name, other) ==
    /\ gateAnswer = Unasked /\ Len(gateBuilt) < GateDepth
    /\ Buildable(name, gateBuilt, gateLine)
    /\ gateLine' = In(name, gateLine, other)
    /\ gateBuilt' = Append(gateBuilt, name)
    /\ UNCHANGED <<gateHolds, gateAnswer>>

Blocked(risk, forced) == risk = RiskDangerous /\ ~forced

Answer(did, risk, class, forced) ==
    /\ gateAnswer' = [did |-> did, risk |-> risk, class |-> class, forced |-> forced]
    /\ UNCHANGED <<gateLine, gateHolds, gateBuilt>>

RunShellDisabled ==
    /\ gateAnswer = Unasked
    /\ Answer("disabled", None, "", FALSE)
Judged(risk, verb) ==
    \/ Answer("preview", risk, "success", FALSE)
    \/ \E forced \in BOOLEAN :
         IF Blocked(risk, forced) THEN Answer("blocked", risk, "", forced)
         ELSE \E code \in GateCodes : Answer("ran", risk, ClassifyExitCode(verb, code), forced)
RunShell ==
    /\ gateAnswer = Unasked
    /\ Judged(ClassifyCommand(gateLine), ExtractArgv0(gateLine))

GateNext ==
    \/ \E n \in GateContexts, o \in GateCommands : Build(n, o)
    \/ RunShellDisabled
    \/ RunShell

GateSpec == GateInit /\ [][GateNext]_gateVars

-----------------------------------------------------------------------------
(* Properties.                                                             *)

\* Contexts that make several commands, or none with an exit code of its own, of a line.
Compound == {"and", "or", "then", "line", "pipe", "job", "subst", "quoted", "backtick", "process", "function"}

\* "Pipelines return the maximum risk of any component" (docs/security.md): in
\* whatever lists, substitutions, functions, quoted scripts and wrappers a command
\* is nested, the line is judged at least as risky as the command, so that a
\* dangerous one runs only when forced; and an exit code is read as the semantic
\* signal of one command only if the line has no other (ClassifyCommand, runShell,
\* extractArgv0: "Compound commands have no single exit identity").
NestingKeepsRisk ==
    /\ gateAnswer.did \in {"preview", "blocked", "ran"} => gateAnswer.risk >= gateHolds
    /\ gateAnswer.did = "ran" /\ gateHolds = RiskDangerous => gateAnswer.forced
    /\ gateAnswer.class = "expected_nonzero" => Range(gateBuilt) \cap Compound = {}
=============================================================================
