---------------------------- MODULE CommandRisk ----------------------------
(***************************************************************************)
(* ClassifyCommand of internal/jinn/command_risk.go: the risk of a command *)
(* line, as the highest risk of the commands it is made of.  The reasons   *)
(* it gives are wording and left out.                                      *)
(***************************************************************************)
EXTENDS ShellLexer

RiskSafe == 0
RiskCaution == 1
RiskDangerous == 2
RiskLevels == {RiskSafe, RiskCaution, RiskDangerous}
Riskier(a, b) == IF a >= b THEN a ELSE b
None == -1    \* a heuristic that does not fire

SafeVerbs ==
    {"ls", "cat", "grep", "rg", "find", "head", "tail", "wc", "stat", "file", "pwd", "echo",
     "printf", "date", "env", "which", "whoami", "hostname", "true", "false", "command", "builtin"}
CautionVerbs ==
    {"alias", "apt", "apt-get", "awk", "aws", "az", "brew", "bun", "cargo", "chmod", "chown",
     "composer", "cp", "curl", "dnf", "docker", "exec", "gcloud", "gem", "gh", "git", "go", "hash",
     "helm", "kubectl", "mkdir", "mv", "mysql", "npm", "pacman", "pip", "pip3", "pnpm", "podman",
     "psql", "pulumi", "rsync", "sed", "sqlite3", "tar", "tee", "terraform", "tofu", "touch",
     "unzip", "wget", "xargs", "yarn", "yum", "zip"}
DangerousVerbs ==
    {".", "blkdiscard", "dd", "doas", "eval", "fdisk", "fsck", "halt", "kill", "killall", "mkfs",
     "mkswap", "parted", "pkexec", "poweroff", "reboot", "rm", "rmdir", "shred", "shutdown",
     "source", "su", "sudo", "trap", "truncate", "unlink", "wipe", "wipefs"}
RiskTable(verb) ==
    IF verb \in SafeVerbs THEN RiskSafe
    ELSE IF verb \in CautionVerbs THEN RiskCaution
    ELSE IF verb \in DangerousVerbs THEN RiskDangerous ELSE None

IsFlag(w) == Starts(w, "-")
At(w, c) == Least({i \in 1..Len(w) : SubSeq(w, i, i) = c}, 0)
AssignsTo(w, eq) == eq > 1 /\ IsShellName(SubSeq(w, 1, eq - 1))
IsEnvAssignment(w) == AssignsTo(w, At(w, "="))
Join(tokens) == Concat([k \in DOMAIN tokens |-> IF k = 1 THEN tokens[k] ELSE <<Blank>> \o tokens[k]])

-----------------------------------------------------------------------------
(* The command behind wrappers, assignments and redirections.              *)

\* What follows the options (and, for some wrappers, the assignments) of t.
RECURSIVE AfterOptions(_, _, _)
AfterOptions(t, takesArg, assigns) ==
    IF t = <<>> THEN <<>>
    ELSE LET w == Str(t[1]) IN
         IF assigns /\ IsEnvAssignment(w) THEN AfterOptions(Tail(t), takesArg, assigns)
         ELSE IF w \in takesArg THEN AfterOptions(From(t, 3), takesArg, assigns)
         ELSE IF IsFlag(w) THEN AfterOptions(Tail(t), takesArg, assigns)
         ELSE t

\* The same for tools whose global flags end at "--".
RECURSIVE PayloadAfterGlobalFlags(_, _)
PayloadAfterGlobalFlags(t, takesArg) ==
    IF t = <<>> THEN <<>>
    ELSE LET w == Str(t[1]) IN
         IF w = "--" THEN Tail(t)
         ELSE IF w \in takesArg THEN PayloadAfterGlobalFlags(From(t, 3), takesArg)
         ELSE IF IsFlag(w) THEN PayloadAfterGlobalFlags(Tail(t), takesArg)
         ELSE t

\* env; what follows -S is split into tokens itself.
RECURSIVE EnvPayload(_), EnvOption(_, _)
EnvSplitString(t, w) ==
    IF w \notin {"-S", "--split-string"} THEN <<After(t[1][1], "--split-string=")>> \o Tail(t[1])
    ELSE IF Len(t) = 1 THEN <<>> ELSE t[2]
EnvOption(t, w) ==
    IF w \in {"-S", "--split-string"} \/ Starts(w, "--split-string=") THEN ShellFields(EnvSplitString(t, w))
    ELSE IF w \in {"-u", "--unset", "-C", "--chdir", "-a", "--argv0", "-P"} THEN EnvPayload(From(t, 3))
    ELSE IF IsFlag(w) \/ IsEnvAssignment(w) THEN EnvPayload(Tail(t))
    ELSE t
EnvPayload(t) == IF t = <<>> THEN <<>> ELSE EnvOption(t, Str(t[1]))

\* command -v and -V only look a command up.
Executed(t, p) == IF \E k \in 1..Len(t) - Len(p) : Str(t[k]) \in {"-v", "-V"} THEN <<>> ELSE p
CommandPayload(t) == Executed(t, AfterOptions(t, {}, TRUE))

RECURSIVE ParseTimeInvocation(_), TimeOption(_, _)
TimeTarget(x, rest) == [rest EXCEPT !.targets = @ \cup {x}]
TimeOption(t, w) ==
    IF w \in {"-o", "--output"}
    THEN IF Len(t) = 1 THEN ParseTimeInvocation(<<>>) ELSE TimeTarget(Str(t[2]), ParseTimeInvocation(From(t, 3)))
    ELSE IF w \in {"-f", "--format"} THEN ParseTimeInvocation(From(t, 3))
    ELSE IF Starts(w, "--output=") THEN TimeTarget(After(w, "--output="), ParseTimeInvocation(Tail(t)))
    ELSE IF Starts(w, "-o") THEN TimeTarget(After(w, "-o"), ParseTimeInvocation(Tail(t)))
    ELSE IF w # "--" /\ IsFlag(w) THEN ParseTimeInvocation(Tail(t))
    ELSE [targets |-> {}, payload |-> IF w = "--" THEN Tail(t) ELSE t]
ParseTimeInvocation(t) == IF t = <<>> THEN [targets |-> {}, payload |-> <<>>] ELSE TimeOption(t, Str(t[1]))

RECURSIVE TasksetPayload(_, _), TasksetOption(_, _, _)
TasksetOption(t, w, cpuList) ==
    IF w = "--" THEN From(t, 3)
    ELSE IF w \in {"-p", "--pid"} THEN <<>>
    ELSE IF w \in {"-c", "--cpu-list"} THEN TasksetPayload(From(t, 3), TRUE)
    ELSE IF IsFlag(w) THEN TasksetPayload(Tail(t), cpuList \/ Starts(w, "--cpu-list=") \/ Starts(w, "-c"))
    ELSE IF cpuList THEN t ELSE Tail(t)
TasksetPayload(t, cpuList) == IF t = <<>> THEN <<>> ELSE TasksetOption(t, Str(t[1]), cpuList)

IsCasePattern(tok) == Len(tok) > 1 /\ tok[Len(tok)] = ")"
FromPattern(t) == From(t, Least({i \in 1..Len(t) - 1 : IsCasePattern(t[i])}, Len(t)) + 1)

\* Each wrapper's payload; empty when it wraps no command.
WrappedCommandPayload(verb, rest) ==
    CASE verb \in {"{", "(", "!", "if", "then", "else", "elif", "do", "while", "until", "nohup"} ->
            rest
      [] verb = "nice" -> AfterOptions(rest, {"-n", "--adjustment"}, TRUE)
      [] verb \in {"setsid", "exec"} -> AfterOptions(rest, {}, TRUE)
      [] verb = "stdbuf" ->
            AfterOptions(rest, {"-i", "-o", "-e", "--input", "--output", "--error"}, TRUE)
      [] verb = "env" -> EnvPayload(rest)
      [] verb = "coproc" ->
            IF Len(rest) >= 2 /\ IsShellName(Str(rest[1])) /\ rest[2] \in {<<"{">>, <<"(">>}
            THEN Tail(rest) ELSE rest
      [] verb = "case" -> FromPattern(rest)
      [] verb \in {"command", "builtin"} -> CommandPayload(rest)
      [] verb \in {"busybox", "toybox"} -> AfterOptions(rest, {}, FALSE)
      [] verb = "timeout" ->  \* its duration stands before the command
            From(PayloadAfterGlobalFlags(rest, {"-k", "--kill-after", "-s", "--signal"}), 2)
      [] verb = "taskset" -> TasksetPayload(rest, FALSE)
      [] verb = "time" -> ParseTimeInvocation(rest).payload
      [] OTHER -> <<>>

\* path.Base without the braces and parentheses around a verb; no verb stands
\* before a redirection but for what is no number.
LastElement(w) == IF w = "" THEN "/" ELSE SubSeq(w, Most({i \in 1..Len(w) : SubSeq(w, i, i) = "/"}, 0) + 1, Len(w))
PathBase(w) == LastElement(SubSeq(w, 1, Most({i \in 1..Len(w) : SubSeq(w, i, i) # "/"}, 0)))
TrimBraces(w) ==
    SubSeq(w, Least({i \in 1..Len(w) : SubSeq(w, i, i) \notin {"(", "{"}}, Len(w) + 1),
              Most({i \in 1..Len(w) : SubSeq(w, i, i) \notin {")", "}"}}, 0))
Unbraced(base, verb) == IF verb = "" THEN base ELSE verb
VerbName(w) ==
    IF w = "" THEN ""
    ELSE IF w = "[[" \/ Starts(w, "((") THEN "true"
    ELSE Unbraced(PathBase(w), TrimBraces(PathBase(w)))
VerbBefore(w, redirected) == IF redirected /\ IsWordOf(w, Digits) THEN "" ELSE w
CommandVerbBeforeRedirection(tok, cut) == VerbBefore(Str(SubSeq(tok, 1, cut - 1)), cut <= Len(tok))
NormalizedCommandVerb(tok) ==
    VerbName(CommandVerbBeforeRedirection(tok, Least({i \in DOMAIN tok : tok[i] \in {"<", ">"}}, Len(tok) + 1)))

RECURSIVE EffectiveCommand(_)
WrappedOr(t, verb, payload) ==
    IF payload # <<>> THEN EffectiveCommand(payload) ELSE [verb |-> verb, tokens |-> t]
CommandAt(t, verb) ==
    IF IsEnvAssignment(Str(t[1])) \/ (IsCasePattern(t[1]) /\ Len(t) > 1) \/ verb = ""
    THEN EffectiveCommand(Tail(t))
    ELSE WrappedOr(t, verb, WrappedCommandPayload(verb, Tail(t)))
EffectiveCommand(t) ==
    IF t = <<>> THEN [verb |-> "", tokens |-> <<>>] ELSE CommandAt(t, NormalizedCommandVerb(t[1]))

-----------------------------------------------------------------------------
(* Devices and output files.                                               *)

DangerousDevicePrefixes ==
    {"/dev/sd", "/dev/hd", "/dev/vd", "/dev/xvd", "/dev/nvme", "/dev/mmcblk", "/dev/disk",
     "/dev/rdisk", "/dev/loop", "/dev/md", "/dev/dm-", "/dev/nbd", "/dev/rbd", "/dev/drbd",
     "/dev/pmem", "/dev/bcache", "/dev/dasd", "/dev/aoe/", "/dev/cciss/", "/dev/ram", "/dev/mtd",
     "/dev/zram", "/dev/ada", "/dev/da", "/dev/nda", "/dev/wd", "/dev/vtbd", "/dev/ld",
     "/dev/cgd", "/dev/vnd", "/dev/dsk/", "/dev/rdsk/", "/dev/zvol/", "/dev/mapper/"}
\* path.Clean of a rooted path; other paths are taken as they are.
PushName(a) ==
    IF a.name \in {"", "."} THEN a.dirs
    ELSE IF a.name # ".." THEN Append(a.dirs, a.name)
    ELSE IF a.dirs = <<>> THEN <<>> ELSE Front(a.dirs)
CleanStep(a, c) == IF c = "/" THEN [name |-> "", dirs |-> PushName(a)] ELSE [a EXCEPT !.name = @ \o c]
PathClean(w) ==
    IF Starts(w, "/")
    THEN FoldLeft(LAMBDA path, d : path \o "/" \o d, "",
                  PushName(FoldLeft(CleanStep, [name |-> "", dirs |-> <<>>], [i \in 1..Len(w) |-> SubSeq(w, i, i)])))
    ELSE w
StandardStreams == {"/dev/null", "/dev/stdout", "/dev/stderr"}
IsDevice(c) == c \notin StandardStreams /\ \E p \in DangerousDevicePrefixes : Starts(c, p)
IsDeviceDirectory(c) == c \notin StandardStreams /\ (c = "/dev" \/ Starts(c, "/dev/"))
IsDangerousDevicePath(w) == IsDevice(PathClean(w))
IsDangerousOutputDirectory(w) == IsDeviceDirectory(PathClean(w))

WritesAt(seg, lit, spans) ==
    \E i \in DOMAIN seg \ lit :
        /\ ~InSpan(i, spans)
        /\ seg[i] = ">" \/ (seg[i] = "<" /\ i < Len(seg) /\ seg[i + 1] = ">")
HasOutputRedirection(seg) == WritesAt(seg, Literals(seg), SkipSpans(seg))
HasInputRedirection(seg) == \E i \in DOMAIN seg \ Literals(seg) : seg[i] = "<"

\* The target of an output redirection in one token, with what stands next to
\* the operator; empty when the target is the next token.
OutputRedirection(w) ==
    LET at(op) == Least({i \in 1..Len(w) : Starts(SubSeq(w, i, Len(w)), op)}, 0)
        Behind1(op, i) == [found |-> i > 0, target |-> IF i = 0 THEN "" ELSE SubSeq(w, i + Len(op), Len(w))]
    IN  IF w \in {">|", ">>", "&>>"} THEN [found |-> TRUE, target |-> ""]
        ELSE IF at("<>") > 0 THEN Behind1("<>", at("<>"))
        ELSE Behind1(">", at(">"))
RedirectsTo(r, next) == r.found /\ IsDangerousDevicePath(IF r.target = "" THEN next ELSE r.target)
WritesDevice(t, spans) ==
    \E k \in DOMAIN t :
        /\ ~\E p \in spans : t[k].start < p[2] /\ t[k].end > p[1]
        /\ RedirectsTo(OutputRedirection(Str(t[k].text)), IF k < Len(t) THEN Str(t[k + 1].text) ELSE "")
DangerousOutputRedirection(seg) == WritesDevice(Tokenize(seg), SkipSpans(seg))

\* Every value given to one of the options, in order; a value that stands
\* alone is not read as an option itself.
RECURSIVE CommandOptionTargets(_, _), OptionTarget(_, _, _)
Attached(o) == IF Starts(o, "--") THEN o \o "=" ELSE o
OptionTarget(t, w, options) ==
    IF w \in options
    THEN (IF Len(t) > 1 THEN <<t[2]>> ELSE <<>>) \o CommandOptionTargets(From(t, 3), options)
    ELSE SetToSeq({<<After(t[1][1], Attached(o))>> \o Tail(t[1]) : o \in {p \in options : Starts(w, Attached(p))}})
         \o CommandOptionTargets(Tail(t), options)
CommandOptionTargets(t, options) == IF t = <<>> THEN <<>> ELSE OptionTarget(t, Str(t[1]), options)
AnyTarget(x, Dangerous(_)) == \E k \in DOMAIN x : Dangerous(Str(x[k]))
TargetIn(t, options, Dangerous(_)) == AnyTarget(CommandOptionTargets(Tail(t), options), Dangerous)

CurlFileWritingOptions ==
    {"-o", "--output", "-D", "--dump-header", "--trace", "--trace-ascii", "--stderr", "-c",
     "--cookie-jar", "--hsts", "--alt-svc", "--etag-save", "--libcurl"}
WgetFileWritingOptions ==
    {"-O", "--output-document", "-o", "--output-file", "-a", "--append-output", "--hsts-file",
     "--save-cookies", "--rejected-log"}
Args(t) == {Str(t[k]) : k \in 2..Len(t)}
WordAt(t, k) == IF k \in DOMAIN t THEN Str(t[k]) ELSE ""
NonFlags(t) == {k \in 2..Len(t) : Str(t[k]) # "" /\ ~IsFlag(Str(t[k]))}
LastNonFlag(t) == WordAt(t, Most(NonFlags(t), 0))
FirstNonFlag(t) == WordAt(t, Least(NonFlags(t), 0))
\* -f FILE, --file FILE, --file=FILE, or a cluster of options that ends in f.
TarFileOption(w) == w = "--file" \/ Starts(w, "--file=") \/ (IsFlag(w) /\ "f" \in Chars(w))
TarTarget(w, next) ==
    IF w \in {"", "-f", "--file"} THEN next
    ELSE IF Starts(w, "--file=") THEN After(w, "--file=")
    ELSE IF At(w, "f") < Len(w) THEN SubSeq(w, At(w, "f") + 1, Len(w)) ELSE next
TarOptionAt(t, k) == TarTarget(WordAt(t, k), WordAt(t, k + 1))
TarCreateOutputTarget(t) == TarOptionAt(t, Least({j \in 2..Len(t) : TarFileOption(Str(t[j]))}, Len(t) + 1))
\* %output{FILE} in a format writes to FILE.
OutputFile(x) == IF Starts(x, ">>") THEN After(x, ">>") ELSE x
OutputFilesIn(x) ==
    {OutputFile(Str(SubSeq(x, i + 1, j - 1))) : <<i, j>> \in
        {p \in (DOMAIN x) \X (DOMAIN x) : /\ p[1] > 1 /\ x[p[1] - 1] = "%output" /\ x[p[1]] = "{"
                                     /\ p[1] < p[2] /\ x[p[2]] = "}"
                                     /\ \A k \in p[1] + 1..p[2] - 1 : x[k] # "}"}}
CurlWriteOutTargets(t) == OutputFilesIn(Concat(CommandOptionTargets(Tail(t), {"-w", "--write-out"})))
LastIn(x, Dangerous(_)) == x # <<>> /\ Dangerous(Str(Last(x)))
CheckCurl(t) ==
    \/ TargetIn(t, CurlFileWritingOptions, IsDangerousDevicePath)
    \/ \E w \in CurlWriteOutTargets(t) : IsDangerousDevicePath(w)
    \/ /\ Args(t) \cap {"-O", "--remote-name", "--remote-name-all"} # {}
       /\ LastIn(CommandOptionTargets(Tail(t), {"--output-dir"}), IsDangerousOutputDirectory)
CheckWget(t) ==
    \/ TargetIn(t, WgetFileWritingOptions, IsDangerousDevicePath)
    \/ TargetIn(t, {"-P", "--directory-prefix"}, IsDangerousOutputDirectory)

-----------------------------------------------------------------------------
(* Interpreters.                                                           *)

ShellInterpreters ==
    {"sh", "bash", "zsh", "dash", "ksh", "mksh", "ash", "fish", "csh", "tcsh"}
IsPythonVerb(verb) == verb = "python" \/ Starts(verb, "python2") \/ Starts(verb, "python3")
InlineCodeFlags(verb) ==
    CASE IsPythonVerb(verb) -> {"-c"}
      [] verb \in {"node", "nodejs"} -> {"-e", "--eval", "-p", "--print"}
      [] verb = "perl" -> {"-e", "-E"}
      [] verb \in {"ruby", "lua", "osascript"} \/ Starts(verb, "lua5.") -> {"-e"}
      [] verb = "php" -> {"-r", "-B", "-R", "-E"}
      [] verb \in {"Rscript", "rscript"} -> {"-e", "--expression"}
      [] verb = "julia" -> {"-e", "--eval"}
      [] verb \in {"pwsh", "powershell", "powershell.exe"} ->
            {"-c", "-Command", "-command", "-EncodedCommand", "-encodedcommand"}
      [] verb \in {"cmd", "cmd.exe"} -> {"/c", "/C"}
      [] OTHER -> {}
MatchesInlineCodeFlag(w, flag) ==
    \/ w = flag \/ Starts(w, flag \o "=")
    \/ Len(flag) = 2 /\ Len(w) > 2 /\ IsFlag(w) /\ ~Starts(w, "--")
       /\ SubSeq(flag, 2, 2) \in Chars(After(w, "-"))
IsInlineCodeExecution(verb, t) ==
    \E w \in Args(t), flag \in InlineCodeFlags(verb) : MatchesInlineCodeFlag(w, flag)

\* Options with a value: those that configure, those that name the program.
ConfigOptions(verb) ==
    CASE IsPythonVerb(verb) -> {"-W", "-X", "--check-hash-based-pycs"}
      [] verb \in {"node", "nodejs"} ->
            {"-r", "--require", "--import", "--loader", "--experimental-loader", "-C",
             "--conditions", "--input-type"}
      [] verb = "perl" -> {"-I", "-M", "-m"}
      [] verb = "ruby" -> {"-I", "-r", "-C", "--directory"}
      [] verb = "php" -> {"-c", "-d"}
      [] OTHER -> {}
SourceOptions(verb) ==
    IF IsPythonVerb(verb) THEN {"-m"} ELSE IF verb = "php" THEN {"-f", "--file"} ELSE {}
\* The part of w behind an option it starts with.
AttachedValues(w, options) == {After(w, Attached(o)) : o \in {p \in options : p # w /\ Starts(w, Attached(p))}}
IsInputRedirection(w) == LET lt == At(w, "<") IN lt = 1 \/ (lt > 1 /\ IsWordOf(SubSeq(w, 1, lt - 1), Digits))

\* The program an interpreter runs; Implicit when nothing names one.
Implicit == "<implicit>"
RECURSIVE StdinCodeProgram(_, _), CodeProgram(_, _, _, _)
CodeProgram(verb, t, w, source) ==
    LET Skip(k) == StdinCodeProgram(verb, From(t, k))
    IN  IF IsInputRedirection(w) THEN Skip(IF At(w, "<") = Len(w) THEN 3 ELSE 2)
        ELSE IF w = "-" THEN w
        ELSE IF w \in ConfigOptions(verb) THEN Skip(3)
        ELSE IF AttachedValues(w, ConfigOptions(verb)) # {} THEN Skip(2)
        ELSE IF w \in SourceOptions(verb) THEN IF Len(t) > 1 THEN Str(t[2]) ELSE Implicit
        ELSE IF source # {} THEN CHOOSE x \in source : TRUE
        ELSE IF IsFlag(w) THEN Skip(2) ELSE w
StdinCodeProgram(verb, t) ==
    IF t = <<>> THEN Implicit ELSE CodeProgram(verb, t, Str(t[1]), AttachedValues(Str(t[1]), SourceOptions(verb)))
IsStdinCodeProgram(w) == w \in {"-", "/dev/stdin", "/dev/fd/0"}

ReadsStdinCode(seg, verb, t, program) ==
    /\ InlineCodeFlags(verb) # {}
    /\ program = Implicit \/ IsStdinCodeProgram(program)
    /\ \/ HasInputRedirection(seg)
       \/ IsStdinCodeProgram(program)
       \/ /\ verb \in {"node", "nodejs"} /\ program = Implicit
          /\ \E w \in Args(t) : w = "--input-type" \/ Starts(w, "--input-type=")
DangerousStdinCode(seg, verb, t) == ReadsStdinCode(seg, verb, t, StdinCodeProgram(verb, Tail(t)))

PackageGlobalArgs(verb) ==
    CASE verb = "brew" -> {"--prefix", "--repository", "--cellar"}
      [] verb \in {"apt", "apt-get", "dnf", "yum"} ->
            {"-c", "-o", "--config-file", "--option", "--installroot", "--releasever"}
      [] OTHER -> {"-C", "--cwd", "--dir", "--prefix", "--project", "--python"}
PackageManagers ==
    {"brew", "apt", "apt-get", "dnf", "yum", "pacman", "npm", "pnpm", "yarn", "bun", "pip", "pip3",
     "gem", "cargo", "composer"}
\* By the token as written: one with a path is no package manager.
PackageManagerPayload(t) ==
    IF Str(t[1]) \notin PackageManagers THEN <<>>
    ELSE IF Str(t[1]) = "pacman" THEN Words(Tail(t))
    ELSE Words(PayloadAfterGlobalFlags(Tail(t), PackageGlobalArgs(Str(t[1]))))

ArbitraryCodeInvocation(verb, t) ==
    \/ verb \in {"awk", "gawk", "make", "npx", "bunx"}
    \/ /\ verb \in {"pnpm", "bun"}
       /\ LET args == PackageManagerPayload(t)
          IN  /\ args # <<>>
              /\ args[1] \in (IF verb = "pnpm" THEN {"dlx", "exec"} ELSE {"x"})

DangerousCommandInvocation(seg, verb, t) ==
    \/ "$" \in Chars(verb)
    \/ verb = "mkfs" \/ Starts(verb, "mkfs.")
    \/ verb \in ShellInterpreters
    \/ IsInlineCodeExecution(verb, t)
    \/ DangerousStdinCode(seg, verb, t)
    \/ ArbitraryCodeInvocation(verb, t)

-----------------------------------------------------------------------------
(* Destructive uses of the verbs that take subcommands.                    *)

Rest(t, takesArg) == Words(PayloadAfterGlobalFlags(Tail(t), takesArg))
ContainerArgs == {"--config", "--context", "--host", "-H", "--log-level", "--tlscacert", "--tlscert", "--tlskey"}
ClusterArgs == {"-n", "--namespace", "--context", "--kubeconfig", "--server", "--user", "--as", "--as-group"}
PulumiArgs == {"-C", "--cwd", "--config-file", "--profiling", "-s", "--stack"}
AwsArgs ==
    {"--ca-bundle", "--cli-binary-format", "--cli-input-json", "--cli-input-yaml", "--color",
     "--endpoint-url", "--output", "--profile", "--query", "--region"}
AzureArgs ==
    {"--cloud", "--defaults", "--only-show-errors", "--output", "--profile", "--query",
     "--subscription", "--tenant", "--username"}
AzureOptionArgs ==
    AzureArgs \cup {"--ids", "--location", "--name", "--resource-group", "--slot", "-g", "-n"}
GcloudArgs ==
    {"--account", "--billing-project", "--configuration", "--flags-file", "--format",
     "--impersonate-service-account", "--project", "--trace-token"}
GcloudOptionArgs == GcloudArgs \cup {"--cluster", "--instance", "--name", "--region", "--zone"}

Second(a, S) == Len(a) > 1 /\ a[2] \in S
AnyOf(a, from, S) == \E k \in from..Len(a) : a[k] \in S
ContainerRemoval == {"rm", "remove", "prune"}
ContainerRuntime(t) ==
    LET a == Rest(t, ContainerArgs) IN
    /\ a # <<>>
    /\ \/ a[1] = "system" /\ Second(a, {"prune"})
       \/ a[1] \in {"volume", "container"} /\ Second(a, ContainerRemoval)
       \/ a[1] \in {"rm", "remove"}
       \/ a[1] = "compose" /\ Second(a, {"down"}) /\ AnyOf(a, 3, {"-v", "--volumes"})
Cluster(t, S) == LET a == Rest(t, ClusterArgs) IN a # <<>> /\ a[1] \in S
Terraform(t) ==
    LET a == Rest(t, {"-chdir"})
    IN  a # <<>> /\ (a[1] = "destroy" \/ (a[1] = "apply" /\ AnyOf(a, 2, {"-destroy"})))
Pulumi(t) ==
    LET a == Rest(t, PulumiArgs)
    IN  a # <<>> /\ (a[1] = "destroy" \/ (a[1] = "stack" /\ Second(a, {"rm", "remove"})))
Delete == {"DELETE", "delete"}   \* EqualFold
RECURSIVE GithubAPIUsesDelete(_)
GithubAPIUsesDelete(a) ==
    /\ a # <<>>
    /\ IF a[1] \in {"-X", "--method"}
       THEN Second(a, Delete) \/ GithubAPIUsesDelete(From(a, 3))
       ELSE \/ Starts(a[1], "-X") /\ After(a[1], "-X") \in Delete
            \/ Starts(a[1], "--method=") /\ After(a[1], "--method=") \in Delete
            \/ GithubAPIUsesDelete(Tail(a))
GitHubCLI(t) ==
    LET a == Rest(t, {"-R", "--repo", "--hostname"}) IN
    /\ a # <<>>
    /\ \/ a[1] \in {"repo", "release", "run", "workflow"} /\ Second(a, {"delete", "delete-asset"})
       \/ a[1] = "api" /\ GithubAPIUsesDelete(Tail(a))
PackageManager(t) ==
    LET a == PackageManagerPayload(t) IN
    /\ a # <<>>
    /\ IF Str(t[1]) = "pacman"
       THEN \E k \in DOMAIN a : Starts(a[k], "-R") \/ Starts(a[k], "--remove")
       ELSE a[1] \in {"uninstall", "remove", "rm", "purge", "autoremove", "erase"}
CloudDestructive(w) ==
    \/ \E p \in {"delete-", "remove-", "terminate-"} : Starts(w, p)
    \/ w \in {"delete", "destroy", "purge", "remove", "terminate"}
Aws(t) ==
    LET a == Rest(t, AwsArgs)
    IN  Len(a) > 1 /\ ((a[1] = "s3" /\ a[2] \in {"rm", "rb"}) \/ CloudDestructive(a[2]))
RECURSIVE PositionalTokens(_, _)
PositionalTokens(a, takesArg) ==
    IF a = <<>> THEN <<>>
    ELSE IF a[1] = "--" THEN Tail(a)
    ELSE IF a[1] \in takesArg THEN PositionalTokens(From(a, 3), takesArg)
    ELSE IF IsFlag(a[1]) THEN PositionalTokens(Tail(a), takesArg)
    ELSE <<a[1]>> \o PositionalTokens(Tail(a), takesArg)
Cloud(t, global, option) ==
    \E w \in Range(PositionalTokens(Rest(t, global), option)) : CloudDestructive(w)

SQLVerbs == {"DROP", "TRUNCATE", "DELETE", "drop", "truncate", "delete"}   \* ToUpper
IsDestructiveSQL(tok) ==
    LET s == Trim(tok)
        k == Least({i \in DOMAIN s : s[i] \notin {"(", "{"}}, 0)
    IN  k > 0 /\ s[k] \in SQLVerbs /\ (k = Len(s) \/ s[k + 1] \in {Blank, Newline})
InlineSQLStatements(t) ==
    CASE Str(t[1]) = "psql" -> CommandOptionTargets(Tail(t), {"-c", "--command"})
      [] Str(t[1]) = "mysql" -> CommandOptionTargets(Tail(t), {"-e", "--execute"})
      [] Str(t[1]) = "sqlite3" -> From(AfterOptions(Tail(t), {}, FALSE), 2)
      [] OTHER -> <<>>
SQLCommand(t) == \E tok \in Range(InlineSQLStatements(t)) : IsDestructiveSQL(tok)

GitForcePush(t) ==
    \E i \in 2..Len(t) : /\ Str(t[i]) = "push"
                         /\ \E j \in i + 1..Len(t) : Str(t[j]) \in {"--force", "-f"}
\* "alias.x=!..." given with -c or --config.
IsGitShellAliasConfig(tok) ==
    LET w == Str(Trim(tok))  eq == At(w, "=")
    IN  eq > 0 /\ Starts(w, "alias.") /\ Starts(SubSeq(w, eq + 1, Len(w)), "!")
HasGitShellAlias(t) ==
    \E i \in 2..Len(t) :
        LET w == Str(t[i]) IN
        \/ w = "-c" /\ i < Len(t) /\ IsGitShellAliasConfig(t[i + 1])
        \/ \E p \in {"-c", "--config="} : Starts(w, p) /\ IsGitShellAliasConfig(<<After(w, p)>>)
\* The first argument that decides: clean, reset --hard, a pathspec discard.
GitDestructive(t) ==
    LET after(i) == {Str(t[j]) : j \in i + 1..Len(t)}
        Decides(i) == \/ Str(t[i]) = "clean"
                      \/ Str(t[i]) = "reset" /\ "--hard" \in after(i)
                      \/ Str(t[i]) \in {"checkout", "restore"} /\ "--" \in after(i)
        i == Least({k \in 2..Len(t) : Decides(k)}, 0)
    IN  IF GitForcePush(t) THEN RiskCaution
        ELSE IF HasGitShellAlias(t) THEN RiskDangerous
        ELSE IF i = 0 THEN None
        ELSE IF Str(t[i]) = "clean" /\ \E w \in after(i) : w = "--dry-run" \/ (IsFlag(w) /\ "n" \in Chars(w))
             THEN RiskSafe
        ELSE RiskDangerous

\* Subcommands with a verdict of their own.
SubcommandRisk(verb, sub) ==
    CASE verb = "git" /\ sub \in {"status", "log", "show", "diff"} -> RiskSafe
      [] verb = "git" /\ sub = "push" -> RiskDangerous
      [] verb = "go" /\ sub \in {"env", "version", "list", "doc", "help"} -> RiskSafe
      [] OTHER -> None
RECURSIVE FirstSubcommandToken(_, _)
FirstSubcommandToken(a, takesArg) ==
    IF a = <<>> THEN ""
    ELSE IF a[1] = "--" THEN IF Len(a) > 1 THEN a[2] ELSE ""
    ELSE IF IsFlag(a[1]) \/ IsEnvAssignment(a[1])
         THEN FirstSubcommandToken(From(a, IF a[1] \in takesArg THEN 3 ELSE 2), takesArg)
    ELSE a[1]
WritesOutput(a) ==
    \E k \in DOMAIN a : /\ a[k] = "--output" \/ Starts(a[k], "--output=")
                       /\ \A j \in 1..k : a[j] # "--"
SubcommandRule(verb, a, sub) ==
    IF verb = "git" /\ sub \in {"diff", "show", "log"} /\ WritesOutput(a) THEN RiskCaution
    ELSE SubcommandRisk(verb, sub)
SubcommandOf(verb, a) ==
    FirstSubcommandToken(a, IF verb = "git" THEN {"-C", "--git-dir", "--work-tree", "--namespace"} ELSE {})
ApplySubcommandRule(verb, t) == SubcommandRule(verb, Words(Tail(t)), SubcommandOf(verb, Words(Tail(t))))

-----------------------------------------------------------------------------
(* A segment, and the line.                                                *)

HighestRisk_Last(levels, least) == IF levels = <<>> THEN least ELSE Last(levels)
HighestRisk(levels, least) == FoldLeft(Riskier, least, levels)
Unsafe(level) == IF level = RiskSafe THEN None ELSE level

RECURSIVE ClassifyCommand(_), TimeOutputRisk(_)

\* The files `time -o` writes, also behind other wrappers; RiskSafe when none.
TimeWrites(inv) ==
    Riskier(IF \E w \in inv.targets : IsDangerousDevicePath(w) THEN RiskDangerous
            ELSE IF inv.targets # {} THEN RiskCaution ELSE RiskSafe,
            TimeOutputRisk(inv.payload))
TimeBehind(payload) == IF payload = <<>> THEN RiskSafe ELSE TimeOutputRisk(payload)
TimeVerb(verb, rest) ==
    IF verb = "time" THEN TimeWrites(ParseTimeInvocation(rest)) ELSE TimeBehind(WrappedCommandPayload(verb, rest))
TimeAt(t, k) == IF k = 0 THEN RiskSafe ELSE TimeVerb(NormalizedCommandVerb(t[k]), From(t, k + 1))
TimeOutputRisk(t) ==
    TimeAt(t, Least({k \in DOMAIN t : ~IsEnvAssignment(Str(t[k])) /\ NormalizedCommandVerb(t[k]) # ""}, 0))

\* A command handed to another one counts when it is not safe.
Delegated(tokens) == IF tokens = <<>> THEN None ELSE Unsafe(ClassifyCommand(Join(tokens)))
FindExecPayload(t, i) ==
    SubSeq(t, i + 1, Least({j \in i + 1..Len(t) : Str(t[j]) \in {";", "\\;", "+"}}, Len(t) + 1) - 1)
RECURSIVE FindRisk(_, _)
FindExec(t, i, level) == IF level # None THEN level ELSE FindRisk(t, i + 1)
FindAction(t, i, w) ==
    IF w \in {"-exec", "-execdir", "-ok", "-okdir"} /\ i < Len(t) THEN FindExec(t, i, Delegated(FindExecPayload(t, i)))
    ELSE IF w = "-delete" THEN RiskDangerous
    ELSE IF w \in {"-fprint", "-fprint0", "-fprintf", "-fls"} THEN RiskCaution
    ELSE FindRisk(t, i + 1)
FindRisk(t, i) == IF i > Len(t) THEN None ELSE FindAction(t, i, Str(t[i]))
XargsArgs == {"-a", "--arg-file", "-d", "--delimiter", "-E", "-I", "-i", "-L", "-l", "-n", "-P", "-s"}
\* name=value: the value is a command line.
AliasValue(tok, i) ==
    (IF At(tok[i], "=") = Len(tok[i]) THEN <<>> ELSE <<SubSeq(tok[i], At(tok[i], "=") + 1, Len(tok[i]))>>) \o From(tok, i + 1)
AliasDefines(w, eq) == eq > 1 /\ eq < Len(w)
AliasLevel(tok) ==
    IF AliasDefines(Str(tok), At(Str(tok), "="))
    THEN ClassifyCommand(AliasValue(tok, Least({j \in DOMAIN tok : At(tok[j], "=") > 0}, 0))) ELSE RiskSafe
AliasRisk(t) == Unsafe(HighestRisk([k \in DOMAIN Tail(t) |-> AliasLevel(t[k + 1])], RiskSafe))
RECURSIVE HashRisk(_, _)
HashBinding(t, i, level) == IF level > RiskSafe THEN level ELSE HashRisk(t, i + 3)
HashRisk(t, i) ==
    IF i >= Len(t) THEN None
    ELSE IF Str(t[i]) # "-p" THEN HashRisk(t, i + 1)
    ELSE HashBinding(t, i, ClassifyCommand(t[i + 1]))

DangerousWhen(b) == IF b THEN RiskDangerous ELSE None
CheckRmFlags(t) == \E w \in Args(t) : IsFlag(w) /\ Chars(w) \cap {"r", "f"} # {}
CheckDeviceDestination(t) == IsDangerousDevicePath(LastNonFlag(t))
CheckChmodArgs(t) ==
    IF CheckDeviceDestination(t) THEN RiskDangerous
    ELSE IF Args(t) \cap {"777", "0777", "a+rwx"} # {} THEN RiskCaution ELSE None
CheckRsyncDelete(t) ==
    \E w \in Args(t) : w \in {"--delete", "--remove-source-files"} \/ Starts(w, "--delete-")
CheckTeeTargets(t) == \E w \in Args(t) : IsDangerousDevicePath(w)
CheckArchiveTarget(t) == IsDangerousDevicePath(FirstNonFlag(t))
ArgHeuristic(verb, t) ==
    CASE verb = "rm" -> DangerousWhen(CheckRmFlags(t))
      [] verb \in {"cp", "mv", "chown"} -> DangerousWhen(CheckDeviceDestination(t))
      [] verb = "chmod" -> CheckChmodArgs(t)
      [] verb = "curl" -> DangerousWhen(CheckCurl(t))
      [] verb = "wget" -> DangerousWhen(CheckWget(t))
      [] verb = "tar" -> DangerousWhen(IsDangerousDevicePath(TarCreateOutputTarget(t)))
      [] verb = "zip" -> DangerousWhen(CheckArchiveTarget(t))
      [] verb = "git" -> GitDestructive(t)
      [] verb = "find" -> FindRisk(t, 1)
      [] verb = "xargs" -> Delegated(AfterOptions(Tail(t), XargsArgs, FALSE))
      [] verb = "rsync" -> DangerousWhen(CheckRsyncDelete(t))
      [] verb = "alias" -> AliasRisk(t)
      [] verb = "hash" -> HashRisk(t, 2)
      [] verb = "tee" -> DangerousWhen(CheckTeeTargets(t))
      [] verb \in {"docker", "podman"} -> DangerousWhen(ContainerRuntime(t))
      [] verb = "kubectl" -> DangerousWhen(Cluster(t, {"delete", "drain"}))
      [] verb = "helm" -> DangerousWhen(Cluster(t, {"uninstall", "delete"}))
      [] verb \in {"terraform", "tofu"} -> DangerousWhen(Terraform(t))
      [] verb = "pulumi" -> DangerousWhen(Pulumi(t))
      [] verb = "gh" -> DangerousWhen(GitHubCLI(t))
      [] verb \in PackageManagers -> DangerousWhen(PackageManager(t))
      [] verb = "aws" -> DangerousWhen(Aws(t))
      [] verb = "az" -> DangerousWhen(Cloud(t, AzureArgs, AzureOptionArgs))
      [] verb = "gcloud" -> DangerousWhen(Cloud(t, GcloudArgs, GcloudOptionArgs))
      [] verb \in {"psql", "mysql", "sqlite3"} -> DangerousWhen(SQLCommand(t))
      [] OTHER -> None

\* A subcommand's verdict stands but for a force push; else the heuristic's.
Verdict(verb, t, sub, own) ==
    IF sub # None THEN IF GitForcePush(t) THEN Riskier(sub, RiskCaution) ELSE sub
    ELSE IF own # None THEN own ELSE RiskTable(verb)
ApplyArgHeuristics(verb, t) == Verdict(verb, t, ApplySubcommandRule(verb, t), ArgHeuristic(verb, t))

ClassifyInvocation(seg, time, cmd) ==
    IF time = RiskDangerous THEN RiskDangerous
    ELSE IF cmd.verb = "" THEN RiskCaution
    ELSE IF DangerousCommandInvocation(seg, cmd.verb, cmd.tokens) THEN RiskDangerous
    ELSE IF RiskTable(cmd.verb) = None THEN RiskCaution
    ELSE IF DangerousOutputRedirection(seg) THEN RiskDangerous
    ELSE Riskier(IF HasOutputRedirection(seg) \/ time = RiskCaution THEN RiskCaution ELSE RiskSafe,
                 ApplyArgHeuristics(cmd.verb, cmd.tokens))
ClassifyTokens(seg, t) ==
    IF t = <<>> THEN RiskCaution
    ELSE IF \A k \in DOMAIN t : Str(t[k]) \in {"fi", "done", "esac"} THEN RiskSafe
    ELSE ClassifyInvocation(seg, TimeOutputRisk(t), EffectiveCommand(t))
ClassifySegment(seg) == ClassifyTokens(seg, ShellFields(seg))

\* The segments of a line; `none` when it has none.
ClassifySegments(segs, none) ==
    HighestRisk([k \in DOMAIN segs |-> ClassifySegment(Trim(segs[k]))], IF segs = <<>> THEN none ELSE RiskSafe)
ClassifyShellSegments(s, none) ==
    ClassifySegments(SelectSeq(SplitOnOperators(s), LAMBDA p : Trim(p) # <<>>), none)
\* The bodies of substitutions or functions, with the rest of the line.
ClassifyBodies(bodies, least) == HighestRisk([k \in DOMAIN bodies |-> ClassifyCommand(bodies[k])], least)
ClassifyAround(s, bodies, none) ==
    ClassifyBodies(bodies, ClassifyShellSegments(IF bodies = <<>> THEN s ELSE StripSubshells(s),
                                                 IF bodies = <<>> THEN none ELSE RiskSafe))
ClassifyCommandExpansion(s, none) ==
    ClassifyAround(s, ExtractSubshellContents(s) \o ExtractProcessSubstitutionContents(s), none)
OuterOf(s, bodies) == IF bodies = <<>> THEN s ELSE Trim(StripFunctionBodies(s))
ClassifyOuter(outer, none) == IF outer = <<>> THEN none ELSE ClassifyCommandExpansion(outer, none)
ClassifyEmbeddedShellBodies(s, bodies) ==
    ClassifyBodies(bodies, ClassifyOuter(OuterOf(s, bodies), IF bodies = <<>> THEN RiskCaution ELSE RiskSafe))

\* The marker behind << and what follows it on the line.
HeredocMarker(raw, quote, end) ==
    [marker |-> SubSeq(raw, quote + 1, end - 1), suffix |-> From(raw, end + quote)]
HeredocParts(raw) ==
    IF raw = <<>> THEN [marker |-> <<>>, suffix |-> <<>>]
    ELSE IF raw[1] \in {"'", "\""}
         THEN HeredocMarker(raw, 1, Least({i \in 2..Len(raw) : raw[i] = raw[1]}, Len(raw) + 1))
    ELSE HeredocMarker(raw, 0, Least({i \in DOMAIN raw : raw[i] \in {Blank, "|", ";", Newline, "&"}}, Len(raw) + 1))
WithoutDash(s) ==
    IF s = <<>> \/ ~IsFlag(s[1]) THEN s
    ELSE Trim((IF s[1] = "-" THEN <<>> ELSE <<After(s[1], "-")>>) \o Tail(s))
HeredocHeaderParts(after) == HeredocParts(WithoutDash(Trim(after)))

\* A shell that reads the document runs its lines, which are classified each;
\* an interpreter that reads it runs what cannot be judged.
HeredocReader(line, verb, args) ==
    IF verb \in ShellInterpreters /\ \A w \in args : IsFlag(w) /\ w \notin {"-c", "--command"} THEN RiskSafe
    ELSE IF InlineCodeFlags(verb) # {} /\ \A w \in args : IsFlag(w) THEN RiskDangerous
    ELSE ClassifyCommand(line)
HeredocCommand(line, cmd) == HeredocReader(line, cmd.verb, Args(cmd.tokens))
HeredocHeaderRisk(line) == IF line = <<>> THEN RiskSafe ELSE HeredocCommand(line, EffectiveCommand(ShellFields(line)))
LineRisk(line) == IF line = <<>> THEN RiskSafe ELSE ClassifyCommand(line)
Raise(a, level) == [a EXCEPT !.level = Riskier(@, level)]
HeredocOpens(a, line, at, header) ==
    [Raise(Raise(a, HeredocHeaderRisk(Trim(SubSeq(line, 1, at - 1)))), LineRisk(Trim(header.suffix)))
        EXCEPT !.body = TRUE, !.marker = header.marker]
HeredocLine(a, line, at) ==
    IF a.body /\ line = a.marker THEN [a EXCEPT !.body = FALSE]
    ELSE IF a.body \/ at = 0 THEN Raise(a, LineRisk(line))
    ELSE HeredocOpens(a, line, at, HeredocHeaderParts(From(line, at + 2)))
HeredocAt(line) == Least({i \in 1..Len(line) - 1 : line[i] = "<" /\ line[i + 1] = "<"}, 0)
ClassifyHeredoc(s) ==
    FoldLeft(LAMBDA a, line : HeredocLine(a, Trim(line), HeredocAt(Trim(line))),
             [level |-> RiskCaution, body |-> FALSE, marker |-> <<>>],
             SplitAt(s, {i \in DOMAIN s : s[i] = Newline})).level

ClassifyStripped(s) ==
    IF Trim(s) = <<>> THEN RiskCaution ELSE ClassifyEmbeddedShellBodies(s, ExtractFunctionBodyContents(s))
ClassifyLine(line) ==
    IF line = <<>> THEN RiskCaution
    ELSE IF HeredocAt(line) > 0 THEN ClassifyHeredoc(line)
    ELSE ClassifyStripped(StripShellComments(line))
ClassifyCommand(cmdline) == ClassifyLine(Trim(cmdline))
=============================================================================
