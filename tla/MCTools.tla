------------------------------- MODULE MCTools -------------------------------
(***************************************************************************)
(* What single tool calls do with their inputs, for TLC: pages, command    *)
(* lines, edits, the conditions of plans and the sessions with a language  *)
(* server.  A behaviour takes one of them; the others are at rest.         *)
(***************************************************************************)
EXTENDS Paging, RiskGate, Edits, PlanConditions, LspSession

VARIABLE tool  \* the one that takes steps

UpToLen(n, chars) == UNION {[1 .. k -> chars] : k \in 0 .. n}

-----------------------------------------------------------------------------
(* Pages: files of up to five lines, documents of up to six bytes in which *)
(* a character may take two of them ("L", "C").                            *)

MCPagFiles == UpToLen(5, {0, 1, 3, 6}) \ {<<>>}
MCPagTexts == {t \in UpToLen(6, {"a", "nl", "L", "C"}) :
    /\ \A i \in DOMAIN t : t[i] = "L" <=> (i < Len(t) /\ t[i + 1] = "C")
    /\ \A i \in DOMAIN t : t[i] = "C" => i > 1 /\ t[i - 1] = "L"}
MCPagCuts == {<<1, 1>>, <<2, 2>>, <<3, 4>>}
MCPagLimits == [bytes : 0 .. 3, lines : 0 .. 2]
MCPagBatches == UpToLen(4, 1 .. 3) \ {<<>>}
PagRest ==
    /\ pagAsk = [kind |-> "end", of |-> [kind |-> "multi", batch |-> <<>>, from |-> 1]]
    /\ pagGot = <<>>

-----------------------------------------------------------------------------
(* Command lines: a safe and a dangerous command in every pair of contexts. *)

MCGateCommands == {<<"grep", " ", "x">>, <<"rm", " ", "-r", " ", "x">>}
MCGateContexts == {
    "and", "or", "then", "line", "pipe", "job", "not", "subst", "quoted", "backtick", "process",
    "assigned", "function", "subshell", "group", "if", "while", "remark", "bash", "env", "nohup",
    "timeout", "time", "command", "xargs", "find", "to"}
GateRest == gateLine = <<>> /\ gateHolds = None /\ gateBuilt = <<>> /\ gateAnswer = Unasked

-----------------------------------------------------------------------------
(* Edits: pairs of edits of one file, triples over two; all kinds of line  *)
(* ends, blanks and quotes; patches of up to two hunks.                    *)

MCTexts == [1 .. 3 -> {"a", "b"}] \cup {
    <<>>, <<"a">>, <<"b", "a">>, <<"q", "a">>, <<"a", "sp", "lf", "b">>, <<"a", "crlf", "b", "crlf">>,
    <<"b", "lf", "sp", "a", "lf">>, <<"q", "sp", "a", "q">>, <<"a", "sp", "sp">>, <<"sp", "cr", "a">>,
    <<"sp", "a", "lf", "b">>}
MCOld == {<<"a">>, <<"b">>, <<"a", "b">>, <<"a", "lf">>, <<"'">>, <<"sp">>}
MCNew == {<<>>, <<"b">>, <<"a", "b">>, <<"sp", "a", "lf", "b">>}
MCEdit == [file : {"f"}, old : MCOld, new : MCNew, fuzzyIndent : {FALSE}]
MCEditOfTwo == [file : {"f", "g"}, old : {<<"a">>, <<"b">>}, new : {<<"b">>, <<"c">>}, fuzzyIndent : {FALSE}]
\* A match that overlaps itself; the only line end of a file going.
MCEditOfLines == [file : {"f"}, old : {<<"c">>, <<"a", "b", "a">>, <<"a", "lf">>, <<"b">>},
                  new : {<<>>, <<"a", "b">>, <<"sp", "a", "lf", "b">>}, fuzzyIndent : {FALSE}]
MCMulti ==
    [kind : {"multi"}, files : [{"f"} -> MCTexts], edits : MCEdit \X MCEdit] \cup
    [kind : {"multi"}, files : {[f |-> <<"a", "b">>, g |-> <<"b", "a">>]}, edits : MCEditOfTwo \X MCEditOfTwo \X MCEditOfTwo] \cup
    [kind : {"multi"}, files : [{"f"} -> MCTexts],
     edits : [1 .. 1 -> [file : {"f"}, old : MCOld, new : MCNew, fuzzyIndent : {TRUE}]]] \cup
    [kind : {"multi"}, files : [{"f"} -> {<<"c", "a", "b", "a">>, <<"a", "crlf", "b">>, <<"a", "crlf", "b", "crlf">>}],
     edits : MCEditOfLines \X MCEditOfLines]
MCReplace == [kind : {"replace"}, text : MCTexts, pattern : MCOld, by : MCNew]
MCPatched == {
    <<"a", "lf", "b", "lf">>, <<"a", "lf", "b">>, <<"a", "crlf", "b", "sp", "crlf", "a", "crlf">>, <<>>,
    <<"a", "lf", "sp", "b", "sp", "lf", "a">>, <<"q", "lf", "b", "lf">>, <<"a", "lf", "lf">>}
LineA == <<"a">>
LineB == <<"b">>
MCChunk == {c \in [context : {<<>>, <<LineA>>},
                   old : {<<>>, <<LineA>>, <<LineB>>, <<LineA, LineB>>, <<LineA, <<>>>>},
                   new : {<<>>, <<LineA, LineA, <<>>>>}, eof : BOOLEAN] : c.old # <<>> \/ c.new # <<>>}
MCQuoteChunk == [context |-> <<>>, old |-> <<<<"'">>>>, new |-> <<LineB>>, eof |-> FALSE]
MCPatch == [kind : {"patch"}, text : MCPatched,
            chunks : [1 .. 1 -> MCChunk] \cup (MCChunk \X MCChunk) \cup {<<MCQuoteChunk>>}]
MCEditCalls == MCMulti \cup MCReplace \cup MCPatch
EditRest ==
    /\ editCall = [kind |-> "multi", files |-> <<>>, edits |-> <<>>] /\ editPc = "refused"
    /\ editText = <<>> /\ editTodo = <<>> /\ editPlaces = <<>> /\ editPairs = {} /\ editErrors = {}

-----------------------------------------------------------------------------
(* Conditions: results whose streams, numbers, captures and JSON are there, *)
(* or not, or not numbers; conditions written short and in full.           *)

MCPatterns == UpToLen(3, {"-", "/", "bs"})
Output(chars, number, found, json) == [chars |-> chars, number |-> number, found |-> found, json |-> json]
NoOutput == Output(<<>>, NoValue, NoValue, <<>>)
MCOutputs == {
    Output(<<"-">>, Num(2), Num(3), [p |-> Num(2)]),
    Output(<<"bs", "/">>, NaN, Num(-2), [p |-> Text(1), q |-> [type |-> "null", n |-> 0]]),
    Output(<<"/">>, NoValue, NoValue, [p |-> Num(3)])}
MCCondResults == [exit : {Num(0), Num(2)}, shell : BOOLEAN, stdout : MCOutputs \cup {NoOutput},
                  stderr : {NoOutput, Output(<<"/">>, NoValue, NoValue, <<>>)}, result : MCOutputs]
MCCondForms == {[plan |-> "object", steps |-> "none", root |-> TRUE, nodes |-> "list"],
                [plan |-> "encoded", steps |-> "empty", root |-> FALSE, nodes |-> "none"]}
Short(form, op, value, stream, regex, path) ==
    [form |-> form, op |-> op, value |-> value, stream |-> stream, regex |-> regex, path |-> path]
MCShort ==
    {Short("always", "", NoValue, "", <<>>, "")} \cup
    {Short("exit", o, Num(2), "", <<>>, "") : o \in {"eq", "ne", "lt", "lte", "gt", "gte", "is"}} \cup
    {Short("stream", o, NoValue, s, p, "") : o \in {"=~", "!~"}, s \in {"stdout", "stderr", "stdin"}, p \in MCPatterns} \cup
    {Short("file", o, NoValue, "", <<>>, "p") : o \in {"exists", "missing", "lost"}}
InFull(c) == [form |-> "structured", op |-> "", value |-> NoValue, stream |-> "", regex |-> <<>>, path |-> "", cond |-> c]
MCInFull ==
    {InFull([Always EXCEPT !.kind = k, !.op = o, !.value = v, !.path = p, !.extract = e, !.negate = n]) :
        k \in {"exitCode", "jsonPath", "numeric"}, o \in {"eq", "ne", "lt", "lte", "gt", "gte", "is"},
        v \in {NoValue, Num(2), Num(3), Text(1)}, p \in {"", "p", "q"}, e \in {"", "group", "nogroup"}, n \in BOOLEAN} \cup
    {InFull([Always EXCEPT !.kind = k, !.path = "p"]) : k \in {"always", "fileExists", "match", "other"}}
MCCondGiven == MCShort \cup MCInFull
CondRest ==
    /\ condGiven = Short("always", "", NoValue, "", <<>>, "") /\ condForm \in MCCondForms /\ condForm.plan = "object"
    /\ condPc = "decided" /\ cond = Always /\ condMatched = TRUE
    /\ condLast = CHOOSE r \in MCCondResults : TRUE
    /\ condFile = "exists"

-----------------------------------------------------------------------------
(* Language servers: queries of every kind, single and in batches of two,  *)
(* and those that are refused or need no server.                           *)

Asked(action, given) ==
    [action |-> action, given |-> {"action", "path"} \cup given, file |-> "f", go |-> FALSE,
     installed |-> TRUE, symbolOnLine |-> TRUE]
Definition == Asked("definition", {"line", "character"})
Diagnostics == Asked("diagnostics", {})
MCQueries == {
    Diagnostics, Asked("hover", {"symbol"}), Asked("bogus", {"line", "character"}),
    [Asked("definition", {"line", "symbol"}) EXCEPT !.symbolOnLine = FALSE],
    [Definition EXCEPT !.installed = FALSE],
    [Asked("symbols", {}) EXCEPT !.go = TRUE, !.installed = FALSE]}
MCLspCalls ==
    [batch : {FALSE}, queries : [1 .. 1 -> MCQueries]] \cup
    [batch : {TRUE}, queries : {<<Definition, Diagnostics>>, <<[Diagnostics EXCEPT !.go = TRUE], Diagnostics>>}]
LspRest ==
    /\ lspCall = [batch |-> FALSE, queries |-> <<>>] /\ lspCaller = "returned" /\ lspReason = "none"
    /\ lspItems = <<>> /\ lspWorker = "none" /\ lspJobs = <<>> /\ lspLocal = <<>>
    /\ lspAwait = NoRequest /\ lspNextId = 1 /\ lspPushed = {} /\ lspStop = "no"
    /\ lspServer = "none" /\ lspHeld = FALSE /\ lspInbox = {} /\ lspOut = <<>> /\ lspSent = 0

-----------------------------------------------------------------------------
toolsVars == <<tool, pagVars, gateVars, editVars, condVars, lspVars>>
Init ==
    /\ tool \in {"pages", "gate", "edits", "conditions", "lsp"}
    /\ IF tool = "pages" THEN PagInit ELSE PagRest
    /\ IF tool = "gate" THEN GateInit ELSE GateRest
    /\ IF tool = "edits" THEN EditInit ELSE EditRest
    /\ IF tool = "conditions" THEN CondInit ELSE CondRest
    /\ IF tool = "lsp" THEN LspInit ELSE LspRest
Next ==
    /\ UNCHANGED tool
    /\ \/ tool = "pages" /\ PagNext /\ UNCHANGED <<gateVars, editVars, condVars, lspVars>>
       \/ tool = "gate" /\ GateNext /\ UNCHANGED <<pagVars, editVars, condVars, lspVars>>
       \/ tool = "edits" /\ EditNext /\ UNCHANGED <<pagVars, gateVars, condVars, lspVars>>
       \/ tool = "conditions" /\ CondNext /\ UNCHANGED <<pagVars, gateVars, editVars, lspVars>>
       \/ tool = "lsp" /\ LspNext /\ UNCHANGED <<pagVars, gateVars, editVars, condVars>>
\* Only the sessions with a server have to come to an end.
Spec == Init /\ [][Next]_toolsVars /\ LspFairness
=============================================================================
