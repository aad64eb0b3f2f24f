--------------------------- MODULE PlanConditions ---------------------------
(***************************************************************************)
(* The conditions on the edges of a plan: how they are written, checked    *)
(* and evaluated (plan_coerce.go, plan_condition_regex.go, plan_engine.go). *)
(* Module PlanEngine walks the edges and lets a condition turn out either  *)
(* way.                                                                    *)
(*                                                                         *)
(* Numbers are counted in halves, so 3 is 1.5.  A text is given by what    *)
(* the code asks of it: its characters, the number it reads as, the number *)
(* a capture group finds in it and the JSON leaves it holds by their path. *)
(* A pattern is a sequence of "-", "/" and the backslash "bs".             *)
(***************************************************************************)
EXTENDS Integers, Sequences, FiniteSets

CONSTANTS
    CondGiven,     \* the conditions as written: shorthand or structured
    CondResults,   \* results of the last operation of a node
    CondForms      \* the forms in which a plan is submitted

VARIABLES
    condGiven,     \* the condition as written
    condForm,      \* the plan around it
    condPc,        \* how far it has come
    cond,          \* the condition
    condLast,      \* the result it was evaluated on
    condFile,      \* what checkPath and the stat of its path say
    condMatched    \* how it turned out

condVars == <<condGiven, condForm, condPc, cond, condLast, condFile, condMatched>>

NoValue == [type |-> "none", n |-> 0]
Num(n) == [type |-> "number", n |-> n]
Text(n) == [type |-> "text", n |-> n]
NaN == [type |-> "nan", n |-> 0]
Always == [kind |-> "always", op |-> "", value |-> NoValue, path |-> "", extract |-> "",
           regex |-> <<>>, stream |-> "", negate |-> FALSE]

Value == [type : {"none", "number", "text", "nan", "null", "boolean", "list", "object"}, n : Int]
Pattern == Seq({"-", "/", "bs"})

\* A shorthand compares the exit code with a whole number (exitRe), and the
\* exit code of a result is a number.
ASSUME CondAssumption ==
    /\ \A g \in CondGiven :
          \/ /\ g.form = "structured"
             /\ DOMAIN g.cond = DOMAIN Always /\ g.cond.value \in Value /\ g.cond.negate \in BOOLEAN
          \/ /\ g.form \in {"always", "exit", "stream", "file"}
             /\ g.value \in Value /\ g.regex \in Pattern
             /\ g.form = "exit" => g.value.type = "number" /\ g.value.n % 2 = 0
    /\ \A r \in CondResults :
          /\ r.exit \in Value /\ r.exit.type = "number"
          /\ r.stdout.chars \in Pattern /\ r.stderr.chars \in Pattern
          /\ \A out \in {r.stdout, r.result} :
                /\ out.number \in Value /\ out.found \in Value
                /\ \A leaf \in DOMAIN out.json : out.json[leaf] \in Value

-----------------------------------------------------------------------------
(* Patterns.                                                               *)

\* The backslashes in a row of which the character at i is the last; when their
\* number is odd, that one makes the next character literal.
Backslashes(p, i) == {k \in 1 .. i : \A j \in k .. i : p[j] = "bs"}
Escapes(p, i) == Cardinality(Backslashes(p, i)) % 2 = 1

\* What the first i characters of p leave without those at the places D.
Left(p, D) ==
    LET left[i \in 0 .. Len(p)] ==
            IF i = 0 THEN <<>> ELSE IF i \in D THEN left[i - 1] ELSE Append(left[i - 1], p[i])
    IN  left

\* unescapeConditionDelimiter: of an odd run of backslashes before the
\* delimiter one goes.
UnescapeConditionDelimiter(p) ==
    Left(p, {i \in DOMAIN p : Escapes(p, i) /\ i < Len(p) /\ p[i + 1] = "/"})[Len(p)]

\* What a pattern matches: itself, but for the backslashes that make the next
\* character literal; one at the end does not compile.
Compiles(p) == p = <<>> \/ ~Escapes(p, Len(p))
Literal(p) == Left(p, {i \in DOMAIN p : Escapes(p, i)})[Len(p)]
MatchesPattern(p, text) ==
    LET w == Literal(p)
    IN  \E i \in 0 .. Len(text) - Len(w) : SubSeq(text, i + 1, i + Len(w)) = w

-----------------------------------------------------------------------------
(* Coercion: coercePlan, coerceCondition.                                  *)

\* normalizePlanInput, expandPlanStepsShorthand, decodeEncodedPlanNodes: the
\* forms that are no plan.
FormRefused(form) ==
    \/ form.plan \notin {"object", "encoded"}
    \/ form.steps # "none" /\ (form.root \/ form.nodes # "none")
    \/ form.steps \in {"empty", "not a list"}
    \/ form.nodes = "not an array"

\* The strings exitRe, matchRe and fileExistsRe recognise.
CoerceCondition(given) ==
    CASE given.form = "always" -> Always
      [] given.form = "exit"   -> [Always EXCEPT !.kind = "exitCode", !.op = given.op, !.value = given.value]
      [] given.form = "stream" -> [Always EXCEPT !.kind = "match", !.stream = given.stream,
                                   !.regex = UnescapeConditionDelimiter(given.regex), !.negate = given.op = "!~"]
      [] given.form = "file"   -> [Always EXCEPT !.kind = "fileExists", !.path = given.path,
                                   !.negate = given.op = "missing"]
Recognised(given) ==
    \/ given.form = "always"
    \/ given.form = "exit" /\ given.op \in {"eq", "ne", "lt", "lte", "gt", "gte"}
    \/ given.form = "stream" /\ given.stream \in {"stdout", "stderr"} /\ given.op \in {"=~", "!~"}
    \/ given.form = "file" /\ given.op \in {"exists", "missing"} /\ given.path # ""

-----------------------------------------------------------------------------
(* Validation: validateCondition.                                          *)

ValidPlanOperator(op) == op \in {"eq", "ne", "lt", "lte", "gt", "gte"}
NumericPlanValue(v, integer) == v.type = "number" /\ (integer => v.n % 2 = 0)
Unused(c, fields) == \A f \in fields : c[f] = Always[f]
Comparison == {"op", "value"}
Places == {"path", "extract", "regex", "stream"}

JsonOperand_Any(c) == c.value # NoValue  \* mutant: an order on texts is not refused
JsonOperand(c) ==
    /\ c.value # NoValue
    /\ c.op \notin {"eq", "ne"} => NumericPlanValue(c.value, FALSE)
ValidCondition(c) ==
    CASE c.kind = "always"     -> Unused(c, Comparison \cup Places)
      [] c.kind = "exitCode"   -> ValidPlanOperator(c.op) /\ NumericPlanValue(c.value, TRUE) /\ Unused(c, Places)
      [] c.kind = "fileExists" -> c.path # "" /\ Unused(c, (Comparison \cup Places) \ {"path"})
      [] c.kind = "numeric"    -> /\ ValidPlanOperator(c.op) /\ NumericPlanValue(c.value, FALSE)
                                  /\ c.extract \in {"", "group"} /\ Unused(c, Places \ {"extract"})
      [] c.kind = "jsonPath"   -> /\ c.path # "" /\ ValidPlanOperator(c.op) /\ JsonOperand(c)
                                  /\ Unused(c, Places \ {"path"})
      [] c.kind = "match"      -> /\ c.stream \in {"stdout", "stderr"} /\ Compiles(c.regex)
                                  /\ Unused(c, (Comparison \cup Places) \ {"regex", "stream"})
      [] OTHER                 -> FALSE

-----------------------------------------------------------------------------
(* Evaluation: evaluateCondition.                                          *)

CompareNumeric(a, b, op) ==
    IF NaN \in {a, b} THEN op = "ne"
    ELSE CASE op = "eq" -> a.n = b.n [] op = "ne" -> a.n # b.n
           [] op = "lt" -> a.n < b.n [] op = "lte" -> a.n <= b.n
           [] op = "gt" -> a.n > b.n [] op = "gte" -> a.n >= b.n
NegateCondition(matched, negate) == matched # negate

\* What a numeric or JSON condition reads; a match reads both streams, the one
\* it names or not.
Raw(last) == IF last.stdout.chars # <<>> THEN last.stdout ELSE last.result
HasStreams(last) == last.shell \/ last.stdout.chars # <<>> \/ last.stderr.chars # <<>>
Stream(last) == IF HasStreams(last) THEN last.stdout.chars \o last.stderr.chars ELSE last.result.chars
Operand(last, c) == IF c.extract = "" THEN Raw(last).number ELSE Raw(last).found
Leaf(last, c) == IF c.path \in DOMAIN Raw(last).json THEN Raw(last).json[c.path] ELSE NoValue
JsonValueEqual(a, b) == a = b

\* Data that cannot be read ends the evaluation before the negation.
Unreadable(last, c) ==
    \/ c.kind = "numeric" /\ Operand(last, c) = NoValue
    \/ /\ c.kind = "jsonPath"
       /\ \/ Leaf(last, c) = NoValue
          \/ ~(Leaf(last, c).type = "number" /\ c.value.type = "number") /\ c.op \notin {"eq", "ne"}
Holds(last, file, c) ==
    CASE c.kind = "always"     -> TRUE
      [] c.kind = "exitCode"   -> CompareNumeric(last.exit, c.value, c.op)
      [] c.kind = "fileExists" -> file = "exists"
      [] c.kind = "match"      -> MatchesPattern(c.regex, Stream(last))
      [] c.kind = "numeric"    -> CompareNumeric(Operand(last, c), c.value, c.op)
      [] c.kind = "jsonPath"   ->
           IF Leaf(last, c).type = "number" /\ c.value.type = "number"
           THEN CompareNumeric(Leaf(last, c), c.value, c.op)
           ELSE NegateCondition(JsonValueEqual(Leaf(last, c), c.value), c.op = "ne")
EvaluationFails(file, c) ==
    \/ c.kind \notin {"always", "exitCode", "fileExists", "match", "numeric", "jsonPath"}
    \/ c.kind = "exitCode" /\ ~NumericPlanValue(c.value, TRUE)
    \/ c.kind = "numeric" /\ ~NumericPlanValue(c.value, FALSE)
    \/ c.kind = "fileExists" /\ file = "denied"
    \/ c.kind = "match" /\ ~Compiles(c.regex)
Evaluated(last, file, c) == ~Unreadable(last, c) /\ NegateCondition(Holds(last, file, c), c.negate)

-----------------------------------------------------------------------------
CondInit ==
    /\ condGiven \in CondGiven /\ condForm \in CondForms
    /\ condPc = "given" /\ cond = Always
    /\ condLast = CHOOSE r \in CondResults : TRUE
    /\ condFile = "exists" /\ condMatched = FALSE

CoercePlan ==
    /\ condPc = "given"
    /\ IF FormRefused(condForm) \/ (condGiven.form # "structured" /\ ~Recognised(condGiven))
       THEN condPc' = "refused" /\ UNCHANGED cond
       ELSE /\ condPc' = "coerced"
            /\ cond' = IF condGiven.form = "structured" THEN condGiven.cond ELSE CoerceCondition(condGiven)
    /\ UNCHANGED <<condGiven, condForm, condLast, condFile, condMatched>>
ValidateCondition ==
    /\ condPc = "coerced"
    /\ condPc' = IF ValidCondition(cond) THEN "valid" ELSE "refused"
    /\ UNCHANGED <<condGiven, condForm, cond, condLast, condFile, condMatched>>
EvaluateCondition ==
    /\ condPc = "valid"
    /\ condLast' \in CondResults
    /\ condFile' \in {"exists", "missing", "denied"}
    /\ IF EvaluationFails(condFile', cond) THEN condPc' = "error" /\ UNCHANGED condMatched
       ELSE condPc' = "decided" /\ condMatched' = Evaluated(condLast', condFile', cond)
    /\ UNCHANGED <<condGiven, condForm, cond>>
CondNext == CoercePlan \/ ValidateCondition \/ EvaluateCondition
CondSpec == CondInit /\ [][CondNext]_condVars

-----------------------------------------------------------------------------
(* Properties.                                                             *)

\* The same condition with its negation the other way round.
Negated(c) == [c EXCEPT !.negate = ~@]
Opposite == [eq |-> "ne", ne |-> "eq", lt |-> "gte", gte |-> "lt", gt |-> "lte", lte |-> "gt"]
\* The stream a condition names, and whether there is nothing in the other one.
Named(last, stream) ==
    IF ~HasStreams(last) THEN last.result.chars
    ELSE IF stream = "stdout" THEN last.stdout.chars ELSE last.stderr.chars
Alone(last, stream) == (IF stream = "stdout" THEN last.stderr.chars ELSE last.stdout.chars) = <<>>
\* What a shorthand says, read off its text.
Says(given, last, file) ==
    CASE given.form = "always" -> TRUE
      [] given.form = "exit"   -> CompareNumeric(last.exit, given.value, given.op)
      [] given.form = "stream" -> MatchesPattern(given.regex, Named(last, given.stream)) = (given.op = "=~")
      [] given.form = "file"   -> (file = "exists") = (given.op = "exists")
IsNaN(last, c) == c.kind = "numeric" /\ Operand(last, c) = NaN

\* An edge whose condition was accepted before the walk can be decided at every
\* result: a condition written short is accepted and means what it says (of a
\* stream, if there is nothing in the other one, which is searched too), only a
\* path the sandbox refuses ends the evaluation in an error ("malformed
\* conditions are rejected before the walk starts", docs/tool-reference.md), and
\* of a condition and its negation, or of a comparison and its opposite, exactly
\* one holds unless the data to compare cannot be read; then the one that is not
\* negated does not hold, and the data is none that could be compared
\* (validateCondition, evaluateCondition, coerceCondition).
ConditionsDecide ==
    /\ condPc = "refused" /\ Recognised(condGiven) => FormRefused(condForm) \/ ~Compiles(condGiven.regex)
    /\ condPc = "error" => cond.kind = "fileExists" /\ condFile = "denied"
    /\ condPc = "decided" =>
         /\ condGiven.form # "structured" /\ (condGiven.form = "stream" => Alone(condLast, condGiven.stream)) =>
              condMatched = Says(condGiven, condLast, condFile)
         /\ ~Unreadable(condLast, cond) => condMatched # Evaluated(condLast, condFile, Negated(cond))
         /\ Unreadable(condLast, cond) =>
              /\ ~cond.negate => ~condMatched
              /\ cond.kind = "numeric" => Operand(condLast, cond).type # "number"
              /\ cond.kind = "jsonPath" => Leaf(condLast, cond).type # "number"
         /\ ValidPlanOperator(cond.op) /\ ~Unreadable(condLast, cond) /\ ~IsNaN(condLast, cond) =>
              condMatched # Evaluated(condLast, condFile, [cond EXCEPT !.op = Opposite[@]])
=============================================================================
