---------------------------- MODULE ShellLexer ----------------------------
(***************************************************************************)
(* How internal/jinn/command_risk_parse.go reads a command line.  A line   *)
(* is a sequence of symbols: each character that means something to the    *)
(* shell is a symbol of its own, any other run of characters is one word.  *)
(* Tokens are sequences of symbols too (so a token can be read again as a  *)
(* command line); Str is the string a token stands for.                    *)
(***************************************************************************)
EXTENDS Integers, Sequences, SequencesExt, FiniteSets

Blank == " "
Newline == "nl"
Backtick == "bt"

\* Strings: prefixes, what follows them, and the characters of a word.
Starts(w, p) == Len(w) >= Len(p) /\ SubSeq(w, 1, Len(p)) = p
After(w, p) == SubSeq(w, Len(p) + 1, Len(w))
Chars(w) == {SubSeq(w, i, i) : i \in 1..Len(w)}
IsWordOf(w, cs) == w # "" /\ Chars(w) \subseteq cs

Digits == {"0", "1", "2", "3", "4", "5", "6", "7", "8", "9"}
Str(tok) == FoldLeft(LAMBDA a, b : a \o b, "", tok)
Words(tokens) == [k \in DOMAIN tokens |-> Str(tokens[k])]
From(s, i) == SubSeq(s, i, Len(s))
Concat(parts) == FoldLeft(LAMBDA a, b : a \o b, <<>>, parts)
Least(S, none) == IF S = {} THEN none ELSE CHOOSE i \in S : \A j \in S : i <= j
Most(S, none) == IF S = {} THEN none ELSE CHOOSE i \in S : \A j \in S : i >= j
Around(s, S) == SubSeq(s, Least(S, 1), Most(S, 0))
Trim(s) == Around(s, {i \in DOMAIN s : s[i] \notin {Blank, Newline}})

-----------------------------------------------------------------------------
(* Quoting.                                                                *)

NoQuote == [single |-> FALSE, double |-> FALSE, escaped |-> FALSE]

NextQuote(q, ch) ==
    IF q.escaped THEN [q EXCEPT !.escaped = FALSE]
    ELSE IF ch = "\\" /\ ~q.single THEN [q EXCEPT !.escaped = TRUE]
    ELSE IF ch = "'" /\ ~q.double THEN [q EXCEPT !.single = ~@]
    ELSE IF ch = "\"" /\ ~q.single THEN [q EXCEPT !.double = ~@]
    ELSE q

\* writeLiteral: the symbol is quoted, escaped, or itself a quoting symbol.
IsLiteral(q, ch) ==
    q.escaped \/ q.single \/ q.double \/ ch \in {"\\", "'", "\""}

\* The state before each symbol of s, from an unquoted start.
QuoteBefore(s) == [i \in 1..Len(s) + 1 |-> FoldLeft(NextQuote, NoQuote, SubSeq(s, 1, i - 1))]
LiteralsUnder(q, s) == {i \in DOMAIN s : IsLiteral(q[i], s[i])}
Literals(s) == LiteralsUnder(QuoteBefore(s), s)

\* commandExpansionQuoteState: double quotes do not hide an expansion.
HidesExpansion(q, ch) ==
    q.escaped \/ q.single \/ ch \in {"\\", "\""} \/ (ch = "'" /\ ~q.double)

-----------------------------------------------------------------------------
(* Fields, with what tokenizeOutputComparisonTokens remembers of each:     *)
(* the half-open range it occupies and whether it was quoted or escaped.   *)

OpenToken(a, i) ==
    IF a.from > 0 THEN a
    ELSE [a EXCEPT !.from = i, !.text = <<>>, !.quoted = FALSE, !.escaped = FALSE]
Flush(a, i) ==
    IF a.from = 0 THEN a
    ELSE [a EXCEPT !.from = 0, !.out = Append(@, [text |-> a.text, start |-> a.from, end |-> i,
                                                  bare |-> ~a.quoted /\ ~a.escaped])]
TakeRune(a, q, ch) ==
    IF q.escaped THEN [a EXCEPT !.text = Append(@, ch), !.escaped = TRUE]
    ELSE IF ch = "\\" /\ ~q.single THEN [a EXCEPT !.escaped = TRUE]
    ELSE IF (ch = "'" /\ ~q.double) \/ (ch = "\"" /\ ~q.single) THEN [a EXCEPT !.quoted = TRUE]
    ELSE [a EXCEPT !.text = Append(@, ch)]
ReadRune(a, i, ch) ==
    IF ch = Blank /\ a.q = NoQuote THEN Flush(a, i)
    ELSE TakeRune([OpenToken(a, i) EXCEPT !.q = NextQuote(@, ch)], a.q, ch)
Tokenize(s) ==
    LET start == [q |-> NoQuote, from |-> 0, text |-> <<>>, quoted |-> FALSE,
                  escaped |-> FALSE, out |-> <<>>]
    IN  Flush(FoldLeft(LAMBDA a, i : ReadRune(a, i, s[i]), start, [i \in DOMAIN s |-> i]), Len(s) + 1).out

TokenTexts(t) == [k \in DOMAIN t |-> t[k].text]
ShellFields(s) == TokenTexts(Tokenize(s))

\* [[ ... ]] in command position: comparisons in it redirect nothing.
CommandPositionStart ==
    {"!", "if", "while", "until", "elif", "then", "do", "&&", "||", ";", "|"}
SquareStep(a, t, w) ==
    IF a.open > 0
    THEN IF t.bare /\ w = "]]" THEN [a EXCEPT !.open = 0, !.spans = @ \cup {<<a.open, t.end>>}] ELSE a
    ELSE IF a.command /\ t.bare /\ w = "[[" THEN [a EXCEPT !.open = t.start] ELSE a
SquareSpans(s) ==
    LET Step(a, t) == [SquareStep(a, t, Str(t.text)) EXCEPT
                          !.command = t.bare /\ Str(t.text) \in CommandPositionStart]
    IN  FoldLeft(Step, [open |-> 0, command |-> TRUE, spans |-> {}], Tokenize(s)).spans

\* (( ... )): the same; nested parentheses are counted.
ArithmeticStep(a, i, ch, double) ==
    LET past == [a EXCEPT !.skip = IF double THEN i + 1 ELSE 0]
    IN  IF a.skip = i \/ ch \notin {"(", ")"} THEN a
        ELSE IF a.open = 0
             THEN IF ch = "(" /\ double THEN [past EXCEPT !.open = i, !.depth = 0] ELSE a
        ELSE IF ch = "(" THEN [past EXCEPT !.depth = @ + 1]
        ELSE IF a.depth > 0 THEN [past EXCEPT !.depth = @ - 1]
        ELSE IF double THEN [past EXCEPT !.open = 0, !.spans = @ \cup {<<a.open, i + 2>>}]
        ELSE a
ArithmeticIn(s, lit) ==
    FoldLeft(LAMBDA a, i : IF i \in lit THEN a ELSE ArithmeticStep(a, i, s[i], i < Len(s) /\ s[i + 1] = s[i]),
             [open |-> 0, depth |-> 0, skip |-> 0, spans |-> {}], [i \in DOMAIN s |-> i]).spans
ArithmeticSpans(s) == ArithmeticIn(s, Literals(s))

\* Sorting and merging the spans only serves their search.
SkipSpans(s) == SquareSpans(s) \cup ArithmeticSpans(s)
InSpan(i, spans) == \E p \in spans : p[1] <= i /\ i < p[2]

-----------------------------------------------------------------------------
(* Splitting a line into segments.                                         *)

\* "&&" and "||" cut at both symbols; a "&" of a redirection cuts nothing.
Separator(s, i) ==
    \/ s[i] \in {"|", ";", Newline}
    \/ /\ s[i] = "&"
       /\ \/ i = 1 \/ s[i - 1] \notin {"<", ">"}
          \/ i < Len(s) /\ s[i + 1] = "&"

SplitAt(s, cuts) ==
    LET Step(a, i) == IF i \in cuts THEN Append(a, <<>>)
                      ELSE [a EXCEPT ![Len(a)] = Append(@, s[i])]
    IN  FoldLeft(Step, <<<<>>>>, [i \in DOMAIN s |-> i])

CutsIn(s, lit, spans) == {i \in DOMAIN s : i \notin lit /\ ~InSpan(i, spans) /\ Separator(s, i)}
SplitOnOperators(s) == SplitAt(s, CutsIn(s, Literals(s), SkipSpans(s)))

\* What a comment contains is dropped without being read: its quotes are none.
StripShellComments(s) ==
    LET wordStart == {Newline, ";", "|", "&", "(", "{", Blank}
        Step(a, ch) ==
            IF a.comment /\ ch # Newline THEN a
            ELSE IF IsLiteral(a.q, ch)
                 THEN [q |-> NextQuote(a.q, ch), start |-> FALSE, comment |-> FALSE,
                       out |-> Append(a.out, ch)]
            ELSE IF ch = "#" /\ a.start THEN [a EXCEPT !.comment = TRUE]
            ELSE [q |-> a.q, start |-> ch \in wordStart, comment |-> FALSE,
                  out |-> Append(a.out, ch)]
    IN  FoldLeft(Step, [q |-> NoQuote, start |-> TRUE, comment |-> FALSE, out |-> <<>>], s).out

-----------------------------------------------------------------------------
(* Nested code: substitutions and function bodies.                         *)

\* The symbol that closes the first `open` at or after i, or the end of s.
DepthIn(t, lit, open, close) ==
    Cardinality({j \in DOMAIN t \ lit : t[j] = open}) - Cardinality({j \in DOMAIN t \ lit : t[j] = close})
MatchIn(t, lit, open, close) ==
    Least({k \in DOMAIN t \ lit : t[k] = close /\ DepthIn(SubSeq(t, 1, k), lit, open, close) = 0}, Len(t) + 1)
FindMatching(s, i, open, close) == i - 1 + MatchIn(From(s, i), Literals(From(s, i)), open, close)

\* The expansions of s from i on, as [from, body, to]; one that never closes
\* reaches to the end.  stripSubshells, unlike extractSubshellContents, takes
\* $(( for an expansion as well (arithmetic).
SubstitutionAt(s, i, arithmetic) ==
    i < Len(s) /\ s[i] = "$" /\ s[i + 1] = "(" /\ (arithmetic \/ i + 2 > Len(s) \/ s[i + 2] # "(")
RECURSIVE Expansions(_, _, _, _)
Expanding(s, i, body, to, q, arithmetic) ==
    <<[from |-> i, to |-> to, body |-> SubSeq(s, body, to - 1)]>> \o Expansions(s, to + 1, q, arithmetic)
Expansions(s, i, q, arithmetic) ==
    IF i > Len(s) THEN <<>>
    ELSE IF HidesExpansion(q, s[i]) THEN Expansions(s, i + 1, NextQuote(q, s[i]), arithmetic)
    ELSE IF SubstitutionAt(s, i, arithmetic)
         THEN Expanding(s, i, i + 2, FindMatching(s, i, "(", ")"), q, arithmetic)
    ELSE IF s[i] = Backtick
         THEN Expanding(s, i, i + 1, Least({j \in i + 1..Len(s) : s[j] = Backtick}, Len(s) + 1), q, arithmetic)
    ELSE Expansions(s, i + 1, q, arithmetic)

BodiesOf(e) == [k \in DOMAIN e |-> e[k].body]
Without(s, e) ==
    Concat([i \in DOMAIN s |-> IF \E k \in DOMAIN e : i \in e[k].from..e[k].to THEN <<>> ELSE <<s[i]>>])
ExtractSubshellContents(s) == BodiesOf(Expansions(s, 1, NoQuote, FALSE))
StripSubshells(s) == Without(s, Expansions(s, 1, NoQuote, TRUE))

RECURSIVE ProcessSubstitutions(_, _, _)
Substituting(s, body, to, q) == <<SubSeq(s, body, to - 1)>> \o ProcessSubstitutions(s, to + 1, q)
ProcessSubstitutions(s, i, q) ==
    IF i >= Len(s) THEN <<>>
    ELSE IF IsLiteral(q, s[i]) THEN ProcessSubstitutions(s, i + 1, NextQuote(q, s[i]))
    ELSE IF s[i] \in {"<", ">"} /\ s[i + 1] = "("
         THEN Substituting(s, i + 2, FindMatching(s, i + 1, "(", ")"), q)
    ELSE ProcessSubstitutions(s, i + 1, q)
ExtractProcessSubstitutionContents(s) == ProcessSubstitutions(s, 1, NoQuote)

ContainsCommandExpansion(s) ==
    ExtractSubshellContents(s) # <<>> \/ ExtractProcessSubstitutionContents(s) # <<>>

\* A name is a word of letters here: words of the model hold no digit first.
IsShellName(w) == w # "" /\ Chars(w) \cap {"-", "/", ".", "=", "$", "(", ")", "{"} = {}
IsFunctionHeader(f, n) ==
    /\ n > 0
    /\ \/ Len(f[n]) > 1 /\ SubSeq(f[n], Len(f[n]) - 1, Len(f[n])) = <<"(", ")">>
       \/ n > 1 /\ Str(f[n - 1]) = "function" /\ IsShellName(Str(f[n]))
HeaderFields(f) == IsFunctionHeader(f, Len(f))
LooksLikeFunctionHeader(s) ==
    HeaderFields(SelectSeq(SplitAt(s, {i \in DOMAIN s : s[i] \in {Blank, Newline}}), LAMBDA p : p # <<>>))

\* The brace or parenthesis that opens the next body, or 0.
NextFunctionBodyOpen(s, offset, lit) ==
    Least({j \in offset..Len(s) : /\ j - offset + 1 \notin lit
                                  /\ s[j] \in {"{", "("}
                                  /\ LooksLikeFunctionHeader(SubSeq(s, 1, j - 1))}, 0)
RECURSIVE FunctionBodies(_, _)
BodyUpTo(s, open, to) == <<[from |-> open + 1, to |-> to - 1, body |-> SubSeq(s, open + 1, to - 1)]>>
                         \o FunctionBodies(s, to + 1)
BodyFrom(s, open) ==
    IF open = 0 THEN <<>>
    ELSE BodyUpTo(s, open, FindMatching(s, open, s[open], IF s[open] = "(" THEN ")" ELSE "}"))
FunctionBodies(s, offset) == BodyFrom(s, NextFunctionBodyOpen(s, offset, Literals(From(s, offset))))

ExtractFunctionBodyContents(s) == BodiesOf(FunctionBodies(s, 1))
StripFunctionBodies(s) == Without(s, FunctionBodies(s, 1))
=============================================================================
