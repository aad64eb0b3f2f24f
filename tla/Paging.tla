------------------------------ MODULE Paging ------------------------------
(***************************************************************************)
(* How long answers are read in pages: read_file and multi_read in         *)
(* internal/jinn (read_window.go, read_text_stream.go, tool_read_trunc.go, *)
(* tool_multi_read.go) and web_fetch (webfetch/projection.go).  A reader   *)
(* asks for a page, takes the continuation it names and asks again.        *)
(***************************************************************************)
EXTENDS Integers, Sequences, FiniteSets

CONSTANTS
    PagFiles,        \* files to read: sequences of line sizes in bytes
    PagTexts,        \* documents fetched: sequences of "a", "nl" and the bytes "L", "C" of one character
    PagBatches,      \* batches for multi_read: sequences of the sizes of the answers
    PagModes,        \* truncate: "head", "none", "smart", and "smart_text": smart for a file without C syntax
    PagEnds,         \* end_line; 0 is none
    PagCuts,         \* pairs <<from, n>>: after line n all blocks opened from line from on are closed
    PagMarker,       \* bytes of the line truncateOutputSmart and truncateOutputHead append
    PagWindow,       \* readDefaultLines
    PagTruncLines,   \* readTruncLines
    PagMaxBytes,     \* readMaxBytes
    PagGlobalBytes,  \* multiReadGlobalCapBytes
    PagLimits        \* the byte and line limits of web_fetch; 0 is none

ASSUME PagAssumption ==
    /\ PagFiles \subseteq Seq(Nat) /\ PagBatches \subseteq Seq(Nat)
    /\ PagTexts \subseteq Seq({"a", "nl", "L", "C"})
    /\ PagLimits \subseteq [bytes : Nat, lines : Nat]
    /\ PagEnds \subseteq Nat /\ PagMarker \in Nat /\ PagWindow \in Nat \ {0} /\ PagTruncLines \in Nat \ {0}
    /\ PagMaxBytes \in Nat /\ PagGlobalBytes \in Nat

VARIABLES
    pagAsk,          \* what is read, and from where
    pagGot           \* what the pages so far held

pagVars == <<pagAsk, pagGot>>

Lesser(a, b) == IF a < b THEN a ELSE b
EndOfPages == 0
SumOf(s) ==
    LET sum[i \in 0 .. Len(s)] == IF i = 0 THEN 0 ELSE sum[i - 1] + s[i]
    IN  sum[Len(s)]

-----------------------------------------------------------------------------
(* read_file: one call.                                                    *)

\* renderSelectedWindow: the number, a tab and the line; one digit is enough here.
Rendered(ask, n) == ask.file[n] + (IF ask.numbered THEN 2 ELSE 0)
\* Line ends are trimmed before anything else: without numbers, empty lines at
\* the end of the window go.
LastRendered(ask, first, end) ==
    LET full == {n \in first .. end : ask.numbered \/ ask.file[n] > 0}
    IN  IF full = {} THEN first - 1 ELSE CHOOSE n \in full : \A m \in full : m <= n
SizeOf(ask, first, last) == SumOf([i \in 1 .. last - first + 1 |-> Rendered(ask, first + i - 1)]) + last - first

\* resolveReadWindow, explicitOrDefaultWindow.
WindowEnd(ask) == Lesser(IF ask.to >= ask.from THEN ask.to ELSE ask.from + PagWindow - 1, Len(ask.file))

\* applyTruncateStrategy for the lines first to last.  truncateOutputHead cuts a
\* page that has just the limit too, though nothing of it goes.
Limit(first) == first + PagTruncLines - 1
Truncated(ask, first, last) ==
    \/ ask.mode \in {"head", "smart"} /\ last > Limit(first)
    \/ ask.mode = "smart_text" /\ last >= Limit(first)
\* The last line kept: braceCutLine looks for the last boundary within the limit.
CutLine(ask, first, last) ==
    LET cuts == {n \in first .. Limit(first) : <<first, n>> \in PagCuts}
    IN  IF ~Truncated(ask, first, last) THEN last
        ELSE IF ask.mode = "smart" /\ cuts # {} THEN CHOOSE n \in cuts : \A m \in cuts : m <= n
        ELSE Limit(first)
Marked(ask, first, last) == ask.mode # "head" /\ Truncated(ask, first, last)

\* byteTruncateResult keeps whole lines while they fit.
BytesKept(ask, first, last) ==
    CHOOSE k \in 0 .. last - first + 1 :
        /\ SizeOf(ask, first, first + k - 1) + 1 <= PagMaxBytes \/ k = 0
        /\ k = last - first + 1 \/ SizeOf(ask, first, first + k) + 1 > PagMaxBytes

\* readTextWindow: the lines shown, first to last, and the line to go on with:
\* behind the bytes kept, behind the cut, or behind the window.  Only
\* assembleReadResult sees that nothing is left; a page that is too long just by
\* its marker may go on behind the end.
ReadPage(ask) ==
    LET first == ask.from
        end == WindowEnd(ask)
        shown == LastRendered(ask, first, end)
        cut == CutLine(ask, first, shown)
        size == SizeOf(ask, first, cut) + (IF Marked(ask, first, shown) THEN PagMarker + 1 ELSE 0)
        kept == BytesKept(ask, first, cut)
        next == IF Truncated(ask, first, shown) THEN cut + 1 ELSE end + 1
    IN  IF ask.file[first] > PagMaxBytes
        THEN [first |-> first, last |-> first - 1, next |-> EndOfPages]   \* oversizedLineResult: a hint
        ELSE IF size > PagMaxBytes
        THEN [first |-> first, last |-> first + kept - 1, next |-> first + kept]
        ELSE [first |-> first, last |-> cut, next |-> IF next > Len(ask.file) THEN EndOfPages ELSE next]

-----------------------------------------------------------------------------
(* web_fetch: one projection.                                              *)

CountLines(text) ==
    Cardinality({i \in DOMAIN text : text[i] = "nl"}) + (IF text # <<>> /\ text[Len(text)] # "nl" THEN 1 ELSE 0)
Breaks(text) == {i \in DOMAIN text : text[i] = "nl"}
\* The byte behind the n-th line end, or the end of the text.
Behind(text, n) ==
    IF n = 0 THEN 0
    ELSE IF Cardinality(Breaks(text)) < n THEN Len(text)
    ELSE CHOOSE i \in Breaks(text) : Cardinality({j \in Breaks(text) : j <= i}) = n
Whole(text) == text = <<>> \/ text[Len(text)] # "L"

PrefixByLines(text, n) == IF n = 0 \/ CountLines(text) <= n THEN text ELSE SubSeq(text, 1, Behind(text, n))
\* Whole characters, and whole lines if there is one.
PrefixByBytes(text, n) ==
    IF n = 0 \/ Len(text) <= n THEN text
    ELSE LET cut == SubSeq(text, 1, n)
             chars == IF Whole(cut) THEN cut ELSE SubSeq(text, 1, n - 1)
         IN  IF Breaks(chars) = {} THEN chars
             ELSE SubSeq(chars, 1, CHOOSE i \in Breaks(chars) : \A j \in Breaks(chars) : j <= i)
ProjectContent(text, limits) == PrefixByBytes(PrefixByLines(text, limits.lines), limits.bytes)

\* The cursor counts bytes from its line; on the same line it has to add them up.
NextLineByte_Restarts(from, content) ==
    IF Breaks(content) = {} THEN Len(content)
    ELSE Len(content) - (CHOOSE i \in Breaks(content) : \A j \in Breaks(content) : j <= i)
NextLineByte(from, content) ==
    IF Breaks(content) = {} THEN from.byte + Len(content)
    ELSE Len(content) - (CHOOSE i \in Breaks(content) : \A j \in Breaks(content) : j <= i)

\* ProjectFetchContentAt: the content and the cursor; both zero at the end.
FetchPage(ask) ==
    LET start == Behind(ask.text, ask.from.line) + ask.from.byte
        remaining == SubSeq(ask.text, start + 1, Len(ask.text))
        content == ProjectContent(remaining, ask.limits)
    IN  [content |-> content,
         error |-> remaining # <<>> /\ content = <<>>,
         next |-> IF Len(content) < Len(remaining)
                  THEN [line |-> ask.from.line + Cardinality(Breaks(content)), byte |-> NextLineByte(ask.from, content)]
                  ELSE [line |-> 0, byte |-> 0]]

-----------------------------------------------------------------------------
(* The reader.                                                             *)

PagInit ==
    /\ \/ \E f \in PagFiles, m \in PagModes, numbered \in BOOLEAN, to \in PagEnds :
             pagAsk = [kind |-> "read", file |-> f, mode |-> m, numbered |-> numbered, from |-> 1, to |-> to]
       \/ \E t \in PagTexts, l \in PagLimits :
             pagAsk = [kind |-> "fetch", text |-> t, limits |-> l, from |-> [line |-> 0, byte |-> 0]]
       \/ \E b \in PagBatches : pagAsk = [kind |-> "multi", batch |-> b, from |-> 1]
    /\ pagGot = <<>>

Ended == pagAsk.kind = "end"
AskAgain(next, end) == pagAsk' = IF next = end THEN [kind |-> "end", of |-> pagAsk] ELSE [pagAsk EXCEPT !.from = next]

\* readNextCall: a window that is done moves on, one that is not keeps its end.
NextEnd(ask, next) == IF ask.to < ask.from THEN 0 ELSE IF ask.to < next THEN next + ask.to - ask.from ELSE ask.to
\* readFile; a start behind the end of the file is refused.
ReadFile ==
    /\ pagAsk.kind = "read" /\ pagAsk.from <= Len(pagAsk.file)
    /\ LET page == ReadPage(pagAsk) IN
          /\ pagGot' = Append(pagGot, [first |-> page.first, last |-> page.last])
          /\ pagAsk' = IF page.next = EndOfPages THEN [kind |-> "end", of |-> pagAsk]
                       ELSE [pagAsk EXCEPT !.from = page.next, !.to = NextEnd(pagAsk, page.next)]
\* dispatchWeb; a limit no character fits in is refused.
WebFetchPage ==
    /\ pagAsk.kind = "fetch"
    /\ LET page == FetchPage(pagAsk) IN
          /\ ~page.error
          /\ pagGot' = pagGot \o page.content
          /\ AskAgain(page.next, [line |-> 0, byte |-> 0])
\* multiRead: files until the next one would be too much; the call to go on
\* with starts at that file.
MultiFits(batch, from, to) == SumOf(SubSeq(batch, from, to)) <= PagGlobalBytes
MultiRead ==
    /\ pagAsk.kind = "multi"
    /\ LET batch == pagAsk.batch
           from == pagAsk.from
           to == CHOOSE k \in from - 1 .. Len(batch) :
                    /\ MultiFits(batch, from, k)
                    /\ k = Len(batch) \/ ~MultiFits(batch, from, k + 1)
       IN  /\ pagGot' = pagGot \o [i \in 1 .. to - from + 1 |-> from + i - 1]
           /\ AskAgain(IF to = Len(batch) THEN EndOfPages ELSE to + 1, EndOfPages)

PagNext == ReadFile \/ WebFetchPage \/ MultiRead

PagSpec == PagInit /\ [][PagNext]_pagVars

-----------------------------------------------------------------------------
(* Properties.                                                             *)

UpTo(n) == [i \in 1 .. n |-> i]
\* A line takes its number and its line end with it; one that cannot fit with
\* them is answered by a hint, or asked for again and again.
Fits(ask) == \A n \in DOMAIN ask.file : Rendered(ask, n) + 1 <= PagMaxBytes

\* The pages of a file, up to a line: in order, no line twice, every page going
\* on behind where it began; a line in none of them is empty, and so are all
\* that follow it until a page begins, and the lines have no numbers.
CoverLines(ask, pages, upto) ==
    /\ \A i \in DOMAIN pages : pages[i].first <= upto /\ pages[i].last <= upto
    /\ \A i, j \in DOMAIN pages : i < j => pages[i].first < pages[j].first /\ pages[i].last < pages[j].first
    /\ \A n \in 1 .. upto :
          (\A i \in DOMAIN pages : n \notin pages[i].first .. pages[i].last) =>
              /\ ~ask.numbered
              /\ \A m \in n .. upto : ask.file[m] = 0 \/ \E i \in DOMAIN pages : pages[i].first \in n + 1 .. m

\* "To continue a capped page, pass both next cursor fields as the corresponding
\* start fields; zero for both next fields indicates EOF", "an exact next_call":
\* whatever is cut where, by lines, bytes or blocks, the pages read one after the
\* other hold every byte and file once and in order, and at the end all of them;
\* and every line but the empty ones that end a page without numbers
\* (ProjectFetchContentAt, assembleReadResult, byteTruncateResult, multiRead).
PagesCover ==
    LET ask == IF Ended THEN pagAsk.of ELSE pagAsk
    IN  CASE ask.kind = "fetch" ->
               /\ pagGot = SubSeq(ask.text, 1, Len(pagGot))
               /\ ~Ended => Len(pagGot) = Behind(ask.text, ask.from.line) + ask.from.byte
               /\ Ended => pagGot = ask.text
          [] ask.kind = "multi" ->
               /\ pagGot = UpTo(Len(pagGot))
               /\ Ended => Len(pagGot) = Len(ask.batch)
          [] OTHER -> Fits(ask) => CoverLines(ask, pagGot, IF Ended THEN Len(ask.file) ELSE ask.from - 1)
=============================================================================
