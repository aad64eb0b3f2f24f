------------------------------- MODULE Edits -------------------------------
(***************************************************************************)
(* What edit_file, multi_edit, search_replace and apply_patch make of a    *)
(* text (edit_apply.go, normalize.go, multi_edit_overlap.go,               *)
(* multi_edit_apply.go, search_replace_apply.go, patch_apply.go).  Nothing *)
(* here is written: module Mutation takes the new content as given.        *)
(*                                                                         *)
(* A text is a sequence of characters: letters, "sp" for a blank, "q" for  *)
(* a typographic quote, "'" for its ASCII form, and the line ends "lf",    *)
(* "crlf" and "cr".                                                        *)
(***************************************************************************)
EXTENDS Integers, Sequences, FiniteSets, SequencesExt

CONSTANTS
    EditLetters, \* the letters of the texts
    EditCalls    \* the calls: [kind |-> "multi", files, edits], [kind |-> "replace",
                 \* text, pattern, by] and [kind |-> "patch", text, chunks]

VARIABLES
    editCall,    \* the call
    editPc,
    editText,    \* the accumulated content of each file, or the lines of the patched one
    editTodo,    \* the edits, or the hunks, still to be done
    editPlaces,  \* where the hunks of a patch belong
    editPairs,   \* what was applied to which file
    editErrors   \* the edits that failed

editVars == <<editCall, editPc, editText, editTodo, editPlaces, editPairs, editErrors>>

LineEnds == {"lf", "crlf", "cr"}
IsLineEnd(ch) == ch \in LineEnds
Characters == EditLetters \cup {"sp", "q", "'"} \cup LineEnds

\* A text to look for is not empty; the lines of a hunk are texts.
ASSUME EditAssumption ==
    \A c \in EditCalls :
        CASE c.kind = "multi" ->
                /\ c.files \in [DOMAIN c.files -> Seq(Characters)]
                /\ c.edits \in Seq([file : DOMAIN c.files, old : Seq(Characters) \ {<<>>},
                                    new : Seq(Characters), fuzzyIndent : BOOLEAN])
          [] c.kind = "replace" ->
                c.text \in Seq(Characters) /\ c.pattern \in Seq(Characters) \ {<<>>} /\ c.by \in Seq(Characters)
          [] OTHER ->
                /\ c.kind = "patch" /\ c.text \in Seq(Characters)
                /\ c.chunks \in Seq([context : Seq(Seq(Characters)), old : Seq(Seq(Characters)),
                                     new : Seq(Seq(Characters)), eof : BOOLEAN])

LeastOf(S) == CHOOSE x \in S : \A y \in S : x <= y
Greatest(S) == CHOOSE x \in S : \A y \in S : x >= y
Ascending(S) == [k \in 1 .. Cardinality(S) |-> CHOOSE x \in S : Cardinality({y \in S : y < x}) = k - 1]
Part(s, from, to) == SubSeq(s, from + 1, to)
Instead(s, from, to, new) == Part(s, 0, from) \o new \o Part(s, to, Len(s))

-----------------------------------------------------------------------------
(* Texts and their normal forms.                                           *)

\* A blank before a line end or the end of the text, which fuzzy matching drops.
Trailing(s, i) ==
    s[i] = "sp" /\ \A j \in i .. Len(s) : (\A k \in i .. j : s[k] # "sp" => k = j) => s[j] = "sp" \/ IsLineEnd(s[j])
NormalizeRune(ch, fuzzy) ==
    CASE IsLineEnd(ch) -> "lf" [] fuzzy /\ ch = "q" -> "'" [] OTHER -> ch

\* The normalized text, and for each of its ends the place in the input behind
\* it: blanks that were dropped belong to what stands before them.
MapKept(s, fuzzy, kept) ==
    [text |-> [k \in DOMAIN kept |-> NormalizeRune(s[kept[k]], fuzzy)],
     boundaries |-> [k \in 0 .. Len(kept) |-> IF k = Len(kept) THEN Len(s) ELSE kept[k + 1] - 1]]
MapNormalizedText(s, fuzzy) == MapKept(s, fuzzy, Ascending({i \in DOMAIN s : ~(fuzzy /\ Trailing(s, i))}))
NormalizeToLF(s) == MapNormalizedText(s, FALSE).text
NormalizeForFuzzyMatch(s) == MapNormalizedText(s, TRUE).text

\* detectLineEnding: the first line end decides; a lone "cr" does not count.
DetectLineEnding(s) ==
    LET ends == {i \in DOMAIN s : s[i] \in {"lf", "crlf"}}
    IN  IF ends = {} THEN "lf" ELSE s[LeastOf(ends)]
RestoreLineEndings(s, ending) == [i \in DOMAIN s |-> IF s[i] = "lf" THEN ending ELSE s[i]]
\* New text takes the line ends of what it replaces, or of the file.
EndingFor(s, old) == DetectLineEnding(IF \E i \in DOMAIN old : IsLineEnd(old[i]) THEN old ELSE s)
Replacement(s, from, to, new) == RestoreLineEndings(NormalizeToLF(new), EndingFor(s, Part(s, from, to)))

Occurrences(text, match) == {i \in 0 .. Len(text) - Len(match) : Part(text, i, i + Len(match)) = match}
\* strings.Count goes on behind each occurrence.
Again(match, at) == \E i, j \in at : j > i /\ j >= i + Len(match)

-----------------------------------------------------------------------------
(* reindentNewText.                                                        *)

LinesBetween(s, ends) ==
    [k \in DOMAIN ends |-> Part(s, ends[k], IF k = Len(ends) THEN Len(s) ELSE ends[k + 1] - 1)]
LinesOf(s) == LinesBetween(s, Ascending({0} \cup {i \in DOMAIN s : s[i] = "lf"}))
Indent(line) == LeastOf({i \in 0 .. Len(line) : i = Len(line) \/ line[i + 1] # "sp"})
EmptyLine(line) == Indent(line) = Len(line)
JoinLines(lines) == FoldLeft(LAMBDA text, line : IF line[1] = 1 THEN line[2] ELSE text \o <<"lf">> \o line[2], <<>>,
                             [k \in DOMAIN lines |-> <<k, lines[k]>>])
ReindentLines(new, lines, leading) ==
    LET full == {k \in DOMAIN lines : ~EmptyLine(lines[k])}
        least == LeastOf({Indent(lines[k]) : k \in full})
    IN  IF full = {} THEN new
        ELSE JoinLines([k \in DOMAIN lines |-> IF k \notin full THEN <<>>
                                               ELSE leading \o Part(lines[k], least, Len(lines[k]))])
ReindentNewText(new, leading) == ReindentLines(new, LinesOf(new), leading)

-----------------------------------------------------------------------------
(* One edit.                                                               *)

\* The whole text of a match and where it is; exact before fuzzy.
InMap(map, match, fuzzy) == [map |-> map, match |-> match, fuzzy |-> fuzzy]
OrFuzzy(exact, s, old) ==
    IF Occurrences(exact.map.text, exact.match) # {} THEN exact
    ELSE InMap(MapNormalizedText(s, TRUE), NormalizeForFuzzyMatch(old), TRUE)
Found(s, old) == OrFuzzy(InMap(MapNormalizedText(s, FALSE), NormalizeToLF(old), FALSE), s, old)

NotFound == [error |-> "old_text not found"]
ManyFound == [error |-> "old_text matches several locations"]
Put(s, from, to, new) == [error |-> "", text |-> Instead(s, from, to, Replacement(s, from, to, new))]
\* The new text, indented like the line it goes to when only blanks stand before it.
NewText(edit, lead, line) ==
    IF edit.fuzzyIndent /\ EmptyLine(lead) THEN ReindentNewText(NormalizeToLF(edit.new), SubSeq(line, 1, Indent(line)))
    ELSE edit.new
NewTextAt(edit, text, idx, lineStart) ==
    NewText(edit, Part(text, lineStart, idx), Part(text, lineStart, Len(text)))
LineStart(text, idx) == Greatest({0} \cup {i \in 1 .. idx : text[i] = "lf"})
ApplyAt(s, edit, f, idx) ==
    Put(s, f.map.boundaries[idx], f.map.boundaries[idx + Len(f.match)],
        NewTextAt(edit, f.map.text, idx, LineStart(f.map.text, idx)))
ApplyFound(s, edit, f, at) ==
    IF at = {} THEN NotFound
    ELSE IF Again(f.match, at) THEN ManyFound
    ELSE ApplyAt(s, edit, f, LeastOf(at))
ApplyIn(s, edit, f) == ApplyFound(s, edit, f, Occurrences(f.map.text, f.match))
ApplyEdit(s, edit) == ApplyIn(s, edit, Found(s, edit.old))

-----------------------------------------------------------------------------
(* multi_edit: places, overlaps, order.                                    *)

Pair(edit) == <<edit.old, edit.new>>
\* computeFileOffsets: the first place in the original, or Nowhere.
Nowhere == -1
RegionAt(f, at) ==
    IF at = {} THEN [from |-> Nowhere, to |-> Nowhere]
    ELSE [from |-> f.map.boundaries[LeastOf(at)], to |-> f.map.boundaries[LeastOf(at) + Len(f.match)]]
RegionOf(f) == RegionAt(f, Occurrences(f.map.text, f.match))
Region(files, edit) == RegionOf(Found(files[edit.file], edit.old))

\* checkFileOverlaps compares neighbours in the order of their places; edits
\* that are the same are let through.
ReachesInto(a, b) == Nowhere \notin {a.from, b.from} /\ a.from <= b.from /\ b.from < a.to
Inside(a, b) == Nowhere \notin {a.from, b.from} /\ a.from <= b.from /\ b.to < a.to
Different(a, b) == a.file = b.file /\ Pair(a) # Pair(b)
DetectOverlaps_Contained(files, edits) ==
    \E i, j \in DOMAIN edits :
        Different(edits[i], edits[j]) /\ Inside(Region(files, edits[i]), Region(files, edits[j]))
DetectOverlaps(files, edits) ==
    \E i, j \in DOMAIN edits :
        Different(edits[i], edits[j]) /\ ReachesInto(Region(files, edits[i]), Region(files, edits[j]))

\* sort.SliceStable, an insertion sort for as few edits as these; edits of
\* different files do not pass each other.
Earlier(a, b) == a.from # Nowhere /\ (b.from # Nowhere => a.from < b.from)
Before(files, a, b) == a.file = b.file /\ Earlier(Region(files, a), Region(files, b))
InsertedAt(sorted, k, e) == Instead(sorted, k, k, <<e>>)
Inserted(files, sorted, e) ==
    InsertedAt(sorted, LeastOf({i \in 0 .. Len(sorted) : \A j \in i + 1 .. Len(sorted) : Before(files, e, sorted[j])}), e)
SortRawEntriesPositional(files, edits) ==
    LET sorted[n \in 0 .. Len(edits)] == IF n = 0 THEN <<>> ELSE Inserted(files, sorted[n - 1], edits[n])
    IN  sorted[Len(edits)]

-----------------------------------------------------------------------------
(* search_replace: all matches, replaced from the last to the first.  The  *)
(* regular expression stands for a literal pattern.                        *)

\* FindAll: the leftmost match, then the leftmost behind it, and so on.
Behindmost(found, pattern) == IF found = <<>> THEN 0 ELSE Last(found) + Len(pattern)
Matches(text, pattern) ==
    LET at == Occurrences(text, pattern)
        found[n \in 0 .. Len(text) + 1] ==
            IF n = 0 THEN <<>>
            ELSE IF n - 1 \in at /\ n - 1 >= Behindmost(found[n - 1], pattern) THEN Append(found[n - 1], n - 1)
            ELSE found[n - 1]
    IN  found[Len(text) + 1]
\* What the text is once the last n matches are replaced.
ReplaceMatch(s, map, pattern, by, result, i) ==
    Instead(result, map.boundaries[i], map.boundaries[i + Len(pattern)],
            Replacement(s, map.boundaries[i], map.boundaries[i + Len(pattern)], by))
ReplaceIn(s, map, pattern, by, all) ==
    LET result[n \in 0 .. Len(all)] ==
            IF n = 0 THEN s ELSE ReplaceMatch(s, map, pattern, by, result[n - 1], all[Len(all) - n + 1])
    IN  result[Len(all)]
SrApplyOne(s, pattern, by) ==
    ReplaceIn(s, MapNormalizedText(s, FALSE), pattern, by, Matches(NormalizeToLF(s), pattern))

-----------------------------------------------------------------------------
(* apply_patch: the hunks of one update.                                   *)

\* splitLineRecords.
RecordsBetween(s, ends) ==
    [k \in 1 .. Len(ends) - 1 |->
        IF IsLineEnd(s[ends[k + 1]])
        THEN [text |-> Part(s, ends[k], ends[k + 1] - 1), ending |-> s[ends[k + 1]]]
        ELSE [text |-> Part(s, ends[k], ends[k + 1]), ending |-> ""]]
SplitLineRecords(s) == RecordsBetween(s, Ascending({0, Len(s)} \cup {i \in DOMAIN s : IsLineEnd(s[i])}))
TextsOf(records) == [i \in DOMAIN records |-> records[i].text]
TrimRight(line) == Part(line, 0, Greatest({i \in 0 .. Len(line) : i = 0 \/ line[i] # "sp"}))
TrimSpace(line) == IF EmptyLine(line) THEN <<>> ELSE Part(TrimRight(line), Indent(line), Len(TrimRight(line)))
SameLine(pass, a, b) ==
    CASE pass = 1 -> a = b
      [] pass = 2 -> TrimRight(a) = TrimRight(b)
      [] pass = 3 -> TrimSpace(a) = TrimSpace(b)
      [] pass = 4 -> NormalizeForFuzzyMatch(a) = NormalizeForFuzzyMatch(b)
\* The first place of the strictest pass that has one.
PlacesOn(lines, pattern, first, pass) ==
    {i \in first .. Len(lines) - Len(pattern) : \A p \in DOMAIN pattern : SameLine(pass, lines[i + p], pattern[p])}
Strictest(at) ==
    IF \A pass \in DOMAIN at : at[pass] = {} THEN Nowhere
    ELSE LeastOf(at[LeastOf({pass \in DOMAIN at : at[pass] # {}})])
SeekSequence(lines, pattern, start, eof) ==
    IF pattern = <<>> THEN start
    ELSE IF Len(pattern) > Len(lines) THEN Nowhere
    ELSE Strictest([pass \in 1 .. 4 |->
                        PlacesOn(lines, pattern, IF eof THEN Len(lines) - Len(pattern) ELSE start, pass)])

\* resolveChunk: where the hunk belongs and where the next one is looked for.
\* Lines only to be added go to the end; an empty last line may be left out.
NoPlace == [start |-> Nowhere, oldLen |-> 0, new |-> <<>>, next |-> 0]
PlaceAt(found, pattern, new) ==
    IF found = Nowhere THEN NoPlace
    ELSE [start |-> found, oldLen |-> Len(pattern), new |-> new, next |-> found + Len(pattern)]
PlaceOf(lines, chunk, from, pattern, new) == PlaceAt(SeekSequence(lines, pattern, from, chunk.eof), pattern, new)
WithoutLastEmpty(s) == IF s # <<>> /\ Last(s) = <<>> THEN Front(s) ELSE s
OrWithoutLast(place, lines, chunk, from) ==
    IF place = NoPlace /\ Last(chunk.old) = <<>>
    THEN PlaceOf(lines, chunk, from, Front(chunk.old), WithoutLastEmpty(chunk.new)) ELSE place
ResolveFrom(lines, chunk, from) ==
    IF from = Nowhere THEN NoPlace
    ELSE IF chunk.old = <<>> THEN [start |-> Len(lines), oldLen |-> 0, new |-> chunk.new, next |-> from]
    ELSE OrWithoutLast(PlaceOf(lines, chunk, from, chunk.old, chunk.new), lines, chunk, from)
ResolveChunk(lines, chunk, index) ==
    ResolveFrom(lines, chunk, IF chunk.context = <<>> THEN index ELSE SeekSequence(lines, chunk.context, index, FALSE))

\* deriveUpdatedContent, one replacement: new lines take the line end of the
\* first line they replace, the last one that of the last.
PutRecords(records, r, default) ==
    LET ending == IF r.start < Len(records) /\ records[r.start + 1].ending # ""
                  THEN records[r.start + 1].ending ELSE default
        last == IF r.oldLen > 0 /\ r.start + r.oldLen <= Len(records) THEN records[r.start + r.oldLen].ending ELSE ""
        new == [i \in DOMAIN r.new |->
                  [text |-> r.new[i], ending |-> IF i = Len(r.new) /\ last # "" THEN last ELSE ending]]
        closed == IF r.oldLen = 0 /\ r.start > 0 /\ new # <<>> /\ records[r.start].ending = ""
                  THEN [records EXCEPT ![r.start].ending = ending] ELSE records
    IN  Instead(closed, r.start, r.start + r.oldLen, new)
\* A slice beyond its end, which ends the call.
OutOfRange(records, r) == r.start + r.oldLen > Len(records)

-----------------------------------------------------------------------------
(* The calls.                                                              *)

Result(pc) == editPc' = pc

EditInit ==
    /\ editCall \in EditCalls
    /\ editPc = "start"
    /\ editText = CASE editCall.kind = "multi" -> editCall.files
                    [] editCall.kind = "patch" -> SplitLineRecords(editCall.text)
                    [] OTHER -> editCall.text
    /\ editTodo = <<>> /\ editPlaces = <<>> /\ editPairs = {} /\ editErrors = {}

\* multiEditLocked up to its overlaps: nothing is applied to edits that overlap.
MultiEdit ==
    /\ editPc = "start" /\ editCall.kind = "multi"
    /\ IF DetectOverlaps(editCall.files, editCall.edits)
       THEN Result("refused") /\ UNCHANGED editTodo
       ELSE /\ Result("edit")
            /\ editTodo' = SortRawEntriesPositional(editCall.files, editCall.edits)
    /\ UNCHANGED <<editCall, editText, editPlaces, editPairs, editErrors>>

\* applyPendingEdits: an edit that is not found any more because the same one
\* was applied before is skipped.
Redundant(edit, applied) == applied = NotFound /\ <<edit.file, Pair(edit)>> \in editPairs
EditFailed(edit, applied) == applied.error # "" \/ applied.text = editText[edit.file]
Pend(edit, applied) ==
    IF Redundant(edit, applied) THEN UNCHANGED <<editText, editPairs, editErrors>>
    ELSE IF EditFailed(edit, applied)
    THEN editErrors' = editErrors \cup {edit} /\ UNCHANGED <<editText, editPairs>>
    ELSE /\ editText' = [editText EXCEPT ![edit.file] = applied.text]
         /\ editPairs' = editPairs \cup {<<edit.file, Pair(edit)>>}
         /\ UNCHANGED editErrors
ApplyPendingEdit ==
    /\ editPc = "edit" /\ editTodo # <<>>
    /\ editTodo' = Tail(editTodo)
    /\ Pend(Head(editTodo), ApplyEdit(editText[Head(editTodo).file], Head(editTodo)))
    /\ UNCHANGED <<editCall, editPc, editPlaces>>
\* One edit that failed stops them all.
EditsApplied ==
    /\ editPc = "edit" /\ editTodo = <<>>
    /\ Result(IF editErrors = {} THEN "done" ELSE "refused")
    /\ UNCHANGED <<editCall, editText, editTodo, editPlaces, editPairs, editErrors>>

SearchReplace ==
    /\ editPc = "start" /\ editCall.kind = "replace"
    /\ editText' = SrApplyOne(editText, editCall.pattern, editCall.by)
    /\ Result("done")
    /\ UNCHANGED <<editCall, editTodo, editPlaces, editPairs, editErrors>>

ApplyPatch ==
    /\ editPc = "start" /\ editCall.kind = "patch"
    /\ editTodo' = editCall.chunks
    /\ Result("resolve")
    /\ UNCHANGED <<editCall, editText, editPlaces, editPairs, editErrors>>
\* The hunks are looked for in the file as it was, each behind the one before.
Resolve(place) ==
    IF place = NoPlace THEN Result("refused") /\ UNCHANGED editPlaces
    ELSE editPlaces' = Append(editPlaces, place) /\ UNCHANGED editPc
ResolveNext ==
    /\ editPc = "resolve" /\ editTodo # <<>>
    /\ editTodo' = Tail(editTodo)
    /\ Resolve(ResolveChunk(TextsOf(editText), Head(editTodo), IF editPlaces = <<>> THEN 0 ELSE Last(editPlaces).next))
    /\ UNCHANGED <<editCall, editText, editPairs, editErrors>>
\* Then they are put in, from the last to the first.
DeriveUpdatedContent ==
    LET r == editPlaces[Len(editPlaces)] IN
    /\ editPc \in {"resolve", "derive"} /\ editTodo = <<>>
    /\ CASE editPlaces = <<>> -> Result("done") /\ UNCHANGED <<editText, editPlaces>>
         [] editPlaces # <<>> /\ OutOfRange(editText, r) -> Result("panic") /\ UNCHANGED <<editText, editPlaces>>
         [] OTHER -> /\ Result("derive")
                     /\ editText' = PutRecords(editText, r, DetectLineEnding(editCall.text))
                     /\ editPlaces' = Front(editPlaces)
    /\ UNCHANGED <<editCall, editTodo, editPairs, editErrors>>

EditNext ==
    \/ MultiEdit \/ ApplyPendingEdit \/ EditsApplied
    \/ SearchReplace
    \/ ApplyPatch \/ ResolveNext \/ DeriveUpdatedContent

EditSpec == EditInit /\ [][EditNext]_editVars

-----------------------------------------------------------------------------
(* Properties.                                                             *)

\* A text with several regions, in their order, replaced at once: what every
\* call promises, whatever order it works in.
EndOf(regions, k) == IF k = 0 THEN 0 ELSE regions[k].to
Replaced(s, regions) ==
    LET done[k \in 0 .. Len(regions)] ==
            IF k = 0 THEN <<>>
            ELSE done[k - 1] \o Part(s, EndOf(regions, k - 1), regions[k].from) \o regions[k].new
    IN  done
AtOnce(s, regions) == Replaced(s, regions)[Len(regions)] \o Part(s, EndOf(regions, Len(regions)), Len(s))
LeftToRight(regions) == \A i, j \in DOMAIN regions : i < j => regions[i].to <= regions[j].from
OneKindOfLineEnd(s) == Cardinality({s[i] : i \in DOMAIN s} \cap LineEnds) <= 1

\* The edits of a file are found in it as they stand, and are different.  What
\* overlaps itself is counted once where it stands twice ("aba" in "ababa").
AsIs(f) == Occurrences(f.map.text, f.match) # {} /\ ~f.fuzzy
SelfOverlaps(match) == \E d \in 1 .. Len(match) - 1 : Part(match, d, Len(match)) = Part(match, 0, Len(match) - d)
FoundAsIs(files, f, edits) ==
    /\ \A i \in DOMAIN edits : edits[i].file = f =>
          ~edits[i].fuzzyIndent /\ AsIs(Found(files[f], edits[i].old)) /\ ~SelfOverlaps(NormalizeToLF(edits[i].old))
    /\ \A i, j \in DOMAIN edits : i # j /\ edits[i].file = f => <<edits[j].file, Pair(edits[j])>> # <<f, Pair(edits[i])>>
Filled(s, r, new) == [from |-> r.from, to |-> r.to, new |-> Replacement(s, r.from, r.to, new)]
\* The edits of a file in the order of their places, each with a place of its own.
Here(f, edits) == {i \in DOMAIN edits : edits[i].file = f}
PlaceOfEdit(files, edits, i) == Region(files, edits[i]).from
InPlaces(files, edits, here) ==
    LET places == Ascending({PlaceOfEdit(files, edits, i) : i \in here})
    IN  [k \in DOMAIN places |-> CHOOSE i \in here : PlaceOfEdit(files, edits, i) = places[k]]
RegionsOf(files, edits, order) ==
    [k \in DOMAIN order |-> Filled(files[edits[order[k]].file], Region(files, edits[order[k]]), edits[order[k]].new)]
EditsOf(files, f, edits) == RegionsOf(files, edits, InPlaces(files, edits, Here(f, edits)))
RegionsAt(s, all, pattern, by) ==
    [i \in DOMAIN all |-> Filled(s, [from |-> all[i], to |-> all[i] + Len(pattern)], by)]
MatchRegions(s, pattern, by) == RegionsAt(s, Matches(NormalizeToLF(s), pattern), pattern, by)
\* The places the hunks of a patch have in the file as it was.
PlacesOf(lines, chunks) ==
    LET place[k \in 0 .. Len(chunks)] ==
            IF k = 0 THEN NoPlace ELSE ResolveChunk(lines, chunks[k], place[k - 1].next)
    IN  [k \in DOMAIN chunks |-> place[k]]
HunkRegions(places) ==
    [i \in DOMAIN places |-> [from |-> places[i].start, to |-> places[i].start + places[i].oldLen, new |-> places[i].new]]
HunksLandAt(lines, chunks) ==
    /\ editPc # "panic"
    /\ editPc = "done" => TextsOf(editText) = AtOnce(lines, HunkRegions(PlacesOf(lines, chunks)))
\* The line end of new text is that of the text before, as long as there is one.
LandApart(s, result, regions) ==
    /\ LeftToRight(regions) /\ NormalizeToLF(result) = NormalizeToLF(AtOnce(s, regions))
    /\ OneKindOfLineEnd(s) /\ DetectLineEnding(s) = DetectLineEnding(result) => result = AtOnce(s, regions)

\* A call that succeeds has replaced every text it was asked to replace where
\* that text stood in the file as it was, and nothing else, although edits are
\* sorted and applied one after the other to what the others have made of the
\* file, matches are replaced from the last to the first and line ends and
\* fuzzy forms shift every place ("If any edit fails validation, zero edits are
\* applied", docs/tool-reference.md; detectOverlaps, applyPendingEdits,
\* srApplyOne, deriveUpdatedContent).
EditsLand ==
    CASE editCall.kind = "multi" ->
            editPc = "done" => \A f \in DOMAIN editCall.files :
                FoundAsIs(editCall.files, f, editCall.edits) =>
                    /\ Cardinality(DOMAIN EditsOf(editCall.files, f, editCall.edits)) = Cardinality(Here(f, editCall.edits))
                    /\ LandApart(editCall.files[f], editText[f], EditsOf(editCall.files, f, editCall.edits))
      [] editCall.kind = "replace" ->
            editPc = "done" => editText = AtOnce(editCall.text, MatchRegions(editCall.text, editCall.pattern, editCall.by))
      [] OTHER ->
            (\A i \in DOMAIN editCall.chunks : ~editCall.chunks[i].eof /\ (editCall.chunks[i].old # <<>> \/ i = Len(editCall.chunks)))
                => HunksLandAt(TextsOf(SplitLineRecords(editCall.text)), editCall.chunks)

\* "`*** Update File: path` | Applies hunk-based edits using context, removed,
\* and added lines" (docs/tool-reference.md): every hunk lands, also one that
\* only adds lines or stands at the end of the file.
HunksLand ==
    editCall.kind = "patch" => HunksLandAt(TextsOf(SplitLineRecords(editCall.text)), editCall.chunks)
=============================================================================
