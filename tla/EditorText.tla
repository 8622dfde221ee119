------------------------------ MODULE EditorText ------------------------------
(***************************************************************************)
(* The text of the editor, its gutter and its find bar                     *)
(* (client/src/apps/editor/index.ts). The gutter is patched on the next    *)
(* animation frame with whatever has changed by then; the matches are kept *)
(* until something makes them stale, and are where a replacement is made.  *)
(* A character is a small letter, its capital, a capital whose small form  *)
(* is two characters (toLowerCase() has such: U+0130), or the end of a     *)
(* line. Files are in module Editor; metrics and scrolling are left out.   *)
(* Bounds: the find bar is used when the lines are numbered, not wrapped   *)
(* and drawn; it is for one of Queries, which have no end of line, and     *)
(* puts in one of Replacements, the longer of which has matches of its     *)
(* own.                                                                    *)
(***************************************************************************)
EXTENDS Integers, Sequences

CONSTANTS
  MaxText,     \* bound: characters of the text
  MaxMatches,  \* MAX_MATCHES
  Rows         \* WRAPPED_GUTTER_LINE_LIMIT: more lines than that have no wrapped gutter

\* What the constants have to be; where the module is instantiated it is assumed.
EditorTextAssumption == MaxText \in Nat /\ MaxMatches \in Nat \ {0} /\ Rows \in Nat

VARIABLES
  text, caret,
  query, caseSensitive,
  matches,     \* `find.matches`: offsets, or Unknown
  index,       \* `find.index` + 1, so that 0 is none
  lineNumbers, wordWrap,
  gutter,      \* the rows of a wrapped gutter, or NoGutter
  due,         \* scheduleLayout() has asked for a frame that draws them
  marked,      \* the offset of the match last selected, until the text or the case changes
  astray       \* something was replaced that is not what was looked for, or not what is marked

findVars == <<query, caseSensitive, matches, index, marked>>
gutterVars == <<lineNumbers, wordWrap, gutter>>
textVars == <<text, caret, findVars, gutterVars, due, astray>>

EndOfLine == "n"
Growing == "I"
Characters == {"a", "A", Growing, EndOfLine}
Queries == {<<>>, <<"a">>, <<"a", "a">>, <<Growing>>}
Replacements == {<<>>, <<"a", "a">>}
Unknown == <<MaxText + 1>>
NoGutter == <<>>
Unmarked == -1

Init ==
  /\ text = <<>> /\ caret = 0 /\ query = <<>> /\ caseSensitive = FALSE
  /\ matches = Unknown /\ index = 0 /\ lineNumbers = TRUE /\ wordWrap \in BOOLEAN
  /\ gutter = NoGutter /\ due = TRUE /\ marked = Unmarked /\ astray = FALSE

-----------------------------------------------------------------------------
(* The gutter. Without wrapping it is a text that says how many lines there *)
(* are, and nothing of it is kept.                                         *)

\* value.split('\n').
Lines(s) ==
  LET upTo[i \in 0 .. Len(s)] ==
        IF i = 0 THEN <<<<>>>>
        ELSE IF s[i] = EndOfLine THEN Append(upTo[i - 1], <<>>)
        ELSE [upTo[i - 1] EXCEPT ![Len(upTo[i - 1])] = Append(@, s[i])]
  IN upTo[Len(s)]

CommonHead(old, new) ==
  LET same == {n \in 0 .. Len(old) : n <= Len(new) /\ SubSeq(old, 1, n) = SubSeq(new, 1, n)}
  IN CHOOSE n \in same : \A m \in same : m <= n

Reverse(s) == [i \in DOMAIN s |-> s[Len(s) + 1 - i]]

\* Mutant of CommonTail: a line is counted at both ends.
TailAsFar(old, new, head) == CommonHead(Reverse(old), Reverse(new))

\* The equal lines at the end, of those that are not equal ones at the start.
CommonTail(old, new, head) ==
  LET rest(s) == SubSeq(s, head + 1, Len(s))
  IN CommonHead(Reverse(rest(old)), Reverse(rest(new)))

\* patchRows(): the rows that differ are taken out, and the new ones put in their place.
Patched(old, new) ==
  LET head == CommonHead(old, new)
      tail == CommonTail(old, new, head)
      removals == IF Len(old) < tail + head THEN 0 ELSE Len(old) - tail - head
  IN SubSeq(old, 1, head) \o SubSeq(new, head + 1, Len(new) - tail)
       \o SubSeq(old, head + removals + 1, Len(old))

Layout == due' = (due \/ wordWrap)

Frame ==
  /\ due /\ due' = FALSE
  /\ LET lines == Lines(text)
     IN gutter' = IF ~lineNumbers \/ ~wordWrap \/ Len(lines) > Rows THEN NoGutter
                  ELSE IF gutter = NoGutter THEN lines ELSE Patched(gutter, lines)
  /\ UNCHANGED <<text, caret, findVars, lineNumbers, wordWrap, astray>>

\* applyPreferences(), of the View menu.
Prefers(numbers, wrap) ==
  /\ <<numbers, wrap>> # <<lineNumbers, wordWrap>> /\ query = <<>> /\ ~caseSensitive
  /\ lineNumbers' = numbers /\ wordWrap' = wrap /\ due' = TRUE
  /\ UNCHANGED <<text, caret, findVars, gutter, astray>>

-----------------------------------------------------------------------------
(* Finding.                                                                *)

LowerOf(c) == IF c = "A" THEN <<"a">> ELSE IF c = Growing THEN <<"i", "dot">> ELSE <<c>>

\* toLowerCase(), of a text or a query.
Folded(s) ==
  LET upTo[i \in 0 .. Len(s)] == IF i = 0 THEN <<>> ELSE upTo[i - 1] \o LowerOf(s[i])
  IN IF caseSensitive THEN s ELSE upTo[Len(s)]

\* value.slice(from, to), which does without what there is not.
Slice(s, from, to) == SubSeq(s, from + 1, IF to < Len(s) THEN to ELSE Len(s))

\* haystack.indexOf(needle, from), of offsets that start at 0; Len(haystack) is none.
IndexOf(haystack, needle, from) ==
  LET found == {i \in from .. Len(haystack) - Len(needle) : Slice(haystack, i, i + Len(needle)) = needle}
  IN IF found = {} THEN Len(haystack) ELSE CHOOSE i \in found : \A j \in found : i <= j

\* scan(): offsets in the folded text, of matches that do not overlap.
Scan(s, q, limit) ==
  LET haystack == Folded(s)
      needle == Folded(q)
      nth[n \in 0 .. limit] ==
        IF n = 0 \/ q = <<>> THEN <<>>
        ELSE LET before == nth[n - 1]
                 from == IF before = <<>> THEN 0 ELSE before[Len(before)] + Len(needle)
                 at == IF Len(before) < n - 1 THEN Len(haystack) ELSE IndexOf(haystack, needle, from)
             IN IF at = Len(haystack) THEN before ELSE Append(before, at)
  IN nth[limit]

Finding == lineNumbers /\ ~wordWrap /\ ~due
Matches == IF matches = Unknown THEN Scan(text, query, MaxMatches) ELSE matches

Within(s, at) == IF at < Len(s) THEN at ELSE Len(s)

\* selectMatch(), of the matches `all` of a text s, counted from 0 and around; the
\* selection ends with the text.
SelectMatch(s, all, k) ==
  LET which == (k + Len(all)) % Len(all)
  IN index' = which + 1 /\ marked' = all[which + 1] /\ caret' = Within(s, all[which + 1])

\* step(): from the caret, when no match is selected.
Steps(direction, all) ==
  LET ahead == {k \in 1 .. Len(all) : all[k] >= caret}
      forward == IF ahead = {} THEN 0 ELSE CHOOSE k \in ahead : \A j \in ahead : k <= j
  IN IF index > 0 THEN SelectMatch(text, all, index - 1 + direction)
     ELSE IF direction = 1 THEN SelectMatch(text, all, IF forward = 0 THEN 0 ELSE forward - 1)
     ELSE SelectMatch(text, all, IF forward = 0 THEN Len(all) - 1 ELSE forward - 2 + Len(all))

Step(direction) ==
  /\ Finding
  /\ LET all == Matches
     IN /\ matches' = all
        /\ IF all = <<>> THEN UNCHANGED <<index, caret, marked>> ELSE Steps(direction, all)
  /\ Layout
  /\ UNCHANGED <<text, query, caseSensitive, gutterVars, astray>>

\* Mutant of Anew: the number of the match survives the query.
StillCounted == UNCHANGED index

\* Another query has no match selected.
Anew == index' = 0

\* The find field: the first match from the caret on is selected.
Seeks(q) ==
  /\ q # query /\ Finding
  /\ query' = q /\ UNCHANGED <<text, caseSensitive, gutterVars, astray>>
  /\ LET all == Scan(text, q, MaxMatches)
         ahead == {k \in 1 .. Len(all) : all[k] >= caret}
     IN /\ matches' = all
        /\ IF all = <<>> THEN Anew /\ UNCHANGED <<caret, marked>>
           ELSE SelectMatch(text, all, IF ahead = {} THEN 0
                                       ELSE (CHOOSE k \in ahead : \A j \in ahead : k <= j) - 1)
  /\ Layout

\* openFind(), over a selection from the caret on, which becomes the query.
OpensFind(to) ==
  LET selection == Slice(text, caret, to)
  IN /\ Finding /\ selection \in Queries
     /\ IF selection = <<>> THEN UNCHANGED findVars
        ELSE /\ query' = selection /\ matches' = Unknown /\ Anew
             /\ UNCHANGED <<caseSensitive, marked>>
     /\ Layout
     /\ UNCHANGED <<text, caret, gutterVars, astray>>

\* The matches are counted again, and which was selected is not.
MatchesCase ==
  /\ Finding
  /\ caseSensitive' = ~caseSensitive /\ matches' = Unknown /\ marked' = Unmarked
  /\ UNCHANGED <<text, caret, query, index, gutterVars, due, astray>>

\* Mutant of Stale: the matches are kept when the text is another.
NeverStale == UNCHANGED matches

\* onInput() and setContent().
Stale == matches' = Unknown

Edits(s, at) ==
  /\ s # text /\ Len(s) <= MaxText
  /\ text' = s /\ caret' = at /\ Stale /\ Layout /\ marked' = Unmarked
  /\ UNCHANGED <<query, caseSensitive, index, gutterVars, astray>>

Clicks(at) ==
  /\ at # caret /\ caret' = at /\ Layout
  /\ UNCHANGED <<text, findVars, gutterVars, astray>>

\* replaceRange().
Spliced(s, at, replacement) == Slice(s, 0, at) \o replacement \o Slice(s, at + Len(query), Len(s))

IsMatch(s, at) == Folded(Slice(s, at, at + Len(query))) = Folded(query)
AsLong(s) == Len(Folded(s)) = Len(s)

\* replaceCurrent(): the match with the number of the one last selected, and on to the
\* next after the replacement; or, with none selected, to the first from the caret on.
ReplaceCurrent(replacement) ==
  /\ index > 0
  /\ LET found == Matches
         at == found[index]
         now == Spliced(text, at, replacement)
         IsAhead(all, k) == all[k] >= at + Len(replacement)
     IN /\ index <= Len(found) /\ Len(now) <= MaxText
        /\ text' = now
        /\ astray' = \/ astray \/ marked \notin {Unmarked, at}
                     \/ /\ AsLong(Slice(text, 0, at + Len(query))) /\ AsLong(query)
                        /\ ~IsMatch(text, at)
        /\ LET all == Scan(now, query, MaxMatches)
               ahead == {k \in 1 .. Len(all) : IsAhead(all, k)}
           IN /\ matches' = all /\ Layout
              /\ IF ahead # {} THEN SelectMatch(now, all, (CHOOSE k \in ahead : \A j \in ahead : k <= j) - 1)
                 ELSE IF all # <<>> THEN SelectMatch(now, all, IF index < Len(all) THEN index - 1 ELSE Len(all) - 1)
                 ELSE index' = 0 /\ marked' = Unmarked /\ caret' = Within(text, at) + Len(replacement)
  /\ UNCHANGED <<query, caseSensitive, gutterVars>>

\* Mutant of AllOf: only the matches that can be stepped through.
TheNavigable == Scan(text, query, MaxMatches)

\* "all" has to mean all (editor 627-628); the text may grow as it is folded.
AllOf == Scan(text, query, 2 * MaxText)

\* The text with every match replaced, read from the left.
Rewritten(replacement) ==
  LET from[i \in 0 .. Len(text)] ==
        IF i = Len(text) THEN <<>>
        ELSE IF i + Len(query) <= Len(text) /\ IsMatch(text, i) THEN replacement \o from[i + Len(query)]
        ELSE <<text[i + 1]>> \o from[i + 1]
  IN from[0]

\* replaceAll(), through the text once.
ReplaceEvery(replacement) ==
  /\ query # <<>>
  /\ LET all == AllOf
         kept[k \in 0 .. Len(all)] ==
           IF k = 0 THEN <<>>
           ELSE kept[k - 1] \o Slice(text, IF k = 1 THEN 0 ELSE all[k - 1] + Len(query), all[k])
                  \o replacement
         out == kept[Len(all)] \o Slice(text, all[Len(all)] + Len(query), Len(text))
     IN /\ all # <<>> /\ Len(out) <= MaxText
        /\ text' = out /\ caret' = Len(out)
        /\ astray' = (astray \/ (AsLong(text) /\ AsLong(query) /\ out # Rewritten(replacement)))
  /\ matches' = Unknown /\ index' = 0 /\ marked' = Unmarked /\ Layout
  /\ UNCHANGED <<query, caseSensitive, gutterVars>>

Next ==
  \/ \E c \in Characters :
       Edits(Append(SubSeq(text, 1, caret), c) \o SubSeq(text, caret + 1, Len(text)), caret + 1)
  \/ caret > 0 /\ Edits(SubSeq(text, 1, caret - 1) \o SubSeq(text, caret + 1, Len(text)), caret - 1)
  \/ \E q \in Queries : Seeks(q)
  \/ \E replacement \in Replacements : ReplaceCurrent(replacement) \/ ReplaceEvery(replacement)
  \/ \E direction \in {1, -1} : Step(direction)
  \/ \E at \in 0 .. Len(text) : Clicks(at)
  \/ \E to \in caret .. Len(text) : OpensFind(to)
  \/ \E numbers, wrap \in BOOLEAN : Prefers(numbers, wrap)
  \/ MatchesCase \/ Frame

Spec == Init /\ [][Next]_textVars

\* Once the frame is drawn, the gutter has a row for every line, of the line's own text.
GutterIsTheText ==
  ~due => gutter \in {NoGutter, Lines(text)}

\* Whatever was typed, loaded or chosen since the matches were found: Replace replaces the
\* match it last selected, unless the text or the case has changed since; and in a text
\* that is as long in small letters, which toLowerCase() does not promise, it replaces
\* what the query is of, and Replace all is of all of it.
ReplacesWhatIsFound == ~astray

TextIsWhatItSeems == GutterIsTheText /\ ReplacesWhatIsFound
=============================================================================
