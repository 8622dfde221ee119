---------------------------- MODULE JournalViewer ----------------------------
(***************************************************************************)
(* The journal panel (client/src/apps/sysman/journal.ts): its filters, the *)
(* stream it opens for them and the rows it shows. The filters that take   *)
(* effect at once (scope, boot, priority, follow, identifier) are one, a   *)
(* number; the unit and the text are typed, and take effect after a pause. *)
(* What a stream sends is JournalStream's: here, entries that match the    *)
(* filters it was opened with. The note under the rows is left out.        *)
(***************************************************************************)
EXTENDS Naturals, Sequences

CONSTANTS
  Streams,      \* bound: streams opened
  MaxRows,
  Pauses        \* who types pauses before doing anything else

\* What the constants have to be; where the module is instantiated it is assumed.
JournalViewerAssumption == {Streams, MaxRows} \subseteq Nat /\ Pauses \in BOOLEAN

VARIABLES
  active, gone,      \* the panel is the one shown; it is disposed of
  boxes, filters,    \* what is in the boxes, and what the next stream is opened with
  debounce,          \* the box that is to take effect after the pause, or ""
  generation, stream,    \* the stream's number, and it again or 0
  served,            \* per stream, what the server has it open with, or Shut
  arriving,          \* what is under way to the browser
  rows

viewerVars == <<active, gone, boxes, filters, debounce, generation, stream, served, arriving,
                rows>>

Typed == {"unit", "grep"}
Fields == Typed \cup {"others"}
None == 0
Shut == [f \in Fields |-> 9]
Blank == [f \in Fields |-> 0]

Init ==
  /\ active = FALSE /\ gone = FALSE /\ boxes = Blank /\ filters = Blank /\ debounce = ""
  /\ generation = 0 /\ stream = None /\ served = [g \in 1..Streams |-> Shut] /\ arriving = <<>>
  /\ rows = <<>>

Served == {g \in 1..Streams : served[g] # Shut}

\* Mutant of Closing: the server is not told.
ClosingNothing(g) == served

\* close(): of the stream there is.
Closing(g) == IF g = None THEN served ELSE [served EXCEPT ![g] = Shut]

Opens(f) ==
  /\ generation < Streams
  /\ generation' = generation + 1 /\ stream' = generation + 1
  /\ served' = [Closing(stream) EXCEPT ![generation + 1] = f]
  /\ rows' = <<>> /\ UNCHANGED arriving

ClosesStream ==
  /\ served' = Closing(stream) /\ stream' = None
  /\ UNCHANGED <<generation, arriving, rows>>

\* restart().
Restart(f) == filters' = f /\ IF active THEN Opens(f) ELSE ClosesStream

\* A box is typed in. schedule(): one timer for both.
Types(f, v) ==
  /\ ~gone /\ active /\ f \in Typed /\ (debounce # "" => debounce = f \/ ~Pauses)
  /\ boxes' = [boxes EXCEPT ![f] = v] /\ debounce' = f
  /\ UNCHANGED <<active, gone, filters, generation, stream, served, arriving, rows>>

\* The pause is over: the filter is what is in its box by then.
TakesEffect ==
  /\ ~gone /\ debounce # "" /\ debounce' = ""
  /\ Restart([filters EXCEPT ![debounce] = boxes[debounce]])
  /\ UNCHANGED <<active, gone, boxes>>

Chooses(v) ==
  /\ ~gone /\ active
  /\ Restart([filters EXCEPT !["others"] = v]) /\ boxes' = [boxes EXCEPT !["others"] = v]
  /\ UNCHANGED <<active, gone, debounce>>

\* "Only ...", and a link from another panel: the box and the filter at once.
\* "Clear filters" does it for all of them.
Sets(fs, v) ==
  /\ ~gone
  /\ LET f == [g \in Fields |-> IF g \in fs THEN v ELSE filters[g]]
     IN Restart(f) /\ boxes' = [g \in Fields |-> IF g \in fs THEN v ELSE boxes[g]]
  /\ UNCHANGED <<active, gone, debounce>>

Activates ==
  /\ ~gone /\ ~active /\ active' = TRUE /\ Opens(filters)
  /\ UNCHANGED <<gone, boxes, filters, debounce>>

\* deactivate(), and destroy() after it.
Deactivates(forGood) ==
  /\ ~gone /\ (active \/ forGood) /\ (debounce # "" => forGood \/ ~Pauses)
  /\ active' = FALSE /\ gone' = forGood /\ debounce' = "" /\ ClosesStream
  /\ UNCHANGED <<boxes, filters>>

ServerSends(g, what) ==
  /\ g \in Served /\ Len(arriving) < 2
  /\ arriving' = Append(arriving, [of |-> g, what |-> what, filters |-> served[g]])
  /\ served' = IF what = "closed" THEN [served EXCEPT ![g] = Shut] ELSE served
  /\ UNCHANGED <<active, gone, boxes, filters, debounce, generation, stream, rows>>

\* append(): the oldest rows are dropped.
Trimmed(s) == IF Len(s) > MaxRows THEN SubSeq(s, Len(s) + 1 - MaxRows, Len(s)) ELSE s

\* onData and onClose of the stream; of one that was closed nothing is handled.
Arrives ==
  /\ arriving # <<>> /\ arriving' = Tail(arriving)
  /\ LET m == Head(arriving)
     IN /\ rows' = IF m.of = stream /\ m.what = "entries" THEN Trimmed(Append(rows, m.filters))
                   ELSE rows
        /\ stream' = IF m.of = stream /\ m.what = "closed" THEN None ELSE stream
  /\ UNCHANGED <<active, gone, boxes, filters, debounce, generation, served>>

Next ==
  \/ \E f \in Typed, v \in 0..1 : Types(f, v)
  \/ TakesEffect \/ Activates \/ Arrives
  \/ \E v \in 0..1 : Chooses(v)
  \/ Sets({"unit"}, 1) \/ Sets(Fields, 0)
  \/ \E forGood \in BOOLEAN : Deactivates(forGood)
  \/ \E g \in 1..Streams, what \in {"entries", "backlog", "closed"} : ServerSends(g, what)

Spec == Init /\ [][Next]_viewerVars

\* What is shown is what the boxes ask for, once they have taken effect, and no
\* journalctl is left running for a panel that asks for something else or is not
\* watched (journal.ts 22-24, 732).
ShowsWhatIsAsked ==
  /\ (active /\ debounce = "") => filters = boxes /\ \A k \in DOMAIN rows : rows[k] = boxes
  /\ Served \subseteq {stream}
  /\ ~active => Served = {}
=============================================================================
