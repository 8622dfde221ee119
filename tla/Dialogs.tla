------------------------------- MODULE Dialogs -------------------------------
(***************************************************************************)
(* The dialogs of the page (client/src/ui/dialog.ts): what the keys, the   *)
(* buttons and the backdrop do to each dialog that is open. Every dialog   *)
(* listens to the keys of the whole window. The default action of Enter on *)
(* a focused button is to press it, unless a listener prevents it.         *)
(***************************************************************************)
EXTENDS Naturals, Sequences, FiniteSets

CONSTANT MaxDialogs   \* bound: dialogs shown

\* What the constants have to be; where the module is instantiated it is assumed.
DialogsAssumption == MaxDialogs \in Nat

VARIABLES
  dialogs,      \* all that were shown, in order
  focusAt,      \* what has the focus: a dialog's part, or nothing of a dialog
  moved         \* it has been moved since a dialog was last shown

dialogVars == <<dialogs, focusAt, moved>>

Kinds == [danger : BOOLEAN, field : BOOLEAN, cancelable : BOOLEAN]
Elsewhere == <<0, "page">>
OpenDialogs == {i \in DOMAIN dialogs : dialogs[i].answer = "open"}

Init == dialogs = <<>> /\ focusAt = Elsewhere /\ moved = FALSE

\* Mutant of InitialFocus: the dangerous button has it.
ConfirmFirst(k) == IF k.field THEN "field" ELSE "confirm"

\* The safe button of a destructive dialog is focused.
InitialFocus(k) == IF k.field THEN "field" ELSE IF k.danger /\ k.cancelable THEN "cancel" ELSE "confirm"

\* showDialog(), over those that are open.
Shows(k) ==
  /\ Len(dialogs) < MaxDialogs
  /\ dialogs' = Append(dialogs, [kind |-> k, answer |-> "open", by |-> "none"])
  /\ focusAt' = <<Len(dialogs) + 1, InitialFocus(k)>>
  /\ moved' = FALSE

\* finish(); the focus leaves with the dialog that had it.
Finish(answerOf, by) ==
  /\ dialogs' = [i \in DOMAIN dialogs |->
       IF i \in DOMAIN answerOf THEN [dialogs[i] EXCEPT !.answer = answerOf[i], !.by = by] ELSE dialogs[i]]
  /\ focusAt' = IF focusAt[1] \in DOMAIN answerOf THEN Elsewhere ELSE focusAt
  /\ UNCHANGED moved

\* Enter, to every dialog: each one whose cancel button is not the target confirms.
\* Where none does, the focused cancel button is pressed.
Enter ==
  LET confirmed == {i \in OpenDialogs : focusAt # <<i, "cancel">>}
  IN /\ OpenDialogs # {}
     /\ IF confirmed # {} THEN Finish([i \in confirmed |-> "confirmed"], "enter")
        ELSE Finish([i \in OpenDialogs |-> "cancelled"], "enter")

Escape == OpenDialogs # {} /\ Finish([i \in OpenDialogs |-> "cancelled"], "escape")

\* A button or the backdrop of the dialog on top.
Top == CHOOSE i \in OpenDialogs : \A j \in OpenDialogs : j <= i

Presses(answer) ==
  /\ OpenDialogs # {}
  /\ Finish([i \in {Top} |-> answer], "pointer")

\* What can have the focus in a dialog.
Parts(i) == {<<i, "confirm">>} \cup
  (IF dialogs[i].kind.cancelable THEN {<<i, "cancel">>} ELSE {}) \cup
  (IF dialogs[i].kind.field THEN {<<i, "field">>} ELSE {})

\* By Tab, which nothing keeps inside, by pressing the text of a dialog, or because
\* something else on the page takes it.
FocusMoves ==
  /\ OpenDialogs # {}
  /\ focusAt' \in {Elsewhere} \cup UNION {Parts(i) : i \in OpenDialogs}
  /\ moved' = TRUE /\ UNCHANGED dialogs

Next ==
  \/ \E k \in Kinds : Shows(k)
  \/ Enter \/ Escape \/ FocusMoves
  \/ \E answer \in {"confirmed", "cancelled"} : Presses(answer)

Spec == Init /\ [][Next]_dialogVars

\* A dialog with a dangerous button and one to cancel, and nothing to fill in.
IsDangerous(k) == k.danger /\ k.cancelable /\ ~k.field

\* Enter, out of habit or still held from whatever opened it, does not confirm the dangerous
\* dialog that was shown last, whatever other dialogs are open, as long as the focus stays
\* where the dialog put it (dialog.ts 97-101). Of a dialog another was shown over it is not so.
EnterCancelsDanger ==
  [][LET last == Len(dialogs) IN
       /\ last \in OpenDialogs /\ IsDangerous(dialogs[last].kind)
       /\ dialogs'[last].by = "enter" /\ dialogs'[last].answer = "confirmed"
       => moved]_dialogVars
=============================================================================
