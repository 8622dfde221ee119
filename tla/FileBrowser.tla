----------------------------- MODULE FileBrowser -----------------------------
(***************************************************************************)
(* The file manager (client/src/apps/files/index.ts, the list, mkdir,      *)
(* rename and remove of server/src/services/fs.ts): which directory it     *)
(* shows, what is selected, and where an operation that was asked about in *)
(* a dialog is done. Others change the directories meanwhile. Dialogs are  *)
(* of one page and one at a time, an operation is done at once, and the    *)
(* names they ask for have no directory in them.                           *)
(***************************************************************************)
EXTENDS Naturals, Sequences

CONSTANTS
  Dirs,
  EntryNames,
  InHaste,      \* a dialog is opened, or another directory chosen, while one is loading
  MaxLists      \* bound: listings

\* What the constants have to be; where the module is instantiated it is assumed.
FileBrowserAssumption == InHaste \in BOOLEAN /\ MaxLists \in Nat

VARIABLES
  entries,      \* per directory and name, what is there, or Nothing
  current,      \* the listing on the screen
  selected,     \* {} or {an entry's place}
  lists,        \* listings asked for and not yet shown, in the order of asking
  listsLeft,
  dialog,       \* what the person is being asked, or NoDialog
  lastAsked,    \* the directory asked for last
  strayed       \* an operation was done elsewhere than its dialog said, or to more

browserVars == <<entries, current, selected, lists, listsLeft, dialog, lastAsked, strayed>>

At(d, n) == [dir |-> d, name |-> n]
NoDialog == [kind |-> "none"]
Nothing == "nothing"
Things == {"one", "another"}
In(d) == {n \in EntryNames : entries[d][n] # Nothing}
Places == [dir : Dirs, name : EntryNames]
\* A sequence without its i-th member.
RemoveAt(s, i) == SubSeq(s, 1, i - 1) \o SubSeq(s, i + 1, Len(s))

NotLoading(d) == \A i \in DOMAIN lists : lists[i].dir = d

Init ==
  /\ entries \in [Dirs -> [EntryNames -> Things \cup {Nothing}]]
  /\ \E d \in Dirs : current = [dir |-> d, names |-> In(d)] /\ lastAsked = d
  /\ selected = {} /\ lists = <<>> /\ listsLeft = MaxLists /\ dialog = NoDialog /\ strayed = FALSE

Asks(d) ==
  /\ listsLeft > 0 /\ listsLeft' = listsLeft - 1
  /\ lists' = Append(lists, [dir |-> d, names |-> {}, read |-> FALSE])
  /\ lastAsked' = d

\* navigate(): by a row, the path, a button or, for the same directory, the focus.
Navigates(d) ==
  /\ dialog = NoDialog /\ (NotLoading(d) \/ InHaste)
  /\ Asks(d)
  /\ UNCHANGED <<entries, current, selected, dialog, strayed>>

\* readdir, in any order.
Reads(i) ==
  /\ i \in DOMAIN lists /\ ~lists[i].read
  /\ lists' = [lists EXCEPT ![i] = [@ EXCEPT !.read = TRUE, !.names = In(lists[i].dir)]]
  /\ UNCHANGED <<entries, current, selected, listsLeft, dialog, lastAsked, strayed>>

\* Mutant of Deselected: what was selected in the last listing stays so.
StillSelected == UNCHANGED selected

Deselected == selected' = {}

\* The rest of navigate(): the selection goes.
Shows(i) ==
  /\ i \in DOMAIN lists /\ lists[i].read
  /\ current' = [dir |-> lists[i].dir, names |-> lists[i].names]
  /\ Deselected /\ lists' = RemoveAt(lists, i)
  /\ UNCHANGED <<entries, listsLeft, dialog, lastAsked, strayed>>

\* A directory that cannot be read leaves the last one on the screen.
CannotShow(i) ==
  /\ i \in DOMAIN lists /\ ~lists[i].read
  /\ lists' = RemoveAt(lists, i)
  /\ lastAsked' = IF \E j \in DOMAIN lists \ {i} : lists[j].dir = lastAsked THEN lastAsked ELSE current.dir
  /\ UNCHANGED <<entries, current, selected, listsLeft, dialog, strayed>>

Selects(n) ==
  /\ dialog = NoDialog /\ n \in current.names /\ selected' = {At(current.dir, n)}
  /\ UNCHANGED <<entries, current, lists, listsLeft, dialog, lastAsked, strayed>>

\* The dialogs name the directory on the screen, or the entry.
Prompts(kind) ==
  /\ dialog = NoDialog /\ (NotLoading(current.dir) \/ InHaste)
  /\ dialog' \in IF kind = "mkdir" THEN {[kind |-> kind, at |-> At(current.dir, "")]}
                 ELSE {[kind |-> kind, at |-> e] : e \in selected}
  /\ UNCHANGED <<entries, current, selected, lists, listsLeft, lastAsked, strayed>>

\* Another program, or another window, makes what has a name, or removes it.
OthersChange(d, n, thing) ==
  /\ thing # entries[d][n] /\ Nothing \in {thing, entries[d][n]}
  /\ entries' = [entries EXCEPT ![d] = [@ EXCEPT ![n] = thing]]
  /\ UNCHANGED <<current, selected, lists, listsLeft, dialog, lastAsked, strayed>>

Put(at, thing, all) == [all EXCEPT ![at.dir] = [@ EXCEPT ![at.name] = thing]]

\* Mutant of Made: a folder takes the place of what has its name.
MadeAnyway(at) == Put(at, "one", entries)

\* mkdir, which leaves what is there alone.
Made(at) == IF entries[at.dir][at.name] = Nothing THEN Put(at, "one", entries) ELSE entries

\* rename, which replaces what has the new name and asks nobody.
Moved(from, to) == Put(to, entries[from.dir][from.name], Put(from, Nothing, entries))

\* run(): the new name goes into the directory that is on the screen by now.
Does(n) ==
  LET to == At(current.dir, n)
      touched == {at \in Places : entries'[at.dir][at.name] # entries[at.dir][at.name]}
      named == {dialog.at, At(dialog.at.dir, n)}
  IN /\ dialog # NoDialog /\ dialog' = NoDialog
     /\ dialog.kind # "mkdir" => entries[dialog.at.dir][dialog.at.name] # Nothing
     /\ dialog.kind = "rename" => n # dialog.at.name
     /\ entries' = CASE dialog.kind = "remove" -> Put(dialog.at, Nothing, entries)
                     [] dialog.kind = "mkdir" -> Made(to)
                     [] OTHER -> Moved(dialog.at, to)
     /\ strayed' = \/ strayed
                   \/ \E at \in touched :
                        \/ at \notin named
                        \/ dialog.kind = "mkdir" /\ entries[at.dir][at.name] # Nothing
                        \/ dialog.kind = "remove" /\ at # dialog.at
     /\ IF listsLeft > 0 THEN Asks(current.dir) ELSE UNCHANGED <<lists, listsLeft, lastAsked>>
     /\ UNCHANGED <<current, selected>>

\* No name, or the same; or an operation that fails, which changes nothing.
Cancels ==
  /\ dialog # NoDialog /\ dialog' = NoDialog
  /\ UNCHANGED <<entries, current, selected, lists, listsLeft, lastAsked, strayed>>

Next ==
  \/ \E d \in Dirs : \/ Navigates(d)
                   \/ \E n \in EntryNames, thing \in Things \cup {Nothing} : OthersChange(d, n, thing)
  \/ \E i \in 1..MaxLists : Reads(i) \/ Shows(i) \/ CannotShow(i)
  \/ \E n \in EntryNames : Selects(n) \/ Does(n)
  \/ \E kind \in {"mkdir", "rename", "remove"} : Prompts(kind)
  \/ Cancels

Spec == Init /\ [][Next]_browserVars

\* An operation is done where its dialog said (index.ts 349-356 "Create a folder in"), and
\* to nothing but the entry the dialog named and what had the name a renamed one was given,
\* which is replaced unasked; a new folder replaces nothing. The selection is of the
\* directory on the screen; and once nothing is loading that is the one asked for last.
ActsWhereItSays ==
  /\ ~strayed
  /\ \A e \in selected : e.dir = current.dir /\ e.name \in current.names
  /\ lists = <<>> => current.dir = lastAsked
=============================================================================
