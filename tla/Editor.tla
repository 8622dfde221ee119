------------------------------- MODULE Editor -------------------------------
(***************************************************************************)
(* The text editor and the files under it (client/src/apps/editor/index.ts,*)
(* the read, write and stat of server/src/services/fs.ts): loading, saving,*)
(* saving under another name, noticing that a file changed on disk, and    *)
(* the draft a reload carries over. A content is a number: 0 is the empty  *)
(* buffer, and what is typed or written by others is a new number, or what *)
(* it was before (undo). Finding, replacing and indenting are typing. The  *)
(* gutter and the caret are left out, and so are binary files.             *)
(***************************************************************************)
EXTENDS Naturals, FiniteSets

CONSTANTS
  Files,
  NoFile,
  InHaste,      \* the person types while a file is being loaded, saves while one is
                \* being loaded, saved or looked at, or turns to another while any
                \* answer is due
  SlipsIn,      \* others write between a read or a write and the question for its time
                \* (index.ts 749 and 827)
  Unreadable,   \* a draft's file cannot be read, and the draft is dropped (1119-1131)
  MaxTexts      \* bound: contents

\* What the constants have to be; where the module is instantiated it is assumed.
EditorAssumption ==
  NoFile \notin Files /\ {InHaste, SlipsIn, Unreadable} \subseteq BOOLEAN /\ MaxTexts \in Nat

VARIABLES
  disk,         \* per file, its text and mtime; mtime 0 when there is none
  path, buffer, savedContent, readOnly, knownMtime,
  draft,        \* what is to be put on top of the file being loaded; 0 for nothing
  asked,        \* calls in flight
  texts,        \* texts there have been
  mine,         \* the text last typed and not given up, or 0
  told,         \* the person was told, of the text as it is now, that saving overwrites others'
  written,      \* texts that have been on disk
  checked       \* nothing has changed the files since they were last looked at

fileVars == <<disk, written>>
bufferVars == <<path, buffer, savedContent, readOnly, draft>>
editorVars == <<fileVars, bufferVars, knownMtime, asked, texts, mine, told, checked>>

Dirty == buffer # savedContent
Nothing == [text |-> 0, mtime |-> 0]
Call(kind, f, text) == [kind |-> kind, file |-> f, text |-> text, answer |-> Nothing, done |-> FALSE, ok |-> TRUE]
Quiet == asked = {}

Init ==
  /\ disk \in [Files -> {Nothing, [text |-> 1, mtime |-> 1]}]
  /\ path = NoFile /\ buffer = 0 /\ savedContent = 0 /\ readOnly = FALSE /\ knownMtime = 0
  /\ draft = 0 /\ asked = {} /\ texts = 1 /\ mine = 0 /\ told = FALSE
  /\ written = {1} /\ checked = FALSE

-----------------------------------------------------------------------------
(* The person, and others.                                                 *)

\* A call of one of these kinds is in flight.
Asking(kinds) == \E c \in asked : c.kind \in kinds

Idle == InHaste \/ Quiet

\* What was read or written is there, its time has still to be asked for.
BeforeItsTime == \E c \in asked : IF c.kind = "mtime" THEN ~c.done ELSE c.done /\ c.kind # "check"

Types ==
  /\ InHaste \/ ~Asking({"load"})
  /\ ~readOnly /\ texts < MaxTexts
  /\ texts' = texts + 1 /\ buffer' = texts + 1 /\ mine' = texts + 1
  /\ UNCHANGED <<fileVars, path, savedContent, readOnly, draft, knownMtime, asked, told, checked>>

\* The person takes back what was typed.
Undoes ==
  /\ InHaste \/ ~Asking({"load"})
  /\ Dirty /\ ~readOnly
  /\ buffer' = savedContent /\ mine' = 0
  /\ UNCHANGED <<fileVars, path, savedContent, readOnly, draft, knownMtime, asked, texts, told, checked>>

OthersWrite(f) ==
  /\ SlipsIn \/ ~BeforeItsTime
  /\ texts < MaxTexts
  /\ texts' = texts + 1
  /\ disk' = [disk EXCEPT ![f] = [text |-> texts + 1, mtime |-> texts + 1]]
  /\ written' = written \cup {texts + 1} /\ checked' = FALSE
  /\ UNCHANGED <<bufferVars, knownMtime, asked, mine, told>>

\* confirmDiscard(): a dirty buffer is thrown away only when the person says so.
Discards == mine' = IF Dirty THEN 0 ELSE mine

Load(f) == asked' = asked \cup {Call("load", f, 0)}

\* openPrompt(), and revert() for the file that is open.
Opens(f) ==
  /\ Idle /\ Discards /\ Load(f)
  /\ UNCHANGED <<fileVars, bufferVars, knownMtime, texts, told, checked>>

NewFile ==
  /\ Idle /\ Discards
  /\ path' = NoFile /\ buffer' = 0 /\ savedContent' = 0 /\ readOnly' = FALSE /\ knownMtime' = 0
  /\ told' = FALSE
  /\ UNCHANGED <<fileVars, draft, asked, texts, checked>>

\* save() of a named buffer.
Save ==
  /\ InHaste \/ ~Asking({"load", "save", "check"})
  /\ ~readOnly /\ path # NoFile
  /\ asked' = asked \cup {Call("save", path, buffer)}
  /\ UNCHANGED <<fileVars, bufferVars, knownMtime, texts, mine, told, checked>>

\* saveAs(), after its questions: the buffer takes the name before it is written.
SaveAs(f) ==
  /\ Idle
  /\ path' = f /\ knownMtime' = 0 /\ readOnly' = FALSE
  /\ asked' = asked \cup {Call("save", f, buffer)}
  /\ UNCHANGED <<fileVars, buffer, savedContent, draft, texts, mine, told, checked>>

\* The window is focused, or the connection is back: checkExternalChange().
Looks ==
  /\ path # NoFile /\ knownMtime # 0 /\ ~readOnly /\ (InHaste \/ ~Asking({"load", "save"}))
  /\ asked' = asked \cup {Call("check", path, 0)}
  /\ UNCHANGED <<fileVars, bufferVars, knownMtime, texts, mine, told, checked>>

\* saveState() and a new page: a draft is kept of a buffer that is dirty, and put on
\* top of its file once that is loaded, or shown where it has none.
Reload ==
  /\ InHaste \/ ~Asking({"load", "save"})
  /\ LET kept == IF Dirty THEN buffer ELSE 0
     IN IF path = NoFile THEN asked' = {} /\ draft' = 0 /\ buffer' = kept
        ELSE asked' = {Call("load", path, 0)} /\ draft' = kept /\ buffer' = 0
  /\ savedContent' = 0 /\ readOnly' = FALSE /\ knownMtime' = 0 /\ told' = FALSE
  /\ UNCHANGED <<fileVars, path, texts, mine, checked>>

-----------------------------------------------------------------------------
(* The server does what it is asked, in any order.                         *)

Serves(c) ==
  /\ c \in asked /\ ~c.done
  /\ IF c.kind = "save"
     THEN /\ disk' = [disk EXCEPT ![c.file] = [text |-> c.text, mtime |-> texts + 1]]
          /\ texts < MaxTexts /\ texts' = texts + 1
          /\ written' = written \cup {c.text}
          /\ asked' = (asked \ {c}) \cup {[c EXCEPT !.done = TRUE]}
     ELSE /\ asked' = (asked \ {c}) \cup {[c EXCEPT !.done = TRUE, !.answer = disk[c.file]]}
          /\ UNCHANGED <<fileVars, texts>>
  /\ UNCHANGED <<bufferVars, knownMtime, mine, told, checked>>

\* It cannot: no permission, no connection.
Refuses(c) ==
  /\ c \in asked /\ ~c.done
  /\ draft # 0 => Unreadable
  /\ asked' = (asked \ {c}) \cup {[c EXCEPT !.done = TRUE, !.ok = FALSE]}
  /\ UNCHANGED <<fileVars, bufferVars, knownMtime, texts, mine, told, checked>>

-----------------------------------------------------------------------------
(* The answers.                                                            *)

Answered(kind, c) == c \in asked /\ c.done /\ c.kind = kind
UpToDate(c) == c.file = path /\ c.answer = disk[path]
Then(c, more) == asked' = (asked \ {c}) \cup more

\* setContent, and the draft of the last page on top of it.
Shows(text) ==
  /\ savedContent' = text
  /\ buffer' = IF draft # 0 THEN draft ELSE text
  /\ draft' = 0

Loaded(c) ==
  /\ Answered("load", c) /\ path' = c.file
  /\ IF ~c.ok
     THEN /\ readOnly' = TRUE /\ buffer' = 0 /\ savedContent' = 0 /\ draft' = 0
          /\ Then(c, {}) /\ UNCHANGED knownMtime
     ELSE /\ readOnly' = FALSE /\ Shows(c.answer.text)
          /\ IF c.answer = Nothing THEN knownMtime' = 0 /\ Then(c, {})
             ELSE UNCHANGED knownMtime /\ Then(c, {Call("mtime", c.file, 0)})
  /\ told' = FALSE
  /\ UNCHANGED <<fileVars, texts, mine, checked>>

Saved(c) ==
  /\ Answered("save", c)
  /\ IF c.ok THEN /\ savedContent' = c.text /\ told' = FALSE
                  /\ Then(c, {Call("mtime", f, 0) : f \in {path} \ {NoFile}})
     ELSE UNCHANGED <<savedContent, told>> /\ Then(c, {})
  /\ UNCHANGED <<fileVars, path, buffer, readOnly, draft, knownMtime, texts, mine, checked>>

\* refreshMtime().
MtimeKnown(c) ==
  /\ Answered("mtime", c) /\ Then(c, {})
  /\ knownMtime' = IF c.answer.mtime = 0 THEN knownMtime ELSE c.answer.mtime
  /\ checked' = (c.ok /\ UpToDate(c))
  /\ UNCHANGED <<fileVars, bufferVars, texts, mine, told>>

\* Mutant of ReloadsOver: what is in the window is not looked at.
AlwaysReloads == TRUE

ReloadsOver == ~Dirty

\* The rest of checkExternalChange(): it reloads, or warns. That the banner of a lost
\* connection takes the place of the warning (1018-1022) is left out.
Checked(c) ==
  /\ Answered("check", c) /\ checked' = (c.ok /\ UpToDate(c))
  /\ IF c.answer.mtime \in {0, knownMtime} THEN Then(c, {}) /\ UNCHANGED <<knownMtime, told>>
     ELSE /\ knownMtime' = c.answer.mtime
          /\ IF ReloadsOver THEN Then(c, {Call("load", path, 0)}) /\ UNCHANGED told
             ELSE Then(c, {}) /\ told' = TRUE
  /\ UNCHANGED <<fileVars, bufferVars, texts, mine>>

Next ==
  \/ Types \/ Undoes \/ NewFile \/ Save \/ Looks \/ Reload
  \/ \E f \in Files : OthersWrite(f) \/ Opens(f) \/ SaveAs(f)
  \/ \E c \in asked : Serves(c) \/ Refuses(c) \/ Loaded(c) \/ Saved(c) \/ MtimeKnown(c) \/ Checked(c)

Spec == Init /\ [][Next]_editorVars

-----------------------------------------------------------------------------
\* What the person typed last and has not thrown away is in the window or was
\* written: neither a reload of the page, a file that changed on disk nor a save
\* that fails loses it (index.ts 1120-1131, 1163-1170).
KeepsWhatWasTyped == mine = 0 \/ mine \in {buffer, draft} \cup written

\* Once it has looked, and has nothing under way, what it takes for the file's text is
\* what is on disk, or the person was told that saving will overwrite what others wrote
\* (786-812). A save made without a look overwrites it untold (814-829).
UnseenIsAnnounced ==
  Quiet /\ checked /\ knownMtime # 0 /\ ~readOnly => told \/ savedContent = disk[path].text

EditorIsHonest == KeepsWhatWasTyped /\ UnseenIsAnnounced
=============================================================================
