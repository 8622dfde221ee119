------------------------------ MODULE Clipboard ------------------------------
(***************************************************************************)
(* The desktop's clipboard (client/src/core/clipboard.ts). What is copied  *)
(* in the desktop is kept, and the machine's clipboard is written where    *)
(* the browser allows it; what the browser shows of the machine's is kept  *)
(* too, and of the two the later one is pasted. The terminal (450-520),    *)
(* the editor (930-956) and the window of an application (836-857,         *)
(* 1222-1281) copy and paste through it.                                   *)
(***************************************************************************)
EXTENDS Naturals

CONSTANTS
  Texts,
  NoText,
  Unseen,        \* a copy is made in the desktop while the machine's clipboard holds
                 \* another the page has not seen
  Overlapping,   \* ... or while an earlier copy is still being written
  MaxCopies      \* bound

\* What the constants have to be; where the module is instantiated it is assumed.
ClipboardAssumption ==
  NoText \notin Texts /\ {Unseen, Overlapping} \subseteq BOOLEAN /\ MaxCopies \in Nat

VARIABLES
  shares,        \* what the browser allows: "all", "writing" with execCommand, "nothing"
  machine,       \* the machine's clipboard
  local, system, \* each a text and when it was seen
  seenSystem, clock,
  writing,       \* texts handed to writeText and not yet settled
  expectedPaste, \* the terminal waits for a paste event
  reading,       \* a read() is waiting for readText
  newest,        \* the last copy anyone made: its text, and where
  pasted,        \* what was pasted last
  copies

clipVars == <<shares, machine, local, system, seenSystem, clock, writing, expectedPaste, reading,
              newest, pasted, copies>>

Entry(text, at) == [text |-> text, at |-> at]

Init ==
  /\ shares \in {"all", "writing", "nothing"}
  /\ machine \in Texts \cup {NoText}
  /\ local = Entry(NoText, 0) /\ system = Entry(NoText, 0)
  /\ seenSystem = FALSE /\ clock = 0
  /\ writing = {} /\ expectedPaste = FALSE /\ reading = FALSE
  /\ newest = [text |-> machine, where |-> "before"]
  /\ pasted = [got |-> NoText, fair |-> FALSE, meant |-> NoText]
  /\ copies = 0

-----------------------------------------------------------------------------
(* The two entries.                                                        *)

\* remember(): the desktop's own copy is always the latest.
Remember(text) ==
  /\ clock' = clock + 1 /\ local' = Entry(text, clock + 1)
  /\ UNCHANGED <<system, seenSystem>>

\* Mutant of SeenAt: what was there first counts as new.
SeenNow == clock + 1

\* The first text seen was there before the page looked.
SeenAt == IF seenSystem THEN clock + 1 ELSE 0

\* Mutant of IsNews: what the browser shows is always what was copied last.
AlwaysNews(text) == text # NoText

\* Only a change is news: the machine's clipboard is shown over and over.
IsNews(text) == text # NoText /\ text # system.text

\* observe().
Observe(text) ==
  IF IsNews(text)
    THEN /\ system' = Entry(text, SeenAt) /\ seenSystem' = TRUE
         /\ clock' = IF seenSystem THEN clock + 1 ELSE clock
         /\ UNCHANGED local
    ELSE UNCHANGED <<local, system, seenSystem, clock>>

\* resolve().
Latest(mine, theirs) ==
  LET other(a, b) == IF a.text = NoText THEN b.text ELSE a.text
  IN IF mine.at >= theirs.at THEN other(mine, theirs) ELSE other(theirs, mine)

-----------------------------------------------------------------------------
(* Copies.                                                                 *)

Copied(text, where) ==
  /\ copies < MaxCopies /\ copies' = copies + 1
  /\ newest' = [text |-> text, where |-> where]

SeenByThePage == machine = NoText \/ ~seenSystem \/ machine = system.text

\* write(): the desktop's copy first, then the machine's.
Write(text) ==
  /\ ~Unseen => SeenByThePage
  /\ ~Overlapping => writing = {}
  /\ Copied(text, "inside") /\ Remember(text)
  /\ writing' = writing \cup {text}
  /\ UNCHANGED <<shares, machine, expectedPaste, reading, pasted>>

\* writeText is settled, or refused and execCopy tried.
WriteIsSettled(text) ==
  /\ text \in writing /\ writing' = writing \ {text}
  /\ IF shares = "nothing" THEN UNCHANGED <<machine, local, system, seenSystem, clock>>
     ELSE machine' = text /\ Observe(text)
  /\ UNCHANGED <<shares, expectedPaste, reading, newest, pasted, copies>>

\* A copy the browser makes by itself: rememberSelection reads what it takes.
CopyEvent(text) ==
  /\ ~Overlapping => writing = {}
  /\ Copied(text, "inside") /\ Remember(text) /\ machine' = text
  /\ UNCHANGED <<shares, writing, expectedPaste, reading, pasted>>

\* Another program's copy.
CopiedOutside(text) ==
  /\ ~Overlapping => writing = {}
  /\ Copied(text, "outside") /\ machine' = text
  /\ UNCHANGED <<shares, local, system, seenSystem, clock, writing, expectedPaste, reading, pasted>>

-----------------------------------------------------------------------------
(* Pastes.                                                                 *)

\* The page can know what was copied last: it was copied here, or it can be
\* told from what the page saw before.
Knowable == newest.where = "inside" \/ (seenSystem /\ machine # system.text)

Pasted(fair) ==
  pasted' = [got |-> Latest(local', system'), fair |-> fair /\ writing = {}, meant |-> newest.text]

\* A paste event, in any window: the document's listener sees it first, then
\* fromEvent. A terminal that waits for one stops waiting.
PasteEvent ==
  /\ Observe(machine) /\ Pasted(Knowable)
  /\ expectedPaste' = FALSE
  /\ UNCHANGED <<shares, machine, writing, reading, newest, copies>>

\* A gesture that may make the browser paste: the terminal waits for it.
Gesture ==
  /\ expectedPaste' = TRUE
  /\ UNCHANGED <<shares, machine, local, system, seenSystem, clock, writing, reading, newest,
                 pasted, copies>>

\* Nothing came, or a menu's Paste was chosen: read().
Reads ==
  /\ ~reading /\ reading' = TRUE /\ expectedPaste' = FALSE
  /\ UNCHANGED <<shares, machine, local, system, seenSystem, clock, writing, newest, pasted, copies>>

ReadReturns ==
  /\ reading /\ reading' = FALSE
  /\ IF shares = "all" THEN Observe(machine) /\ Pasted(Knowable)
     ELSE UNCHANGED <<local, system, seenSystem, clock>> /\ Pasted(newest.where = "inside")
  /\ UNCHANGED <<shares, machine, writing, expectedPaste, newest, copies>>

\* The window of an application pastes the desktop's own, when no event came.
PastesOwn ==
  /\ UNCHANGED <<shares, machine, local, system, seenSystem, clock, writing, expectedPaste,
                 reading, newest, copies>>
  /\ Pasted(newest.where = "inside")

Next ==
  \/ \E t \in Texts : Write(t) \/ WriteIsSettled(t) \/ CopyEvent(t) \/ CopiedOutside(t)
  \/ PasteEvent \/ Gesture \/ Reads \/ ReadReturns \/ PastesOwn

Spec == Init /\ [][Next]_clipVars

-----------------------------------------------------------------------------
\* What is pasted is what was copied last, wherever that was and whatever the
\* browser allows, as far as the page can know (clipboard.ts 13-34, 150-172).
PastesTheLatest == pasted.fair => pasted.got = pasted.meant
=============================================================================
