------------------------------ MODULE KeyRelay ------------------------------
(***************************************************************************)
(* Keys on their way from a canvas to an application                       *)
(* (client/src/apps/wayland/index.ts), with keymap.ts and the seat of the  *)
(* compositor (wdcomp.c). Keys travel as they go down and up. The page     *)
(* keeps some for the shell, tells the compositor when it loses the focus, *)
(* and answers Ctrl+V itself: it waits for the browser's paste event, or   *)
(* for a timer, offers the text and then replays the key.                  *)
(***************************************************************************)
EXTENDS Naturals, Sequences, FiniteSets

CONSTANTS
  Canvases,
  Nowhere,       \* no canvas has the focus
  Chords,        \* a chord of the shell is pressed over a key that is held, or its
                 \* modifiers serve another key
  Quick,         \* Ctrl is let go, or the focus moves, before a paste is answered, or
                 \* the focus comes with a key held
  InHaste,       \* the focus moves while a copy is being written, a second copy
                 \* comes then, or the connection drops with a key held or on its way
  MaxEvents      \* bound: what the person, the browser and the application do

\* What the constants have to be; where the module is instantiated it is assumed.
KeyRelayAssumption ==
  Nowhere \notin Canvases /\ {Chords, Quick, InHaste} \subseteq BOOLEAN /\ MaxEvents \in Nat

VARIABLES
  held,          \* keys that are down
  focus,         \* the canvas with the focus
  inHand,        \* of those, the ones pressed here and meant for the application
  pendingPaste,  \* the canvas a Ctrl+V waits for
  writes,        \* copies being written to the machine's clipboard
  borrowedFocus,
  wire,          \* page to compositor
  pressed,       \* seat.pressed
  keyboard,      \* seat.keyboard_focus
  astray,        \* a V was replayed that is no paste
  events

relayVars == <<held, focus, inHand, pendingPaste, writes, borrowedFocus, wire, pressed, keyboard,
               astray, events>>

Keys == {"ctrl", "alt", "v", "other"}

Init ==
  /\ held = {} /\ focus = Nowhere /\ inHand = {}
  /\ pendingPaste = Nowhere /\ writes = 0 /\ borrowedFocus = FALSE
  /\ wire = <<>> /\ pressed = {} /\ keyboard = Nowhere
  /\ astray = FALSE /\ events = 0

Counted == events < MaxEvents /\ events' = events + 1
Key(c, k, down) == [t |-> "key", id |-> c, key |-> k, down |-> down, replay |-> FALSE]
Focus(c, on) == [t |-> "focus", id |-> c, on |-> on]

-----------------------------------------------------------------------------
(* The page.                                                               *)

\* isReservedByShell: Ctrl+Alt and anything.
Reserved(down) == {"ctrl", "alt"} \subseteq down
IsPasteCombo(k, down) == k = "v" /\ "ctrl" \in down

\* sendPaste: the text first, then the key that asked for it.
SendPaste(c) ==
  wire' = wire \o <<[t |-> "paste"], [Key(c, "v", TRUE) EXCEPT !.replay = TRUE],
                    [Key(c, "v", FALSE) EXCEPT !.replay = TRUE]>>

\* onKey, for a key going down. The browser answers Ctrl+V with a paste event
\* at once, later, or never.
Down(k) ==
  /\ Counted /\ k \notin held
  /\ ~Chords => IF Reserved(held \cup {k}) THEN held \subseteq {"ctrl", "alt"}
                ELSE focus = Nowhere \/ held \cap {"ctrl", "alt"} \subseteq inHand
  /\ held' = held \cup {k}
  /\ IF focus = Nowhere \/ Reserved(held') THEN UNCHANGED <<inHand, pendingPaste, wire>>
     ELSE IF IsPasteCombo(k, held')
       THEN /\ UNCHANGED inHand
            /\ \/ pendingPaste' = focus /\ UNCHANGED wire
               \/ pendingPaste' = Nowhere /\ SendPaste(focus)
       ELSE /\ inHand' = inHand \cup {k} /\ wire' = Append(wire, Key(focus, k, TRUE))
            /\ UNCHANGED pendingPaste
  /\ UNCHANGED <<focus, writes, borrowedFocus, pressed, keyboard, astray>>

\* Mutant of Kept: keys the shell was given are kept for it as they go up, too.
KeptWithItsModifiers(k) == Reserved(held)

\* onKey, for a key going up, looks at the modifiers that are left.
Kept(k) == Reserved(held \ {k})

Up(k) ==
  /\ Counted /\ k \in held /\ (k = "ctrl" /\ ~Quick => pendingPaste = Nowhere)
  /\ held' = held \ {k} /\ inHand' = inHand \ {k}
  /\ wire' = IF focus = Nowhere \/ Kept(k) THEN wire ELSE Append(wire, Key(focus, k, FALSE))
  /\ UNCHANGED <<focus, pendingPaste, writes, borrowedFocus, pressed, keyboard, astray>>

\* The browser repeats a key that is held. Only a paste listens to that.
Repeats ==
  /\ Counted /\ focus # Nowhere /\ "v" \in held /\ ~Reserved(held) /\ IsPasteCombo("v", held)
  /\ ~Chords => "ctrl" \in inHand
  /\ pendingPaste' = focus
  /\ UNCHANGED <<held, focus, inHand, writes, borrowedFocus, wire, pressed, keyboard, astray>>

\* onPaste, or the timer: whichever comes first.
PasteIsAnswered ==
  /\ pendingPaste # Nowhere
  /\ pendingPaste' = Nowhere /\ SendPaste(pendingPaste) /\ inHand' = inHand \ {"v"}
  /\ UNCHANGED <<held, focus, writes, borrowedFocus, pressed, keyboard, astray, events>>

\* Mutant of Heard: the focus a copy borrows counts as one that moved.
AlwaysHeard == TRUE

\* The `focus` and `blur` listeners, unless the clipboard has the focus.
Heard == ~borrowedFocus

FocusNews(from, to) ==
  IF ~Heard THEN <<>>
  ELSE (IF from = Nowhere THEN <<>> ELSE <<Focus(from, FALSE)>>)
       \o (IF to = Nowhere THEN <<>> ELSE <<Focus(to, TRUE)>>)

FocusMoves(to) ==
  /\ Counted /\ to # focus
  /\ ~Quick => pendingPaste = Nowhere /\ (to # Nowhere => held = {})
  /\ ~InHaste => writes = 0
  /\ focus' = to /\ inHand' = {}
  /\ wire' = wire \o FocusNews(focus, to)
  /\ UNCHANGED <<held, pendingPaste, writes, borrowedFocus, pressed, keyboard, astray>>

\* 'copy': the application copied something, and the page writes it down.
Copies ==
  /\ Counted /\ (~InHaste => writes = 0)
  /\ writes' = writes + 1 /\ borrowedFocus' = TRUE
  /\ UNCHANGED <<held, focus, inHand, pendingPaste, wire, pressed, keyboard, astray>>

\* The write ends. Where writeText is refused it has taken the focus to a
\* field and back (execCopy) before `finally` runs.
CopyIsWritten ==
  /\ writes > 0 /\ writes' = writes - 1
  /\ borrowedFocus' = FALSE
  /\ \E refused \in BOOLEAN :
       wire' = IF refused /\ focus # Nowhere
                 THEN wire \o FocusNews(focus, Nowhere) \o FocusNews(Nowhere, focus) ELSE wire
  /\ UNCHANGED <<held, focus, inHand, pendingPaste, pressed, keyboard, astray, events>>

\* The connection drops; the page that returns has no focus. reset() takes the
\* listeners away before the canvases.
Drops ==
  /\ Counted /\ (~InHaste => held = {} /\ wire = <<>> /\ pendingPaste = Nowhere /\ writes = 0)
  /\ wire' = <<>> /\ focus' = Nowhere /\ inHand' = {}
  /\ UNCHANGED <<held, pendingPaste, writes, borrowedFocus, pressed, keyboard, astray>>

-----------------------------------------------------------------------------
(* The seat.                                                               *)

\* Mutant of LetGo: the keyboard leaves with its keys down.
HeldOn == pressed

\* seat_keyboard_leave releases everything still held.
LetGo == IF keyboard = Nowhere THEN pressed ELSE {}

SeatReads ==
  /\ wire # <<>> /\ wire' = Tail(wire)
  /\ LET m == Head(wire) IN
     /\ pressed' = CASE m.t = "key" /\ m.down -> pressed \cup {m.key}
                     [] m.t = "key" /\ ~m.down -> pressed \ {m.key}
                     [] m.t = "focus" /\ ~m.on -> LetGo
                     [] OTHER -> pressed
     /\ keyboard' = CASE m.t = "key" \/ (m.t = "focus" /\ m.on) -> m.id
                      [] m.t = "focus" /\ ~m.on -> Nowhere
                      [] OTHER -> keyboard
     /\ astray' = (astray \/ (m.t = "key" /\ m.down /\ m.replay /\ "ctrl" \notin pressed))
  /\ UNCHANGED <<held, focus, inHand, pendingPaste, writes, borrowedFocus, events>>

Next ==
  \/ \E k \in Keys : Down(k) \/ Up(k)
  \/ Repeats \/ PasteIsAnswered \/ \E c \in Canvases \cup {Nowhere} : FocusMoves(c)
  \/ Copies \/ CopyIsWritten \/ Drops \/ SeatReads

Spec == Init /\ [][Next]_relayVars

-----------------------------------------------------------------------------
\* With nothing on its way, the application holds exactly the keys that are
\* held over its window: none is stuck when it was let go elsewhere, and none
\* is let go because a copy borrowed the focus (index.ts 844-857, 1200-1209).
NoKeySticks == wire = <<>> => pressed = inHand

\* A replayed V is a paste and not a letter: Ctrl is down when the seat plays it.
PastesArePastes == ~astray

KeysArriveAsHeld == NoKeySticks /\ PastesArePastes
=============================================================================
