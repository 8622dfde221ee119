--------------------------- MODULE TerminalWindow ---------------------------
(***************************************************************************)
(* The shell of one terminal window as its page sees it                    *)
(* (client/src/apps/terminal/index.ts): starting it, losing the connection *)
(* under it, picking it up again, restarting it and closing the window.    *)
(* PtyTerminals has the server's side, TerminalReplay the output.          *)
(***************************************************************************)
EXTENDS Naturals, Sequences

CONSTANTS
  MaxChannels,   \* bound: channels the window opens
  MaxDrops,      \* bound: times the socket goes
  InHaste        \* "Restart shell" while the shell is being picked up

\* What the constants have to be; where the module is instantiated it is assumed.
TerminalWindowAssumption ==
  MaxChannels \in Nat \ {0} /\ MaxDrops \in Nat /\ InHaste \in BOOLEAN

Chans == 1..MaxChannels
Shells == 1..MaxChannels     \* a spawn on channel c starts shell c
None == 0

VARIABLES
  isOpen,        \* the socket
  channel, termId, awaitingReconnect, disposed, ended,
  page,          \* per channel: "unused", "opening", "opened" or "closed"
  resuming,      \* per channel: the shell it attaches to, or None
  wire,          \* per channel: what the server has said and the page not known
  server,        \* per channel: "none", "asked", "live" or "done"
  running,       \* shells that live
  holder,        \* per shell: the channel it is attached to, or None
  known,         \* shells whose `opened` has reached the page, and which it has not closed
  dropsLeft

linkVars == <<wire, server, running, holder>>
windowVars == <<channel, termId, awaitingReconnect, ended, page, resuming>>
terminalVars == <<isOpen, disposed, windowVars, linkVars, known, dropsLeft>>

Init ==
  /\ isOpen = TRUE /\ disposed = FALSE /\ ended = FALSE
  /\ channel = 1 /\ termId = None /\ awaitingReconnect = FALSE
  /\ page = [c \in Chans |-> IF c = 1 THEN "opening" ELSE "unused"]
  /\ server = [c \in Chans |-> IF c = 1 THEN "asked" ELSE "none"]
  /\ resuming = [c \in Chans |-> None] /\ wire = [c \in Chans |-> <<>>]
  /\ running = {} /\ holder = [s \in Shells |-> None] /\ known = {}
  /\ dropsLeft = MaxDrops

PageOpen(c) == page[c] \in {"opening", "opened"}
Fresh == {c \in Chans : page[c] = "unused"}
NextChan == CHOOSE c \in Fresh : \A d \in Fresh : c <= d

-----------------------------------------------------------------------------
(* The window, as a record its handlers transform.                         *)

Window == [channel |-> channel, termId |-> termId, awaiting |-> awaitingReconnect,
           ended |-> ended, page |-> page, resuming |-> resuming]

\* connect(); an openChannel() without a socket reports back at once.
Connect(w, up) ==
  LET c == NextChan
  IN IF ~up THEN [w EXCEPT !.channel = None, !.awaiting = TRUE, !.ended = FALSE]
     ELSE [w EXCEPT !.channel = c, !.ended = FALSE, !.page[c] = "opening", !.resuming[c] = w.termId]

\* Mutant of Closed: a shell whose socket went is taken for one that ended.
AlwaysEnds(w, c, up) ==
  [w EXCEPT !.page[c] = "closed", !.channel = None, !.termId = None, !.ended = TRUE]

\* onClose of channel c.
Closed(w, c, up) ==
  LET gone == [w EXCEPT !.page[c] = "closed", !.channel = None]
  IN IF ~up THEN [gone EXCEPT !.awaiting = TRUE]
     ELSE IF w.resuming[c] # None /\ w.page[c] = "opening"
          THEN Connect([gone EXCEPT !.termId = None], up)
     ELSE [gone EXCEPT !.termId = None, !.ended = TRUE]

Becomes(w) ==
  /\ channel' = w.channel /\ termId' = w.termId /\ awaitingReconnect' = w.awaiting
  /\ ended' = w.ended /\ page' = w.page /\ resuming' = w.resuming

\* What has been opened in this step is asked of the server.
Asks(w) == server' = [c \in Chans |-> IF page[c] = "unused" /\ w.page[c] # "unused" THEN "asked" ELSE server[c]]

Steps(w) == Becomes(w) /\ Asks(w)

\* "Restart shell".
Restart ==
  /\ ~disposed
  /\ channel # None => InHaste \/ page[channel] = "opened" \/ resuming[channel] = None
  /\ \E c, d \in Fresh : c # d
  /\ LET w == IF channel = None THEN Window ELSE Closed(Window, channel, isOpen)
         again == IF w.channel = None THEN Connect(w, isOpen)
                  ELSE [w EXCEPT !.channel = w.channel + 1, !.page[w.channel + 1] = "opening"]
     IN Steps(again)
  /\ known' = known \ {termId}
  /\ UNCHANGED <<isOpen, disposed, wire, running, holder, dropsLeft>>

\* "Start a new shell", on the banner.
StartNew ==
  /\ ended /\ ~disposed /\ Fresh # {}
  /\ Steps(Connect(Window, isOpen))
  /\ UNCHANGED <<isOpen, disposed, wire, running, holder, known, dropsLeft>>

\* destroy() closes the channel it has.
LetsGo(w) == IF w.channel = None THEN w ELSE [w EXCEPT !.page[w.channel] = "closed", !.channel = None]

Destroy ==
  /\ ~disposed /\ disposed' = TRUE
  /\ Steps(LetsGo(Window))
  /\ known' = IF isOpen THEN known \ {termId} ELSE known
  /\ UNCHANGED <<isOpen, wire, running, holder, dropsLeft>>

-----------------------------------------------------------------------------
(* The server's side of the channels.                                      *)

Serves(c) ==
  /\ isOpen /\ server[c] = "asked"
  /\ IF resuming[c] # None /\ resuming[c] \notin running
     THEN /\ wire' = [wire EXCEPT ![c] = <<"close">>] /\ server' = [server EXCEPT ![c] = "done"]
          /\ UNCHANGED <<running, holder>>
     ELSE LET s == IF resuming[c] = None THEN c ELSE resuming[c]
          IN /\ running' = running \cup {s} /\ holder' = [holder EXCEPT ![s] = c]
             /\ wire' = [wire EXCEPT ![c] = <<"opened">>] /\ server' = [server EXCEPT ![c] = "live"]
  /\ UNCHANGED <<isOpen, disposed, windowVars, known, dropsLeft>>

\* The page's `close` arrives, and the shell is hung up.
HangsUp(c) ==
  /\ isOpen /\ server[c] = "live" /\ page[c] = "closed"
  /\ running' = {s \in running : holder[s] # c}
  /\ server' = [server EXCEPT ![c] = "done"] /\ wire' = [wire EXCEPT ![c] = <<>>]
  /\ UNCHANGED <<isOpen, disposed, windowVars, holder, known, dropsLeft>>

\* A shell exits; one that is detached may run out of its grace.
ShellExits(s) ==
  /\ s \in running
  /\ running' = running \ {s}
  /\ LET c == holder[s]
     IN IF c = None THEN UNCHANGED <<wire, server>>
        ELSE wire' = [wire EXCEPT ![c] = Append(@, "close")] /\ server' = [server EXCEPT ![c] = "done"]
  /\ UNCHANGED <<isOpen, disposed, windowVars, holder, known, dropsLeft>>

-----------------------------------------------------------------------------
(* What the page hears.                                                    *)

Hears(c) ==
  /\ isOpen /\ wire[c] # <<>>
  /\ wire' = [wire EXCEPT ![c] = Tail(@)]
  /\ IF ~PageOpen(c) THEN UNCHANGED <<windowVars, known, server>>
     ELSE IF Head(wire[c]) = "opened"
     THEN LET s == IF resuming[c] = None THEN c ELSE resuming[c]
          IN /\ Becomes([Window EXCEPT !.termId = s, !.page[c] = "opened"])
             /\ known' = known \cup {s} /\ UNCHANGED server
     ELSE /\ Fresh # {}
          /\ Steps(Closed(Window, c, isOpen)) /\ UNCHANGED known
  /\ UNCHANGED <<isOpen, disposed, running, holder, dropsLeft>>

\* The socket goes: every channel is closed on both sides, what was on the wire is
\* lost, and the server keeps the shells. An open that was on its way may have been served.
Drops(served) ==
  /\ isOpen /\ dropsLeft > 0 /\ dropsLeft' = dropsLeft - 1
  /\ isOpen' = FALSE
  /\ served \subseteq {c \in Chans : server[c] = "asked" /\ resuming[c] = None}
  /\ running' = running \cup served
  /\ holder' = [s \in Shells |-> None]
  /\ server' = [c \in Chans |-> IF server[c] = "none" THEN "none" ELSE "done"]
  /\ wire' = [c \in Chans |-> <<>>]
  /\ LET w == IF channel = None THEN Window ELSE Closed(Window, channel, FALSE)
     IN Becomes([w EXCEPT !.page = [c \in Chans |-> IF PageOpen(c) THEN "closed" ELSE page[c]]])
  /\ UNCHANGED <<disposed, known>>

\* The state listener.
Reconnects ==
  /\ ~isOpen /\ isOpen' = TRUE
  /\ IF disposed \/ ~awaitingReconnect \/ channel # None THEN UNCHANGED <<windowVars, server>>
     ELSE Fresh # {} /\ Steps(Connect([Window EXCEPT !.awaiting = FALSE], TRUE))
  /\ UNCHANGED <<disposed, wire, running, holder, known, dropsLeft>>

Next ==
  \/ Restart \/ StartNew \/ Destroy \/ Reconnects
  \/ \E c \in Chans : Serves(c) \/ HangsUp(c) \/ Hears(c) \/ ShellExits(c)
  \/ \E served \in SUBSET Chans : Drops(served)

Spec == Init /\ [][Next]_terminalVars

\* A shell that runs is the one in the window, or is on its way out, or is waited
\* for: none runs on where its window has another (index.ts 183-192, 372-383). The
\* exceptions are a shell whose `opened`, or whose `close`, was lost with the socket,
\* and what a window that is closed while there is no connection leaves running.
EveryShellHasItsWindow ==
  \A s \in running :
    \/ holder[s] # None /\ (holder[s] = channel \/ ~PageOpen(holder[s]))
    \/ holder[s] = None /\ (termId = s \/ s \notin known \/ disposed)
=============================================================================
