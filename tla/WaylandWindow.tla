--------------------------- MODULE WaylandWindow ---------------------------
(***************************************************************************)
(* The window of a native application in the page                          *)
(* (client/src/apps/wayland/index.ts): the surfaces it keeps, which of     *)
(* them is the window and which are dialogs over it, where menus are put,  *)
(* what it makes of a channel that opens, closes, is refused or is dropped *)
(* with its connection, and when it closes itself.                         *)
(*                                                                         *)
(* A toplevel without a parent is a window of the application. What the    *)
(* server does with a session is WaylandSession's; here a session is live  *)
(* or is not, and the closing of a channel takes effect at once, since the *)
(* page ignores what comes for it afterwards. Pictures are FrameFlow's,    *)
(* sizes are SizeTalk's. Subsurfaces, titles and cursors are left out.     *)
(***************************************************************************)
EXTENDS Naturals, SequencesExt

CONSTANTS
  Tops,        \* toplevels the application may have up
  Popups,      \* menus it may have up
  Nested,      \* a menu may hang from a menu
  Disorderly,  \* a window may go before the dialogs that hang from it
  InHaste,     \* 'Choose another' while a session is being picked up
  MaxEvents,   \* bound: windows and menus the application shows, hides or destroys
  MaxDrops,    \* bound: connections lost
  MaxLaunches  \* bound: sessions started

ASSUME WaylandWindowAssumption ==
  /\ Tops \cap Popups = {} /\ Tops \cup Popups \subseteq 1..999
  /\ Nested \in BOOLEAN /\ Disorderly \in BOOLEAN /\ InHaste \in BOOLEAN
  /\ MaxEvents \in Nat /\ MaxDrops \in Nat /\ MaxLaunches \in Nat

Ids == Tops \cup Popups
No == 0
\* Layers that are no id of a surface.
Off == 1000
Root == 1001
\* What a surface has instead of a parent while it is not up.
Down == 1002

VARIABLES
  \* the page
  rpcOpen,      \* rpc.isOpen()
  channel,      \* the channel of this window: "none", "opening" or "open"
  astray,       \* it is open, and the variable `channel` is null
  resuming,     \* the channel was opened to pick a session up
  sessionId,    \* the window knows a session
  awaitingReconnect,
  kind,         \* surfaces: what each is shown as
  parent,       \* the parent it was announced with
  layer,        \* where a dialog or menu is drawn: the root, the stage (No), the
                \* backdrop of a dialog, or nowhere (Off)
  mainId, hiddenMain,
  goneTimer,
  closeAskedAt, \* 0, less than eight seconds ago, or more
  disposed,
  panel,        \* what the root shows
  \* the server and the application
  req,          \* the open on its way: "none", "session" or "attach"
  toPage,       \* messages on the channel
  live,         \* the session runs
  attached,     \* a window has it
  hangsFrom,    \* the parent of each toplevel and menu, unless it is down
  list,         \* server->windows: what is up or hidden, newest first
  \* bounds
  events, drops, launches

surfaceVars == <<kind, parent, layer, mainId, hiddenMain>>
closeVars == <<goneTimer, closeAskedAt>>
pageVars == <<channel, astray, resuming, sessionId, awaitingReconnect, surfaceVars, closeVars,
              disposed, panel>>
serverVars == <<req, toPage, live, attached, hangsFrom, list>>
bounds == <<events, drops, launches>>
windowVars == <<rpcOpen, pageVars, serverVars, bounds>>

WindowTypeOK ==
  /\ rpcOpen \in BOOLEAN /\ channel \in {"none", "opening", "open"} /\ astray \in BOOLEAN
  /\ resuming \in BOOLEAN /\ sessionId \in BOOLEAN /\ awaitingReconnect \in BOOLEAN
  /\ kind \in [Ids -> {"none", "window", "dialog", "popup"}]
  /\ parent \in [Ids -> Ids \cup {No}]
  /\ \A i \in Ids : layer[i] \in {No, Off, Root} \/ kind[layer[i]] = "dialog"
  /\ mainId \in Tops \cup {No} /\ hiddenMain \in Tops \cup {No}
  /\ (mainId # No => kind[mainId] = "window")
  /\ (hiddenMain # No => mainId = No)
  /\ goneTimer \in BOOLEAN /\ (goneTimer => mainId = No)
  /\ closeAskedAt \in {"never", "recently", "long ago"} /\ disposed \in BOOLEAN
  /\ panel \in {"stage", "message", "picker", "retry"}
  /\ req \in {"none", "session", "attach"}
  /\ live \in BOOLEAN /\ attached \in BOOLEAN

NothingUp == [i \in Ids |-> Down]

WindowInit ==
  /\ rpcOpen = TRUE /\ channel = "none" /\ astray = FALSE /\ resuming = FALSE /\ sessionId = FALSE
  /\ awaitingReconnect = FALSE
  /\ kind = [i \in Ids |-> "none"] /\ parent = [i \in Ids |-> No]
  /\ layer = [i \in Ids |-> Off]
  /\ mainId = No /\ hiddenMain = No
  /\ goneTimer = FALSE
  /\ closeAskedAt = "never" /\ disposed = FALSE /\ panel = "picker"
  /\ req = "none" /\ toPage = <<>> /\ live = FALSE /\ attached = FALSE
  /\ hangsFrom = NothingUp /\ list = <<>>
  /\ events = 0 /\ drops = 0 /\ launches = 0

-----------------------------------------------------------------------------
(* Surfaces.                                                               *)

\* reset(): nothing of an earlier session is left.
Reset ==
  /\ kind' = [i \in Ids |-> "none"] /\ parent' = [i \in Ids |-> No]
  /\ layer' = [i \in Ids |-> Off]
  /\ mainId' = No /\ hiddenMain' = No
  /\ goneTimer' = FALSE /\ closeAskedAt' = "never"

\* Everything on the stage goes when the stage is given another window.
StageCleared == [i \in Ids |-> IF layer[i] = No THEN Off ELSE layer[i]]

\* Mutant of PopupLayer: over the window in any case.
OnTheStage(up) == No

\* root.replaceChildren(stage): and whatever is over it.
RootCleared == [i \in Ids |-> Off]

\* popupLayer: over the window, unless it hangs from a dialog.
PopupLayer(up) == IF up \in Tops /\ kind[up] = "dialog" THEN up ELSE No

\* 'window': the first toplevel without a parent is the window, later ones are
\* dialogs.
ShowsWindow(id, up) ==
  IF kind[id] # "none" THEN UNCHANGED <<surfaceVars, closeVars, panel>>
  ELSE LET isMain == mainId = No /\ up = No IN
    /\ parent' = [parent EXCEPT ![id] = up]
    /\ kind' = [kind EXCEPT ![id] = IF isMain THEN "window" ELSE "dialog"]
    /\ IF isMain
       THEN /\ mainId' = id /\ hiddenMain' = No /\ layer' = RootCleared
            /\ goneTimer' = FALSE /\ panel' = "stage"
       ELSE /\ layer' = [layer EXCEPT ![id] = Root]
            /\ UNCHANGED <<mainId, hiddenMain, goneTimer, panel>>
    /\ UNCHANGED closeAskedAt

\* 'popup'.
ShowsPopup(id, up) ==
  /\ kind' = [kind EXCEPT ![id] = "popup"]
  /\ parent' = [parent EXCEPT ![id] = up]
  /\ layer' = [layer EXCEPT ![id] = IF kind[id] = "none" THEN PopupLayer(up) ELSE @]
  /\ UNCHANGED <<mainId, hiddenMain, closeVars, panel>>

\* Mutant of TakesOver: a window that goes leaves none.
NoneTakesOver == {}

\* The toplevels that may become the window when it goes.
TakesOver == {i \in Tops : kind[i] = "dialog" /\ parent[i] = No}

\* promote(): a dialog becomes the window, and its menus go to the stage.
Promote(next, gone) ==
  /\ kind' = [kind EXCEPT ![gone] = "none", ![next] = "window"]
  /\ layer' = [i \in Ids |-> IF parent[i] = next /\ kind[i] = "popup" THEN No
                             ELSE IF i = next THEN Off ELSE StageCleared[i]]
  /\ mainId' = next /\ hiddenMain' = No
  /\ UNCHANGED <<parent, goneTimer>>

\* surfaceGone(): a surface was hidden or destroyed.
SurfaceGone(id, destroyed) ==
  /\ IF id = mainId /\ TakesOver # {}
     THEN \E next \in TakesOver : Promote(next, id)
     ELSE /\ kind' = [kind EXCEPT ![id] = "none"]
          /\ layer' = [layer EXCEPT ![id] = Off]
          /\ mainId' = IF id = mainId THEN No ELSE mainId
          /\ hiddenMain' = IF id = mainId /\ ~destroyed THEN id ELSE hiddenMain
          /\ goneTimer' = (goneTimer \/ (destroyed /\ (mainId = id \/ (mainId = No /\ hiddenMain = id))))
          /\ UNCHANGED parent
  /\ UNCHANGED <<closeAskedAt, panel>>

-----------------------------------------------------------------------------
(* Channels.                                                               *)

\* start(): a new session; a window that is offline is told in the same turn
\* that the channel is closed.
Start(shows) ==
  /\ launches < MaxLaunches
  /\ launches' = launches + 1
  /\ sessionId' = FALSE /\ resuming' = FALSE
  /\ Reset
  /\ IF rpcOpen'
     THEN channel' = "opening" /\ req' = "session" /\ panel' = shows
     ELSE channel' = "none" /\ panel' = "retry" /\ req' = "none"

\* The socket went, not the application.
StillThere == ~rpcOpen' /\ sessionId

\* onClose of a channel.
ChannelCloses(error) ==
  \/ /\ StillThere
     /\ astray' = FALSE
     /\ awaitingReconnect' = TRUE /\ channel' = "none"
     /\ req' = "none"
     /\ UNCHANGED <<resuming, sessionId, surfaceVars, closeVars, disposed, panel, launches>>
  \/ /\ ~StillThere
     /\ resuming /\ channel = "opening"
     /\ Start("message")
     /\ UNCHANGED astray
     /\ UNCHANGED <<awaitingReconnect, disposed>>
  \/ /\ ~StillThere
     /\ ~(resuming /\ channel = "opening")
     /\ channel' = "none" /\ sessionId' = FALSE /\ astray' = FALSE /\ req' = "none"
     /\ LET closedItself == goneTimer /\ ~error IN
        /\ Reset
        /\ disposed' = closedItself
        /\ panel' = IF closedItself THEN panel ELSE "retry"
     /\ UNCHANGED <<awaitingReconnect, resuming, launches>>

\* The server ends the channel.
HearsClose(error) ==
  /\ UNCHANGED rpcOpen
  /\ ChannelCloses(error)

PageReads ==
  /\ toPage # <<>> /\ ~disposed
  /\ toPage' = Tail(toPage)
  /\ LET m == Head(toPage) IN
     CASE m.t = "opened" ->
            /\ channel' = "open" /\ sessionId' = TRUE
            /\ IF resuming
               THEN Reset /\ panel' = "message"
               ELSE UNCHANGED <<surfaceVars, closeVars, panel>>
            /\ UNCHANGED <<rpcOpen, astray, resuming, awaitingReconnect, disposed,
                           req, launches>>
       [] m.t = "end" -> HearsClose(m.error)
       [] OTHER ->
            /\ CASE m.t = "window" -> ShowsWindow(m.id, m.up)
                 [] m.t = "popup" -> ShowsPopup(m.id, m.up)
                 [] OTHER -> SurfaceGone(m.id, m.t = "closed")
            /\ UNCHANGED <<rpcOpen, channel, astray, resuming, sessionId, awaitingReconnect, disposed, req, launches>>
  /\ UNCHANGED <<live, attached, hangsFrom, list, events, drops>>

\* The connection is lost: what was on it, and the session's window.
Drop ==
  /\ rpcOpen /\ drops < MaxDrops
  /\ drops' = drops + 1
  /\ rpcOpen' = FALSE /\ toPage' = <<>>
  /\ attached' = FALSE
  /\ IF channel = "none" \/ disposed
     THEN UNCHANGED <<pageVars, launches>> /\ req' = "none"
     ELSE ChannelCloses(FALSE)
  /\ UNCHANGED <<live, hangsFrom, list, events>>

\* Mutant of PicksUp: the session is left to the server.
NeverPicksUp == FALSE

\* The listener for the connection's return.
PicksUp == ~disposed /\ awaitingReconnect /\ channel = "none"

Reconnect ==
  /\ ~rpcOpen
  /\ rpcOpen' = TRUE
  /\ IF PicksUp
     THEN /\ awaitingReconnect' = FALSE /\ channel' = "opening" /\ resuming' = TRUE
          /\ req' = "attach"
          /\ UNCHANGED <<astray, sessionId, surfaceVars, closeVars, disposed, panel>>
     ELSE UNCHANGED <<pageVars, req>>
  /\ UNCHANGED <<toPage, live, attached, hangsFrom, list, bounds>>

-----------------------------------------------------------------------------
(* The person.                                                             *)

\* channel?.close(): the session behind the channel is stopped.
Hangs ==
  /\ channel' = "none" /\ req' = "none" /\ toPage' = <<>>
  /\ live' = (live /\ ~attached) /\ attached' = FALSE
  /\ hangsFrom' = IF attached THEN NothingUp ELSE hangsFrom

Picks ==
  /\ panel \in {"picker", "retry"} /\ ~disposed /\ channel = "none"
  /\ UNCHANGED rpcOpen
  /\ Start("message")
  /\ UNCHANGED <<astray, awaitingReconnect, disposed, toPage, live, attached, hangsFrom, list,
                 events, drops>>

\* 'Choose another': onClose runs inside channel.close(). It closes the window
\* if that was about to close itself; and where the channel was to pick a session
\* up it starts one on another channel, which the next line forgets.
ChoosesAnother ==
  /\ ~disposed /\ panel # "picker" /\ ~astray
  /\ UNCHANGED rpcOpen
  /\ IF channel = "opening" /\ resuming
     THEN /\ InHaste
          /\ Start("picker") /\ astray' = TRUE
          /\ UNCHANGED <<disposed, toPage, live, attached, hangsFrom>>
     ELSE /\ Hangs /\ Reset
          /\ sessionId' = (sessionId /\ channel = "none")
          /\ disposed' = (goneTimer /\ channel # "none")
          /\ panel' = "picker"
          /\ UNCHANGED <<astray, resuming, launches>>
  /\ UNCHANGED <<awaitingReconnect, list, events, drops>>

\* destroy().
Destroy ==
  /\ IF astray THEN UNCHANGED <<channel, req, toPage, live, attached, hangsFrom>> ELSE Hangs
  /\ Reset
  /\ disposed' = TRUE
  /\ UNCHANGED <<rpcOpen, astray, resuming, sessionId, awaitingReconnect, panel, list, bounds>>

\* Mutant of MayClose: the window does not wait for the application.
AlwaysMayClose == TRUE

MayClose == channel = "none" \/ astray \/ mainId = No \/ closeAskedAt = "recently"

\* The close button: the application is asked, unless there is none to ask or
\* it has been asked within eight seconds.
PressesClose ==
  /\ ~disposed
  /\ IF MayClose
     THEN Destroy
     ELSE /\ closeAskedAt' = "recently"
          /\ UNCHANGED <<rpcOpen, channel, astray, resuming, sessionId, awaitingReconnect, surfaceVars,
                         goneTimer, disposed, panel, serverVars, bounds>>

EightSeconds ==
  /\ closeAskedAt = "recently" /\ ~disposed
  /\ closeAskedAt' = "long ago"
  /\ UNCHANGED <<rpcOpen, channel, astray, resuming, sessionId, awaitingReconnect, surfaceVars,
                 goneTimer, disposed, panel, serverVars, bounds>>

\* Four seconds after the application destroyed its window (windowGone).
GoneTimerFires ==
  /\ goneTimer /\ ~disposed
  /\ Destroy

-----------------------------------------------------------------------------
(* The server and the application.                                         *)

Says(m) == toPage' = IF attached THEN Append(toPage, m) ELSE toPage
Message(t, id, up) == [t |-> t, id |-> id, up |-> up, error |-> FALSE]
Note(t, error) == [t |-> t, id |-> No, up |-> No, error |-> error]

UpIds == {i \in Ids : hangsFrom[i] # Down}

\* window_announce.
Announce(i) == Message(IF i \in Tops THEN "window" ELSE "popup", i, hangsFrom[i])

\* IPC_RESYNC: all that is up, each once, in the order of the list.
InListOrder(up) ==
  /\ \A i \in UpIds : \E k \in DOMAIN up : up[k] = i
  /\ \A j, k \in DOMAIN up :
       j < k => /\ up[j] # up[k]
                /\ \E m, n \in DOMAIN list : m < n /\ list[m] = up[j] /\ list[n] = up[k]
Resync(up) == [k \in DOMAIN up |-> Announce(up[k])]

ServerOpens ==
  /\ req # "none"
  /\ req' = "none"
  /\ \/ /\ req = "session"
        /\ live' = TRUE /\ attached' = TRUE /\ toPage' = <<Note("opened", FALSE)>>
        /\ hangsFrom' = NothingUp /\ list' = <<>>
     \/ /\ req = "attach" /\ live
        /\ attached' = TRUE
        /\ \E up \in SeqOf(UpIds, Len(list)) :
             InListOrder(up) /\ toPage' = <<Note("opened", FALSE)>> \o Resync(up)
        /\ UNCHANGED <<live, hangsFrom, list>>
     \/ /\ req = "session" \/ ~live
        /\ toPage' = <<Note("end", TRUE)>>
        /\ UNCHANGED <<live, attached, hangsFrom, list>>
  /\ UNCHANGED <<rpcOpen, pageVars, bounds>>

AppStep ==
  /\ live /\ events < MaxEvents
  /\ events' = events + 1
  /\ UNCHANGED <<rpcOpen, pageVars, req, live, attached, drops, launches>>

\* A window or a menu comes up. The parent of a window may be another window.
Maps(i, up) ==
  /\ i \notin UpIds
  /\ IF i \in Tops THEN up \in (UpIds \cap Tops) \cup {No} /\ (up \in Tops => hangsFrom[up] # i)
     ELSE up \in UpIds /\ (up \in Popups => Nested)
  /\ hangsFrom' = [hangsFrom EXCEPT ![i] = up]
  /\ list' = IF Contains(list, i) THEN list ELSE <<i>> \o list
  /\ Says(Message(IF i \in Tops THEN "window" ELSE "popup", i, up))
  /\ AppStep

\* The list without one that is in it.
Unlisted(i) ==
  LET at == CHOOSE k \in DOMAIN list : list[k] = i
  IN [k \in 1..(Len(list) - 1) |-> list[IF k < at THEN k ELSE k + 1]]

\* It goes again: hidden, from where a toplevel may come back, or destroyed
\* (window_hide, xwayland_detach). Menus go before what they hang from.
Goes(i, t) ==
  /\ i \in UpIds \/ (t = "closed" /\ Contains(list, i))
  /\ t = "hidden" => i \in Tops
  /\ \A k \in UpIds : hangsFrom[k] = i => k \in Tops /\ Disorderly
  /\ hangsFrom' = [k \in Ids |-> IF k = i THEN Down
                                ELSE IF t = "closed" /\ hangsFrom[k] = i THEN No ELSE hangsFrom[k]]
  /\ list' = IF t = "closed" THEN Unlisted(i) ELSE list
  /\ Says(Message(t, i, No))
  /\ AppStep

\* The application exits, or the server's grace period is over.
AppExits(error) ==
  /\ live
  /\ live' = FALSE /\ attached' = FALSE
  /\ hangsFrom' = NothingUp
  /\ Says(Note("end", error))
  /\ UNCHANGED <<rpcOpen, pageVars, req, list, bounds>>

-----------------------------------------------------------------------------
WindowNext ==
  \/ PageReads \/ Drop \/ Reconnect
  \/ Picks \/ ChoosesAnother \/ PressesClose \/ EightSeconds \/ GoneTimerFires
  \/ ServerOpens
  \/ \E i \in Ids, up \in Ids \cup {No} : Maps(i, up)
  \/ \E i \in Ids, t \in {"hidden", "closed"} : Goes(i, t)
  \/ \E error \in BOOLEAN : AppExits(error)

WindowSpec == WindowInit /\ [][WindowNext]_windowVars

\* The client redials (RpcClient) and messages are handled; timers fire. People
\* and applications do as they like.
FairWindowSpec ==
  WindowSpec /\ WF_windowVars(PageReads) /\ WF_windowVars(Reconnect) /\ WF_windowVars(ServerOpens)
             /\ WF_windowVars(GoneTimerFires)

-----------------------------------------------------------------------------
(* Properties.                                                             *)

Quiet == channel = "open" /\ toPage = <<>> /\ ~disposed

\* Once every message has been read, the window shows a window of the
\* application whenever it has one up: through windows that are hidden, shown
\* again, destroyed or replaced, and through reconnections (index.ts 905-923).
ShowsTheApplication ==
  Quiet => LET windows == {i \in UpIds \cap Tops : hangsFrom[i] = No} IN
    IF windows = {} THEN mainId = No ELSE mainId \in windows

\* A window that shows a running application closes only when the application
\* has been asked to close within the last eight seconds: not on the timer of a
\* window the application has since replaced, nor on the news of a channel that
\* is another's (index.ts 944-961, 1700-1716). News on its way excuses it.
ClosesUnasked ==
  /\ ~disposed /\ disposed' /\ panel' # "picker"
  /\ attached /\ toPage = <<>> /\ \E i \in UpIds \cap Tops : hangsFrom[i] = No
NeverClosesUnasked == [][ClosesUnasked => closeAskedAt = "recently"]_windowVars

\* A running session the window lost with its connection is shown again, by
\* this window or not at all: the application has ended, the window was closed
\* or the person has gone to choose another (index.ts 1345-1351, 1401-1408).
PicksUpAgain ==
  (sessionId /\ live /\ ~rpcOpen /\ ~disposed)
    ~> (attached \/ ~live \/ disposed \/ panel = "picker")

\* A window that is gone has left nothing running for it (index.ts 1718-1726).
NothingRunsUnseen == disposed => ~attached

\* The toplevel a menu belongs to.
RootOf(i) == IF i \in Tops THEN i ELSE IF parent[i] \in Tops THEN parent[i] ELSE parent[parent[i]]

\* A menu is drawn where its window is: on the stage, or on the backdrop of its
\* dialog (index.ts 521-527); and a dialog is drawn.
AllIsSeen ==
  \A i \in Ids :
    /\ kind[i] = "popup" => layer[i] = (IF kind[RootOf(i)] = "dialog" THEN RootOf(i) ELSE No)
    /\ kind[i] = "dialog" => layer[i] = Root

\* That is so of all a session shows on its first connection.
DialogsAndMenusAreSeen == ~resuming => AllIsSeen
\* What the application has up is what the person sees: its window once all has
\* been read, dialogs and menus where they belong, and nothing runs on for a
\* window that is gone.
WindowsAreSeen == ShowsTheApplication /\ DialogsAndMenusAreSeen /\ NothingRunsUnseen
=============================================================================
