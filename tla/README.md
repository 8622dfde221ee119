# Finestra, formally

Finestra is a desktop in a browser: the page draws windows, and a Node.js
server per host runs what is in them: shells, Wayland applications under a
small compositor, file and system services. Page and server share one
WebSocket. This directory holds TLA+ models of the parts of it where order,
failure and time matter, the TLC runs that check them, and the theorems TLAPS
proves about them. Everything is translated from the sources under `src/`;
PROJECT.json names, for every definition, the lines it stands for.

To run it: `tlc -config X.cfg M` for the rows of PROJECT.json's `runs`, and
`tlapm M.tla` for the modules whose names end in `Proofs`.

## 1. Inventory

### How the parts interact

    page                                         server (one per host)
    main.ts ─ Desktop ─ WindowManager            index.ts: HTTP, upgrade, heartbeat
       │        │          │                        │       outbound.ts: dials a relay
       │        │       applications                │
       │        └──────── RpcClient ══ WebSocket ══ Session ── services
       │                 calls, channels,           channels,     pty  ── shells
       │                 SliceAssembler             slices,       wayland ── compositor ── apps
       └─ HostRegistry: one RpcClient per host      credit           └─ portal ── bus proxy ── bus
                                                                  fs, auth, apps, journal, systemd, proc

A *call* is a request and its answer. A *channel* is a two-way stream between
an application in the page and an object of a service; it is opened by the
page, closed by either side, and dies with the socket. Services are shared by
all sessions of a server, and some objects (shells, compositors, portal
requests) outlive the channel that shows them: a page that lost its connection
or was reloaded finds them again.

Both programs are single threaded. What interleaves is: messages in flight in
both directions, awaits inside handlers, timers, write callbacks, child
processes, several pages, and a link that may go silent at any point.

### Components

| Component | State | Operations | What is hard | What makes it correct |
|---|---|---|---|---|
| Session (`server/src/session.ts`) | `channels`, requests at work, `closed`, `pinged` | handleOpen, closeChannel, a service's close, handleRequest, tick, dispose | an opener is awaited with only a placeholder in the table; page, service and socket can all close the channel first | `onClose` of every opened channel runs exactly once, is told the truth about `lost`; nothing survives dispose |
| RpcClient (`client/src/core/rpc.ts`) | `ws`, `state`, `pending`, `channels`, reconnect timer, `ready()` | connect, disconnect, revoke, call, openChannel, close, onMessage, onDisconnect | a socket that dies with work of every age on it; timers and probes that answer late | everything waiting is settled; a stopped client stays stopped; a dropped one comes back |
| Slices and credit (`session.ts`, `shared/protocol.ts`) | `bulk`, `bulkByChannel`, `pumping`, `unconfirmed`, `inflight`, `window`; `held` in the page | sendBinary, pump, the write callback, took, forget | a queue cut up while channels close; three different wakeups; a window that moves | the pump never sleeps over sendable work; payloads arrive whole and in order; credit is exact |
| Terminals (`server/src/services/pty.ts`) | per shell: `alive`, `ctx`, `owner`, `grace`, `keep` | spawn, attach, keep, onClose, grace, hangUp, exit | displacement, drops and closes racing with timers and openers | no shell is forgotten, none is hung up that should wait, a window holds the shell it shows |
| Scrollback and replay (`pty.ts`, `client/src/apps/terminal`) | the ring, the offset each end counts, `repaint` | push, since, all, attach, the replay, resize; onOpen, onBinary | live output, replay, drops and reloads between any two frames | both ends count the stream alike; what is drawn is one stretch of it in order |
| Terminal window (`client/src/apps/terminal`) | `termId`, `channel`, `awaitingReconnect`, `disposed` | connect, onClose, the state listener, restart, pick up, dispose | synchronous callbacks from inside calls | one channel at a time; a shell is respawned only when it is gone |
| Dialling out (`server/src/outbound.ts`) | `stopped`, `timer`, the socket | connect, reconnect, stop | `error` and `close` both schedule a redial | a host that was not stopped is always connected or about to dial |
| Upgrade and heartbeat (`server/src/index.ts`) | the set of sessions | upgrade, tick | a link without a FIN | a silent session is disposed of |
| Deadman (`server/src/deadman.ts`) | two clocks | touch, check | any message counts as activity | an idle server stops, a used one does not |
| Access token (`services/auth.ts`, `config.ts`, `client/src/core/access.ts`) | token on disk, in memory, in cookies and in the pages | rotate, a rotated event, probe, restart | three copies that change one after the other | the desktops that are kept keep access, the others lose it |
| Wayland sessions (`services/wayland.ts`) | `running`, per session its timers, `alive`, `closeAsked` | launch, attach, stop, escalate, finish, exit | two timers in one variable; instances on their way out; awaits between test and registration | no session forgotten or shown in two windows; a stopped one is asked first, and ends; a launch that lost its window comes to an end |
| Compositor frames (`compositor/src/wdcomp.c`) | per surface: canvas, in flight, pending, sent size | commit, emit, acknowledge, resync, stale | acknowledgements of another browser; sizes that change back | the browser ends with the last picture; frames never stop |
| Compositor windows and input (`wdcomp.c`, `xwm.c`, `keymap.ts`) | configures and limits of a window, what X has been told; pressed keys, keyboard focus | configure, grant a request, read a notice, key, focus | three parties change one size at once; keys held while the focus moves | they agree on the size once nothing is on its way; no key sticks |
| Wayland window (`client/src/apps/wayland`) | tree of surfaces, main window, vetoes, `asked`, `unclaimed`, `pendingPaste` | surfaces shown, hidden, gone, promote, close, pick up, push and adopt a size, keys, paste | windows that replace each other, channels that are refused, answers that come late | every surface is drawn in a living window; a running application is not closed unasked |
| File dialogs (`server/src/portal.ts`, `client/src/apps/wayland/chooser.ts`) | `pending` requests, the dialogs on a window; a folder, what is selected | chooser, respond, forget, redeliver, close; navigate, pick, accept | an await between looking a sender up and recording it; folders that are answered late | every request is answered once, with what the person saw |
| Message bus (`server/src/busproxy.ts`, `dbus.ts`) | two byte streams with what is held of each, the owner of a name; pending calls | fromClient, fromBus, inject, connect, call, close | chunks that end anywhere; our own answers in the stream of the bus | messages pass whole, once and in order; every call is settled |
| Window manager, session restore (`client/src/ui`, `core/desktop.ts`, `core/session-store.ts`, `main.ts`) | windows, stack, focus, saved layout; a window's bounds and where it returns to | launch, mount, close, save, restore; drag, resize, maximize, reflow | saving before restoring; mounts that throw | a reload brings back what was there, where it was |
| Dialogs (`client/src/ui/dialog.ts`) | dialogs and the focus | show, keys, buttons | every dialog listens to the keys of the window | Enter does not confirm the dangerous dialog that has just come up |
| Catalogue (`services/apps.ts`, `core/registry.ts`, `associations.ts`, `apps/settings`) | applications turned off, claims, choices | switch, choose, open, start | the switch is on the server, what is open is in the page | a file is opened by the most specific claim of what is on |
| Clipboard (`client/src/core/clipboard.ts`) | the desktop's last copy and the machine's, each with its time | write, observe, read | what the browser shows, and when, differs by browser | what is pasted was copied last |
| Editor (`apps/editor`) | path, buffer, saved content, time; draft; matches, gutter | load, save, check, reload; find, replace, layout | answers and other writers between any two steps; positions in a text that has changed | nothing that was typed is lost unasked; a change by others that was seen is shown or announced; Replace replaces what is marked |
| Files and uploads (`apps/files`, `server/src/transfer.ts`, `fs.ts`) | listing, selection, dialog; files being written | navigate, rename, remove; openUnique, handleUpload | listings out of order; names chosen at the same time, failures half way | an operation is done where its dialog said; no upload overwrites another |
| System manager (`apps/sysman`, `services/journal.ts`, `systemd.ts`, `proc.ts`) | per panel: what is asked for, selected, streamed, shown | filters, polls, details, controls, signals; two runs of journalctl | answers about what is no longer selected; pids used again | what is shown is what is selected; a signal goes to the pid that was named |
| Hosts (`client/src/core/hosts.ts`) | list of servers, a client each | add, remove, rotated | clients that outlive their entry | a removed server is not connected again |
| The rest | | | | listed in PROJECT.json with the reason each is left out |

The hazards, each at its line and with the properties that cover it, are in
PROJECT.json under `hazards`.

## 2. The models

Modules that interact through state are composed (Connection; SliceFlow with
ChannelFifo and PtyTerminals with ShellLife by refinement). Others meet in one narrow place, and each has the other side of it
as an action: a session is live or not for WaylandWindow, whatever
WaylandSession does to make it so.

### 2.1 The connection: Wire, SessionMux, RpcClient, Connection

`SessionMux` has the server's half and `RpcClient` the page's; both are indexed
by the WebSocket (`Sessions`), because a page that reconnects has a new session
while the server may still hold the old one. `Connection` joins them by two
ordered queues per socket and adds the link: upgrades that are accepted,
refused or fail, cuts that nobody is told about, and each side noticing on its
own. `Wire` has the messages.

| Code | Model |
|---|---|
| `Session.channels` with its placeholder | `channels[s][i]`: "none", "placeholder", "live" |
| the await in `handleOpen` | `opener[s][i] = "awaiting"`; `OpenerReturns` and `OpenerThrows` are what follows it, in whatever state they find |
| `closeChannel`, a service's `ctx.close()` | `CloseChannel`, `ServiceCloses` |
| `dispose`, with the `lost` it passes on | `SocketCloses` |
| `tick()` and the heartbeat | `TickQuiet`, `HeartbeatTerminates` |
| `connect`, the backoff timer, `disconnect`, `revoke` | actions of the same names and `TimerFires`; the length of a delay is left out |
| `call`, `openChannel`, also while offline | `Call`, `OpenChannel`, `RefuseOffline` |
| `onDisconnect` | one action, for everything that was waiting |
| `ready()` | `boot`: idle, waiting, forgotten, up |

What a payload says is left out; `data` and `ctl` frames change nothing here.
An id is used once, as the counter of RpcClient guarantees, and is numbered
across the reconnects of the page.

### 2.2 Payloads: SliceFlow, ChannelFifo

`SliceFlow` is one session that stays up, from `sendBinary()` to the handler in
the page. A payload is a sequence of distinct bytes, so that a lost, doubled or
misplaced one shows; the window is counted in bytes, as in the code, and moves
by the age of what is confirmed, which the model leaves open. `modern` is
whether the page confirms at all. `ChannelFifo` is what a channel promises
whatever carries it, and `SliceFlow` is checked to implement it.

### 2.3 Shells: PtyTerminals, ShellLife

`PtyTerminals` has every shell of a server, every connection and the channels
they open. The openers of `pty` are synchronous, so `handleOpen` resumes in a
microtask: `Quiet` says that timers, exits and drops wait for it, and `Reads`
that only messages of the same chunk come first. This is what the code runs
on, and without it the model would show behaviours the program does not have.
`ShellLife` is the life of a shell as its user sees it; `PtyTerminals`
implements it under the refinement mapping `life`.

### 2.4 What a terminal shows: TerminalReplay

`TerminalReplay` has class `Ring` to the index (growth, wrap, overflow) and the
rest of the path: the offsets each end counts, the replay that waits for
`setImmediate` while live output does not, drops and reloads, and the size of
the pty with its repaint. A byte is its position in the stream.

### 2.5 Native applications: WaylandSession

`WaylandSession` has the sessions of one application and the windows that come
and go on them. It resembles `PtyTerminals`, and differs where the code does:
the opener awaits (the instances of the application that are still up, then,
for a snap, its bus proxy), so a window may be closed or dropped under it; and a
stop takes three steps, in the first of which the session is still `alive` and
may be attached, so that it does not implement `ShellLife`.

| Code | Model |
|---|---|
| the awaits of `session()` | `stage[w]`: "gate", "proxy"; `chan[c]` says how the window went meanwhile |
| `liveApps`, and the wait for them of five seconds at most | `LiveApps` and `GateOpens`: whether an instance has gone by then is open, so that a launch may pass it at any time |
| `stop`, `escalate`, the two uses of `killTimer` | `Stop`, `Escalate`; `asks`, `kills` count the timers that are set, `killTimer` is the one the variable holds |
| `finish`, the child's `exit` and `error` | `Finish`, `Exits`, `SpawnFails` |
| `onClose`, `attach` | `OnClose` in `WindowCloses` and `ConnectionDrops`; `Attach` |

That no two instances run at once is not claimed: after five seconds the code
starts the new one beside the old. What matters of the awaits is that a launch
may lose its window in them (`OrphansEnd`). One launch may await a proxy and the
next not, which is more than one application does. A window name is used again
once its window is closed.

### 2.6 Frames: FrameFlow

`FrameFlow` follows the picture of one surface through the three programs. A
picture is a row of cells, each with the number of the commit that drew it, so
that a part that is old, lost or drawn over shows; damage is an interval. The
application may draw all or part of a window of either size: `redrawn` is whether
it has drawn all of it since it last changed its size.

| Code | Model |
|---|---|
| `surface_commit`, `canvas_update`, `surface_send_damage`, `emit_canvas_rect` | `Commit`: the kept copy, what is held while a frame is on its way, what of it still fits |
| `surface_acknowledged`, `IPC_RESYNC`, `surface_check_stale` | `Acknowledged`, `Resync`, `GivesUp`, `ReleasesStale` |
| the seat's relay and `onCtl` of `wayland.ts` | `NodeRelays`, `NodeRelaysAck`; `pipe` and `back` survive a dropped connection, `wire` and `acks` do not |
| the chain of promises in `applyFrame` | `applying`; `PageReads` appends, `PageApplies` draws and acknowledges, over whatever channel there is by then |

### 2.7 The window of an application: WaylandWindow, SizeTalk, KeyRelay

`WaylandWindow` is the page's tree of surfaces: which is the window, where
dialogs and menus are drawn, and what opening, refusing, dropping and closing a
channel do to it. The application shows, hides and destroys what it likes.

| Code | Model |
|---|---|
| `surfaces`, `mainId`, `hiddenMain`, `popupLayer` | `kind`, `parent`, `layer`, `mainId`, `hiddenMain` |
| `surfaceGone`, `promote`, `windowGone` and its timer | `SurfaceGone`, `Promote`, `GoneTimerFires` |
| `sessionHandlers.onClose`, `attach`, the state listener | `ChannelCloses`, `Reconnect`, `PicksUp` |
| `onClose` with its eight seconds, `destroy` | `PressesClose`, `EightSeconds`, `Destroy` |

`SizeTalk` has one dimension of one window, and everyone who changes it: the
person (`Resize`, `Maximize`, `Minimize`, `Restore`, `SetZoom`), a Wayland
client or an X client that chooses another (`AppChooses`, `GrantWish`), and what
is on its way between them, configures, frames and notices of the X server, each
in a queue of its own. `Adopts` and `PushesSize` are `adoptSize` and `pushSize`.

`KeyRelay` sends keys as they go down and up, with the focus that moves, the
Ctrl+V the page keeps until it knows what to paste, and copies that borrow the
focus. `inHand` is what the application should hold, `pressed` what the seat
thinks it does.

### 2.8 Copies: Clipboard

`local` and `system` are the two entries of `ClipboardStore`; `newest` is what
was copied last anywhere. Three kinds of browser are initial states: all of the
API, `execCommand` alone, nothing.

### 2.9 File dialogs and the bus: FilePortal, FileChooser, BusProxy, BusConnection, BusMarshal

`FilePortal` has the requests of an application from the portal over the session
to the dialogs on its windows, and back; `Asks` and `Looked` are `chooser` before and after its
await. `FileChooser` is the dialog itself, in its four kinds: a file to open, one to
save to, a folder, and a folder to save several files in. `AcceptsOpen`,
`AcceptsSave` and `AcceptsFolder` are the cases of `accept()` (`chooser.ts` 219-263):
a directory that is selected or named is gone into, except where a folder is
asked for, when it is the answer, and else the folder that is shown. A listing may
have anything, since others change folders too. `BusProxy` is the byte streams of a
snap's connection: a message travels in two halves, so that what is injected
could land inside one, and the owner of the portal's name is read from news that
come with it. `BusConnection` is class `DBus` as a client: connect, calls, the end.
`BusMarshal` is the encoding, checked over every body of the bounds: what is
written is what is read back, to the last byte. Values nest three deep, so that
its definitions need no recursion.

### 2.10 The desktop: DesktopSession, WindowFrame, Dialogs, AppCatalogue, TokenRotation

`DesktopSession` has pages that follow each other over one saved session: a page
starts, restores record by record while applications mount, is used, and is
left, reloaded or killed. `had` is what the person has open, which is what has to
come back; `kept` is the order and the focus of the screen that was left, until
the person touches what comes back. `WindowFrame` is the geometry of one window (one dimension), with the
gestures split at each pointer event; `placed` is where it last was by choice.

`Dialogs` has the keys, buttons and focus of dialogs, any number over one another;
a key goes to every one that is open, and the default action of a button to the
one that has the focus. `AppCatalogue` is the set
of applications that are turned off, on the server, on its disk and in the page,
with the claims and choices that decide what opens a file, and a page that cannot
read the list and takes everything for turned on; `TokenRotation` the
token on disk, in the server, in every desktop and on its way, with HTTP answers
in any order and a server that restarts.

### 2.11 Terminal window, editor, files: TerminalWindow, Editor, EditorText, FileBrowser, Uploads

`TerminalWindow` is the page's side of a shell: which channel the window is on,
what it makes of each close, and the shells the server runs for it (`running`,
`holder`), so that one it loses is seen. `Editor` has the buffer, the files and
the calls between them; a call is asked, served and answered in three steps, and
others write in between. `EditorText` is the text itself: the gutter that is
patched a frame later, and the find bar whose positions age, over texts of which
one capital is two characters when it is small. `FileBrowser` is one window of the
file manager over directories in which others make, replace and remove what they
like (`OthersChange`); `Uploads` the names and files of uploads, with those that
fail.

| Code | Model |
|---|---|
| `checkExternalChange` (786-812), its question and its answer | `Looks`, `Serves`, `Checked`; `told` is the warning that a save will overwrite what others wrote |
| `save` (814-829), which looks at nothing before it writes | `Save`, `Serves`, `Saved`, then the question for the time (`MtimeKnown`) |
| a buffer taken back to what was read | `Undoes` |
| `scan`, `selectMatch`, `step`, `replaceCurrent`, `replaceAll` (549-715) | `Scan`, `SelectMatch`, `Step`, `ReplaceCurrent` (with the step that follows it), `ReplaceEvery`; `Folded` is `toLowerCase` and may be longer than the text |
| the rename of `fs.ts` 96-101, and mkdir | `Moved`, which replaces what has the new name; `Made`, which does not |

### 2.12 The system manager: JournalStream, JournalViewer, ServicesPanel, ProcessesPanel

`JournalStream` is the server's end of the journal, from the run that reads the
backlog through the one that follows it to the batches a browser takes or does
not; `JournalViewer` the panel and the filters its stream was opened with.
`ServicesPanel` and `ProcessesPanel` have a list that is polled, a selection,
details that come later, and what is done to the selection; a process is a pid,
as in the code, and a pid that is free is used again at any time.

### 2.13 Coming and going: Outbound, Deadman

`Outbound` has the sockets a host has dialled and the redials that are set;
`Deadman` the two limits of a session and the clock.

## 3. What the runs check

| Run | Question | Bounds, and why they are enough |
|---|---|---|
| `connection` | channels are closed once and truthfully; both tables agree and nothing waits on a dead socket when nothing is on its way (`SettledWhenQuiet`); a stopped client stays away; calls settle, silent links are noticed, the page comes back (`NothingHangs`) | two sockets one after the other, so that an old session overlaps a new one; one id, which each property is about (every table is indexed by it and no handler looks at two); one fault, and the second comes from a stop or a revocation |
| `slices` | no missed wakeup, exact counts and credit (`BooksAreExact`), `ChannelFifo`; at most a window is out and payloads arrive (`NeitherFloodedNorStarved`) | two channels, two payloads of one or two slices, a window of one to three bytes of which a slice takes two: a payload larger than the window, one that may go past the queue, two channels that share it, closes between any two slices |
| `terminals` | nobody forgotten and no clock under a window (`ClocksAreRight`), windows hold their shells, `ShellLife`; a shell left alone is picked up or ends | two shells and two connections with two channels each: a window displaced by another connection and by its own |
| `replay` | the ring holds the newest bytes, offsets agree, what is drawn is in order (`ScreenIsTheStream`); a redraw is forced, sizes settle (`SizeIsRight`) | a ring of one, two, then three bytes, the last growth cut off by the limit, and a stream of six: every write wraps and overflows somewhere; three channels: two drops, the second between any two frames of the first recovery |
| `wayland` | windows and sessions agree, nobody forgotten, an ask before the display goes; a stop ends in the exit, and a launch that lost its window while it waited comes to an end (`OrphansEnd`) | two launches, so that one meets the other alive, stopping or gone; two windows at once and any number after each other, so one displaces another; two timers of a session pending (`MaxTimers`): a stop during a stop |
| `frames` | the page ends with the copy the compositor keeps, which is the application's picture once all of it was drawn, one frame is on its way at a time but for a resync or one given up on, no application waits for its frame for ever | sizes of one and two cells: a frame that fits, one cut off, one that covers; three commits: one sent, one held, one merged; one drop, after which an acknowledgement of the old connection may still arrive; `MaxInPipe` 2 |
| `window` | the page shows the window that is up and each dialog and menu where it belongs, leaves nothing running for a window that is gone (`WindowsAreSeen`), closes on a running application only when asked, picks its session up | two windows and a menu, so that one takes over from, hides or hangs from the other; five events; one drop and two launches: a session that is picked up, one that is refused |
| `shell` | eight parts (below): sessions survive, windows keep place and size, keys and copies arrive, Enter cancels danger, files are opened by the right application, tokens are known | see below |
| `applications` | sixteen parts (below): shells have windows, files are safe from an editor, a browser or an upload that was about something else, panels are true, file dialogs are honest, the bus is faithful, a text and a message are what they look like (`NothingMisread`), hosts come and go on time | see below |

`MCShell` and `MCApplications` put modules that share no state side by side. The
variable `which` names the one that runs in a behaviour while the others stand
still in one initial state, so that a run visits the sum of their states and
not the product, and what it checks of each is what checking it alone would.
Their ASSUME evaluates the assumption of every part. In `MCApplications` the names of
files, and of directories, may be exchanged (`Symmetry`): no step tells one from
another, and only invariants are checked. The properties of such a
run each join what belongs to one theme. The bounds, part by part:

- `shell`. *session*: two applications, two reloads, a restore with a window
  that mounts while another is awaited. *frame*: work areas of 3 and 5, a least
  width of 2 of which 1 stays visible: a screen too small for a window.
  *dialog*: two over one another, of all eight kinds. *catalogue*: three applications, one of
  them Settings, a file with two suffixes and one with a name of its own; one
  page. *token*: three desktops, one remote, three tokens and two drops or
  restarts. *size*: an area of 4, sizes of 2 to 4, zooms of 1 and 2, limits that
  bind below, exactly or not; two acts of the person and one of the
  application, in any order. *relay*: two canvases, seven events, enough for a
  paste held across a focus that leaves and returns. *clip*: three texts, four copies.
- `applications`. *terminal*: four channels, two drops. *editor*: two files,
  three texts: the one read, one typed and one written by another, with what was
  typed taken back. *text*: three characters of a small letter, its capital, a capital
  that is two characters when small, and the end of a line; two matches, rows up to
  three, and the find bar in a view that is not wrapped, which the gutter is for. *files*: two directories and names, two listings, what others put in between. *uploads*: two pages with two files
  each, three names, so that one must fail. *journal*: three streams, two rows.
  *services*: two units under two managers. *processes*: two pids, one of the
  desktop's own tree, each used any number of times.
  *portal*: two requests and senders, three attaches. *chooser*: two folders and
  names, any listing of them, two navigations. *proxy*: three messages each way, three owners. *bus*:
  three calls. *marshal*: strings and arrays of up to two, nested to three. *stream*: four
  entries, three of backlog, batches of two: some full, some sent by the timer.
  *dialling*: four dials. *deadman*: limits of none, 2 and 3 over 6 seconds.

Three runs show a sentence of the code that the program does not keep
(PROJECT.json, `findings`):

- `ready_forgotten`: a drop before the first `hello` throws away the promise
  `Desktop.start()` waits for; the page reconnects and never restores.
- `orphan_kill`: a second stop overwrites the handle of the first one's timer;
  what is left fires after the exit and kills a process group that is gone.
- `disabled_returns`: an application is turned off while a window of it is
  saved; the next page fetches the list "so a disabled app's saved windows are
  skipped" (`desktop.ts` 952), and opens the window: `restoreSession` asks only
  whether it is registered.

Deadlock is not checked: every model may come to rest (all ids used, all bytes
printed), and waiting that should not be is stated as a property instead
(`NeverIdle`, `SettledWhenQuiet`, the liveness properties). Type invariants
catch a bound that is overrun (window, ring, counters, cells of a frame).

### Statements that fail

The modules state more sentences of the code than the runs check. Checked with
the configuration of the run that is named, each of these fails:

- `LostMeansNobodyAsked` (`connection`): a channel closed by the page while its
  opener is at work, on a connection that then drops, is told it was lost.
- `HeldForOpenChannels` (`slices`): a slice in flight when the page closes its
  channel is kept by the assembler until the socket goes.
- `NothingDrawnTwice` (`replay`): live output goes out before the replay of the
  attach; the window counts it as part of the replay, and after a further drop
  asks from the wrong place. `DrawnInOrder` is what does hold: with no such
  overtaking, everything is drawn once and in order.
- `EndsAtTheRightSize` (`replay`): the timer of a repaint puts back the size of
  50 ms ago over a later one. `SizeSettles` is what does hold.
- `RefusedOnceExpired` (`wayland`): for two seconds after the grace period has
  run out the session may still be attached; the window then loses its
  application.
- `HeldIsBounded` (JournalStream alone, with `Entries` 10): "A flood that outruns
  the batch is counted rather than queued without bound" (`journal.ts` 369). A
  full batch is sent at once, so the length at which entries are counted is
  never reached, and the channel holds what a slow browser has not taken.

### What the runs exclude

Some properties hold only of people, applications or networks that do not do
certain things at certain moments. Each such thing is a Boolean constant of its
module, in the guard of the action it is about; a run excludes it, and with the
other value a property of that run fails. They are the limits of what the
properties claim:

| Constant | What then happens in the code |
|---|---|
| `Nested`, `Disorderly` (WaylandWindow) | a menu of a menu over a dialog, with `Popups` of two, is drawn on the stage under it (`index.ts` 531-542); dialogs whose window goes first hang from nothing the page knows |
| `InHaste` (WaylandWindow) | "Choose another" while a session is being picked up: the channel's variable is set to null and the one opened then is never closed (`index.ts` 303-311) |
| `Early` (SizeTalk) | an X client that chooses another size while the configure for its first is on its way is put back to the first |
| `Crossing` (SizeTalk) | a configure for an X window is handled before what the X server told of the one before: `xwm_on_geometry` (`wdcomp.c` 4275) then puts the older size in its place, and the person's next configure is dropped as the size the window has already (3553). It takes three acts; the run has two |
| `Chords`, `Quick`, `InHaste` (KeyRelay) | a chord of the shell over a held key, or a focus that moves while a copy is being written: a key sticks; Ctrl let go before a paste is answered: the V replayed is a letter |
| `Unseen`, `Overlapping` (Clipboard) | a copy made here while the machine's clipboard holds one the page has not seen: when it sees that, it takes it for the newer; a copy made while another is still being written: the machine's clipboard ends with either |
| `Impatient`, `ClosesEarly` (DesktopSession) | a page hidden or left before its session is read saves an empty desktop over it (`desktop.ts` 541); a window closed during the restore is given the focus at its end (`window-manager.ts` 307-315) |
| `Careless` (WindowFrame) | a window maximized by a shortcut in the middle of a drag is dragged on; pulling the left edge of one that hangs over the right of the screen puts it out of reach |
| `InHaste` (TokenRotation) | a probe answered for the old cookie while a new one is being adopted signs a desktop out that was to stay in |
| `InHaste` (TerminalWindow) | "Restart shell" while the shell is being picked up leaves it running without a window |
| `InHaste` (Editor) | typing while a file loads, saving or turning to another file while an answer is due: the later answer overwrites |
| `SlipsIn` (Editor) | another writer between a read or a write and the question for its time (`index.ts` 749 and 827): the time of the newer text is kept with the older text, and nothing is noticed |
| `Unreadable` (Editor) | a page that comes back cannot read the file its draft is of: the draft is dropped (1119-1131) |
| `InHaste` (FileBrowser) | a dialog that is opened while another directory loads is carried out in that one; listings shown in the order of their answers |
| `RemovesEarly` (Uploads) | a file removed while it is uploaded, and its name used again: a failure unlinks the other's |
| `Pauses = FALSE` (JournalViewer) | typing in the other box before the pause of the first is over: there is one timer for both (`journal.ts` 275-281), and what was typed first does not take effect |
| `InHaste`, `WhileLogs` (ServicesPanel) | following a notice, or leaving the panel, during a control, and choosing another unit over the logs of one: the details shown stay those of the unit before |
| `InHaste` (ProcessesPanel) | leaving during a poll makes the next rates of lists far apart; a process handed over and hidden is selected and not marked |
| `Coalesced` (BusProxy) | the answer of a lookup and a change of owner in one chunk: the older wins |
| `Late` (BusConnection) | the bus hangs up before Hello is answered, or a call is made of a connection that is gone: it is never settled |
| `EarlyExit` (JournalStream) | `exit` before the last of a child's output is read: the follower starts again from an older entry |

### What the properties allow

The runs also take paths on which the code does what a person may not expect. The
properties are stated so as to allow it:

- A save asks nothing and looks at nothing (`index.ts` 814-829): what others wrote
  since the last look is overwritten. `UnseenIsAnnounced` is about an editor that
  has looked: it shows the file's text, or has told the person that saving will
  overwrite it. The warning gives way to that of a lost connection (1018-1022) and
  is not shown again; that is left out.
- A rename in the file manager replaces what has the new name (`fs.ts` 96-101) and
  asks nobody.
- `toLowerCase` can make a text longer (U+0130 becomes two code units), and the find
  bar uses offsets in the small text as offsets in the text (`index.ts` 549-560,
  614-616): from such a character on they are shifted, and Replace and Replace all
  write over other text. `ReplacesWhatIsFound` claims that what is replaced is what
  was looked for only where the text is as long in small letters.
- Replace goes by the number of the match last selected, which neither typing nor
  the case switch resets (607-612): after either it may replace another match
  than the one last stepped to. Without them it is the one that was marked.
- The file chooser asks before it replaces a file that its listing has. Hidden files
  and files made since are not in it and are replaced unasked; so are those that an
  application which saves several writes into the folder it is given. A selection
  that another filter hides is answered all the same.
- Enter is read by every dialog that is open (`dialog.ts` 86-92): with one over
  another, both are answered, and a dangerous one below is confirmed. So is any
  whose cancel button has lost the focus to something else.
- A signal goes to the pid that was confirmed, which may be another process's by then.
- Where the list of what is turned off cannot be read, everything is on
  (`desktop.ts` 959-961).
- An instance of an application that takes more than five seconds to end runs
  beside the one that was started after it.
- A frame is compared with the size last sent (`wdcomp.c` 656). An application that
  resizes there and back under a frame in flight and then damages only a part has
  had its kept copy cleared in between (636-641): what it has not redrawn is blank,
  in the compositor as in the page.

Met while modelling and on no path a run takes: the order of a resync
(`wdcomp.c` 3591 and `index.ts` 787) shows dialogs before the window that clears
the root, which is why `DialogsAndMenusAreSeen` is about first connections.

### Fairness

Safety needs none. The liveness runs assume:

- `connection`: timers fire; a microtask runs; a link that is not cut
  delivers; an upgrade that was accepted is answered; a browser notices a
  dead socket (its TCP stack does, in minutes); openers and handlers come
  back (the services bound theirs); the heartbeat's interval ticks. A server
  is *not* assumed to notice a cut by itself: that is the heartbeat's work.
- `slices`: the socket takes what it is given and both ends read. Nothing
  is assumed of the pump, which is part of those steps.
- `terminals`: microtasks run and the grace timer fires.
- `wayland`: the grace, ask and kill timers fire and a process that got
  SIGKILL exits; a launch gets past its awaits, since the one for other instances
  is capped by a timer of five seconds and the one for the proxy is for the
  machine's bus, which answers or hangs up. No application is assumed to obey
  anything less.
- `frames`: the loops of compositor, node and page read, and the check for
  stale frames runs. That a dropped window comes back is not assumed.
- `window`: the page and the server read, the client redials, and the timer of a
  window that is gone fires. Nothing is assumed of people or applications.

All weak: none of these is enabled and disabled again for ever by something
else that the code waits for. `shell` and `applications` check safety alone.

## 4. What is proved

With TLAPS, for every set of sockets, ids, channels, shells, windows, files and
sizes, every length of a queue and any number of faults, under the named
assumptions on the constants. Bounds like `MaxDrops` may be any number. Where a
theorem has a hypothesis besides, it is one of the constants of "What the runs
exclude", with the value of the run, and it is named here; what such a theorem
says nothing of is in that table.

`ConnectionProofs`
- `TypeCorrect`: every variable of page, server and link keeps its type.
- `OnCloseRunsOnce`, `DropsAreLost`: the two
  promises about a channel's end. Neither is inductive: that `onClose` runs once
  depends on which of the opener and the three ways to close came first.
  `MuxInv` is, id by id (`ChannelInv`): it ties the number of runs to the
  state of the opener and of the table, says that a session that is disposed
  of has an empty table, and why an opener may find its placeholder gone: it
  was asked for by the page or by the service. `MuxCorrect` proves it; one
  lemma per handler, then one step per action of the composition.
- `StoppedStaysStopped`, from `ClientInv`: a socket that is neither unused nor
  gone is the one the client holds, and no timer runs once it was stopped.
- `TablesSettle`: with nothing on its way both tables agree. That is a statement
  about empty queues, and what is inductive is one about full ones: `LinkInv`
  says, for an id and a socket, what may be on its way in which direction and in
  which order while the two tables differ (`Linked`). An `open` has not been
  seen by the server; a page that has changed its mind has a `close` behind it;
  a channel whose entry is gone has the server's `close` on its way back.

`SliceFlowProofs`
- `PumpBooks`: the exact counts. No part is inductive alone: the callback of a
  write lowers a count that only `CountsAreExact` keeps above zero, and `took()`
  takes off an amount that only the credit on its way (`CreditInv`) knows to be out.
- `PumpNeverIdles`: whenever a slice could be sent, one is on its way to the
  socket, because each handler that frees credit, queues work or finishes a
  write ends in `pump()`.
- `SlicesWithinWindow`, an action property: the pump adds a slice only while
  less than a window is out.
- `SlicesKeepOrder`: SliceFlow implements ChannelFifo. `StreamInv` has, for each
  channel, the payloads it was given, the frames that carry them on (`Walk`),
  the entries of the queue that hold the rest (`Numbered`) and the place in the
  payload that the page is at: one stream, of which the page has had a prefix.
  A channel the page let go is left out, since bytes of it may stay behind
  (`HeldForOpenChannels`).

`PtyTerminalsProofs`
- `TypeCorrect`.
- `NobodyForgotten` and `ClockOnlyWhenAlone`, together `ClocksRight`;
  `WindowsHoldTheirShells`, `OwnersHoldTheirShells`; all from `Inv`: per shell,
  which of window, clock, mark and death there is (`TermInv`), and per channel,
  which shell it may hold in which state (`ChanInv`). The second half is needed
  because a close acts on the channel's shell, not on the shell's channel.
- `ShellsLiveAsPromised`: PtyTerminals implements ShellLife; every step moves
  every shell along an edge of ShellLife or not at all.

`TerminalReplayProofs`
- `ScreenFollows` and `SizeFollows`, both from `IInv` (`AlwaysInv`). The first
  says nothing of what is drawn after live output has overtaken a replay, the
  second nothing of the size where a resize came within the 50 ms of a repaint: in
  both the code goes wrong ("Statements that fail"). For the
  ring: where each byte of it lies on the circle, before and after it grows or
  wraps (`Placed`, `Landed`); that the doubling of its size ends is an argument by a
  least number. For the way: the frames that are coming and the replay that is
  due count on from what the window has to the end of the stream
  (`StreamInv`, `Walks`), `opened` comes first, and what is drawn is in order unless
  one frame was overtaken. For the size: the last resize under way has the
  height of the window, or a repaint that will restore it is pending (`SizeInv`,
  `TimersInv`).

`WaylandSessionProofs`
- `TypeCorrect`, `WindowsHoldTheirSessions`, `NobodyIsForgotten` and
  `AskedFirst`, all from `Inv` (`Consistent`), whose parts are what the code
  keeps in step: a session with its window (`SessionInv`, `ChannelInv`), the timers
  of a stop with the handle on the last of them (`TimerInv`), and the ask with the
  stop it belongs to (`PoliteInv`). `SeatOfOne` is the
  argument for the first two: a step is about one session and its windows, and
  what it leaves alone stays consistent. That an ask which fires finds its
  session being stopped, which `SeatStep` needs, is part of `PoliteInv`.
- `WindowsStaySeen` and `WindowClosesWhenAsked`, of WaylandWindow (`Plain`: not `Nested`,
  `Disorderly`, `InHaste`), from `WindowInv`. Of dialogs and menus they claim something on
  the first connection of a session, and nothing of one picked up. Nothing that is on screen need be up while
  messages are on their way, so that what is inductive is about the way: the messages
  lead, each by what it says of one surface (`Turns`), from what the page
  shows to what the server has up (`Leads`). A resync leads there from anywhere, since it
  begins with a reset and announces all that is up, each once (`ResyncLeads`). `PageInv`
  is the page's share: one surface is the window whenever one could be, and nothing
  is about to close it. That a menu is drawn over its window (`Seen`) needs the
  states in between to be well formed (`WellFormed`: what hangs from something has
  it up, and nothing hangs from itself). `OnTheChannel` says who answers whom: a channel begins
  with its answer, ends with its end, and one that is open either has the session
  or an end on its way. The second follows, since the three steps that could close the
  window are excluded by what it shows (`ClosesWhenAsked`).

`FrameFlowProofs`
- `TypesHold`: whatever is clamped, held and merged, a frame is made of cells
  that are there. The kept copy is as wide as the picture that was drawn and
  what is held lies within it (`CanvasOK`), which is the reason.
- `OneFrameHolds`: one frame is on its way at a time, and one more for each
  resync or frame given up on. What is inductive is an account (`Books`): all
  that is on its way, frames in the pipe, on the wire and in the page's chain and
  the acknowledgements coming back, is at most what was excused and the one
  the compositor counts as in flight. An acknowledgement that reaches
  the compositor with no frame in flight is one of the excused.
- `PictureHolds`, without a hypothesis: the page ends with the copy the compositor
  keeps, which is the last picture once all of it was drawn. `PictureInv` follows each
  cell: what is not held back is at the page, or is drawn by a frame on its way and by
  none behind it (`Settles`), or a resync that will bring it is on its way; and the page
  knows the surface by the time such a frame comes (`Opens`). Damage between two sizes
  is `ResizedHeld`: a copy of another size than the last frame is held back whole.

`ShellProofs`, about the parts of `MCShell`. That each part moves by its own
steps alone is a lemma (`TokenRuns`, `SizeRuns` and so on); the rest is about the
part's own Init and Next.
- `TokensAreKnown` (not `InHaste`): per desktop, the news on its way ends with the
  token in force (`ToldLast`), who has news coming knows older tokens
  (`KnowsOlder`), who has none has the latest or is adopting it (`KnowsLatest`).
- `EnterIsSafe`, without a hypothesis, an action property: while the focus has not been
  moved it is where the dialog shown last put it, or that dialog is over (`DialogInv`).
- `FilesAreOpenedRight`: the claim with the highest score is one than which none
  is more specific. It rests on the assumption `PrioritiesBreakTies`: the code
  adds a claim's priority to its score (`associations.ts` 62-88), and priorities
  as large as the distance between two kinds or lengths would do more than what
  `types.ts` 71 says of them, that one "breaks ties between equally specific
  claims". Those of the applications are 0 and 1.
- `KeysAreRight` (not `Chords`, `Quick`, `InHaste`): `WireIs` says what the seat will
  hold when it has read all that is on the wire, in whatever order keys, focus and
  pastes are on it. A paste whose Ctrl is let go of before it is answered is what
  `Quick` excludes. `PastesAreRight` (not `Unseen`, `Overlapping`): `ClipInv` says
  which of the two entries is the latest, after a copy made here and after one made
  elsewhere. `KeysAndCopiesAreRight` is both.
- `FrameIsRight` (not `Careless`), `PicturesFit` (not `Crossing`), and `PlacesAreKept`
  (not `Early` either), which is both and the size an application chose for itself.
  For a window's frame, `GestureInv` relates a gesture to where it began. Its assumptions are those of
  the code: what must stay visible is less than the least width
  (48 and 320 pixels), and no work area is narrower than twice that. For
  its size, `SizeInv` has an account of everything on its way at once: the
  pictures for the page (`PicturesInv`), the last configure, which has what was
  asked for last (`AskedInv`, `ConfiguredInv`), and the size an X window ends
  at after the configures it will heed (`EndsAt`, `FollowsInv`). `ChoiceInv` is
  what an X client needs that nobody has touched: its window follows the picture,
  so that everything it is asked after its first choice is an echo. That
  last part is about sizes there is room for (`Sizes \subseteq Least..Area`):
  a client that chooses one there is no room for, and another at once, may be put
  back to the size of its window.

- `SessionsSurvive` and `ScreensComeBack` (not `Impatient`, `ClosesEarly`). What is
  open on a page that restores is not what the person had. What is inductive
  (`SessionInv`, `PageInv`) is the sum: what is open and what is still to be opened
  are together what the person had, each window saved once (`SavedOnce`). The
  second, an action property, is about the end of a restore; `StackingInv` has
  its middle: the first k of the saved windows are back, in their order, those
  that were minimized are so again but for the one that is awaited, and the one
  that had the focus is the one to get it (`Restored`). That the order of
  what is saved is that of the screen (`KeptIsSaved`) is carried across the reload.

`ApplicationsProofs`, about the parts of `MCApplications` in the same way.
- `ComesAndGoes`: hosts redial until they are stopped (`DiallingInv`) and end at
  their limit, not before (`ClockInv`: the interval runs while there is a limit).
- `FilesStaySafe` (not `InHaste`, `SlipsIn`, `Unreadable`, `RemovesEarly`). For the
  editor, `EditorInv` says what each call under way will answer and what follows from
  it: the window shows what was typed or what is there, unless a call that will say
  otherwise is on its way (`TypedIsKept`), and whenever the time it knows is the
  file's, so is the text, or the person was told (`KnownIsThere`). For the file browser, `BrowserInv`: all listings under way
  are of the directory asked for last, and a dialog is about the one shown. For uploads,
  `UploadsInv`: an upload under way holds its file, which is not whole.
- `ShellsHaveWindows` (not `InHaste`), by `TerminalInv`: one channel at a time is
  the window's, and what the server has done with each of the others (`ServerSays`,
  `ServerServes`) says whom a shell that runs is held by.
- `DialogsAreHonest`, without a hypothesis, by `ChooserInv` and `PortalInv`.
  A request is between the portal, the wire and a dialog, so that "shown until
  answered" is about all three: one that is pending has a dialog, or a delivery
  or an answer under way, and a dialog whose request is over has its
  dismissal under way (`DialogsShown`, `WindowInOrder`).
- `ServicesStayTrue` (not `InHaste`, `WhileLogs`), `ProcessesStayTrue` (not `InHaste`; pids
  are used again), `JournalsStayTrue` (`Pauses`) and `StreamsStayTrue` (not `EarlyExit`),
  by `ServicesInv`, `ProcessesInv`, `JournalInv` and `StreamInv`; `PanelsStayTrue` is the
  four. The last invariant is an account of one journal over two runs of journalctl: what was sent, what
  is in the batch, what is in the pipes and what is still to be written are
  consecutive entries, of which the follower has none that the backlog has had.
- `MessagesStayWhole`, without a hypothesis: what the application wrote is what
  went on, but for half a message that waits (`AppInv`); what the bus sends is passed on in
  pairs of halves, so that nothing of the proxy's own comes between two (`PairsInv`); and
  a call is given its own answer or none (`OwnAnswers`). `OwnersAreKnown` (not `Coalesced`):
  the last news of the owner is the owner there is (`OwnerInv`). `CallsSettle` (not `Late`):
  a call is pending only on a connection that can still answer it (`BusInv`).
  `BusStaysFaithful` is the three.

Where a window is taken out of the stack, a surface out of the list, or a listing out
of those under way, it is by a definition of the module's own: of SelectSeq, which is recursive, the provers
know nothing. (`Among`, in DesktopSession, has it for a stack with windows that are
not open, of which the proof shows that there is none.)

The assumptions are `ConnectionAssumption`, `RingAssumption` and so on in each
module, evaluated by TLC on every run of it, and ask no more than that bounds are
numbers and sets are finite where something is counted, unless said above.

Only model-checked, and why:
- `NothingMisread`: the lines of a text, the matches in it and the bytes of a message are
  functions by recursion on their length, and that what they compute is right for
  every length is an induction over data (the last point).
- All liveness, `OrphansEnd` and `StopEndsInExit` with it: fairness and ENABLED are out of
  the prover's reach.
- What a recursive definition computes for every input: the theorems on induction
  take an operator, which these provers cannot instantiate. Where a proof needs
  induction on a number (the doubling of the ring, the totals of the credit, the
  largest score) it goes by the least counterexample instead.

## 5. What is not modelled, and why

- Byte layouts of frame headers and of the compositor's IPC, and JSON: frames are
  records. No property tells one layout from another. The encoding of the
  message bus, where an alignment depends on what went before, is BusMarshal's.
- Times: only order is kept. A delay that races another event is an action
  that may come before or after it; the one exception is that immediates and
  microtasks come before timers, which the code relies on.
- Services that read a file or run a command and answer (sys, net, certs,
  storage), the shell service and the command line, and extra services, which
  are loaded at start: they keep no state between calls.
- Drawing: menus, the taskbar, icons, notifications, charts, fonts and styles.
  The packaging scripts and the tests, which were read as documentation.
- The pointer in native windows, subsurfaces, cursors, X selections, and wlroots
  and Xwayland callbacks beyond what the IPC protocol shows.
- Reusing a client after `disconnect()`: nothing in the page does it.
- Crashes of the server, except in TokenRotation and AppCatalogue: nothing else
  is persisted there. A server that restarts is otherwise a connection that is lost.
- Two pages in the catalogue at a time: the server tells pages nothing of a
  switch another has made.

## 6. Plan

Of the properties the runs check, `NothingMisread` and those of liveness have no
theorem, for the reasons of section 4.

The models worth writing next: pointer input and the focus it moves, composed
with KeyRelay; the list of hosts and its storage; WaylandWindow composed with
WaylandSession, in place of each one's view of the other; two pages that change
the catalogue at once.
