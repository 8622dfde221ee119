--------------------------- MODULE MCApplications ---------------------------
(*****************************************************************************)
(* The applications and what the server does for them, side by side: the     *)
(* terminal window, the editor and its text, the file browser and uploads,   *)
(* the panels of the system manager, the file chooser and its portal, the    *)
(* session bus, the journal, the dialling out and the deadman clock. They    *)
(* share no state, so one of them runs in each behaviour and the others      *)
(* stand still, as in MCShell.                                               *)
(*****************************************************************************)
EXTENDS Integers, Sequences, TLC

CONSTANTS
  FileNames, MaxChannels, MaxDrops, InHaste, SlipsIn, Unreadable, Files, NoFile, MaxTexts, MaxText, MaxMatches,
  Rows, Dirs, EntryNames, MaxLists, Pages, ToSend, Names, RemovesEarly, Streams, MaxRows,
  Pauses, Units, NoUnit, MaxControls, WhileLogs, Pids, NoPid, Own, Requests, Senders,
  MaxAttaches, Folders, MaxAsks, Calls, Signals, Owners, Coalesced,
  Serials, Late, Bytes, MaxLength, Entries, BacklogLines, BatchSize, EarlyExit, Dials, Limits, Latest

VARIABLES
  which,   \* the part that runs in this behaviour
  isOpen, channel, termId, awaitingReconnect, disposed, ended, page, resuming, wire, server,
  running, holder, known, dropsLeft,
  disk, path, buffer, savedContent, readOnly, knownMtime, draft, editorAsked, texts, mine,
  told, editorWritten, checked,
  text, caret, query, caseSensitive, matches, index, lineNumbers, wordWrap, gutter, due,
  marked, astray,
  entries, current, selected, lists, listsLeft, dialog, lastAsked, strayed,
  there, upload, sent, owed,
  active, gone, boxes, filters, debounce, generation, stream, served, arriving, journalRows,
  servicesWatched, scope, tab, loading, listed, selectedUnit, details, servicesDetail,
  controls, notices, logs, streams,
  living, processesWatched, polling, list, processesRows, previous, filter, ownOnly,
  selectedKey, selectedPid, wantSelect, inspected, processesDetail, prompt, signals, misfired,
  proxied, request, sender, here, heard, portalClosed, down, up, choosers, attaches,
  kind, chooserAsked, chooserAsks, listing, picked, hides, nameTyped, confirming,
  answer, agreed,
  proxyAsks, wrote, early, fromClient, authed, onward, helloed, unique, busSends,
  fromBus, toApp, nameOwner, ownerNews, ownerName,
  connect, socketIs, serial, calls, answeredWith, busHas, replies, closedTold,
  body, little, marshalWritten, readBack,
  follows, logged, run, next, ends, pipes, lastCursor, batch, dropped, sentOn, taken,
  streamClosed,
  socket, redials, dialStopped,
  ttlSec, idleSec, now, startedAt, lastActivity, ticking, exited

Terminal == INSTANCE TerminalWindow
Editing == INSTANCE Editor WITH asked <- editorAsked, written <- editorWritten
Text == INSTANCE EditorText
Browsing == INSTANCE FileBrowser
Uploading == INSTANCE Uploads
Journal == INSTANCE JournalViewer WITH rows <- journalRows
Services == INSTANCE ServicesPanel WITH watched <- servicesWatched, detail <- servicesDetail
Processes == INSTANCE ProcessesPanel WITH watched <- processesWatched, rows <- processesRows,
  detail <- processesDetail
Portal == INSTANCE FilePortal
Chooser == INSTANCE FileChooser WITH asked <- chooserAsked, asks <- chooserAsks,
  Names <- FileNames
Proxy == INSTANCE BusProxy WITH asks <- proxyAsks
Bus == INSTANCE BusConnection
Marshal == INSTANCE BusMarshal WITH written <- marshalWritten
Stream == INSTANCE JournalStream
Dialling == INSTANCE Outbound
Clock == INSTANCE Deadman

ASSUME ConstantsAssumption ==
  /\ Terminal!TerminalWindowAssumption
  /\ Editing!EditorAssumption
  /\ Text!EditorTextAssumption
  /\ Browsing!FileBrowserAssumption
  /\ Uploading!UploadsAssumption
  /\ Journal!JournalViewerAssumption
  /\ Services!ServicesAssumption
  /\ Processes!ProcessesAssumption
  /\ Portal!FilePortalAssumption
  /\ Chooser!FileChooserAssumption
  /\ Proxy!BusProxyAssumption
  /\ Bus!BusConnectionAssumption
  /\ Marshal!BusMarshalAssumption
  /\ Stream!JournalStreamAssumption
  /\ Dialling!OutboundAssumption
  /\ Clock!DeadmanAssumption

terminalVars == <<isOpen, channel, termId, awaitingReconnect, disposed, ended, page, resuming,
                  wire, server, running, holder, known, dropsLeft>>
editorVars == <<disk, path, buffer, savedContent, readOnly, knownMtime, draft, editorAsked,
                texts, mine, told, editorWritten, checked>>
textVars == <<text, caret, query, caseSensitive, matches, index, lineNumbers, wordWrap, gutter,
              due, marked, astray>>
filesVars == <<entries, current, selected, lists, listsLeft, dialog, lastAsked, strayed>>
uploadsVars == <<there, upload, sent, owed>>
journalVars == <<active, gone, boxes, filters, debounce, generation, stream, served, arriving,
                 journalRows>>
servicesVars == <<servicesWatched, scope, tab, loading, listed, selectedUnit, details,
                  servicesDetail, controls, notices, logs, streams>>
processesVars == <<living, processesWatched, polling, list, processesRows, previous,
                   filter, ownOnly, selectedKey, selectedPid, wantSelect, inspected,
                   processesDetail, prompt, signals, misfired>>
portalVars == <<proxied, request, sender, here, heard, portalClosed, down, up, choosers,
                attaches>>
chooserVars == <<kind, chooserAsked, chooserAsks, listing, picked, hides, nameTyped,
                 confirming, answer, agreed>>
proxyVars == <<proxyAsks, wrote, early, fromClient, authed, onward, helloed, unique,
               busSends, fromBus, toApp, nameOwner, ownerNews, ownerName>>
busVars == <<connect, socketIs, serial, calls, answeredWith, busHas, replies, closedTold>>
marshalVars == <<body, little, marshalWritten, readBack>>
streamVars == <<follows, logged, run, next, ends, pipes, lastCursor, batch, dropped, sentOn,
                taken, streamClosed>>
diallingVars == <<socket, redials, dialStopped>>
deadmanVars == <<ttlSec, idleSec, now, startedAt, lastActivity, ticking, exited>>

\* Of the parts that do not run one initial state is enough.
Init ==
  /\ which \in {"terminal", "editor", "text", "files", "uploads", "journal", "services",
                "processes", "portal", "chooser", "proxy", "bus", "marshal", "stream",
                "dialling", "deadman"}
  /\ Terminal!Init
  /\ Editing!Init /\ (which # "editor" => disk = [f \in Files |-> Editing!Nothing])
  /\ Text!Init /\ (which # "text" => wordWrap)
  /\ Browsing!Init
  /\ which # "files" => entries = [d \in Dirs |-> [n \in EntryNames |-> Browsing!Nothing]] /\ lastAsked = CHOOSE d \in Dirs : TRUE
  /\ Uploading!Init
  /\ Journal!Init
  /\ Services!Init
  /\ Processes!Init /\ (which # "processes" => living = {})
  /\ Portal!Init
  /\ which # "portal" => proxied /\ sender = [r \in Requests |-> CHOOSE s \in Senders : TRUE]
  /\ Chooser!Init
  /\ which # "chooser" => /\ kind = "open"
                          /\ \A n \in chooserAsked : n.at = CHOOSE f \in Folders : TRUE
                          /\ nameTyped = CHOOSE n \in FileNames : TRUE
  /\ Proxy!Init /\ (which # "proxy" => proxyAsks = {})
  /\ Bus!Init
  /\ Marshal!Init /\ (which # "marshal" => little /\ body.types = <<<<"y">>, <<"y">>>>)
  /\ Stream!Init /\ (which # "stream" => follows /\ logged = 0)
  /\ Dialling!Init
  /\ Clock!Init /\ (which # "deadman" => ttlSec = 0 /\ idleSec = 0 /\ now = 0)

Only(part) ==
  /\ which = part /\ UNCHANGED which
  /\ part # "terminal" => UNCHANGED terminalVars
  /\ part # "editor" => UNCHANGED editorVars
  /\ part # "text" => UNCHANGED textVars
  /\ part # "files" => UNCHANGED filesVars
  /\ part # "uploads" => UNCHANGED uploadsVars
  /\ part # "journal" => UNCHANGED journalVars
  /\ part # "services" => UNCHANGED servicesVars
  /\ part # "processes" => UNCHANGED processesVars
  /\ part # "portal" => UNCHANGED portalVars
  /\ part # "chooser" => UNCHANGED chooserVars
  /\ part # "proxy" => UNCHANGED proxyVars
  /\ part # "bus" => UNCHANGED busVars
  /\ part # "marshal" => UNCHANGED marshalVars
  /\ part # "stream" => UNCHANGED streamVars
  /\ part # "dialling" => UNCHANGED diallingVars
  /\ part # "deadman" => UNCHANGED deadmanVars

TerminalSteps == Only("terminal") /\ Terminal!Next
EditingSteps == Only("editor") /\ Editing!Next
TextSteps == Only("text") /\ Text!Next
BrowsingSteps == Only("files") /\ Browsing!Next
UploadingSteps == Only("uploads") /\ Uploading!Next
JournalSteps == Only("journal") /\ Journal!Next
ServicesSteps == Only("services") /\ Services!Next
ProcessesSteps == Only("processes") /\ Processes!Next
PortalSteps == Only("portal") /\ Portal!Next
ChooserSteps == Only("chooser") /\ Chooser!Next
ProxySteps == Only("proxy") /\ Proxy!Next
BusSteps == Only("bus") /\ Bus!Next
MarshalSteps == Only("marshal") /\ Marshal!Next
StreamSteps == Only("stream") /\ Stream!Next
DiallingSteps == Only("dialling") /\ Dialling!Next
ClockSteps == Only("deadman") /\ Clock!Next

Next ==
  \/ TerminalSteps \/ EditingSteps \/ TextSteps \/ BrowsingSteps \/ UploadingSteps
  \/ JournalSteps \/ ServicesSteps \/ ProcessesSteps \/ PortalSteps \/ ChooserSteps
  \/ ProxySteps \/ BusSteps \/ MarshalSteps \/ StreamSteps \/ DiallingSteps \/ ClockSteps

vars == <<which, terminalVars, editorVars, textVars, filesVars, uploadsVars, journalVars,
          servicesVars, processesVars, portalVars, chooserVars, proxyVars, busVars,
          marshalVars, streamVars, diallingVars, deadmanVars>>
Spec == Init /\ [][Next]_vars

\* No file and no directory is unlike another.
Symmetry == Permutations(Files) \cup Permutations(Dirs)

\* Every shell the window has started is shown in it, known to it, or ended.
EveryShellHasItsWindow == Terminal!EveryShellHasItsWindow

\* What is done to a file was meant for it. The editor loses nothing that was typed, and where
\* it has looked at its file, what it takes for the file's text is that text, or the person was
\* told that a save overwrites what others wrote; a save asks nothing by itself (index.ts
\* 814-829). A command of the file browser is about the directory it shows and what is selected
\* in it; a rename replaces unasked what has the name (fs.ts 96-101), a new folder nothing. No
\* two uploads write to, or remove, one file.
FilesAreSafe ==
  Editing!EditorIsHonest /\ Browsing!ActsWhereItSays /\ Uploading!UploadsStayApart

\* The journal and the services show and follow what was asked for, in whichever order the
\* answers come; the processes are those of the row marked, and a signal goes to the pid that was
\* agreed to; a journal that is followed shows each entry once and misses none, across the end
\* of one journalctl and the start of the next.
PanelsAreTrue ==
  /\ Journal!ShowsWhatIsAsked /\ Services!PanelIsTrue /\ Processes!KillsWhatWasNamed
  /\ Stream!NoneTwiceNoneMissing

\* What the file chooser answers is in the listing on the screen, and of the kind that was asked
\* for; a file of that listing is saved over only where that was agreed to. Every request of an
\* application is answered once and shown until it is, over every window it is shown in.
FileDialogsAreHonest == Chooser!AnswerWasSeen /\ Portal!DialogsAreAnswered

\* The bus proxy passes every message whole, once and in order, knows who owns the name it
\* watches, and settles every call.
BusIsFaithful == Proxy!StreamsStayWhole /\ Proxy!OwnerIsCurrent /\ Bus!CallsAreSettled

\* What is computed from a text or a value is what is in it: the gutter of the editor is that
\* of its text, what the find bar replaces is what it marked and matches the query, and what is
\* marshalled is read back.
NothingMisread == Text!TextIsWhatItSeems /\ Marshal!ReadAsWritten

\* A host that dials out goes on until it is stopped, and one with a limit ends at it.
ComesAndGoesOnTime == Dialling!NeverAbandoned /\ Clock!EndsOnTime
=============================================================================
