------------------------- MODULE ApplicationsProofs -------------------------
(***************************************************************************)
(* Proofs about the applications and what the server does for them. Each   *)
(* part runs alone (MCApplications), so a part's steps are those of its    *)
(* module or stutter; what a part keeps is proved of its module, and the   *)
(* theorems put the parts together.                                        *)
(***************************************************************************)
EXTENDS MCApplications, FiniteSets, FiniteSetTheorems, SequenceTheorems, NaturalsInduction, TLAPS

\* Every set of numbers that is not empty has a least member.
LEMMA LeastNumber ==
  ASSUME NEW T, T \subseteq Nat, T # {}
  PROVE  \E n \in T : \A m \in T : n <= m
<1> DEFINE R == OpToRel(<, Nat)
<1>1. PICK x \in T : \A y \in T : ~(<<y, x>> \in R)
  <2>1. IsWellFoundedOn(R, Nat)
    BY NatLessThanWellFounded
  <2> HIDE DEF R
  <2> QED BY <2>1, WFMin
<1>2. \A y \in T : <<y, x>> \in R <=> y < x
  BY DEF OpToRel
<1>3. \A y \in T : ~(y < x)
  <2> HIDE DEF R
  <2> QED BY <1>1, <1>2
<1>4. x \in Nat /\ \A y \in T : y \in Nat
  OBVIOUS
<1>5. \A y \in T : x <= y
  BY <1>3, <1>4
<1> QED BY <1>5

\* The first and the last of a sequence, and what is left without the first.
LEMMA WithoutFirst ==
  ASSUME NEW S, NEW q \in Seq(S), q # <<>>
  PROVE  /\ Head(q) \in S /\ Head(q) = q[1] /\ Tail(q) \in Seq(S) /\ Len(q) \in Nat \ {0}
         /\ Len(Tail(q)) = Len(q) - 1 /\ \A i \in 1..(Len(q) - 1) : Tail(q)[i] = q[i + 1]
         /\ Tail(q) = <<>> => q[Len(q)] = Head(q)
         /\ Tail(q) # <<>> => Tail(q)[Len(Tail(q))] = q[Len(q)]
<1>1. /\ Head(q) \in S /\ Tail(q) \in Seq(S) /\ Len(Tail(q)) = Len(q) - 1
      /\ \A i \in 1..Len(Tail(q)) : Tail(q)[i] = q[i + 1]
  BY HeadTailProperties
<1>2. Len(q) \in Nat /\ Len(q) # 0 /\ Head(q) = q[1]
  BY EmptySeq, LenProperties
<1>3. Len(<<>>) = 0 /\ (Len(Tail(q)) = 0 => Tail(q) = <<>>)
  BY <1>1, EmptySeq
<1> DEFINE n == Len(q)  t == Tail(q)
<1>4. n \in Nat \ {0} /\ Len(t) = n - 1 /\ \A i \in 1..(n - 1) : t[i] = q[i + 1]
  BY <1>1, <1>2
<1>5. t = <<>> => n = 1
  <2> HIDE DEF n, t
  <2>1. t = <<>> => Len(t) = 0
    BY <1>3
  <2> QED BY <1>4, <2>1
<1>6. ASSUME t # <<>> PROVE t[Len(t)] = q[n]
  <2>1. n # 1
    BY <1>3, <1>4, <1>6
  <2> HIDE DEF n, t
  <2>2. n - 1 \in 1..(n - 1) /\ (n - 1) + 1 = n
    BY <1>4, <2>1
  <2> QED BY <1>4, <2>2
<1> QED BY <1>1, <1>2, <1>4, <1>5, <1>6

\* Of a behaviour of the applications, the dialling out is a behaviour of Outbound.
LEMMA DiallingRuns == Spec => Dialling!Init /\ [][Dialling!Next]_diallingVars
<1>1. Init => Dialling!Init
  BY DEF Init
<1>2. [Next]_vars => [Dialling!Next]_diallingVars
  BY DEF Next, vars, TerminalSteps, EditingSteps, TextSteps, BrowsingSteps, UploadingSteps,
     JournalSteps, ServicesSteps, ProcessesSteps, PortalSteps, ChooserSteps, ProxySteps, BusSteps,
     MarshalSteps, StreamSteps, DiallingSteps, ClockSteps, Only
<1> QED BY <1>1, <1>2, PTL DEF Spec

\* Of a behaviour of the applications, the deadman clock is a behaviour of Deadman.
LEMMA ClockRuns == Spec => Clock!Init /\ [][Clock!Next]_deadmanVars
<1>1. Init => Clock!Init
  BY DEF Init
<1>2. [Next]_vars => [Clock!Next]_deadmanVars
  BY DEF Next, vars, TerminalSteps, EditingSteps, TextSteps, BrowsingSteps, UploadingSteps,
     JournalSteps, ServicesSteps, ProcessesSteps, PortalSteps, ChooserSteps, ProxySteps, BusSteps,
     MarshalSteps, StreamSteps, DiallingSteps, ClockSteps, Only
<1> QED BY <1>1, <1>2, PTL DEF Spec

\* Of a behaviour of the applications, the file browser is a behaviour of FileBrowser.
LEMMA BrowsingRuns == Spec => Browsing!Init /\ [][Browsing!Next]_filesVars
<1>1. Init => Browsing!Init
  BY DEF Init
<1>2. [Next]_vars => [Browsing!Next]_filesVars
  BY DEF Next, vars, TerminalSteps, EditingSteps, TextSteps, BrowsingSteps, UploadingSteps,
     JournalSteps, ServicesSteps, ProcessesSteps, PortalSteps, ChooserSteps, ProxySteps, BusSteps,
     MarshalSteps, StreamSteps, DiallingSteps, ClockSteps, Only
<1> QED BY <1>1, <1>2, PTL DEF Spec

\* Of a behaviour of the applications, the uploading is a behaviour of Uploads.
LEMMA UploadingRuns == Spec => Uploading!Init /\ [][Uploading!Next]_uploadsVars
<1>1. Init => Uploading!Init
  BY DEF Init
<1>2. [Next]_vars => [Uploading!Next]_uploadsVars
  BY DEF Next, vars, TerminalSteps, EditingSteps, TextSteps, BrowsingSteps, UploadingSteps,
     JournalSteps, ServicesSteps, ProcessesSteps, PortalSteps, ChooserSteps, ProxySteps, BusSteps,
     MarshalSteps, StreamSteps, DiallingSteps, ClockSteps, Only
<1> QED BY <1>1, <1>2, PTL DEF Spec

\* Of a behaviour of the applications, the editor is a behaviour of Editor.
LEMMA EditingRuns == Spec => Editing!Init /\ [][Editing!Next]_editorVars
<1>1. Init => Editing!Init
  BY DEF Init
<1>2. [Next]_vars => [Editing!Next]_editorVars
  BY DEF Next, vars, TerminalSteps, EditingSteps, TextSteps, BrowsingSteps, UploadingSteps,
     JournalSteps, ServicesSteps, ProcessesSteps, PortalSteps, ChooserSteps, ProxySteps, BusSteps,
     MarshalSteps, StreamSteps, DiallingSteps, ClockSteps, Only
<1> QED BY <1>1, <1>2, PTL DEF Spec

\* Of a behaviour of the applications, the terminal window is a behaviour of TerminalWindow.
LEMMA TerminalRuns == Spec => Terminal!Init /\ [][Terminal!Next]_terminalVars
<1>1. Init => Terminal!Init
  BY DEF Init
<1>2. [Next]_vars => [Terminal!Next]_terminalVars
  BY DEF Next, vars, TerminalSteps, EditingSteps, TextSteps, BrowsingSteps, UploadingSteps,
     JournalSteps, ServicesSteps, ProcessesSteps, PortalSteps, ChooserSteps, ProxySteps, BusSteps,
     MarshalSteps, StreamSteps, DiallingSteps, ClockSteps, Only
<1> QED BY <1>1, <1>2, PTL DEF Spec

\* Of a behaviour of the applications, the portal is a behaviour of FilePortal.
LEMMA PortalRuns == Spec => Portal!Init /\ [][Portal!Next]_portalVars
<1>1. Init => Portal!Init
  BY DEF Init
<1>2. [Next]_vars => [Portal!Next]_portalVars
  BY DEF Next, vars, TerminalSteps, EditingSteps, TextSteps, BrowsingSteps, UploadingSteps,
     JournalSteps, ServicesSteps, ProcessesSteps, PortalSteps, ChooserSteps, ProxySteps, BusSteps,
     MarshalSteps, StreamSteps, DiallingSteps, ClockSteps, Only
<1> QED BY <1>1, <1>2, PTL DEF Spec

\* Of a behaviour of the applications, the file chooser is a behaviour of FileChooser.
LEMMA ChooserRuns == Spec => Chooser!Init /\ [][Chooser!Next]_chooserVars
<1>1. Init => Chooser!Init
  BY DEF Init
<1>2. [Next]_vars => [Chooser!Next]_chooserVars
  BY DEF Next, vars, TerminalSteps, EditingSteps, TextSteps, BrowsingSteps, UploadingSteps,
     JournalSteps, ServicesSteps, ProcessesSteps, PortalSteps, ChooserSteps, ProxySteps, BusSteps,
     MarshalSteps, StreamSteps, DiallingSteps, ClockSteps, Only
<1> QED BY <1>1, <1>2, PTL DEF Spec

\* Of a behaviour of the applications, the panel of the services is a behaviour of ServicesPanel.
LEMMA ServicesRuns == Spec => Services!Init /\ [][Services!Next]_servicesVars
<1>1. Init => Services!Init
  BY DEF Init
<1>2. [Next]_vars => [Services!Next]_servicesVars
  BY DEF Next, vars, TerminalSteps, EditingSteps, TextSteps, BrowsingSteps, UploadingSteps,
     JournalSteps, ServicesSteps, ProcessesSteps, PortalSteps, ChooserSteps, ProxySteps, BusSteps,
     MarshalSteps, StreamSteps, DiallingSteps, ClockSteps, Only
<1> QED BY <1>1, <1>2, PTL DEF Spec

\* Of a behaviour of the applications, the panel of the processes is a behaviour of ProcessesPanel.
LEMMA ProcessesRuns == Spec => Processes!Init /\ [][Processes!Next]_processesVars
<1>1. Init => Processes!Init
  BY DEF Init
<1>2. [Next]_vars => [Processes!Next]_processesVars
  BY DEF Next, vars, TerminalSteps, EditingSteps, TextSteps, BrowsingSteps, UploadingSteps,
     JournalSteps, ServicesSteps, ProcessesSteps, PortalSteps, ChooserSteps, ProxySteps, BusSteps,
     MarshalSteps, StreamSteps, DiallingSteps, ClockSteps, Only
<1> QED BY <1>1, <1>2, PTL DEF Spec

\* Of a behaviour of the applications, the viewer of the journal is a behaviour of JournalViewer.
LEMMA JournalRuns == Spec => Journal!Init /\ [][Journal!Next]_journalVars
<1>1. Init => Journal!Init
  BY DEF Init
<1>2. [Next]_vars => [Journal!Next]_journalVars
  BY DEF Next, vars, TerminalSteps, EditingSteps, TextSteps, BrowsingSteps, UploadingSteps,
     JournalSteps, ServicesSteps, ProcessesSteps, PortalSteps, ChooserSteps, ProxySteps, BusSteps,
     MarshalSteps, StreamSteps, DiallingSteps, ClockSteps, Only
<1> QED BY <1>1, <1>2, PTL DEF Spec

\* Of a behaviour of the applications, the stream of the journal is a behaviour of JournalStream.
LEMMA StreamRuns == Spec => Stream!Init /\ [][Stream!Next]_streamVars
<1>1. Init => Stream!Init
  BY DEF Init
<1>2. [Next]_vars => [Stream!Next]_streamVars
  BY DEF Next, vars, TerminalSteps, EditingSteps, TextSteps, BrowsingSteps, UploadingSteps,
     JournalSteps, ServicesSteps, ProcessesSteps, PortalSteps, ChooserSteps, ProxySteps, BusSteps,
     MarshalSteps, StreamSteps, DiallingSteps, ClockSteps, Only
<1> QED BY <1>1, <1>2, PTL DEF Spec

\* Of a behaviour of the applications, the proxy of the bus is a behaviour of BusProxy.
LEMMA ProxyRuns == Spec => Proxy!Init /\ [][Proxy!Next]_proxyVars
<1>1. Init => Proxy!Init
  BY DEF Init
<1>2. [Next]_vars => [Proxy!Next]_proxyVars
  BY DEF Next, vars, TerminalSteps, EditingSteps, TextSteps, BrowsingSteps, UploadingSteps,
     JournalSteps, ServicesSteps, ProcessesSteps, PortalSteps, ChooserSteps, ProxySteps, BusSteps,
     MarshalSteps, StreamSteps, DiallingSteps, ClockSteps, Only
<1> QED BY <1>1, <1>2, PTL DEF Spec

\* Of a behaviour of the applications, the connection to the bus is a behaviour of BusConnection.
LEMMA BusRuns == Spec => Bus!Init /\ [][Bus!Next]_busVars
<1>1. Init => Bus!Init
  BY DEF Init
<1>2. [Next]_vars => [Bus!Next]_busVars
  BY DEF Next, vars, TerminalSteps, EditingSteps, TextSteps, BrowsingSteps, UploadingSteps,
     JournalSteps, ServicesSteps, ProcessesSteps, PortalSteps, ChooserSteps, ProxySteps, BusSteps,
     MarshalSteps, StreamSteps, DiallingSteps, ClockSteps, Only
<1> QED BY <1>1, <1>2, PTL DEF Spec

---------------------------------------------------------------------------
(* Dialling out, and the deadman clock *)

\* The sockets are what they may be, and a host that goes on has one in use or is about
\* to dial.
DiallingInv ==
  /\ socket \in [1..Dials -> {"unused", "connecting", "open", "failed", "closed"}]
  /\ redials \in Nat /\ dialStopped \in BOOLEAN
  /\ Dialling!NeverAbandoned

\* A host begins with a socket that is connecting.
LEMMA DiallingBegins == Dialling!OutboundAssumption /\ Dialling!Init => DiallingInv
<1> SUFFICES ASSUME Dialling!OutboundAssumption, Dialling!Init PROVE DiallingInv
  OBVIOUS
<1>1. 1 \in 1..Dials
  BY DEF Dialling!OutboundAssumption
<1>2. socket[1] = "connecting" /\ socket \in [1..Dials -> {"unused", "connecting", "open", "failed", "closed"}]
  BY <1>1 DEF Dialling!Init
<1>3. redials = 0 /\ dialStopped \in BOOLEAN
  BY DEF Dialling!Init
<1> QED BY <1>1, <1>2, <1>3 DEF DiallingInv, Dialling!NeverAbandoned, Dialling!InUse

\* The next socket to dial is one of those that have not been used.
LEMMA NextIsUnused ==
  ASSUME Dials \in Nat, \E i \in 1..Dials : socket[i] = "unused"
  PROVE  Dialling!NextDial \in 1..Dials
<1> DEFINE T == {i \in 1..Dials : socket[i] = "unused"}
<1>1. T \subseteq Nat /\ T # {}
  OBVIOUS
<1>2. PICK n \in T : \A m \in T : n <= m
  <2> HIDE DEF T
  <2> QED BY <1>1, LeastNumber
<1>3. n \in 1..Dials /\ socket[n] = "unused" /\ \A j \in 1..n - 1 : socket[j] # "unused"
  <2>1. n \in 1..Dials /\ socket[n] = "unused"
    BY <1>2
  <2>2. ASSUME NEW j \in 1..n - 1 PROVE j \in 1..Dials /\ ~(n <= j)
    BY <2>1
  <2>3. ASSUME NEW j \in 1..n - 1 PROVE socket[j] # "unused"
    BY <1>2, <2>2
  <2> QED BY <2>1, <2>3
<1> QED BY <1>3 DEF Dialling!NextDial

\* Every socket that goes asks for another, and every timer dials one, unless the host was
\* told to stop.
LEMMA DiallingGoesOn ==
  ASSUME Dialling!OutboundAssumption, DiallingInv, [Dialling!Next]_diallingVars
  PROVE  DiallingInv'
<1> USE DEF Dialling!OutboundAssumption, DiallingInv, Dialling!NeverAbandoned, Dialling!InUse
<1>1. CASE Dialling!TimerFires
  <2>1. Dials \in Nat /\ redials' \in Nat /\ dialStopped' = dialStopped
    BY <1>1 DEF Dialling!TimerFires
  <2>2. CASE dialStopped
    BY <1>1, <2>1, <2>2 DEF Dialling!TimerFires
  <2>3. CASE ~dialStopped
    <3>1. Dialling!NextDial \in 1..Dials /\ socket' = [socket EXCEPT ![Dialling!NextDial] = "connecting"]
      BY <1>1, <2>1, <2>3, NextIsUnused DEF Dialling!TimerFires
    <3> DEFINE n == Dialling!NextDial
    <3>2. n \in 1..Dials /\ socket' = [socket EXCEPT ![n] = "connecting"]
      BY <3>1
    <3> HIDE DEF n
    <3>3. socket'[n] = "connecting" /\ socket' \in [1..Dials -> {"unused", "connecting", "open", "failed", "closed"}]
      BY <3>2
    <3> QED BY <2>1, <3>2, <3>3
  <2> QED BY <2>2, <2>3
<1>2. CASE Dialling!Stop
  BY <1>2 DEF Dialling!Stop
<1>3. ASSUME NEW i \in 1..Dials, Dialling!Opens(i) PROVE DiallingInv'
  BY <1>3 DEF Dialling!Opens
<1>4. ASSUME NEW i \in 1..Dials, Dialling!Fails(i) PROVE DiallingInv'
  BY <1>4 DEF Dialling!Fails, Dialling!Reconnect, Dialling!Redials
<1>5. ASSUME NEW i \in 1..Dials, Dialling!Closes(i) PROVE DiallingInv'
  BY <1>5 DEF Dialling!Closes, Dialling!Reconnect, Dialling!Redials
<1>6. CASE UNCHANGED diallingVars
  BY <1>6 DEF diallingVars
<1> QED BY <1>1, <1>2, <1>3, <1>4, <1>5, <1>6 DEF Dialling!Next

\* The times are in order, the interval is set while there is a limit and the process goes
\* on, and the process is gone exactly when a limit is reached.
ClockInv ==
  /\ ttlSec \in Nat /\ idleSec \in Nat /\ now \in Nat
  /\ startedAt \in 0..now /\ lastActivity \in 0..now
  /\ ticking \in BOOLEAN /\ exited \in BOOLEAN
  /\ ticking <=> ~exited /\ (ttlSec > 0 \/ idleSec > 0)
  /\ Clock!EndsOnTime

\* No limit is reached when the clock is started.
LEMMA ClockBegins == Clock!DeadmanAssumption /\ Clock!Init => ClockInv
<1> SUFFICES ASSUME Clock!DeadmanAssumption, Clock!Init PROVE ClockInv
  OBVIOUS
<1>1. /\ ttlSec \in Nat /\ idleSec \in Nat /\ now \in Nat /\ startedAt = now /\ lastActivity = now
      /\ exited = FALSE
  BY DEF Clock!DeadmanAssumption, Clock!Init
<1>2. ticking = (ttlSec > 0 \/ idleSec > 0)
  BY Zenon DEF Clock!Init
<1>3. ticking \in BOOLEAN /\ (ticking <=> ttlSec > 0 \/ idleSec > 0)
  <2>1. (ttlSec > 0 \/ idleSec > 0) \in BOOLEAN
    BY Zenon
  <2> QED BY <1>2, <2>1, Zenon
<1>4. ~(ttlSec > 0 /\ now >= startedAt + ttlSec) /\ ~(idleSec > 0 /\ now >= lastActivity + idleSec)
  BY <1>1
<1>5. Clock!EndsOnTime
  BY <1>1, <1>4 DEF Clock!EndsOnTime
<1>6. startedAt \in 0..now /\ lastActivity \in 0..now
  BY <1>1
<1> QED BY <1>1, <1>3, <1>5, <1>6 DEF ClockInv

\* A second ends the process when it is the one in which a limit is reached, and a message
\* only puts a limit off.
LEMMA ClockGoesOn ==
  ASSUME ClockInv, [Clock!Next]_deadmanVars
  PROVE  ClockInv'
<1>1. CASE Clock!Message
  BY <1>1 DEF ClockInv, Clock!EndsOnTime, Clock!Message, Clock!Keeps
<1>2. CASE Clock!Second
  <2> DEFINE t == now + 1
  <2>1. /\ ~exited /\ now' = t /\ ttlSec' = ttlSec /\ idleSec' = idleSec /\ startedAt' = startedAt
        /\ lastActivity' = lastActivity
        /\ exited' = (ticking /\ Clock!IsUp(t)) /\ ticking' = (ticking /\ ~exited')
    BY <1>2 DEF Clock!Second, Clock!Keeps
  <2>2. t \in Nat /\ t = now + 1
    BY DEF ClockInv
  <2> HIDE DEF t
  <2>3. exited' \in BOOLEAN /\ ticking' \in BOOLEAN /\ (exited' <=> ticking /\ Clock!IsUp(t))
        /\ (ticking' <=> ticking /\ ~exited')
    <3>1. Clock!IsUp(t) \in BOOLEAN
      BY DEF Clock!IsUp
    <3> QED BY <2>1, <3>1, Zenon DEF ClockInv
  <2>4. exited' <=> (ttlSec > 0 /\ t >= startedAt + ttlSec) \/ (idleSec > 0 /\ t >= lastActivity + idleSec)
    <3>1. /\ t - startedAt >= ttlSec <=> t >= startedAt + ttlSec
          /\ t - lastActivity >= idleSec <=> t >= lastActivity + idleSec
      BY <2>2 DEF ClockInv
    <3>2. ~ticking => ttlSec = 0 /\ idleSec = 0
      BY <2>1 DEF ClockInv
    <3>3. Clock!IsUp(t) <=> (ttlSec > 0 /\ t - startedAt >= ttlSec)
                           \/ (idleSec > 0 /\ t - lastActivity >= idleSec)
      BY Zenon DEF Clock!IsUp
    <3> QED BY <2>3, <3>1, <3>2, <3>3
  <2> QED BY <2>1, <2>2, <2>3, <2>4 DEF ClockInv, Clock!EndsOnTime
<1>3. CASE UNCHANGED deadmanVars
  BY <1>3 DEF deadmanVars, ClockInv, Clock!EndsOnTime
<1> QED BY <1>1, <1>2, <1>3 DEF Clock!Next

\* A host that has not been told to stop is connected, connecting or about to dial, however
\* often it is refused; and one with a limit is gone once the limit is reached, and only
\* then (outbound.ts 79-87, deadman.ts 49-53).
THEOREM ComesAndGoes == Spec => []ComesAndGoesOnTime
<1>1. Dialling!Init => DiallingInv
  BY ConstantsAssumption, DiallingBegins
<1>2. DiallingInv /\ [Dialling!Next]_diallingVars => DiallingInv'
  BY ConstantsAssumption, DiallingGoesOn
<1>3. Clock!Init => ClockInv
  BY ConstantsAssumption, ClockBegins
<1>4. ClockInv /\ [Clock!Next]_deadmanVars => ClockInv'
  BY ClockGoesOn
<1>5. DiallingInv /\ ClockInv => ComesAndGoesOnTime
  BY DEF DiallingInv, ClockInv, ComesAndGoesOnTime
<1> QED BY <1>1, <1>2, <1>3, <1>4, <1>5, DiallingRuns, ClockRuns, PTL
---------------------------------------------------------------------------
(* The file browser, and uploads *)

\* A listing that was asked for, and a dialog that is shown.
Listing == [dir : Dirs, names : SUBSET EntryNames, read : BOOLEAN]
BrowserDialog ==
  [kind : {"mkdir"}, at : [dir : Dirs, name : {""}]] \cup [kind : {"rename", "remove"}, at : Browsing!Places]

\* The values of the variables of FileBrowser.
BrowserTypes ==
  /\ entries \in [Dirs -> [EntryNames -> Browsing!Things \cup {Browsing!Nothing}]]
  /\ current \in [dir : Dirs, names : SUBSET EntryNames]
  /\ selected \subseteq [dir : Dirs, name : EntryNames]
  /\ lists \in Seq(Listing)
  /\ listsLeft \in Nat /\ lastAsked \in Dirs /\ strayed \in BOOLEAN
  /\ dialog = Browsing!NoDialog \/ dialog \in BrowserDialog

\* What is loading is one directory, the one asked for last; while a dialog is open it is the
\* one on the screen, which the dialog is about.
BrowserInv ==
  /\ BrowserTypes
  /\ ~strayed
  /\ \A e \in selected : e.dir = current.dir /\ e.name \in current.names
  /\ \A i \in DOMAIN lists : lists[i].dir = lastAsked
  /\ lists = <<>> => current.dir = lastAsked
  /\ dialog # Browsing!NoDialog => dialog.at.dir = current.dir /\ lastAsked = current.dir

\* The browser begins with the directory it was opened on.
LEMMA BrowserBegins == Browsing!FileBrowserAssumption /\ Browsing!Init => BrowserInv
<1> SUFFICES ASSUME Browsing!FileBrowserAssumption, Browsing!Init PROVE BrowserInv
  OBVIOUS
<1>1. PICK d \in Dirs : current = [dir |-> d, names |-> Browsing!In(d)] /\ lastAsked = d
  BY DEF Browsing!Init
<1>2. /\ entries \in [Dirs -> [EntryNames -> Browsing!Things \cup {Browsing!Nothing}]] /\ selected = {} /\ lists = <<>> /\ listsLeft = MaxLists
      /\ dialog = Browsing!NoDialog /\ strayed = FALSE
  BY DEF Browsing!Init
<1>3. lists \in Seq(Listing) /\ DOMAIN lists = {}
  BY <1>2
<1>4. Browsing!In(d) \subseteq EntryNames
  BY DEF Browsing!In
<1> QED BY <1>1, <1>2, <1>3, <1>4 DEF Browsing!FileBrowserAssumption, BrowserInv, BrowserTypes

\* What is left of a sequence without one of its elements are its others.
LEMMA OneRemoved ==
  ASSUME NEW S, NEW q \in Seq(S), NEW i \in DOMAIN q
  PROVE  /\ Browsing!RemoveAt(q, i) \in Seq(S)
         /\ \A j \in DOMAIN Browsing!RemoveAt(q, i) : \E k \in DOMAIN q \ {i} : Browsing!RemoveAt(q, i)[j] = q[k]
         /\ Browsing!RemoveAt(q, i) = <<>> => Len(q) = 1
<1> DEFINE a == SubSeq(q, 1, i - 1)  b == SubSeq(q, i + 1, Len(q))
<1>1. Len(q) \in Nat /\ i \in 1..Len(q)
  BY LenProperties
<1>2. a \in Seq(S) /\ Len(a) = i - 1 /\ \A j \in 1..(i - 1) : a[j] = q[j]
  BY <1>1, SubSeqProperties
<1>3. b \in Seq(S) /\ Len(b) = Len(q) - i /\ \A j \in 1..(Len(q) - i) : b[j] = q[i + j]
  BY <1>1, SubSeqProperties
<1> HIDE DEF a, b
<1>4. /\ a \o b \in Seq(S) /\ Len(a \o b) = Len(q) - 1
      /\ \A j \in 1..Len(q) - 1 : (a \o b)[j] = IF j <= i - 1 THEN a[j] ELSE b[j - (i - 1)]
  <2>1. /\ a \o b \in Seq(S) /\ Len(a \o b) = Len(a) + Len(b)
        /\ \A j \in 1..(Len(a) + Len(b)) : (a \o b)[j] = IF j <= Len(a) THEN a[j] ELSE b[j - Len(a)]
    BY <1>2, <1>3, ConcatProperties
  <2>2. Len(a) + Len(b) = Len(q) - 1 /\ Len(a) = i - 1
    BY <1>1, <1>2, <1>3
  <2> QED BY <2>1, <2>2
<1>5. DOMAIN (a \o b) = 1..Len(q) - 1
  BY <1>1, <1>4, LenProperties
<1>6. ASSUME NEW j \in 1..Len(q) - 1 PROVE \E k \in DOMAIN q \ {i} : (a \o b)[j] = q[k]
  <2>1. CASE j <= i - 1
    <3>1. j \in DOMAIN q \ {i} /\ (a \o b)[j] = q[j]
      BY <1>1, <1>2, <1>4, <2>1
    <3> QED BY <3>1
  <2>2. CASE ~(j <= i - 1)
    <3>1. j + 1 \in DOMAIN q \ {i} /\ j - (i - 1) \in 1..(Len(q) - i) /\ i + (j - (i - 1)) = j + 1
      BY <1>1, <2>2
    <3>2. (a \o b)[j] = q[j + 1]
      BY <1>1, <1>3, <1>4, <2>2, <3>1
    <3> QED BY <3>1, <3>2
  <2> QED BY <2>1, <2>2
<1>7. Browsing!RemoveAt(q, i) = a \o b
  BY DEF Browsing!RemoveAt, a, b
<1>8. a \o b = <<>> => Len(q) = 1
  <2>1. a \o b = <<>> => Len(a \o b) = 0
    BY EmptySeq
  <2> QED BY <1>1, <1>4, <2>1
<1> QED BY <1>4, <1>5, <1>6, <1>7, <1>8

\* Another listing is asked for, of the only directory that may be loading.
LEMMA AsksForOne ==
  ASSUME BrowserInv, NEW d \in Dirs, Browsing!Asks(d), \A i \in DOMAIN lists : lists[i].dir = d
  PROVE  /\ lists' \in Seq(Listing) /\ listsLeft' \in Nat /\ lastAsked' = d
         /\ \A i \in DOMAIN lists' : lists'[i].dir = d
         /\ lists' # <<>>
<1> DEFINE r == [dir |-> d, names |-> {}, read |-> FALSE]
<1>1. r \in Listing /\ lists' = Append(lists, r) /\ lastAsked' = d /\ listsLeft' \in Nat /\ lists \in Seq(Listing)
  BY DEF Browsing!Asks, BrowserInv, BrowserTypes, Listing
<1>2. r.dir = d
  OBVIOUS
<1> HIDE DEF r
<1>3. /\ Append(lists, r) \in Seq(Listing) /\ Len(Append(lists, r)) = Len(lists) + 1
      /\ \A i \in 1..Len(lists) : Append(lists, r)[i] = lists[i] /\ Append(lists, r)[Len(lists) + 1] = r
  BY <1>1, AppendProperties
<1>4. Append(lists, r)[Len(lists) + 1] = r /\ Append(lists, r) # <<>>
  BY <1>1, AppendProperties
<1>5. Len(lists) \in Nat /\ DOMAIN lists = 1..Len(lists) /\ DOMAIN lists' = 1..Len(lists) + 1
  BY <1>1, <1>3, LenProperties
<1>6. ASSUME NEW i \in DOMAIN lists' PROVE lists'[i].dir = d
  <2>1. CASE i = Len(lists) + 1
    BY <1>1, <1>2, <1>4, <2>1
  <2>2. CASE i \in 1..Len(lists)
    BY <1>1, <1>3, <1>5, <2>2
  <2> QED BY <1>5, <2>1, <2>2
<1> QED BY <1>1, <1>3, <1>4, <1>6

\* Each step of the person, of a listing and of a dialog.
LEMMA BrowserGoesOn ==
  ASSUME Browsing!FileBrowserAssumption, ~InHaste, BrowserInv, [Browsing!Next]_filesVars
  PROVE  BrowserInv'
<1>1. ASSUME NEW d \in Dirs, Browsing!Navigates(d) PROVE BrowserInv'
  <2>1. /\ dialog = Browsing!NoDialog /\ Browsing!NotLoading(d) /\ Browsing!Asks(d)
        /\ UNCHANGED <<entries, current, selected, dialog, strayed>>
    BY <1>1 DEF Browsing!Navigates
  <2>2. /\ lists' \in Seq(Listing) /\ listsLeft' \in Nat /\ lastAsked' = d
        /\ \A i \in DOMAIN lists' : lists'[i].dir = d
        /\ lists' # <<>>
    BY <2>1, AsksForOne DEF Browsing!NotLoading
  <2> QED BY <2>1, <2>2 DEF BrowserInv, BrowserTypes
<1>2. ASSUME NEW i \in 1..MaxLists, Browsing!Reads(i) PROVE BrowserInv'
  <2> DEFINE r == [lists[i] EXCEPT !.read = TRUE, !.names = Browsing!In(lists[i].dir)]
  <2>1. i \in DOMAIN lists /\ lists' = [lists EXCEPT ![i] = r] /\ lists \in Seq(Listing)
        /\ Browsing!In(lists[i].dir) \subseteq EntryNames
        /\ UNCHANGED <<entries, current, selected, listsLeft, dialog, lastAsked, strayed>>
    BY <1>2 DEF Browsing!Reads, Browsing!In, BrowserInv, BrowserTypes
  <2>2. lists[i] \in Listing
    BY <2>1
  <2>3. r \in Listing /\ r.dir = lists[i].dir
    BY <2>1, <2>2 DEF Listing
  <2> HIDE DEF r
  <2>4. lists' \in Seq(Listing) /\ DOMAIN lists' = DOMAIN lists
        /\ \A j \in DOMAIN lists : lists'[j] = IF j = i THEN r ELSE lists[j]
    BY <2>1, <2>3
  <2>5. \A j \in DOMAIN lists' : lists'[j].dir = lastAsked
    BY <2>3, <2>4 DEF BrowserInv
  <2>6. lists' # <<>>
    BY <2>1, <2>4, EmptySeq
  <2> QED BY <2>1, <2>4, <2>5, <2>6 DEF BrowserInv, BrowserTypes
<1>3. ASSUME NEW i \in 1..MaxLists, Browsing!Shows(i) PROVE BrowserInv'
  <2>1. /\ i \in DOMAIN lists /\ current' = [dir |-> lists[i].dir, names |-> lists[i].names]
        /\ selected' = {} /\ lists' = Browsing!RemoveAt(lists, i)
        /\ UNCHANGED <<entries, listsLeft, dialog, lastAsked, strayed>>
    BY <1>3 DEF Browsing!Shows, Browsing!Deselected
  <2>2. lists \in Seq(Listing) /\ lists[i] \in Listing /\ lists[i].dir = lastAsked
    BY <2>1 DEF BrowserInv, BrowserTypes
  <2>3. current' \in [dir : Dirs, names : SUBSET EntryNames] /\ current'.dir = lastAsked
    BY <2>1, <2>2 DEF Listing
  <2>4. lists' \in Seq(Listing) /\ \A j \in DOMAIN lists' : \E k \in DOMAIN lists : lists'[j] = lists[k]
    BY <2>1, <2>2, OneRemoved
  <2>5. \A j \in DOMAIN lists' : lists'[j].dir = lastAsked
    BY <2>4 DEF BrowserInv
  <2> QED BY <2>1, <2>3, <2>4, <2>5 DEF BrowserInv, BrowserTypes
<1>4. ASSUME NEW i \in 1..MaxLists, Browsing!CannotShow(i) PROVE BrowserInv'
  <2>1. /\ i \in DOMAIN lists /\ lists' = Browsing!RemoveAt(lists, i)
        /\ lastAsked' = IF \E j \in DOMAIN lists \ {i} : lists[j].dir = lastAsked THEN lastAsked ELSE current.dir
        /\ UNCHANGED <<entries, current, selected, listsLeft, dialog, strayed>>
    BY <1>4 DEF Browsing!CannotShow
  <2>2. lists \in Seq(Listing) /\ (\A j \in DOMAIN lists : lists[j].dir = lastAsked) /\ current.dir \in Dirs
        /\ lastAsked \in Dirs
    BY DEF BrowserInv, BrowserTypes
  <2>3. /\ lists' \in Seq(Listing) /\ \A j \in DOMAIN lists' : \E k \in DOMAIN lists \ {i} : lists'[j] = lists[k]
        /\ lists' = <<>> => Len(lists) = 1
    BY <2>1, <2>2, OneRemoved
  <2>4. \A j \in DOMAIN lists' : lists'[j].dir = lastAsked'
    BY <2>1, <2>2, <2>3
  <2>5. lists' = <<>> => lastAsked' = current.dir
    <3>1. Len(lists) = 1 => DOMAIN lists = {1}
      BY <2>2, LenProperties
    <3> QED BY <2>1, <2>3, <3>1
  <2>6. lastAsked' \in {lastAsked, current.dir}
    BY <2>1
  <2> QED BY <2>1, <2>2, <2>3, <2>4, <2>5, <2>6 DEF BrowserInv, BrowserTypes
<1>5. ASSUME NEW n \in EntryNames, Browsing!Selects(n) PROVE BrowserInv'
  BY <1>5 DEF Browsing!Selects, Browsing!At, BrowserInv, BrowserTypes
<1>6. ASSUME NEW n \in EntryNames, Browsing!Does(n) PROVE BrowserInv'
  <2>1. /\ dialog \in BrowserDialog /\ dialog.at.dir = current.dir /\ lastAsked = current.dir
        /\ dialog.kind \in {"mkdir", "rename", "remove"}
        /\ dialog' = Browsing!NoDialog /\ UNCHANGED <<current, selected>> /\ current.dir \in Dirs
    BY <1>6 DEF Browsing!Does, BrowserInv, BrowserTypes, BrowserDialog
  <2> DEFINE All == [Dirs -> [EntryNames -> Browsing!Things \cup {Browsing!Nothing}]]
             to == Browsing!At(current.dir, n)
  <2>a. entries \in All /\ to \in Browsing!Places /\ to = Browsing!At(dialog.at.dir, n)
    BY <2>1 DEF BrowserInv, BrowserTypes, Browsing!At, Browsing!Places, All, to
  <2> HIDE DEF to, All
  <2>b. dialog.at \in Browsing!Places \/ dialog.kind = "mkdir"
    BY <2>1 DEF BrowserDialog
  <2>c. ASSUME NEW at \in Browsing!Places, NEW thing \in Browsing!Things \cup {Browsing!Nothing}, NEW all \in All
        PROVE  /\ Browsing!Put(at, thing, all) \in All
               /\ \A x \in Browsing!Places : x # at => Browsing!Put(at, thing, all)[x.dir][x.name] = all[x.dir][x.name]
    <3>1. at.dir \in Dirs /\ at.name \in EntryNames
      BY DEF Browsing!Places
    <3>2. [all[at.dir] EXCEPT ![at.name] = thing] \in [EntryNames -> Browsing!Things \cup {Browsing!Nothing}]
      BY <3>1 DEF All
    <3>3. Browsing!Put(at, thing, all) \in All
      BY <3>1, <3>2 DEF Browsing!Put, All
    <3>4. ASSUME NEW x \in Browsing!Places, x # at
          PROVE  Browsing!Put(at, thing, all)[x.dir][x.name] = all[x.dir][x.name]
      <4>1. x.dir \in Dirs /\ x.name \in EntryNames /\ (x.dir # at.dir \/ x.name # at.name)
        BY <3>4 DEF Browsing!Places
      <4> QED BY <3>1, <4>1 DEF Browsing!Put, All
    <3> QED BY <3>3, <3>4
  <2>2. /\ entries' \in All
        /\ \A x \in Browsing!Places : entries'[x.dir][x.name] # entries[x.dir][x.name] =>
              /\ x \in {dialog.at, to}
              /\ dialog.kind = "mkdir" => entries[x.dir][x.name] = Browsing!Nothing
              /\ dialog.kind = "remove" => x = dialog.at
    <3>1. entries' = CASE dialog.kind = "remove" -> Browsing!Put(dialog.at, Browsing!Nothing, entries)
                       [] dialog.kind = "mkdir" -> Browsing!Made(to)
                       [] OTHER -> Browsing!Moved(dialog.at, to)
      BY <1>6 DEF Browsing!Does, to
    <3>2. CASE dialog.kind = "remove"
      <4>1. dialog.at \in Browsing!Places /\ entries' = Browsing!Put(dialog.at, Browsing!Nothing, entries)
        BY <2>b, <3>1, <3>2
      <4> QED BY <2>a, <2>c, <3>2, <4>1
    <3>3. CASE dialog.kind = "mkdir"
      <4>1. entries' = Browsing!Made(to)
        BY <3>1, <3>3
      <4>2. "one" \in Browsing!Things \cup {Browsing!Nothing}
        BY DEF Browsing!Things
      <4>3. CASE entries[to.dir][to.name] = Browsing!Nothing
        <5>1. entries' = Browsing!Put(to, "one", entries)
          BY <4>1, <4>3 DEF Browsing!Made
        <5>2. /\ entries' \in All
              /\ \A x \in Browsing!Places : x # to => entries'[x.dir][x.name] = entries[x.dir][x.name]
          BY <2>a, <2>c, <4>2, <5>1
        <5> QED BY <3>3, <4>3, <5>2
      <4>4. CASE entries[to.dir][to.name] # Browsing!Nothing
        BY <2>a, <4>1, <4>4 DEF Browsing!Made
      <4> QED BY <4>3, <4>4
    <3>4. CASE dialog.kind \notin {"remove", "mkdir"}
      <4> DEFINE thing == entries[dialog.at.dir][dialog.at.name]
                 less == Browsing!Put(dialog.at, Browsing!Nothing, entries)
      <4>1. dialog.at \in Browsing!Places /\ entries' = Browsing!Put(to, thing, less)
        BY <2>b, <3>1, <3>4 DEF Browsing!Moved
      <4>2. thing \in Browsing!Things \cup {Browsing!Nothing}
        BY <2>a, <4>1 DEF Browsing!Places, All
      <4>3. less \in All /\ \A x \in Browsing!Places : x # dialog.at => less[x.dir][x.name] = entries[x.dir][x.name]
        BY <2>a, <2>c, <4>1
      <4> HIDE DEF thing, less
      <4>4. entries' \in All /\ \A x \in Browsing!Places : x # to => entries'[x.dir][x.name] = less[x.dir][x.name]
        BY <2>a, <2>c, <4>1, <4>2, <4>3
      <4> QED BY <3>4, <4>3, <4>4
    <3> QED BY <3>2, <3>3, <3>4
  <2>3. strayed' = FALSE
    <3>1. strayed' = \/ strayed
                     \/ \E x \in {x \in Browsing!Places : entries'[x.dir][x.name] # entries[x.dir][x.name]} :
                          \/ x \notin {dialog.at, Browsing!At(dialog.at.dir, n)}
                          \/ dialog.kind = "mkdir" /\ entries[x.dir][x.name] # Browsing!Nothing
                          \/ dialog.kind = "remove" /\ x # dialog.at
      BY <1>6, Zenon DEF Browsing!Does
    <3>2. ~strayed /\ strayed \in BOOLEAN
      BY DEF BrowserInv, BrowserTypes
    <3>3. \A x \in Browsing!Places : entries'[x.dir][x.name] # entries[x.dir][x.name] =>
            /\ x \in {dialog.at, Browsing!At(dialog.at.dir, n)}
            /\ dialog.kind = "mkdir" => entries[x.dir][x.name] = Browsing!Nothing
            /\ dialog.kind = "remove" => x = dialog.at
      BY <2>2, <2>a
    <3> QED BY <3>1, <3>2, <3>3, Zenon
  <2>4. \/ Browsing!Asks(current.dir)
        \/ UNCHANGED <<lists, listsLeft, lastAsked>>
    BY <1>6 DEF Browsing!Does
  <2>5. CASE Browsing!Asks(current.dir)
    <3>1. /\ lists' \in Seq(Listing) /\ listsLeft' \in Nat /\ lastAsked' = current.dir
          /\ \A i \in DOMAIN lists' : lists'[i].dir = current.dir
          /\ lists' # <<>>
      BY <2>1, <2>5, AsksForOne DEF BrowserInv
    <3> QED BY <2>1, <2>2, <2>3, <3>1 DEF BrowserInv, BrowserTypes, All
  <2>6. CASE UNCHANGED <<lists, listsLeft, lastAsked>>
    BY <2>1, <2>2, <2>3, <2>6 DEF BrowserInv, BrowserTypes, All
  <2> QED BY <2>4, <2>5, <2>6
<1>7. ASSUME NEW kind0 \in {"mkdir", "rename", "remove"}, Browsing!Prompts(kind0) PROVE BrowserInv'
  <2>1. /\ \A i \in DOMAIN lists : lists[i].dir = current.dir
        /\ dialog' \in IF kind0 = "mkdir" THEN {[kind |-> kind0, at |-> Browsing!At(current.dir, "")]}
                       ELSE {[kind |-> kind0, at |-> e] : e \in selected}
        /\ UNCHANGED <<entries, current, selected, lists, listsLeft, lastAsked, strayed>>
    BY <1>7 DEF Browsing!Prompts, Browsing!NotLoading
  <2>2. dialog' \in BrowserDialog /\ dialog'.at.dir = current.dir
    <3>1. CASE kind0 = "mkdir"
      <4>1. dialog' = [kind |-> "mkdir", at |-> [dir |-> current.dir, name |-> ""]]
        BY <2>1, <3>1 DEF Browsing!At
      <4> QED BY <4>1 DEF BrowserInv, BrowserTypes, BrowserDialog
    <3>2. CASE kind0 # "mkdir"
      <4>1. PICK e \in selected : dialog' = [kind |-> kind0, at |-> e]
        BY <2>1, <3>2
      <4>2. e.dir = current.dir /\ e \in [dir : Dirs, name : EntryNames]
        BY DEF BrowserInv, BrowserTypes
      <4> QED BY <3>2, <4>1, <4>2 DEF BrowserDialog, Browsing!Places
    <3> QED BY <3>1, <3>2
  <2>3. lastAsked = current.dir
    <3>1. lists # <<>> => 1 \in DOMAIN lists
      <4>1. lists \in Seq(Listing)
        BY DEF BrowserInv, BrowserTypes
      <4> QED BY <4>1, EmptySeq, LenProperties
    <3>2. (\A i \in DOMAIN lists : lists[i].dir = lastAsked) /\ (lists = <<>> => current.dir = lastAsked)
      BY DEF BrowserInv
    <3>3. CASE lists # <<>>
      BY <2>1, <3>1, <3>2, <3>3, Zenon
    <3> QED BY <3>2, <3>3
  <2> QED BY <2>1, <2>2, <2>3 DEF BrowserInv, BrowserTypes
<1>8. CASE Browsing!Cancels
  BY <1>8 DEF Browsing!Cancels, BrowserInv, BrowserTypes
<1>10. ASSUME NEW d \in Dirs, NEW n \in EntryNames, NEW thing \in Browsing!Things \cup {Browsing!Nothing},
              Browsing!OthersChange(d, n, thing)
       PROVE  BrowserInv'
  <2>1. entries' \in [Dirs -> [EntryNames -> Browsing!Things \cup {Browsing!Nothing}]]
    BY <1>10 DEF Browsing!OthersChange, BrowserInv, BrowserTypes
  <2> QED BY <1>10, <2>1 DEF Browsing!OthersChange, BrowserInv, BrowserTypes
<1>9. CASE UNCHANGED filesVars
  BY <1>9 DEF filesVars, BrowserInv, BrowserTypes
<1> QED BY <1>1, <1>2, <1>3, <1>4, <1>5, <1>6, <1>7, <1>8, <1>9, <1>10 DEF Browsing!Next

\* The values of the variables of Uploads.
UploadsTypes ==
  /\ there \in [1..Names -> {Uploading!Absent} \cup [of : Pages \X Nat, whole : BOOLEAN]]
  /\ upload \in [Pages -> {Uploading!NoUpload} \cup [at : {"writing", "failed"}, name : 1..Names]]
  /\ sent \in [Pages -> Nat]
  /\ owed \subseteq [of : Pages \X Nat, name : 1..Names]

\* An upload that is under way has its file, which is not whole; every other file is whole;
\* and what was reported is where it was reported to be.
UploadsInv ==
  /\ UploadsTypes
  /\ \A p \in Pages :
       upload[p] # Uploading!NoUpload =>
         Uploading!Holds(p, upload[p].name) /\ there[upload[p].name].whole = FALSE
  /\ Uploading!UploadsStayApart

\* Nothing is there to begin with.
LEMMA UploadsBegin == Uploading!UploadsAssumption /\ Uploading!Init => UploadsInv
BY DEF Uploading!UploadsAssumption, Uploading!Init, UploadsInv, UploadsTypes,
   Uploading!UploadsStayApart,
   Uploading!Absent, Uploading!NoUpload

\* The first free name is free.
LEMMA FirstFree ==
  ASSUME Uploading!Free # {}
  PROVE  Uploading!OpenUnique \in Uploading!Free
<1>1. Uploading!Free \subseteq Nat
  BY DEF Uploading!Free
<1>2. \E k \in Uploading!Free : \A j \in Uploading!Free : k <= j
  BY <1>1, LeastNumber
<1> QED BY <1>2 DEF Uploading!OpenUnique

\* The invariant, said of the uploads by their records: what a step has to keep.
LEMMA UploadsKept ==
  ASSUME UploadsTypes',
         \A p \in Pages : upload'[p] # Uploading!NoUpload =>
           /\ there'[upload'[p].name] # Uploading!Absent
           /\ there'[upload'[p].name].of = <<p, sent'[p]>>
           /\ there'[upload'[p].name].whole = FALSE,
         \A o \in owed' : there'[o.name] = [of |-> o.of, whole |-> TRUE],
         \A k \in 1..Names : there'[k] # Uploading!Absent =>
           \/ there'[k].whole
           \/ \E p \in Pages : upload'[p] # Uploading!NoUpload /\ upload'[p].name = k
  PROVE  UploadsInv'
<1>1. \A p \in Pages : upload'[p] # Uploading!NoUpload => Uploading!Holds(p, upload[p].name)'
  BY DEF Uploading!Holds, Uploading!This
<1>2. \A p \in Pages : upload'[p] # Uploading!NoUpload => upload'[p].at # "none"
  BY DEF UploadsTypes, Uploading!NoUpload
<1>3. Uploading!UploadsStayApart'
  BY <1>1, <1>2 DEF Uploading!UploadsStayApart, Uploading!BeingWritten
<1> QED BY <1>1, <1>3 DEF UploadsInv

\* What is written to the end is its own file, and whole.
LEMMA IsWhole ==
  ASSUME NEW X, NEW r \in [of : X, whole : BOOLEAN], NEW a, r.of = a
  PROVE  [r EXCEPT !.whole = TRUE] = [of |-> a, whole |-> TRUE]
<1> DEFINE f == [r EXCEPT !.whole = TRUE]
<1>1. f \in [of : X, whole : BOOLEAN]
  OBVIOUS
<1>2. f.of = a /\ f.whole = TRUE
  OBVIOUS
<1> HIDE DEF f
<1>3. PICK b \in X, c \in BOOLEAN : f = [of |-> b, whole |-> c]
  BY <1>1
<1>4. b = a /\ c = TRUE
  BY <1>2, <1>3
<1>5. f = [of |-> a, whole |-> TRUE]
  BY <1>3, <1>4
<1> QED BY <1>5 DEF f

\* Each page takes a name nobody has, and gives up no name but its own.
LEMMA UploadsGoOn ==
  ASSUME Uploading!UploadsAssumption, ~RemovesEarly, UploadsInv, [Uploading!Next]_uploadsVars
  PROVE  UploadsInv'
<1> DEFINE Files0 == [of : Pages \X Nat, whole : BOOLEAN]
           Ups == [at : {"writing", "failed"}, name : 1..Names]
<1>1. /\ there \in [1..Names -> {Uploading!Absent} \cup Files0]
      /\ upload \in [Pages -> {Uploading!NoUpload} \cup Ups]
      /\ sent \in [Pages -> Nat] /\ owed \subseteq [of : Pages \X Nat, name : 1..Names]
  BY DEF UploadsInv, UploadsTypes
<1>2. ASSUME NEW p \in Pages
      PROVE  /\ upload[p] = Uploading!NoUpload \/ upload[p] \in Ups
             /\ upload[p] # Uploading!NoUpload <=> upload[p].at # "none"
             /\ upload[p] \in Ups =>
                  /\ upload[p].name \in 1..Names /\ there[upload[p].name] \in Files0
                  /\ there[upload[p].name] # Uploading!Absent
                  /\ there[upload[p].name].of = <<p, sent[p]>> /\ there[upload[p].name].whole = FALSE
  <2>1. upload[p] = Uploading!NoUpload \/ upload[p] \in Ups
    BY <1>1
  <2>2. upload[p] # Uploading!NoUpload <=> upload[p].at # "none"
    BY <2>1 DEF Uploading!NoUpload
  <2>3. upload[p] \in Ups => upload[p] # Uploading!NoUpload /\ upload[p].name \in 1..Names
    BY DEF Uploading!NoUpload
  <2> QED BY <1>1, <2>1, <2>2, <2>3 DEF UploadsInv, Uploading!Holds, Uploading!This
<1>14. ASSUME NEW p \in Pages, upload[p] \in Ups
       PROVE  /\ upload[p].name \in 1..Names /\ there[upload[p].name] # Uploading!Absent
              /\ there[upload[p].name].of = <<p, sent[p]>> /\ there[upload[p].name].whole = FALSE
  BY <1>2, <1>14
<1>15. ASSUME NEW q \in Pages, upload[q] \in Ups, NEW n, n = upload[q].name, NEW f, f = there[n],
              upload'[q] # Uploading!NoUpload => upload'[q].name = n,
              upload'[q] # Uploading!NoUpload => there'[n] = f,
              upload'[q] # Uploading!NoUpload => sent'[q] = sent[q]
       PROVE  upload'[q] # Uploading!NoUpload =>
                /\ there'[upload'[q].name] # Uploading!Absent
                /\ there'[upload'[q].name].of = <<q, sent'[q]>>
                /\ there'[upload'[q].name].whole = FALSE
  <2>1. f # Uploading!Absent /\ f.of = <<q, sent[q]>> /\ f.whole = FALSE
    BY <1>14, <1>15
  <2> QED BY <1>15, <2>1
<1>3. ASSUME NEW k \in 1..Names, there[k] # Uploading!Absent, there[k].whole = FALSE
      PROVE  \E p \in Pages : upload[p] \in Ups /\ upload[p].name = k
  <2>1. Uploading!BeingWritten(k)
    BY <1>3 DEF UploadsInv, Uploading!UploadsStayApart
  <2> QED BY <1>2, <2>1 DEF Uploading!BeingWritten
<1>4. \A o \in owed : o.name \in 1..Names /\ there[o.name] = [of |-> o.of, whole |-> TRUE]
  BY <1>1 DEF UploadsInv, Uploading!UploadsStayApart
<1>5. Uploading!NoUpload \notin Ups /\ Uploading!Absent \notin Files0
  <2>1. ASSUME Uploading!Absent \in Files0 PROVE FALSE
    <3>1. <<>> \in Pages \X Nat
      BY <2>1 DEF Uploading!Absent
    <3> QED BY <3>1
  <2> QED BY <2>1 DEF Uploading!NoUpload
<1>6. ASSUME NEW p \in Pages, NEW q \in Pages, upload[p] \in Ups, upload[q] \in Ups, upload[p].name = upload[q].name
      PROVE  p = q
  <2>1. there[upload[p].name].of = <<p, sent[p]>> /\ there[upload[p].name].of = <<q, sent[q]>>
    BY <1>6, <1>14
  <2> QED BY <2>1
<1>7. \A q \in Pages : <<q, sent[q]>> \in Pages \X Nat
  BY <1>1
<1>8. ASSUME NEW p \in Pages, Uploading!Starts(p) PROVE UploadsInv'
  <2>1. upload[p] = Uploading!NoUpload /\ UNCHANGED owed
    BY <1>8 DEF Uploading!Starts
  <2>2. CASE Uploading!Free = {}
    <3>1. sent' = [sent EXCEPT ![p] = @ + 1] /\ UNCHANGED <<there, upload>>
      BY <1>8, <2>2 DEF Uploading!Starts
    <3>2. sent' \in [Pages -> Nat] /\ \A q \in Pages \ {p} : sent'[q] = sent[q]
      BY <1>1, <3>1
    <3>3. UploadsTypes'
      BY <1>1, <2>1, <3>1, <3>2 DEF UploadsTypes, Files0, Ups
    <3>4. \A q \in Pages : upload'[q] # Uploading!NoUpload =>
           /\ there'[upload'[q].name] # Uploading!Absent
           /\ there'[upload'[q].name].of = <<q, sent'[q]>>
           /\ there'[upload'[q].name].whole = FALSE
      BY <1>2, <2>1, <3>1, <3>2
    <3>5. \A k \in 1..Names : there'[k] # Uploading!Absent =>
           \/ there'[k].whole
           \/ \E q \in Pages : upload'[q] # Uploading!NoUpload /\ upload'[q].name = k
      BY <1>1, <1>3, <1>5, <3>1 DEF Files0
    <3> QED BY <1>4, <2>1, <3>1, <3>3, <3>4, <3>5, UploadsKept
  <2>3. CASE Uploading!Free # {}
    <3> DEFINE k == Uploading!OpenUnique  f == [of |-> <<p, sent[p]>>, whole |-> FALSE]
               u == [at |-> "writing", name |-> k]
    <3>1. k \in 1..Names /\ there[k] = Uploading!Absent
      BY <2>3, FirstFree DEF Uploading!Free
    <3>2. there' = [there EXCEPT ![k] = f] /\ upload' = [upload EXCEPT ![p] = u] /\ UNCHANGED sent
      BY <1>8, <2>3 DEF Uploading!Starts, Uploading!This
    <3>3. f \in Files0 /\ f.of = <<p, sent[p]>> /\ f.whole = FALSE
      BY <1>7 DEF Files0
    <3>4. u \in Ups /\ u.name = k
      BY <3>1 DEF Ups
    <3> HIDE DEF k, f, u
    <3>5. f # Uploading!Absent /\ u # Uploading!NoUpload
      BY <1>5, <3>3, <3>4
    <3>6. /\ \A j \in 1..Names : there'[j] = IF j = k THEN f ELSE there[j]
          /\ \A q \in Pages : upload'[q] = IF q = p THEN u ELSE upload[q]
      BY <1>1, <3>2
    <3>7. UploadsTypes'
      BY <1>1, <2>1, <3>2, <3>3, <3>4 DEF UploadsTypes, Files0, Ups
    <3>8. \A q \in Pages : upload'[q] # Uploading!NoUpload =>
           /\ there'[upload'[q].name] # Uploading!Absent
           /\ there'[upload'[q].name].of = <<q, sent'[q]>>
           /\ there'[upload'[q].name].whole = FALSE
      <4>1. ASSUME NEW q \in Pages, q # p, upload[q] # Uploading!NoUpload
            PROVE  upload[q] \in Ups /\ upload[q].name \in 1..Names /\ upload[q].name # k
        BY <1>2, <3>1, <4>1
      <4> SUFFICES ASSUME NEW q \in Pages
                   PROVE  upload'[q] # Uploading!NoUpload =>
                            /\ there'[upload'[q].name] # Uploading!Absent
                            /\ there'[upload'[q].name].of = <<q, sent'[q]>>
                            /\ there'[upload'[q].name].whole = FALSE
        OBVIOUS
      <4>2. CASE q = p
        <5>1. upload'[q].name = k /\ there'[k] = f /\ sent'[q] = sent[p]
          BY <3>1, <3>2, <3>4, <3>6, <4>2
        <5> QED BY <3>3, <3>5, <4>2, <5>1
      <4>3. CASE q # p /\ upload[q] # Uploading!NoUpload
        <5>1. upload'[q] = upload[q] /\ there'[upload[q].name] = there[upload[q].name] /\ sent'[q] = sent[q]
          BY <3>2, <3>6, <4>1, <4>3
        <5> QED BY <1>15, <4>1, <4>3, <5>1
      <4>4. CASE q # p /\ upload[q] = Uploading!NoUpload
        BY <3>6, <4>4
      <4> QED BY <4>2, <4>3, <4>4
    <3>9. \A o \in owed' : there'[o.name] = [of |-> o.of, whole |-> TRUE]
      <4>1. ASSUME NEW o \in owed PROVE o.name # k /\ o.name \in 1..Names
        <5>1. o.name \in 1..Names /\ there[o.name] = [of |-> o.of, whole |-> TRUE]
          BY <1>4
        <5>2. [of |-> o.of, whole |-> TRUE] # Uploading!Absent
          BY DEF Uploading!Absent
        <5> QED BY <3>1, <5>1, <5>2
      <4> QED BY <1>4, <2>1, <3>6, <4>1
    <3>10. ASSUME NEW j \in 1..Names, there'[j] # Uploading!Absent
           PROVE  \/ there'[j].whole
                  \/ \E q \in Pages : upload'[q] # Uploading!NoUpload /\ upload'[q].name = j
      <4>1. CASE j = k
        BY <3>4, <3>5, <3>6, <4>1
      <4>2. CASE j # k /\ ~there[j].whole
        <5>1. PICK q \in Pages : upload[q] \in Ups /\ upload[q].name = j
          <6>1. there[j] # Uploading!Absent /\ there[j].whole = FALSE
            BY <1>1, <3>6, <3>10, <4>2 DEF Files0
          <6> QED BY <1>3, <6>1
        <5>2. q # p
          BY <1>5, <2>1, <5>1
        <5> QED BY <1>5, <3>6, <5>1, <5>2
      <4>3. CASE j # k /\ there[j].whole
        BY <3>6, <4>3
      <4> QED BY <4>1, <4>2, <4>3
    <3> QED BY <3>7, <3>8, <3>9, <3>10, UploadsKept
  <2> QED BY <2>2, <2>3
<1>9. ASSUME NEW p \in Pages, Uploading!Fails(p) PROVE UploadsInv'
  <2> DEFINE u == [upload[p] EXCEPT !.at = "failed"]
  <2>1. upload[p].at = "writing" /\ upload' = [upload EXCEPT ![p] = u] /\ UNCHANGED <<there, sent, owed>>
    BY <1>9 DEF Uploading!Fails
  <2>2. upload[p] \in Ups
    BY <1>2, <2>1
  <2>3. u \in Ups /\ u.name = upload[p].name
    BY <2>2 DEF Ups
  <2> HIDE DEF u
  <2>4. \A q \in Pages : upload'[q] = IF q = p THEN u ELSE upload[q]
    BY <1>1, <2>1
  <2>5. UploadsTypes'
    BY <1>1, <2>1, <2>3 DEF UploadsTypes, Files0, Ups
  <2>6. \A q \in Pages : upload'[q] # Uploading!NoUpload =>
         /\ there'[upload'[q].name] # Uploading!Absent
         /\ there'[upload'[q].name].of = <<q, sent'[q]>>
         /\ there'[upload'[q].name].whole = FALSE
    <3> SUFFICES ASSUME NEW q \in Pages
                 PROVE  upload'[q] # Uploading!NoUpload =>
                          /\ there'[upload'[q].name] # Uploading!Absent
                          /\ there'[upload'[q].name].of = <<q, sent'[q]>>
                          /\ there'[upload'[q].name].whole = FALSE
      OBVIOUS
    <3>1. CASE upload[q] = Uploading!NoUpload
      BY <1>5, <2>2, <2>4, <3>1
    <3>2. CASE upload[q] \in Ups
      <4>1. upload'[q].name = upload[q].name
        BY <2>3, <2>4
      <4> QED BY <1>15, <2>1, <3>2, <4>1
    <3> QED BY <1>2, <3>1, <3>2
  <2>7. ASSUME NEW k \in 1..Names, there[k] # Uploading!Absent, ~there[k].whole
        PROVE  \E q \in Pages : upload'[q] # Uploading!NoUpload /\ upload'[q].name = k
    <3>1. PICK q \in Pages : upload[q] \in Ups /\ upload[q].name = k
      <4>1. there[k].whole = FALSE
        BY <1>1, <2>7 DEF Files0
      <4> QED BY <1>3, <2>7, <4>1
    <3> QED BY <1>5, <2>3, <2>4, <3>1
  <2> QED BY <1>4, <2>1, <2>5, <2>6, <2>7, UploadsKept
<1>10. ASSUME NEW p \in Pages, Uploading!Unlinks(p) PROVE UploadsInv'
  <2> DEFINE k == upload[p].name
  <2>1. /\ upload[p].at = "failed" /\ there' = [there EXCEPT ![k] = Uploading!Absent]
        /\ upload' = [upload EXCEPT ![p] = Uploading!NoUpload] /\ sent' = [sent EXCEPT ![p] = @ + 1]
        /\ UNCHANGED owed
    BY <1>10 DEF Uploading!Unlinks, Uploading!Unlinked, Uploading!Over
  <2>2. upload[p] \in Ups /\ k \in 1..Names /\ there[k].whole = FALSE /\ upload[p].name = k
    BY <1>2, <2>1
  <2> HIDE DEF k
  <2>3. /\ \A j \in 1..Names : there'[j] = IF j = k THEN Uploading!Absent ELSE there[j]
        /\ \A q \in Pages : upload'[q] = IF q = p THEN Uploading!NoUpload ELSE upload[q]
        /\ \A q \in Pages : q # p => sent'[q] = sent[q]
    BY <1>1, <2>1
  <2>4. UploadsTypes'
    BY <1>1, <2>1, <2>2 DEF UploadsTypes, Files0, Ups
  <2>5. ASSUME NEW q \in Pages, upload'[q] # Uploading!NoUpload
        PROVE  /\ there'[upload'[q].name] # Uploading!Absent
               /\ there'[upload'[q].name].of = <<q, sent'[q]>>
               /\ there'[upload'[q].name].whole = FALSE
    <3>1. q # p /\ upload'[q] = upload[q] /\ upload[q] \in Ups
      BY <1>2, <2>3, <2>5
    <3>2. upload[q].name # k /\ upload[q].name \in 1..Names
      BY <1>2, <1>6, <2>2, <3>1
    <3>3. there'[upload[q].name] = there[upload[q].name] /\ sent'[q] = sent[q]
      BY <2>3, <3>1, <3>2
    <3>4. /\ there[upload[q].name] # Uploading!Absent /\ there[upload[q].name].of = <<q, sent[q]>>
          /\ there[upload[q].name].whole = FALSE
      BY <1>14, <3>1
    <3> QED BY <3>1, <3>3, <3>4
  <2>6. ASSUME NEW o \in owed' PROVE there'[o.name] = [of |-> o.of, whole |-> TRUE]
    <3>1. there[o.name] = [of |-> o.of, whole |-> TRUE] /\ o.name \in 1..Names
      BY <1>4, <2>1, <2>6
    <3> QED BY <2>2, <2>3, <3>1
  <2>7. ASSUME NEW j \in 1..Names, there'[j] # Uploading!Absent, ~there'[j].whole
        PROVE  \E q \in Pages : upload'[q] # Uploading!NoUpload /\ upload'[q].name = j
    <3>1. j # k /\ there[j] # Uploading!Absent /\ there[j].whole = FALSE
      BY <1>1, <2>3, <2>7 DEF Files0
    <3>2. PICK q \in Pages : upload[q] \in Ups /\ upload[q].name = j
      BY <1>3, <3>1
    <3> QED BY <1>5, <2>2, <2>3, <3>1, <3>2
  <2> QED BY <2>4, <2>5, <2>6, <2>7, UploadsKept
<1>11. ASSUME NEW p \in Pages, Uploading!Finishes(p) PROVE UploadsInv'
  <2> DEFINE k == upload[p].name  o0 == [of |-> <<p, sent[p]>>, name |-> k]  f == [there[k] EXCEPT !.whole = TRUE]
  <2>1. upload[p].at = "writing" /\ upload' = [upload EXCEPT ![p] = Uploading!NoUpload]
        /\ sent' = [sent EXCEPT ![p] = @ + 1]
    BY <1>11 DEF Uploading!Finishes, Uploading!Over
  <2>2. upload[p] \in Ups /\ k \in 1..Names /\ there[k] \in Files0 /\ there[k].of = <<p, sent[p]>>
        /\ there[k] # Uploading!Absent /\ upload[p].name = k
    BY <1>2, <2>1
  <2>3. there' = [there EXCEPT ![k] = f] /\ owed' \in {owed, owed \cup {o0}}
    BY <1>11, <2>2 DEF Uploading!Finishes, Uploading!Holds, Uploading!This
  <2>4. f \in Files0 /\ f.of = <<p, sent[p]>> /\ f = [of |-> <<p, sent[p]>>, whole |-> TRUE] /\ f.whole
    <3>1. there[k] \in Files0 /\ there[k].of = <<p, sent[p]>>
      BY <2>2
    <3>2. f = [of |-> <<p, sent[p]>>, whole |-> TRUE]
      <4>1. ASSUME NEW r \in Files0, NEW a, r.of = a
            PROVE  [r EXCEPT !.whole = TRUE] = [of |-> a, whole |-> TRUE]
        BY <4>1, IsWhole
      <4> QED BY <3>1, <4>1
    <3>3. [of |-> <<p, sent[p]>>, whole |-> TRUE] \in Files0
      BY <1>1, <1>11
    <3> HIDE DEF f
    <3> QED BY <3>2, <3>3
  <2>5. o0 \in [of : Pages \X Nat, name : 1..Names] /\ o0.of = <<p, sent[p]>> /\ o0.name = k
    BY <1>7, <2>2
  <2> HIDE DEF k, o0, f
  <2>6. /\ \A j \in 1..Names : there'[j] = IF j = k THEN f ELSE there[j]
        /\ \A q \in Pages : upload'[q] = IF q = p THEN Uploading!NoUpload ELSE upload[q]
        /\ \A q \in Pages : q # p => sent'[q] = sent[q]
    BY <1>1, <2>1, <2>3
  <2>7. UploadsTypes'
    <3>1. owed' \subseteq [of : Pages \X Nat, name : 1..Names]
      BY <1>1, <2>3, <2>5
    <3> QED BY <1>1, <2>1, <2>2, <2>3, <2>4, <3>1 DEF UploadsTypes, Files0, Ups
  <2>8. ASSUME NEW q \in Pages, upload'[q] # Uploading!NoUpload
        PROVE  /\ there'[upload'[q].name] # Uploading!Absent
               /\ there'[upload'[q].name].of = <<q, sent'[q]>>
               /\ there'[upload'[q].name].whole = FALSE
    <3>1. q # p /\ upload'[q] = upload[q] /\ upload[q] \in Ups
      BY <1>2, <2>6, <2>8
    <3>2. upload[q].name # k /\ upload[q].name \in 1..Names
      BY <1>2, <1>6, <2>2, <3>1
    <3>3. there'[upload[q].name] = there[upload[q].name] /\ sent'[q] = sent[q]
      BY <2>6, <3>1, <3>2
    <3>4. /\ there[upload[q].name] # Uploading!Absent /\ there[upload[q].name].of = <<q, sent[q]>>
          /\ there[upload[q].name].whole = FALSE
      BY <1>14, <3>1
    <3> QED BY <3>1, <3>3, <3>4
  <2>9. ASSUME NEW o \in owed' PROVE there'[o.name] = [of |-> o.of, whole |-> TRUE]
    <3>1. CASE o \in owed
      <4>1. there[o.name] = [of |-> o.of, whole |-> TRUE] /\ o.name \in 1..Names
        BY <1>4, <3>1
      <4>2. o.name # k
        <5>1. there[k].whole = FALSE
          BY <1>2, <2>2
        <5> QED BY <4>1, <5>1
      <4> QED BY <2>6, <4>1, <4>2
    <3>2. CASE o = o0
      BY <2>2, <2>4, <2>5, <2>6, <3>2
    <3> QED BY <2>3, <3>1, <3>2
  <2>10. ASSUME NEW j \in 1..Names, there'[j] # Uploading!Absent, ~there'[j].whole
         PROVE  \E q \in Pages : upload'[q] # Uploading!NoUpload /\ upload'[q].name = j
    <3>1. j # k /\ there[j] # Uploading!Absent /\ there[j].whole = FALSE
      BY <1>1, <2>4, <2>6, <2>10 DEF Files0
    <3>2. PICK q \in Pages : upload[q] \in Ups /\ upload[q].name = j
      BY <1>3, <3>1
    <3> QED BY <1>5, <2>2, <2>6, <3>1, <3>2
  <2> QED BY <2>7, <2>8, <2>9, <2>10, UploadsKept
<1>12. ASSUME NEW k \in 1..Names, Uploading!Removes(k) PROVE UploadsInv'
  <2>1. /\ there[k] # Uploading!Absent /\ there' = [there EXCEPT ![k] = Uploading!Absent]
        /\ owed' = {o \in owed : o.name # k} /\ UNCHANGED <<upload, sent>> /\ ~Uploading!BeingWritten(k)
    BY <1>12 DEF Uploading!Removes
  <2>2. ASSUME NEW q \in Pages, upload[q] \in Ups PROVE upload[q].name # k /\ upload[q].name \in 1..Names
    <3>1. upload[q].at # "none" /\ Uploading!Holds(q, upload[q].name)
      BY <1>2, <1>5, <2>2 DEF Uploading!Holds, Uploading!This
    <3> QED BY <1>2, <2>1, <2>2, <3>1 DEF Uploading!BeingWritten
  <2>3. \A j \in 1..Names : there'[j] = IF j = k THEN Uploading!Absent ELSE there[j]
    BY <1>1, <2>1
  <2>4. UploadsTypes'
    BY <1>1, <2>1 DEF UploadsTypes, Files0, Ups
  <2>5. ASSUME NEW q \in Pages, upload'[q] # Uploading!NoUpload
        PROVE  /\ there'[upload'[q].name] # Uploading!Absent
               /\ there'[upload'[q].name].of = <<q, sent'[q]>>
               /\ there'[upload'[q].name].whole = FALSE
    <3>1. upload[q] \in Ups /\ upload'[q] = upload[q] /\ sent'[q] = sent[q]
      BY <1>2, <2>1, <2>5
    <3>2. there'[upload[q].name] = there[upload[q].name]
      BY <2>2, <2>3, <3>1
    <3> QED BY <1>15, <2>5, <3>1, <3>2
  <2>6. \A o \in owed' : there'[o.name] = [of |-> o.of, whole |-> TRUE]
    BY <1>4, <2>1, <2>3
  <2>7. ASSUME NEW j \in 1..Names, there'[j] # Uploading!Absent, ~there'[j].whole
        PROVE  \E q \in Pages : upload'[q] # Uploading!NoUpload /\ upload'[q].name = j
    <3>1. there[j] # Uploading!Absent /\ there[j].whole = FALSE
      BY <1>1, <2>3, <2>7 DEF Files0
    <3>2. PICK q \in Pages : upload[q] \in Ups /\ upload[q].name = j
      BY <1>3, <3>1
    <3> QED BY <1>5, <2>1, <3>2
  <2> QED BY <2>4, <2>5, <2>6, <2>7, UploadsKept
<1>13. CASE UNCHANGED uploadsVars
  BY <1>13 DEF uploadsVars, UploadsInv, UploadsTypes, Uploading!Holds, Uploading!This,
     Uploading!UploadsStayApart, Uploading!BeingWritten
<1> QED BY <1>8, <1>9, <1>10, <1>11, <1>12, <1>13 DEF Uploading!Next

-----------------------------------------------------------------------------
(* The editor and its files.                                                *)

Versions == [text : Nat, mtime : Nat]
EditorCalls == [kind : {"load", "save", "check", "mtime"}, file : Files, text : Nat,
                answer : Versions, done : BOOLEAN, ok : BOOLEAN]

\* The editor's variables have their types.
EditorTypes ==
  /\ disk \in [Files -> Versions] /\ path \in Files \cup {NoFile}
  /\ buffer \in Nat /\ savedContent \in Nat /\ readOnly \in BOOLEAN /\ knownMtime \in Nat
  /\ draft \in Nat /\ editorAsked \subseteq EditorCalls /\ texts \in Nat /\ mine \in Nat
  /\ editorWritten \subseteq Nat /\ checked \in BOOLEAN /\ told \in BOOLEAN

\* Every text and every time is one there has been.
TextsThereHaveBeen ==
  /\ \A f \in Files : /\ disk[f].mtime <= texts /\ disk[f].text \in editorWritten \cup {0}
                      /\ disk[f].mtime = 0 => disk[f].text = 0
  /\ buffer <= texts /\ draft <= texts /\ knownMtime <= texts /\ savedContent \in editorWritten \cup {0}
  /\ \A t \in editorWritten : t <= texts
  /\ \A c \in editorAsked : /\ c.text <= texts /\ c.answer.mtime <= texts /\ c.answer.text \in editorWritten \cup {0}
                            /\ c.answer.mtime = 0 => c.answer.text = 0

\* A call in flight is about the file in the window, or loads the one to come, and while a
\* file is saved none is loaded or looked at; what has been read or written is what is there.
CallsInFlight ==
  \A c \in editorAsked :
    /\ c.file = path \/ (c.kind = "load" /\ \A e \in editorAsked : e = c)
    /\ c.kind = "save" => \A e \in editorAsked : e.kind \notin {"load", "check"} /\ (e.kind = "save" => e = c)
    /\ c.done = FALSE => c.ok = TRUE
    /\ c.done = TRUE /\ c.ok = TRUE /\ c.kind = "load" => c.answer = disk[c.file]
    /\ c.done = TRUE /\ c.ok = TRUE /\ c.kind = "save" => c.text = disk[c.file].text /\ c.text \in editorWritten
    /\ c.answer.mtime = disk[c.file].mtime => c.answer.text = disk[c.file].text
    /\ c.answer.mtime # 0 => disk[c.file].mtime # 0

\* What was typed last is in the window, in the draft to come, or was written; where it is in
\* the window no file is being loaded.
TypedIsKept ==
  /\ mine = 0 \/ mine \in editorWritten \/ mine = draft
       \/ (mine = buffer /\ \A c \in editorAsked : c.kind # "load")
  /\ draft # 0 => /\ \E c \in editorAsked : c.kind = "load"
                  /\ \A c, e \in editorAsked : c = e /\ c.ok = TRUE

\* What the window takes for the file's text is that, or is to be, or the person was told.
SavedIsThere ==
  \/ told = TRUE \/ savedContent = disk[path].text
  \/ \E c \in editorAsked : c.kind = "load" \/ (c.kind = "save" /\ c.done = TRUE /\ c.ok = TRUE)

\* That is so whenever the time the window knows is the file's, or is about to be.
KnownIsThere ==
  /\ knownMtime # 0 => path \in Files /\ (readOnly = FALSE => disk[path].mtime # 0)
  /\ path \in Files /\ readOnly = FALSE =>
       /\ knownMtime # 0 /\ (checked = TRUE \/ knownMtime = disk[path].mtime) => SavedIsThere
       /\ \A c \in editorAsked :
            c.kind = "mtime" /\ (c.done = FALSE \/ c.answer.mtime = disk[path].mtime) => SavedIsThere

\* The editor's invariant.
EditorInv == EditorTypes /\ TextsThereHaveBeen /\ CallsInFlight /\ TypedIsKept /\ KnownIsThere

\* A call that has been asked for, and is not answered yet.
IsNew(c, k, f, t) ==
  /\ c \in EditorCalls /\ c.kind = k /\ c.file = f /\ c.text = t
  /\ c.done = FALSE /\ c.ok = TRUE /\ c.answer.mtime = 0 /\ c.answer.text = 0

\* Calls are asked for so.
LEMMA NewCall ==
  ASSUME NEW k \in {"load", "save", "check", "mtime"}, NEW f \in Files, NEW t \in Nat
  PROVE  IsNew(Editing!Call(k, f, t), k, f, t)
<1>1. Editing!Call(k, f, t) = [kind |-> k, file |-> f, text |-> t, answer |-> [text |-> 0, mtime |-> 0],
                               done |-> FALSE, ok |-> TRUE]
  BY DEF Editing!Call, Editing!Nothing
<1>2. [text |-> 0, mtime |-> 0] \in Versions
  BY DEF Versions
<1> QED BY <1>1, <1>2 DEF EditorCalls, IsNew

\* The editor begins in its invariant.
LEMMA EditorBegins == Editing!EditorAssumption /\ Editing!Init => EditorInv
<1> SUFFICES ASSUME Editing!EditorAssumption, Editing!Init PROVE EditorInv
  OBVIOUS
<1>1. /\ disk \in [Files -> {Editing!Nothing, [text |-> 1, mtime |-> 1]}]
      /\ path = NoFile /\ buffer = 0 /\ savedContent = 0 /\ readOnly = FALSE /\ knownMtime = 0
      /\ draft = 0 /\ editorAsked = {} /\ texts = 1 /\ mine = 0 /\ editorWritten = {1} /\ checked = FALSE
      /\ told = FALSE
  BY DEF Editing!Init
<1>2. \A f \in Files : /\ disk[f] \in Versions /\ disk[f].mtime \in {0, 1} /\ disk[f].text \in {0, 1}
                       /\ disk[f].mtime = disk[f].text
  BY <1>1 DEF Editing!Nothing, Versions
<1>3. EditorTypes
  <2>1. readOnly \in BOOLEAN /\ checked \in BOOLEAN /\ told \in BOOLEAN
    BY <1>1
  <2>2. disk \in [Files -> Versions] /\ path \in Files \cup {NoFile} /\ editorWritten \subseteq Nat
    BY <1>1, <1>2
  <2> QED BY <1>1, <2>1, <2>2 DEF EditorTypes
<1>4. TextsThereHaveBeen
  BY <1>1, <1>2 DEF TextsThereHaveBeen
<1> QED BY <1>1, <1>3, <1>4 DEF EditorInv, CallsInFlight, TypedIsKept, KnownIsThere

\* The person types.
LEMMA TypesKeeps ==
  ASSUME ~InHaste, EditorInv, Editing!Types
  PROVE  EditorInv'
<1>1. /\ \A c \in editorAsked : c.kind # "load"
      /\ texts' = texts + 1 /\ buffer' = texts + 1 /\ mine' = texts + 1
      /\ UNCHANGED <<disk, editorWritten, path, savedContent, readOnly, draft, knownMtime, editorAsked, told, checked>>
  BY DEF Editing!Types, Editing!Asking, Editing!fileVars
<1>2. EditorTypes /\ texts \in Nat /\ savedContent \in Nat /\ savedContent <= texts
  <2>1. savedContent \in editorWritten \cup {0} /\ texts \in Nat /\ \A t \in editorWritten : t <= texts
    BY DEF EditorInv, EditorTypes, TextsThereHaveBeen
  <2> QED BY <2>1 DEF EditorInv, EditorTypes
<1>3. EditorTypes'
  BY <1>1, <1>2 DEF EditorTypes
<1>4. TextsThereHaveBeen'
  <2>1. \A f \in Files : disk[f].mtime \in Nat
    BY <1>2 DEF EditorTypes, Versions
  <2>2. \A c \in editorAsked : c.answer.mtime \in Nat /\ c.text \in Nat
    BY <1>2 DEF EditorTypes, EditorCalls, Versions
  <2>3. knownMtime \in Nat /\ draft \in Nat /\ \A t \in editorWritten : t \in Nat
    BY <1>2 DEF EditorTypes
  <2> QED BY <1>1, <1>2, <2>1, <2>2, <2>3 DEF EditorInv, TextsThereHaveBeen
<1>5. CallsInFlight'
  BY <1>1 DEF EditorInv, CallsInFlight
<1>6. TypedIsKept'
  BY <1>1 DEF EditorInv, TypedIsKept
<1>7. SavedIsThere => SavedIsThere'
  BY <1>1 DEF SavedIsThere
<1>8. KnownIsThere'
  BY <1>1, <1>7 DEF EditorInv, KnownIsThere
<1> QED BY <1>3, <1>4, <1>5, <1>6, <1>8 DEF EditorInv

\* What was typed is taken back.
LEMMA UndoesKeeps ==
  ASSUME ~InHaste, EditorInv, Editing!Undoes
  PROVE  EditorInv'
<1>1. /\ \A c \in editorAsked : c.kind # "load"
      /\ buffer' = savedContent /\ mine' = 0
      /\ UNCHANGED <<disk, editorWritten, path, savedContent, readOnly, draft, knownMtime, editorAsked, texts, told, checked>>
  BY DEF Editing!Undoes, Editing!Asking, Editing!fileVars
<1>2. savedContent <= texts
  <2>1. savedContent \in editorWritten \cup {0} /\ texts \in Nat /\ \A t \in editorWritten : t <= texts
    BY DEF EditorInv, EditorTypes, TextsThereHaveBeen
  <2> QED BY <2>1
<1>3. EditorTypes'
  BY <1>1 DEF EditorInv, EditorTypes
<1>4. TextsThereHaveBeen'
  BY <1>1, <1>2 DEF EditorInv, TextsThereHaveBeen
<1>5. CallsInFlight'
  BY <1>1 DEF EditorInv, CallsInFlight
<1>6. TypedIsKept'
  BY <1>1 DEF EditorInv, TypedIsKept
<1>7. SavedIsThere => SavedIsThere'
  BY <1>1 DEF SavedIsThere
<1>8. KnownIsThere'
  BY <1>1, <1>7 DEF EditorInv, KnownIsThere
<1> QED BY <1>3, <1>4, <1>5, <1>6, <1>8 DEF EditorInv

\* Somebody else writes a file.
LEMMA OthersWriteKeeps ==
  ASSUME ~SlipsIn, EditorInv, NEW f \in Files, Editing!OthersWrite(f)
  PROVE  EditorInv'
<1> DEFINE v == [text |-> texts + 1, mtime |-> texts + 1]
<1>1. /\ ~Editing!BeforeItsTime /\ texts' = texts + 1 /\ disk' = [disk EXCEPT ![f] = v]
      /\ editorWritten' = editorWritten \cup {texts + 1} /\ checked' = FALSE
      /\ UNCHANGED <<path, buffer, savedContent, readOnly, draft, knownMtime, editorAsked, mine, told>>
  BY DEF Editing!OthersWrite, Editing!bufferVars
<1>2. EditorTypes /\ texts \in Nat /\ savedContent \in Nat /\ knownMtime \in Nat
  BY DEF EditorInv, EditorTypes
<1>3. v \in Versions /\ v.text = texts + 1 /\ v.mtime = texts + 1
  BY <1>2 DEF Versions
<1> HIDE DEF v
<1>4. \A g \in Files : disk'[g] = IF g = f THEN v ELSE disk[g]
  BY <1>1, <1>2 DEF EditorTypes
<1>5. \A c \in editorAsked : /\ c.file \in Files /\ c.answer.mtime \in Nat /\ c.done \in BOOLEAN
                             /\ c.kind = "mtime" => c.done = TRUE
                             /\ c.kind # "mtime" /\ c.kind # "check" => c.done = FALSE
  BY <1>1, <1>2 DEF EditorTypes, EditorCalls, Versions, Editing!BeforeItsTime
<1>6. EditorTypes'
  <2>1. checked' \in BOOLEAN
    BY <1>1
  <2>2. disk' \in [Files -> Versions] /\ editorWritten' \subseteq Nat /\ texts' \in Nat
    BY <1>1, <1>2, <1>3 DEF EditorTypes
  <2> QED BY <1>1, <1>2, <2>1, <2>2 DEF EditorTypes
<1>7. TextsThereHaveBeen /\ CallsInFlight /\ TypedIsKept /\ KnownIsThere
  BY DEF EditorInv
<1>8. TextsThereHaveBeen'
  <2>1. \A g \in Files : disk[g].mtime \in Nat
    BY <1>2 DEF EditorTypes, Versions
  <2>2. /\ buffer \in Nat /\ draft \in Nat /\ \A t \in editorWritten : t \in Nat
        /\ \A c \in editorAsked : c.text \in Nat
    BY <1>2 DEF EditorTypes, EditorCalls
  <2>3. \A g \in Files : /\ disk'[g].mtime <= texts' /\ disk'[g].text \in editorWritten' \cup {0}
                         /\ disk'[g].mtime = 0 => disk'[g].text = 0
    BY <1>1, <1>2, <1>3, <1>4, <1>7, <2>1 DEF TextsThereHaveBeen
  <2>4. \A c \in editorAsked : /\ c.text <= texts' /\ c.answer.mtime <= texts'
                               /\ c.answer.text \in editorWritten' \cup {0}
                               /\ c.answer.mtime = 0 => c.answer.text = 0
    BY <1>1, <1>2, <1>5, <1>7, <2>2 DEF TextsThereHaveBeen
  <2>5. /\ buffer <= texts' /\ draft <= texts' /\ knownMtime <= texts'
        /\ savedContent \in editorWritten' \cup {0} /\ \A t \in editorWritten' : t <= texts'
    BY <1>1, <1>2, <1>7, <2>2 DEF TextsThereHaveBeen
  <2> QED BY <1>1, <2>3, <2>4, <2>5 DEF TextsThereHaveBeen
<1>9. CallsInFlight'
  <2>1. \A c \in editorAsked : c.answer.mtime < texts + 1
    BY <1>2, <1>5, <1>7 DEF TextsThereHaveBeen
  <2>2. texts + 1 # 0
    BY <1>2
  <2> QED BY <1>1, <1>3, <1>4, <1>5, <1>7, <2>1, <2>2 DEF CallsInFlight
<1>10. TypedIsKept'
  BY <1>1, <1>7 DEF TypedIsKept
<1>11. KnownIsThere'
  <2>1. texts + 1 # 0 /\ knownMtime # texts + 1 /\ \A c \in editorAsked : c.answer.mtime # texts + 1
    BY <1>2, <1>5, <1>7 DEF TextsThereHaveBeen
  <2>2. SavedIsThere /\ path # f => SavedIsThere'
    BY <1>1, <1>4 DEF SavedIsThere
  <2>3. ASSUME path \in Files, readOnly = FALSE
        PROVE  /\ knownMtime # 0 /\ knownMtime = disk'[path].mtime => SavedIsThere'
               /\ \A c \in editorAsked :
                    c.kind = "mtime" /\ (c.done = FALSE \/ c.answer.mtime = disk'[path].mtime) => SavedIsThere'
    <3>1. CASE path = f
      BY <1>3, <1>4, <1>5, <2>1, <3>1
    <3>2. CASE path # f
      BY <1>4, <1>5, <1>7, <2>2, <2>3, <3>2 DEF KnownIsThere
    <3> QED BY <3>1, <3>2
  <2>4. knownMtime # 0 => path \in Files /\ (readOnly = FALSE => disk'[path].mtime # 0)
    BY <1>3, <1>4, <1>7, <2>1 DEF KnownIsThere
  <2> QED BY <1>1, <2>3, <2>4 DEF KnownIsThere
<1> QED BY <1>6, <1>8, <1>9, <1>10, <1>11 DEF EditorInv

\* What is given up when the person agrees to throw a changed buffer away.
LEMMA Discarded ==
  ASSUME EditorInv, Editing!Discards, \A c \in editorAsked : c.kind # "load"
  PROVE  mine' \in Nat /\ (mine' = 0 \/ mine' \in editorWritten)
  BY DEF EditorInv, EditorTypes, TextsThereHaveBeen, TypedIsKept, Editing!Discards, Editing!Dirty

\* A file is to be opened.
LEMMA OpensKeeps ==
  ASSUME ~InHaste, EditorInv, NEW f \in Files, Editing!Opens(f)
  PROVE  EditorInv'
<1> DEFINE c == Editing!Call("load", f, 0)
<1>1. /\ editorAsked = {} /\ editorAsked' = {c} /\ Editing!Discards
      /\ UNCHANGED <<disk, editorWritten, path, buffer, savedContent, readOnly, draft, knownMtime, texts, told, checked>>
  BY DEF Editing!Opens, Editing!Idle, Editing!Quiet, Editing!Load, Editing!fileVars,
     Editing!bufferVars
<1>2. EditorTypes /\ TextsThereHaveBeen /\ CallsInFlight /\ TypedIsKept /\ KnownIsThere
  BY DEF EditorInv
<1>3. mine' \in Nat /\ (mine' = 0 \/ mine' \in editorWritten) /\ draft = 0
  BY <1>1, <1>2, Discarded DEF TypedIsKept
<1>11. IsNew(c, "load", f, 0)
  BY NewCall
<1> HIDE DEF c
<1>4. /\ c \in EditorCalls /\ c.kind = "load" /\ c.file = f /\ c.text = 0 /\ c.done = FALSE /\ c.ok = TRUE
      /\ c.answer.mtime = 0 /\ c.answer.text = 0
  BY <1>11 DEF IsNew
<1>5. \A g \in Files : disk[g].mtime = 0 => disk[g].text = 0
  BY <1>2 DEF TextsThereHaveBeen
<1>6. EditorTypes'
  BY <1>1, <1>2, <1>3, <1>4 DEF EditorTypes
<1>7. TextsThereHaveBeen'
  <2>1. 0 <= texts
    BY <1>2 DEF EditorTypes
  <2> QED BY <1>1, <1>2, <1>4, <2>1 DEF TextsThereHaveBeen
<1>8. CallsInFlight'
  BY <1>1, <1>4, <1>5 DEF CallsInFlight
<1>9. SavedIsThere'
  BY <1>1, <1>4 DEF SavedIsThere
<1>10. TypedIsKept' /\ KnownIsThere'
  BY <1>1, <1>2, <1>3, <1>9 DEF TypedIsKept, KnownIsThere
<1> QED BY <1>6, <1>7, <1>8, <1>10 DEF EditorInv

\* An empty buffer.
LEMMA NewFileKeeps ==
  ASSUME ~InHaste, EditorInv, Editing!NewFile, NoFile \notin Files
  PROVE  EditorInv'
<1>1. /\ editorAsked = {} /\ editorAsked' = editorAsked /\ Editing!Discards
      /\ path' = NoFile /\ buffer' = 0 /\ savedContent' = 0 /\ readOnly' = FALSE /\ knownMtime' = 0
      /\ told' = FALSE /\ UNCHANGED <<disk, editorWritten, draft, texts, checked>>
  BY DEF Editing!NewFile, Editing!Idle, Editing!Quiet, Editing!fileVars
<1>2. EditorTypes /\ TextsThereHaveBeen /\ CallsInFlight /\ TypedIsKept /\ KnownIsThere
  BY DEF EditorInv
<1>3. mine' \in Nat /\ (mine' = 0 \/ mine' \in editorWritten) /\ draft = 0
  BY <1>1, <1>2, Discarded DEF TypedIsKept
<1>4. EditorTypes'
  BY <1>1, <1>2, <1>3 DEF EditorTypes
<1>5. TextsThereHaveBeen'
  <2>1. 0 <= texts
    BY <1>2 DEF EditorTypes
  <2> QED BY <1>1, <1>2, <2>1 DEF TextsThereHaveBeen
<1> QED BY <1>1, <1>2, <1>3, <1>4, <1>5 DEF EditorInv, CallsInFlight, TypedIsKept, KnownIsThere

\* The buffer is to be saved.
LEMMA SaveKeeps ==
  ASSUME ~InHaste, EditorInv, Editing!Save
  PROVE  EditorInv'
<1> DEFINE n == Editing!Call("save", path, buffer)
<1>1. /\ \A c \in editorAsked : c.kind \notin {"load", "save", "check"}
      /\ path # NoFile /\ editorAsked' = editorAsked \cup {n}
      /\ UNCHANGED <<disk, editorWritten, path, buffer, savedContent, readOnly, draft, knownMtime, texts, mine, told, checked>>
  BY DEF Editing!Save, Editing!Asking, Editing!fileVars, Editing!bufferVars
<1>2. EditorTypes /\ TextsThereHaveBeen /\ CallsInFlight /\ TypedIsKept /\ KnownIsThere
  BY DEF EditorInv
<1>10. IsNew(n, "save", path, buffer) /\ path \in Files
  BY <1>1, <1>2, NewCall DEF EditorTypes
<1> HIDE DEF n
<1>3. /\ n \in EditorCalls /\ n.kind = "save" /\ n.file = path /\ n.text = buffer /\ n.done = FALSE /\ n.ok = TRUE
      /\ n.answer.mtime = 0 /\ n.answer.text = 0 /\ path \in Files
  BY <1>10 DEF IsNew
<1>4. EditorTypes'
  BY <1>1, <1>2, <1>3 DEF EditorTypes
<1>5. TextsThereHaveBeen'
  <2>1. 0 <= texts
    BY <1>2 DEF EditorTypes
  <2> QED BY <1>1, <1>2, <1>3, <2>1 DEF TextsThereHaveBeen
<1>6. CallsInFlight'
  <2>1. disk[path].mtime = 0 => disk[path].text = 0
    BY <1>2, <1>3 DEF TextsThereHaveBeen
  <2> QED BY <1>1, <1>2, <1>3, <2>1 DEF CallsInFlight
<1>7. TypedIsKept'
  BY <1>1, <1>2, <1>3 DEF TypedIsKept
<1>8. SavedIsThere => SavedIsThere'
  BY <1>1, <1>3 DEF SavedIsThere
<1>9. KnownIsThere'
  BY <1>1, <1>2, <1>3, <1>8 DEF KnownIsThere
<1> QED BY <1>4, <1>5, <1>6, <1>7, <1>9 DEF EditorInv

\* The buffer is to be saved under another name.
LEMMA SaveAsKeeps ==
  ASSUME ~InHaste, EditorInv, NEW f \in Files, Editing!SaveAs(f)
  PROVE  EditorInv'
<1> DEFINE n == Editing!Call("save", f, buffer)
<1>1. /\ editorAsked = {} /\ editorAsked' = {n} /\ path' = f /\ knownMtime' = 0 /\ readOnly' = FALSE
      /\ UNCHANGED <<disk, editorWritten, buffer, savedContent, draft, texts, mine, told, checked>>
  BY DEF Editing!SaveAs, Editing!Idle, Editing!Quiet, Editing!fileVars
<1>2. EditorTypes /\ TextsThereHaveBeen /\ CallsInFlight /\ TypedIsKept /\ KnownIsThere
  BY DEF EditorInv
<1>7. IsNew(n, "save", f, buffer)
  BY <1>2, NewCall DEF EditorTypes
<1> HIDE DEF n
<1>3. /\ n \in EditorCalls /\ n.kind = "save" /\ n.file = f /\ n.text = buffer /\ n.done = FALSE /\ n.ok = TRUE
      /\ n.answer.mtime = 0 /\ n.answer.text = 0
  BY <1>7 DEF IsNew
<1>4. EditorTypes'
  BY <1>1, <1>2, <1>3 DEF EditorTypes
<1>5. TextsThereHaveBeen'
  <2>1. 0 <= texts
    BY <1>2 DEF EditorTypes
  <2> QED BY <1>1, <1>2, <1>3, <2>1 DEF TextsThereHaveBeen
<1>6. CallsInFlight'
  <2>1. disk[f].mtime = 0 => disk[f].text = 0
    BY <1>2, <1>3 DEF TextsThereHaveBeen
  <2> QED BY <1>1, <1>2, <1>3, <2>1 DEF CallsInFlight
<1> QED BY <1>1, <1>2, <1>3, <1>4, <1>5, <1>6 DEF EditorInv, TypedIsKept, KnownIsThere

\* The window looks whether the file has changed.
LEMMA LooksKeeps ==
  ASSUME ~InHaste, EditorInv, Editing!Looks
  PROVE  EditorInv'
<1> DEFINE n == Editing!Call("check", path, 0)
<1>1. /\ \A c \in editorAsked : c.kind \notin {"load", "save"}
      /\ path # NoFile /\ editorAsked' = editorAsked \cup {n}
      /\ UNCHANGED <<disk, editorWritten, path, buffer, savedContent, readOnly, draft, knownMtime, texts, mine, told, checked>>
  BY DEF Editing!Looks, Editing!Asking, Editing!fileVars, Editing!bufferVars
<1>2. EditorTypes /\ TextsThereHaveBeen /\ CallsInFlight /\ TypedIsKept /\ KnownIsThere
  BY DEF EditorInv
<1>10. IsNew(n, "check", path, 0) /\ path \in Files
  BY <1>1, <1>2, NewCall DEF EditorTypes
<1> HIDE DEF n
<1>3. /\ n \in EditorCalls /\ n.kind = "check" /\ n.file = path /\ n.text = 0 /\ n.done = FALSE /\ n.ok = TRUE
      /\ n.answer.mtime = 0 /\ n.answer.text = 0 /\ path \in Files
  BY <1>10 DEF IsNew
<1>4. EditorTypes'
  BY <1>1, <1>2, <1>3 DEF EditorTypes
<1>5. TextsThereHaveBeen'
  <2>1. 0 <= texts
    BY <1>2 DEF EditorTypes
  <2> QED BY <1>1, <1>2, <1>3, <2>1 DEF TextsThereHaveBeen
<1>6. CallsInFlight'
  <2>1. disk[path].mtime = 0 => disk[path].text = 0
    BY <1>2, <1>3 DEF TextsThereHaveBeen
  <2> QED BY <1>1, <1>2, <1>3, <2>1 DEF CallsInFlight
<1>7. TypedIsKept'
  BY <1>1, <1>2, <1>3 DEF TypedIsKept
<1>8. SavedIsThere => SavedIsThere'
  BY <1>1, <1>3 DEF SavedIsThere
<1>9. KnownIsThere'
  BY <1>1, <1>2, <1>3, <1>8 DEF KnownIsThere
<1> QED BY <1>4, <1>5, <1>6, <1>7, <1>9 DEF EditorInv

\* The page is loaded anew, and loads its file.
LEMMA ReloadKeeps ==
  ASSUME ~InHaste, EditorInv, Editing!Reload, NoFile \notin Files
  PROVE  EditorInv'
<1> DEFINE kept == IF buffer # savedContent THEN buffer ELSE 0
<1>1. /\ \A c \in editorAsked : c.kind \notin {"load", "save"}
      /\ savedContent' = 0 /\ readOnly' = FALSE /\ knownMtime' = 0 /\ told' = FALSE
      /\ UNCHANGED <<disk, editorWritten, path, texts, mine, checked>>
      /\ IF path = NoFile THEN editorAsked' = {} /\ draft' = 0 /\ buffer' = kept
         ELSE editorAsked' = {Editing!Call("load", path, 0)} /\ draft' = kept /\ buffer' = 0
  BY DEF Editing!Reload, Editing!Asking, Editing!fileVars, Editing!Dirty
<1>2. EditorTypes /\ TextsThereHaveBeen /\ CallsInFlight /\ TypedIsKept /\ KnownIsThere
  BY DEF EditorInv
<1>3. kept \in Nat /\ kept <= texts /\ (mine = 0 \/ mine \in editorWritten \/ mine = kept)
  <2>1. buffer \in Nat /\ texts \in Nat /\ buffer <= texts
    BY <1>2 DEF EditorTypes, TextsThereHaveBeen
  <2>2. mine = 0 \/ mine \in editorWritten \/ mine = kept
    BY <1>1, <1>2 DEF TextsThereHaveBeen, TypedIsKept
  <2> QED BY <2>1, <2>2
<1> HIDE DEF kept
<1>4. 0 <= texts
  BY <1>2 DEF EditorTypes
<1>5. CASE path = NoFile
  <2>1. EditorTypes'
    <3>1. readOnly' \in BOOLEAN /\ told' \in BOOLEAN
      BY <1>1
    <3> QED BY <1>1, <1>2, <1>3, <1>5, <3>1 DEF EditorTypes
  <2>2. TextsThereHaveBeen'
    BY <1>1, <1>2, <1>3, <1>4, <1>5 DEF TextsThereHaveBeen
  <2> QED BY <1>1, <1>3, <1>5, <2>1, <2>2 DEF EditorInv, CallsInFlight, TypedIsKept, KnownIsThere
<1>6. CASE path # NoFile
  <2> DEFINE n == Editing!Call("load", path, 0)
  <2>8. IsNew(n, "load", path, 0) /\ path \in Files
    BY <1>2, <1>6, NewCall DEF EditorTypes
  <2>2. editorAsked' = {n} /\ draft' = kept /\ buffer' = 0
    BY <1>1, <1>6
  <2> HIDE DEF n
  <2>1. /\ n \in EditorCalls /\ n.kind = "load" /\ n.file = path /\ n.text = 0 /\ n.done = FALSE /\ n.ok = TRUE
        /\ n.answer.mtime = 0 /\ n.answer.text = 0 /\ path \in Files
    BY <2>8 DEF IsNew
  <2>3. EditorTypes'
    BY <1>1, <1>2, <1>3, <2>1, <2>2 DEF EditorTypes
  <2>4. TextsThereHaveBeen'
    BY <1>1, <1>2, <1>3, <1>4, <2>1, <2>2 DEF TextsThereHaveBeen
  <2>5. CallsInFlight'
    <3>1. disk[path].mtime = 0 => disk[path].text = 0
      BY <1>2, <2>1 DEF TextsThereHaveBeen
    <3> QED BY <1>1, <2>1, <2>2, <3>1 DEF CallsInFlight
  <2>6. TypedIsKept'
    BY <1>1, <1>3, <2>1, <2>2 DEF TypedIsKept
  <2>7. KnownIsThere'
    BY <1>1, <2>1, <2>2 DEF KnownIsThere
  <2> QED BY <2>3, <2>4, <2>5, <2>6, <2>7 DEF EditorInv
<1> QED BY <1>5, <1>6

\* The server reads a file, or its time.
LEMMA ReadKeeps ==
  ASSUME ~InHaste, EditorInv, NEW c \in editorAsked, c.kind # "save", Editing!Serves(c)
  PROVE  EditorInv'
<1> DEFINE d == [c EXCEPT !.done = TRUE, !.answer = disk[c.file]]
<1>1. /\ c.done = FALSE /\ editorAsked' = (editorAsked \ {c}) \cup {d}
      /\ UNCHANGED <<disk, editorWritten, path, buffer, savedContent, readOnly, draft, knownMtime, texts, mine, told, checked>>
  BY DEF Editing!Serves, Editing!fileVars, Editing!bufferVars, EditorInv, EditorTypes, EditorCalls
<1>2. EditorTypes /\ TextsThereHaveBeen /\ CallsInFlight /\ TypedIsKept /\ KnownIsThere
  BY DEF EditorInv
<1>3. c \in EditorCalls /\ c.file \in Files /\ disk[c.file] \in Versions
  BY <1>2 DEF EditorTypes, EditorCalls
<1>4. /\ d \in EditorCalls /\ d.kind = c.kind /\ d.file = c.file /\ d.text = c.text
      /\ d.answer = disk[c.file] /\ d.ok = c.ok
  BY <1>3 DEF EditorCalls
<1>5. d.done = TRUE
  BY <1>3 DEF EditorCalls
<1> HIDE DEF d
<1>6. EditorTypes'
  BY <1>1, <1>2, <1>4 DEF EditorTypes
<1>7. TextsThereHaveBeen'
  BY <1>1, <1>2, <1>3, <1>4 DEF TextsThereHaveBeen
<1>8. CallsInFlight'
  BY <1>1, <1>2, <1>4 DEF CallsInFlight
<1>9. TypedIsKept'
  BY <1>1, <1>2, <1>4 DEF TypedIsKept
<1>10. SavedIsThere => SavedIsThere'
  BY <1>1, <1>4 DEF SavedIsThere
<1>11. KnownIsThere'
  BY <1>1, <1>2, <1>4, <1>10 DEF KnownIsThere
<1> QED BY <1>6, <1>7, <1>8, <1>9, <1>11 DEF EditorInv

\* The server writes a file.
LEMMA WriteKeeps ==
  ASSUME ~InHaste, EditorInv, NEW c \in editorAsked, c.kind = "save", Editing!Serves(c)
  PROVE  EditorInv'
<1> DEFINE d == [c EXCEPT !.done = TRUE]  v == [text |-> c.text, mtime |-> texts + 1]
<1>1. /\ c.done = FALSE /\ editorAsked' = (editorAsked \ {c}) \cup {d}
      /\ disk' = [disk EXCEPT ![c.file] = v] /\ texts' = texts + 1
      /\ editorWritten' = editorWritten \cup {c.text}
      /\ UNCHANGED <<path, buffer, savedContent, readOnly, draft, knownMtime, mine, told, checked>>
  BY DEF Editing!Serves, Editing!fileVars, Editing!bufferVars, EditorInv, EditorTypes, EditorCalls
<1>2. EditorTypes /\ TextsThereHaveBeen /\ CallsInFlight /\ TypedIsKept /\ KnownIsThere
  BY DEF EditorInv
<1>3. /\ c \in EditorCalls /\ c.file \in Files /\ c.text \in Nat /\ texts \in Nat /\ savedContent \in Nat
      /\ knownMtime \in Nat
  BY <1>2 DEF EditorTypes, EditorCalls
<1>4. /\ d \in EditorCalls /\ d.kind = "save" /\ d.file = c.file /\ d.text = c.text
      /\ d.answer = c.answer /\ d.ok = c.ok
  BY <1>3 DEF EditorCalls
<1>5. d.done = TRUE
  BY <1>3 DEF EditorCalls
<1>6. v \in Versions /\ v.text = c.text /\ v.mtime = texts + 1
  BY <1>3 DEF Versions
<1> HIDE DEF d, v
<1>7. \A g \in Files : disk'[g] = IF g = c.file THEN v ELSE disk[g]
  BY <1>1, <1>2 DEF EditorTypes
<1>8. /\ c.file = path /\ \A e \in editorAsked : e.kind \notin {"load", "check"} /\ (e.kind = "save" => e = c)
  BY <1>2, <1>3 DEF CallsInFlight
<1>9. \A e \in editorAsked : e.file \in Files /\ e.answer.mtime \in Nat /\ e.answer.mtime < texts + 1
  BY <1>2, <1>3 DEF EditorTypes, EditorCalls, Versions, TextsThereHaveBeen
<1>10. EditorTypes'
  <2>2. disk \in [Files -> Versions] /\ editorWritten \subseteq Nat
    BY <1>2 DEF EditorTypes
  <2>3. disk' \in [Files -> Versions]
    BY <1>1, <1>6, <2>2
  <2>4. editorWritten' = editorWritten \cup {c.text} /\ texts' = texts + 1
    BY <1>1
  <2>5. editorWritten' \subseteq Nat
    BY <1>3, <2>2, <2>4
  <2>6. texts' \in Nat
    BY <1>3, <2>4
  <2>1. disk' \in [Files -> Versions] /\ editorWritten' \subseteq Nat /\ texts' \in Nat
    BY <2>3, <2>5, <2>6
  <2> QED BY <1>1, <1>2, <1>4, <2>1 DEF EditorTypes
<1>11. TextsThereHaveBeen'
  <2>1. \A g \in Files : disk[g].mtime \in Nat
    BY <1>2 DEF EditorTypes, Versions
  <2>2. \A g \in Files : /\ disk'[g].mtime <= texts' /\ disk'[g].text \in editorWritten' \cup {0}
                         /\ disk'[g].mtime = 0 => disk'[g].text = 0
    BY <1>1, <1>2, <1>3, <1>6, <1>7, <2>1 DEF TextsThereHaveBeen
  <2>5. /\ buffer \in Nat /\ draft \in Nat /\ \A t \in editorWritten : t \in Nat
        /\ \A e \in editorAsked : e.text \in Nat
    BY <1>2 DEF EditorTypes, EditorCalls
  <2>3. \A e \in editorAsked' : /\ e.text <= texts' /\ e.answer.mtime <= texts' /\ e.answer.text \in editorWritten' \cup {0}
                                /\ e.answer.mtime = 0 => e.answer.text = 0
    BY <1>1, <1>2, <1>3, <1>4, <1>9, <2>5 DEF TextsThereHaveBeen
  <2>4. /\ buffer <= texts' /\ draft <= texts' /\ knownMtime <= texts'
        /\ savedContent \in editorWritten' \cup {0} /\ \A t \in editorWritten' : t <= texts'
    BY <1>1, <1>2, <1>3, <2>5 DEF TextsThereHaveBeen
  <2> QED BY <1>1, <2>2, <2>3, <2>4 DEF TextsThereHaveBeen
<1>12. CallsInFlight'
  <2>1. texts + 1 # 0 /\ \A e \in editorAsked : e.answer.mtime # texts + 1
    BY <1>3, <1>9
  <2> QED BY <1>1, <1>2, <1>4, <1>6, <1>7, <1>8, <1>9, <2>1 DEF CallsInFlight
<1>13. TypedIsKept'
  BY <1>1, <1>2, <1>4, <1>8 DEF TypedIsKept
<1>14. d.ok = TRUE => SavedIsThere'
  BY <1>1, <1>4, <1>5 DEF SavedIsThere
<1>15. SavedIsThere'
  <2>1. c.ok = TRUE
    BY <1>1, <1>2 DEF CallsInFlight
  <2> QED BY <1>4, <1>14, <2>1
<1>16. KnownIsThere'
  <2>1. texts + 1 # 0
    BY <1>3
  <2> QED BY <1>1, <1>2, <1>6, <1>7, <1>15, <2>1 DEF KnownIsThere
<1> QED BY <1>10, <1>11, <1>12, <1>13, <1>16 DEF EditorInv

\* The server cannot do it.
LEMMA RefusesKeeps ==
  ASSUME ~Unreadable, EditorInv, NEW c \in editorAsked, Editing!Refuses(c)
  PROVE  EditorInv'
<1> DEFINE d == [c EXCEPT !.done = TRUE, !.ok = FALSE]
<1>1. /\ c.done = FALSE /\ draft = 0
      /\ editorAsked' = (editorAsked \ {c}) \cup {d}
      /\ UNCHANGED <<disk, editorWritten, path, buffer, savedContent, readOnly, draft, knownMtime, texts, mine, told, checked>>
  BY DEF Editing!Refuses, Editing!fileVars, Editing!bufferVars, EditorInv, EditorTypes, EditorCalls
<1>2. EditorTypes /\ TextsThereHaveBeen /\ CallsInFlight /\ TypedIsKept /\ KnownIsThere
  BY DEF EditorInv
<1>3. c \in EditorCalls
  BY <1>2 DEF EditorTypes
<1>4. /\ d \in EditorCalls /\ d.kind = c.kind /\ d.file = c.file /\ d.text = c.text /\ d.answer = c.answer
  BY <1>3 DEF EditorCalls
<1>5. d.ok = FALSE /\ d.done = TRUE
  BY <1>3 DEF EditorCalls
<1> HIDE DEF d
<1>6. EditorTypes'
  BY <1>1, <1>2, <1>4 DEF EditorTypes
<1>7. TextsThereHaveBeen'
  BY <1>1, <1>2, <1>3, <1>4 DEF TextsThereHaveBeen
<1>8. CallsInFlight'
  BY <1>1, <1>2, <1>4, <1>5 DEF CallsInFlight
<1>9. TypedIsKept'
  BY <1>1, <1>2, <1>4 DEF TypedIsKept
<1>10. SavedIsThere => SavedIsThere'
  BY <1>1, <1>4 DEF SavedIsThere
<1>11. KnownIsThere'
  BY <1>1, <1>2, <1>4, <1>10 DEF KnownIsThere
<1> QED BY <1>6, <1>7, <1>8, <1>9, <1>11 DEF EditorInv

\* A file is loaded, or cannot be.
LEMMA LoadedKeeps ==
  ASSUME ~InHaste, EditorInv, NEW c \in editorAsked, Editing!Loaded(c)
  PROVE  EditorInv'
<1>1. /\ c.done = TRUE /\ c.kind = "load" /\ path' = c.file /\ told' = FALSE
      /\ UNCHANGED <<disk, editorWritten, texts, mine, checked>>
  BY DEF Editing!Loaded, Editing!Answered, Editing!fileVars, EditorInv, EditorTypes, EditorCalls
<1>2. EditorTypes /\ TextsThereHaveBeen /\ CallsInFlight /\ TypedIsKept /\ KnownIsThere
  BY DEF EditorInv
<1>3. /\ c \in EditorCalls /\ c.file \in Files /\ c.answer \in Versions /\ c.answer.text \in Nat
      /\ c.answer.mtime \in Nat /\ c.ok \in BOOLEAN
  BY <1>2 DEF EditorTypes, EditorCalls, Versions
<1>4. \A e \in editorAsked : e # c => e.file = c.file /\ c.file = path
  BY <1>2 DEF CallsInFlight
<1>5. CASE c.ok = FALSE
  <2>1. /\ readOnly' = TRUE /\ buffer' = 0 /\ savedContent' = 0 /\ draft' = 0 /\ knownMtime' = knownMtime
        /\ editorAsked' = editorAsked \ {c}
    BY <1>5 DEF Editing!Loaded, Editing!Then
  <2>2. draft = 0
    BY <1>2, <1>5 DEF TypedIsKept
  <2>3. EditorTypes'
    <3>1. readOnly' \in BOOLEAN
      BY <2>1
    <3> QED BY <1>1, <1>2, <1>3, <2>1, <3>1 DEF EditorTypes
  <2>4. TextsThereHaveBeen'
    <3>1. 0 <= texts
      BY <1>2 DEF EditorTypes
    <3> QED BY <1>1, <1>2, <2>1, <3>1 DEF TextsThereHaveBeen
  <2>5. CallsInFlight'
    BY <1>1, <1>2, <1>4, <2>1 DEF CallsInFlight
  <2>6. TypedIsKept'
    BY <1>1, <1>2, <2>1, <2>2 DEF TypedIsKept
  <2>7. KnownIsThere'
    BY <1>1, <1>3, <2>1 DEF KnownIsThere
  <2> QED BY <2>3, <2>4, <2>5, <2>6, <2>7 DEF EditorInv
<1>6. CASE c.ok = TRUE
  <2> DEFINE n == Editing!Call("mtime", c.file, 0)
             none == c.answer = Editing!Nothing
  <2>1. /\ readOnly' = FALSE /\ savedContent' = c.answer.text /\ draft' = 0
        /\ buffer' = IF draft # 0 THEN draft ELSE c.answer.text
        /\ none => knownMtime' = 0 /\ editorAsked' = editorAsked \ {c}
        /\ ~none => knownMtime' = knownMtime /\ editorAsked' = (editorAsked \ {c}) \cup {n}
    BY <1>6 DEF Editing!Loaded, Editing!Shows, Editing!Then
  <2>2. c.answer = disk[c.file]
    BY <1>1, <1>2, <1>6 DEF CallsInFlight
  <2>3. IsNew(n, "mtime", c.file, 0)
    BY <1>3, NewCall
  <2> HIDE DEF n
  <2>4. /\ n \in EditorCalls /\ n.kind = "mtime" /\ n.file = c.file /\ n.text = 0 /\ n.ok = TRUE
        /\ n.answer.mtime = 0 /\ n.answer.text = 0
    BY <2>3 DEF IsNew
  <2>5. \A e \in editorAsked' : e \in editorAsked \ {c} \/ e = n
    BY <2>1
  <2>6. ~none => c.answer.mtime # 0
    <3>1. c.answer.mtime = 0 => c.answer.text = 0
      BY <1>2 DEF TextsThereHaveBeen
    <3>2. c.answer = [text |-> c.answer.text, mtime |-> c.answer.mtime]
      BY <1>3 DEF Versions
    <3> QED BY <3>1, <3>2 DEF Editing!Nothing
  <2> HIDE DEF none
  <2>7. EditorTypes'
    <3>1. readOnly' \in BOOLEAN
      BY <2>1
    <3>3. knownMtime \in Nat /\ draft \in Nat
      BY <1>2 DEF EditorTypes
    <3>4. knownMtime' \in Nat /\ buffer' \in Nat /\ savedContent' \in Nat
      BY <1>3, <2>1, <3>3
    <3>2. editorAsked' \subseteq EditorCalls
      BY <1>2, <2>4, <2>5 DEF EditorTypes
    <3> QED BY <1>1, <1>2, <1>3, <2>1, <3>1, <3>2, <3>4 DEF EditorTypes
  <2>8. TextsThereHaveBeen'
    <3>1. 0 <= texts
      BY <1>2 DEF EditorTypes
    <3>2. /\ c.answer.text \in editorWritten \cup {0} /\ c.answer.text <= texts
          /\ draft <= texts /\ knownMtime <= texts
      BY <1>2, <3>1 DEF TextsThereHaveBeen
    <3>3. /\ buffer' <= texts /\ draft' <= texts /\ knownMtime' <= texts
          /\ savedContent' \in editorWritten \cup {0}
      BY <2>1, <3>1, <3>2
    <3> QED BY <1>1, <1>2, <2>4, <2>5, <3>1, <3>3 DEF TextsThereHaveBeen
  <2>9. CallsInFlight'
    <3>1. disk[c.file].mtime = 0 => disk[c.file].text = 0
      BY <1>2, <1>3 DEF TextsThereHaveBeen
    <3>2. \A e \in editorAsked : e.kind # "save"
      BY <1>1, <1>2 DEF CallsInFlight
    <3>3. \A e \in editorAsked' : e.file = c.file /\ e.kind # "save"
      BY <1>4, <2>4, <2>5, <3>2
    <3> QED BY <1>1, <1>2, <2>4, <2>5, <3>1, <3>3 DEF CallsInFlight
  <2>10. TypedIsKept'
    <3>1. draft # 0 => editorAsked = {c}
      BY <1>2 DEF TypedIsKept
    <3>2. mine = draft => mine = 0 \/ (mine = buffer' /\ \A e \in editorAsked' : e.kind # "load")
      BY <2>1, <2>4, <2>5, <3>1
    <3>3. mine = 0 \/ mine \in editorWritten \/ mine = draft
      BY <1>1, <1>2 DEF TypedIsKept
    <3> QED BY <1>1, <2>1, <3>2, <3>3 DEF TypedIsKept
  <2>11. SavedIsThere'
    BY <1>1, <2>1, <2>2 DEF SavedIsThere
  <2>12. KnownIsThere'
    BY <1>1, <1>3, <2>1, <2>2, <2>6, <2>11 DEF KnownIsThere
  <2> QED BY <2>7, <2>8, <2>9, <2>10, <2>12 DEF EditorInv
<1> QED BY <1>3, <1>5, <1>6

\* A file is saved, or could not be.
LEMMA SavedKeeps ==
  ASSUME ~InHaste, EditorInv, NEW c \in editorAsked, Editing!Saved(c)
  PROVE  EditorInv'
<1>1. /\ c.done = TRUE /\ c.kind = "save"
      /\ UNCHANGED <<disk, editorWritten, path, buffer, readOnly, draft, knownMtime, texts, mine, checked>>
  BY DEF Editing!Saved, Editing!Answered, Editing!fileVars, EditorInv, EditorTypes, EditorCalls
<1>2. EditorTypes /\ TextsThereHaveBeen /\ CallsInFlight /\ TypedIsKept /\ KnownIsThere
  BY DEF EditorInv
<1>3. c \in EditorCalls /\ c.file \in Files /\ c.text \in Nat /\ c.ok \in BOOLEAN
  BY <1>2 DEF EditorTypes, EditorCalls
<1>4. /\ c.file = path /\ \A e \in editorAsked : e.kind \notin {"load", "check"} /\ (e.kind = "save" => e = c)
  BY <1>1, <1>2 DEF CallsInFlight
<1>5. CASE c.ok = FALSE
  <2>1. savedContent' = savedContent /\ told' = told /\ editorAsked' = editorAsked \ {c}
    BY <1>5 DEF Editing!Saved, Editing!Then
  <2>2. EditorTypes'
    BY <1>1, <1>2, <2>1 DEF EditorTypes
  <2>3. TextsThereHaveBeen' /\ CallsInFlight' /\ TypedIsKept'
    BY <1>1, <1>2, <2>1 DEF TextsThereHaveBeen, CallsInFlight, TypedIsKept
  <2>4. SavedIsThere => SavedIsThere'
    BY <1>1, <1>4, <1>5, <2>1 DEF SavedIsThere
  <2>5. KnownIsThere'
    BY <1>1, <1>2, <2>1, <2>4 DEF KnownIsThere
  <2> QED BY <2>2, <2>3, <2>5 DEF EditorInv
<1>6. CASE c.ok = TRUE
  <2> DEFINE n == Editing!Call("mtime", path, 0)
  <2>1. path \in Files
    BY <1>3, <1>4
  <2>2. path # NoFile => savedContent' = c.text /\ editorAsked' = (editorAsked \ {c}) \cup {n}
    BY <1>6 DEF Editing!Saved, Editing!Then
  <2>3. savedContent' = c.text /\ told' = FALSE /\ \A e \in editorAsked' : e \in editorAsked \ {c} \/ e = n
    BY <1>6 DEF Editing!Saved, Editing!Then
  <2>4. IsNew(n, "mtime", path, 0)
    BY <2>1, NewCall
  <2> HIDE DEF n
  <2>5. /\ n \in EditorCalls /\ n.kind = "mtime" /\ n.file = path /\ n.text = 0 /\ n.ok = TRUE
        /\ n.answer.mtime = 0 /\ n.answer.text = 0
    BY <2>4 DEF IsNew
  <2>6. c.text = disk[path].text /\ c.text \in editorWritten
    BY <1>1, <1>2, <1>4, <1>6 DEF CallsInFlight
  <2>7. EditorTypes'
    <3>1. editorAsked' \subseteq EditorCalls
      BY <1>2, <2>3, <2>5 DEF EditorTypes
    <3> QED BY <1>1, <1>2, <1>3, <2>3, <3>1 DEF EditorTypes
  <2>8. TextsThereHaveBeen'
    <3>1. 0 <= texts
      BY <1>2 DEF EditorTypes
    <3> QED BY <1>1, <1>2, <2>3, <2>5, <2>6, <3>1 DEF TextsThereHaveBeen
  <2>9. CallsInFlight'
    <3>1. disk[path].mtime = 0 => disk[path].text = 0
      BY <1>2, <2>1 DEF TextsThereHaveBeen
    <3>2. \A e \in editorAsked' : e.file = path /\ e.kind \notin {"load", "check", "save"}
      BY <1>2, <1>4, <2>3, <2>5 DEF CallsInFlight
    <3> QED BY <1>1, <1>2, <2>3, <2>5, <3>1, <3>2 DEF CallsInFlight
  <2>10. TypedIsKept'
    <3>1. draft = 0
      BY <1>2, <1>4 DEF TypedIsKept
    <3>2. \A e \in editorAsked' : e.kind # "load"
      BY <1>4, <2>3, <2>5
    <3> QED BY <1>1, <1>2, <3>1, <3>2 DEF TypedIsKept
  <2>11. SavedIsThere'
    BY <1>1, <2>3, <2>6 DEF SavedIsThere
  <2>12. KnownIsThere'
    BY <1>1, <1>2, <2>11 DEF KnownIsThere
  <2> QED BY <2>7, <2>8, <2>9, <2>10, <2>12 DEF EditorInv
<1> QED BY <1>3, <1>5, <1>6

\* The time of what was read or written is known.
LEMMA MtimeKnownKeeps ==
  ASSUME ~InHaste, EditorInv, NEW c \in editorAsked, Editing!MtimeKnown(c)
  PROVE  EditorInv'
<1> DEFINE upToDate == c.ok /\ c.file = path /\ c.answer = disk[path]
<1>1. /\ c.kind = "mtime" /\ editorAsked' = editorAsked \ {c}
      /\ knownMtime' = IF c.answer.mtime = 0 THEN knownMtime ELSE c.answer.mtime
      /\ UNCHANGED <<disk, editorWritten, path, buffer, savedContent, readOnly, draft, texts, mine, told>>
  BY DEF Editing!MtimeKnown, Editing!Answered, Editing!Then, Editing!fileVars, Editing!bufferVars
<1>2. checked' = upToDate
  BY DEF Editing!MtimeKnown, Editing!UpToDate
<1>3. EditorTypes /\ TextsThereHaveBeen /\ CallsInFlight /\ TypedIsKept /\ KnownIsThere
  BY DEF EditorInv
<1>4. checked' \in BOOLEAN /\ (checked' = TRUE => c.answer = disk[path])
  BY <1>2
<1> HIDE DEF upToDate
<1>5. /\ c.answer.mtime \in Nat /\ knownMtime \in Nat /\ c.file = path /\ c.file \in Files /\ texts \in Nat
  BY <1>1, <1>3 DEF EditorTypes, EditorCalls, Versions, CallsInFlight
<1>6. knownMtime' \in Nat
  BY <1>1, <1>5
<1>7. EditorTypes'
  BY <1>1, <1>3, <1>4, <1>6 DEF EditorTypes
<1>8. TextsThereHaveBeen'
  <2>1. knownMtime' <= texts
    BY <1>1, <1>3 DEF TextsThereHaveBeen
  <2> QED BY <1>1, <1>3, <2>1 DEF TextsThereHaveBeen
<1>9. CallsInFlight' /\ TypedIsKept'
  BY <1>1, <1>3 DEF CallsInFlight, TypedIsKept
<1>10. SavedIsThere => SavedIsThere'
  BY <1>1 DEF SavedIsThere
<1>11. c.answer.mtime = disk[path].mtime /\ readOnly = FALSE => SavedIsThere
  BY <1>1, <1>3, <1>5 DEF KnownIsThere
<1>12. c.answer.mtime # 0 => disk[path].mtime # 0
  BY <1>3, <1>5 DEF CallsInFlight
<1>13. KnownIsThere'
  <2>1. readOnly = FALSE /\ knownMtime # 0 /\ knownMtime = disk[path].mtime => SavedIsThere
    BY <1>3, <1>5 DEF KnownIsThere
  <2>2. readOnly = FALSE /\ knownMtime' # 0 /\ (checked' = TRUE \/ knownMtime' = disk[path].mtime) => SavedIsThere
    BY <1>1, <1>4, <1>11, <2>1
  <2>3. knownMtime' # 0 => path \in Files /\ (readOnly = FALSE => disk[path].mtime # 0)
    BY <1>1, <1>3, <1>5, <1>12 DEF KnownIsThere
  <2> QED BY <1>1, <1>3, <1>10, <2>2, <2>3 DEF KnownIsThere
<1> QED BY <1>7, <1>8, <1>9, <1>13 DEF EditorInv

\* The file was looked at: it is loaded where the buffer has nothing to lose.
LEMMA CheckedKeeps ==
  ASSUME ~InHaste, EditorInv, NEW c \in editorAsked, Editing!Checked(c)
  PROVE  EditorInv'
<1> DEFINE upToDate == c.ok /\ c.file = path /\ c.answer = disk[path]
           n == Editing!Call("load", path, 0)
<1>1. /\ c.kind = "check"
      /\ UNCHANGED <<disk, editorWritten, path, buffer, savedContent, readOnly, draft, texts, mine>>
      /\ told' = told \/ told' = TRUE
  BY DEF Editing!Checked, Editing!Answered, Editing!fileVars, Editing!bufferVars
<1>2. checked' = upToDate
  BY DEF Editing!Checked, Editing!UpToDate
<1>3. EditorTypes /\ TextsThereHaveBeen /\ CallsInFlight /\ TypedIsKept /\ KnownIsThere
  BY DEF EditorInv
<1>4. checked' \in BOOLEAN /\ (checked' = TRUE => c.answer = disk[path])
  BY <1>2
<1> HIDE DEF upToDate
<1>5. /\ c.answer.mtime \in Nat /\ knownMtime \in Nat /\ c.file = path /\ c.file \in Files /\ texts \in Nat
  BY <1>1, <1>3 DEF EditorTypes, EditorCalls, Versions, CallsInFlight
<1>6. \/ /\ c.answer.mtime \in {0, knownMtime} /\ editorAsked' = editorAsked \ {c} /\ knownMtime' = knownMtime /\ told' = told
      \/ /\ c.answer.mtime \notin {0, knownMtime} /\ knownMtime' = c.answer.mtime /\ told' = TRUE
         /\ editorAsked' = editorAsked \ {c}
      \/ /\ c.answer.mtime \notin {0, knownMtime} /\ knownMtime' = c.answer.mtime /\ buffer = savedContent
         /\ editorAsked' = (editorAsked \ {c}) \cup {n}
  BY DEF Editing!Checked, Editing!ReloadsOver, Editing!Dirty, Editing!Then
<1>7. IsNew(n, "load", path, 0)
  BY <1>5, NewCall
<1> HIDE DEF n
<1>8. /\ n \in EditorCalls /\ n.kind = "load" /\ n.file = path /\ n.text = 0 /\ n.done = FALSE /\ n.ok = TRUE
      /\ n.answer.mtime = 0 /\ n.answer.text = 0
  BY <1>7 DEF IsNew
<1>9. draft = 0
  BY <1>1, <1>3 DEF TypedIsKept
<1>10. c.answer.mtime # 0 => disk[path].mtime # 0
  BY <1>3, <1>5 DEF CallsInFlight
<1>11. CASE editorAsked' = editorAsked \ {c}
  <2>1. knownMtime' \in {knownMtime, c.answer.mtime}
    BY <1>6
  <2>2. EditorTypes'
    <3>1. knownMtime' \in Nat
      BY <1>5, <2>1
    <3> QED BY <1>1, <1>3, <1>4, <1>11, <3>1 DEF EditorTypes
  <2>3. TextsThereHaveBeen'
    <3>1. knownMtime' <= texts
      BY <1>3, <2>1 DEF TextsThereHaveBeen
    <3> QED BY <1>1, <1>3, <1>11, <3>1 DEF TextsThereHaveBeen
  <2>4. CallsInFlight' /\ TypedIsKept'
    BY <1>1, <1>3, <1>9, <1>11 DEF CallsInFlight, TypedIsKept
  <2>5. SavedIsThere => SavedIsThere'
    BY <1>1, <1>11 DEF SavedIsThere
  <2>6. told' = TRUE => SavedIsThere'
    BY DEF SavedIsThere
  <2>7. KnownIsThere'
    <3>1. CASE knownMtime' = knownMtime /\ c.answer.mtime \in {0, knownMtime}
      <4>1. ASSUME readOnly = FALSE, knownMtime # 0, checked' = TRUE \/ knownMtime = disk[path].mtime
            PROVE  SavedIsThere
        <5>1. disk[path].mtime # 0
          BY <1>3, <4>1 DEF KnownIsThere
        <5>2. knownMtime = disk[path].mtime
          BY <1>4, <3>1, <4>1, <5>1
        <5> QED BY <1>3, <1>5, <4>1, <5>2 DEF KnownIsThere
      <4> QED BY <1>1, <1>3, <1>11, <2>5, <3>1, <4>1 DEF KnownIsThere
    <3>2. CASE knownMtime' = c.answer.mtime /\ told' = TRUE
      BY <1>1, <1>5, <1>10, <2>6, <3>2 DEF KnownIsThere
    <3>3. CASE editorAsked' = (editorAsked \ {c}) \cup {n}
      <4>1. n \in editorAsked \/ n = c
        BY <1>11, <3>3
      <4>2. SavedIsThere'
        BY <1>1, <1>8, <3>3 DEF SavedIsThere
      <4>3. knownMtime' # 0 => path \in Files /\ (readOnly = FALSE => disk[path].mtime # 0)
        BY <1>3, <1>5, <1>10, <2>1 DEF KnownIsThere
      <4> QED BY <1>1, <4>2, <4>3 DEF KnownIsThere
    <3> QED BY <1>6, <3>1, <3>2, <3>3
  <2> QED BY <2>2, <2>3, <2>4, <2>7 DEF EditorInv
<1>12. CASE /\ editorAsked' = (editorAsked \ {c}) \cup {n} /\ knownMtime' = c.answer.mtime
            /\ buffer = savedContent
  <2>1. EditorTypes'
    <3>1. knownMtime' \in Nat
      BY <1>5, <1>12
    <3> QED BY <1>1, <1>3, <1>4, <1>8, <1>12, <3>1 DEF EditorTypes
  <2>2. TextsThereHaveBeen'
    <3>1. knownMtime' <= texts /\ 0 <= texts
      BY <1>3, <1>5, <1>12 DEF TextsThereHaveBeen
    <3> QED BY <1>1, <1>3, <1>8, <1>12, <3>1 DEF TextsThereHaveBeen
  <2>3. CallsInFlight'
    <3>1. disk[path].mtime = 0 => disk[path].text = 0
      BY <1>3, <1>5 DEF TextsThereHaveBeen
    <3>2. \A e \in editorAsked : e.kind # "save" /\ e.file = path
      BY <1>1, <1>3, <1>5 DEF CallsInFlight
    <3> QED BY <1>1, <1>3, <1>8, <1>12, <3>1, <3>2 DEF CallsInFlight
  <2>4. TypedIsKept'
    <3>1. mine = 0 \/ mine \in editorWritten
      BY <1>3, <1>9, <1>12 DEF TypedIsKept, TextsThereHaveBeen
    <3> QED BY <1>1, <1>9, <3>1 DEF TypedIsKept
  <2>5. SavedIsThere'
    BY <1>8, <1>12 DEF SavedIsThere
  <2>6. KnownIsThere'
    BY <1>1, <1>5, <1>10, <1>12, <2>5 DEF KnownIsThere
  <2> QED BY <2>1, <2>2, <2>3, <2>4, <2>6 DEF EditorInv
<1> QED BY <1>6, <1>11, <1>12

\* Every step of the editor keeps its invariant.
LEMMA EditorGoesOn ==
  Editing!EditorAssumption /\ ~InHaste /\ ~SlipsIn /\ ~Unreadable /\ EditorInv
    /\ [Editing!Next]_editorVars => EditorInv'
<1> SUFFICES ASSUME Editing!EditorAssumption, ~InHaste, ~SlipsIn, ~Unreadable, EditorInv,
                    [Editing!Next]_editorVars
             PROVE  EditorInv'
  OBVIOUS
<1>1. NoFile \notin Files
  BY DEF Editing!EditorAssumption
<1>2. ASSUME NEW c \in editorAsked, Editing!Serves(c) PROVE EditorInv'
  BY <1>2, ReadKeeps, WriteKeeps
<1>3. CASE UNCHANGED editorVars
  BY <1>3 DEF editorVars, EditorInv, EditorTypes, TextsThereHaveBeen, CallsInFlight, TypedIsKept,
     KnownIsThere, SavedIsThere
<1> QED BY <1>1, <1>2, <1>3, TypesKeeps, UndoesKeeps, OthersWriteKeeps, OpensKeeps, NewFileKeeps, SaveKeeps,
           SaveAsKeeps, LooksKeeps, ReloadKeeps, RefusesKeeps, LoadedKeeps, SavedKeeps,
           MtimeKnownKeeps, CheckedKeeps DEF Editing!Next

\* In that invariant nothing that was typed is lost, and what is taken for the file's text is
\* that, or the person was told.
LEMMA EditorHolds == EditorInv => Editing!EditorIsHonest
<1> SUFFICES ASSUME EditorInv PROVE Editing!EditorIsHonest
  OBVIOUS
<1>1. Editing!KeepsWhatWasTyped
  BY DEF EditorInv, TypedIsKept, Editing!KeepsWhatWasTyped
<1>2. ASSUME editorAsked = {}, checked = TRUE, knownMtime # 0, readOnly = FALSE
      PROVE  told = TRUE \/ savedContent = disk[path].text
  <2>1. SavedIsThere
    BY <1>2 DEF EditorInv, KnownIsThere
  <2> QED BY <1>2, <2>1 DEF SavedIsThere
<1>3. checked \in BOOLEAN /\ readOnly \in BOOLEAN /\ told \in BOOLEAN
  BY DEF EditorInv, EditorTypes
<1>4. Editing!UnseenIsAnnounced
  BY <1>2, <1>3 DEF Editing!UnseenIsAnnounced, Editing!Quiet
<1> QED BY <1>1, <1>4 DEF Editing!EditorIsHonest

\* What is done to a file was meant for it, under four assumptions: the person turns to another
\* command of the editor only when the last is answered, and opens no dialog and no other directory
\* of the file browser while one is loading (~InHaste); nobody else writes the file between a read
\* or write of it and the question for its time (~SlipsIn); the file of a draft can be read
\* (~Unreadable, editor/index.ts 1119-1131 drops it otherwise); and nobody removes a file that an
\* upload is still filling (~RemovesEarly, transfer.ts 80-84 and 126). Then nothing that was typed
\* is lost, after a look at the file its text is known or the person was told that a save
\* overwrites it, a command of the file browser is about the directory it shows and what is
\* selected in it, and no two uploads fill, or take away, one file.
THEOREM FilesStaySafe ==
  ~InHaste /\ ~SlipsIn /\ ~Unreadable /\ ~RemovesEarly => (Spec => []FilesAreSafe)
<1> SUFFICES ASSUME ~InHaste, ~SlipsIn, ~Unreadable, ~RemovesEarly PROVE Spec => []FilesAreSafe
  OBVIOUS
<1>1. Browsing!Init => BrowserInv
  BY ConstantsAssumption, BrowserBegins
<1>2. BrowserInv /\ [Browsing!Next]_filesVars => BrowserInv'
  BY ConstantsAssumption, BrowserGoesOn
<1>3. Uploading!Init => UploadsInv
  BY ConstantsAssumption, UploadsBegin
<1>4. UploadsInv /\ [Uploading!Next]_uploadsVars => UploadsInv'
  BY ConstantsAssumption, UploadsGoOn
<1>5. Editing!Init => EditorInv
  BY ConstantsAssumption, EditorBegins
<1>6. EditorInv /\ [Editing!Next]_editorVars => EditorInv'
  BY ConstantsAssumption, EditorGoesOn
<1>7. BrowserInv /\ UploadsInv /\ EditorInv => FilesAreSafe
  BY EditorHolds DEF BrowserInv, UploadsInv, FilesAreSafe, Browsing!ActsWhereItSays
<1> QED BY <1>1, <1>2, <1>3, <1>4, <1>5, <1>6, <1>7, BrowsingRuns, UploadingRuns, EditingRuns, PTL
-----------------------------------------------------------------------------
(* The terminal window.                                                     *)

\* The shell a channel has, or asks for.
Carries(c) == IF resuming[c] = 0 THEN c ELSE resuming[c]

\* The shells whose `opened` has been heard.
Heard == {c \in Terminal!Chans : /\ resuming[c] = 0 /\ page[c] \in {"opened", "closed"}
                                 /\ server[c] \in {"live", "done"}}

\* The terminal's variables have their types.
TerminalTypes ==
  /\ isOpen \in BOOLEAN /\ disposed \in BOOLEAN /\ ended \in BOOLEAN /\ awaitingReconnect \in BOOLEAN
  /\ channel \in Nat /\ termId \in Nat /\ channel \in {0} \cup Terminal!Chans
  /\ page \in [Terminal!Chans -> {"unused", "opening", "opened", "closed"}]
  /\ resuming \in [Terminal!Chans -> Nat]
  /\ wire \in [Terminal!Chans -> Seq({"opened", "close"})]
  /\ server \in [Terminal!Chans -> {"none", "asked", "live", "done"}]
  /\ running \subseteq Terminal!Chans
  /\ holder \in [Terminal!Chans -> {0} \cup Terminal!Chans]

\* The window has at most the one channel, and the shell of that channel.
OneChannel ==
  /\ \A c \in Terminal!Chans : page[c] \in {"opening", "opened"} <=> c = channel
  /\ channel # 0 =>
       /\ isOpen = TRUE /\ disposed = FALSE /\ ended = FALSE
       /\ page[channel] = "opened" => termId = Carries(channel)
       /\ page[channel] = "opening" => termId = resuming[channel]

\* What the server has said of a channel is what has become of it.
ServerSays ==
  \A c \in Terminal!Chans :
    /\ page[c] = "unused" <=> server[c] = "none"
    /\ page[c] = "opened" => server[c] \in {"live", "done"}
    /\ \/ wire[c] = <<>>
       \/ server[c] = "live" /\ wire[c] = <<"opened">>
       \/ server[c] = "done" /\ wire[c] \in {<<"close">>, <<"opened", "close">>}

\* A shell is asked for again by the window's channel only, and what it opened has its shell.
ServerServes ==
  \A c \in Terminal!Chans :
    /\ server[c] = "asked" /\ resuming[c] # 0 => c = channel \/ disposed = TRUE
    /\ c = channel /\ server[c] \in {"live", "done"} /\ Carries(c) \in running =>
         server[c] = "live" /\ holder[Carries(c)] = c

\* A shell that runs is held by a channel that is served, and is the window's or forgotten.
ShellsAreHeld ==
  \A s \in running :
    /\ holder[s] # 0 => /\ server[holder[s]] = "live" /\ s = Carries(holder[s])
                        /\ holder[s] = channel \/ s \notin known \/ disposed = TRUE
    /\ holder[s] = 0 => termId = s \/ s \notin known \/ disposed = TRUE

\* What the page knows, has and asks for it has heard of.
HeardOf ==
  /\ known \subseteq Heard /\ termId \in {0} \cup Heard
  /\ \A c \in Terminal!Chans : resuming[c] \in {0} \cup Heard

\* The invariant of the terminal's window.
TerminalInv ==
  TerminalTypes /\ OneChannel /\ ServerSays /\ ServerServes /\ ShellsAreHeld /\ HeardOf

\* The window's channel goes, and its shell with it; the server and the wire stay as they are.
ChannelGoes ==
  /\ isOpen' \in BOOLEAN /\ disposed' \in BOOLEAN
  /\ disposed = TRUE => disposed' = TRUE
  /\ channel # 0 /\ server[channel] = "asked" /\ resuming[channel] # 0 => disposed' = TRUE
  /\ known' \subseteq known /\ running' = running /\ holder' = holder
  /\ \A s \in running :
       /\ channel # 0 /\ holder[s] = channel => s \notin known' \/ disposed' = TRUE
       /\ holder[s] = 0 => termId' = s \/ s \notin known' \/ disposed' = TRUE
  /\ wire' \in [Terminal!Chans -> Seq({"opened", "close"})]
  /\ \A c \in Terminal!Chans : wire'[c] \in {wire[c], <<>>}

\* The window's channel ends, if it has one, and perhaps another is opened.
LEMMA WindowMoves ==
  ASSUME TerminalInv, TerminalTypes', NEW new \in {0} \cup Terminal!Chans,
         new # 0 => page[new] = "unused" /\ isOpen' = TRUE /\ disposed' = FALSE /\ ended' = FALSE,
         \A c \in Terminal!Chans :
           /\ page'[c] = IF c = new THEN "opening" ELSE IF c = channel THEN "closed" ELSE page[c]
           /\ server'[c] = IF c = new THEN "asked" ELSE server[c]
           /\ resuming'[c] = IF c = new THEN termId' ELSE resuming[c],
         channel' = new, termId' \in {termId, 0}, ChannelGoes
  PROVE  TerminalInv'
<1>0. Terminal!Chans \subseteq Nat /\ 0 \notin Terminal!Chans
  BY DEF Terminal!Chans
<1>1. /\ \A c \in Terminal!Chans : page[c] \in {"unused", "opening", "opened", "closed"}
      /\ \A c \in Terminal!Chans : server[c] \in {"none", "asked", "live", "done"} /\ resuming[c] \in Nat
      /\ channel \in {0} \cup Terminal!Chans /\ 0 \notin Terminal!Chans /\ Terminal!Chans \subseteq Nat
      /\ \A s \in running : s \in Terminal!Chans /\ holder[s] \in {0} \cup Terminal!Chans
  BY <1>0 DEF TerminalInv, TerminalTypes
<1>10. /\ disposed = TRUE => disposed' = TRUE
       /\ channel # 0 /\ server[channel] = "asked" /\ resuming[channel] # 0 => disposed' = TRUE
       /\ known' \subseteq known /\ running' = running /\ holder' = holder
       /\ \A s \in running :
            /\ channel # 0 /\ holder[s] = channel => s \notin known' \/ disposed' = TRUE
            /\ holder[s] = 0 => termId' = s \/ s \notin known' \/ disposed' = TRUE
       /\ \A c \in Terminal!Chans : wire'[c] \in {wire[c], <<>>}
  BY DEF ChannelGoes
<1>2. new # 0 => server[new] = "none" /\ wire[new] = <<>> /\ new # channel
  BY <1>1 DEF TerminalInv, ServerSays, OneChannel
<1>3. \A c \in Terminal!Chans : c # new => Carries(c)' = Carries(c)
  BY DEF Carries
<1>4. \A c \in Heard : c \in Heard'
  BY <1>1, <1>2 DEF Heard
<1>5. HeardOf'
  <2>1. termId' \in {0} \cup Heard'
    BY <1>4 DEF TerminalInv, HeardOf
  <2>2. \A c \in Terminal!Chans : resuming'[c] \in {0} \cup Heard'
    BY <1>4, <2>1 DEF TerminalInv, HeardOf
  <2>3. known' \subseteq Heard'
    BY <1>4, <1>10 DEF TerminalInv, HeardOf
  <2> QED BY <2>1, <2>2, <2>3 DEF HeardOf
<1>6. OneChannel'
  <2>1. \A c \in Terminal!Chans : page'[c] \in {"opening", "opened"} <=> c = channel'
    BY <1>1, <1>2 DEF TerminalInv, OneChannel
  <2>2. new # 0 => page'[new] = "opening" /\ termId' = resuming'[new]
    BY <1>1
  <2> QED BY <2>1, <2>2 DEF OneChannel
<1>7. ServerSays'
  BY <1>1, <1>2, <1>10 DEF TerminalInv, ServerSays, OneChannel
<1>8. ServerServes'
  <2>1. ASSUME NEW c \in Terminal!Chans, server'[c] = "asked", resuming'[c] # 0
        PROVE  c = channel' \/ disposed' = TRUE
    <3>1. c # new => server[c] = "asked" /\ resuming[c] # 0
      BY <2>1
    <3>2. c # new => c = channel \/ disposed = TRUE
      BY <3>1 DEF TerminalInv, ServerServes
    <3> QED BY <1>1, <1>10, <2>1, <3>1, <3>2
  <2>2. \A c \in Terminal!Chans : c = channel' => server'[c] = "asked"
    OBVIOUS
  <2> QED BY <2>1, <2>2 DEF ServerServes
<1>9. ShellsAreHeld'
  <2> SUFFICES ASSUME NEW s \in running
               PROVE  /\ holder[s] # 0 =>
                           /\ server'[holder[s]] = "live" /\ s = Carries(holder[s])'
                           /\ holder[s] = channel' \/ s \notin known' \/ disposed' = TRUE
                      /\ holder[s] = 0 => termId' = s \/ s \notin known' \/ disposed' = TRUE
    BY <1>10 DEF ShellsAreHeld, Carries
  <2>1. ASSUME holder[s] # 0
        PROVE  /\ server[holder[s]] = "live" /\ s = Carries(holder[s]) /\ holder[s] # new
               /\ holder[s] \in Terminal!Chans
    BY <1>1, <1>2, <2>1 DEF TerminalInv, ShellsAreHeld
  <2>2. ASSUME holder[s] # 0 PROVE server'[holder[s]] = "live" /\ s = Carries(holder[s])'
    BY <1>1, <1>10, <2>1, <2>2 DEF Carries
  <2>3. ASSUME holder[s] # 0, holder[s] # channel PROVE s \notin known' \/ disposed' = TRUE
    BY <1>10, <2>3 DEF TerminalInv, ShellsAreHeld
  <2> QED BY <1>10, <2>2, <2>3
<1> QED BY <1>5, <1>6, <1>7, <1>8, <1>9 DEF TerminalInv

\* The wire loses its first message, and only that.
LEMMA WireShrinks ==
  ASSUME TerminalInv, NEW c \in Terminal!Chans, wire[c] # <<>>,
         wire' = [wire EXCEPT ![c] = Tail(@)]
  PROVE  /\ Head(wire[c]) = "close" => server[c] = "done" /\ wire'[c] = <<>>
         /\ Head(wire[c]) # "close" => server[c] \in {"live", "done"} /\ Head(wire[c]) = "opened"
         /\ \/ wire'[c] = <<>>
            \/ server[c] = "done" /\ wire'[c] = <<"close">>
         /\ \A d \in Terminal!Chans : d # c => wire'[d] = wire[d]
         /\ wire' \in [Terminal!Chans -> Seq({"opened", "close"})]
<1>1. wire \in [Terminal!Chans -> Seq({"opened", "close"})] /\ wire'[c] = Tail(wire[c])
  BY DEF TerminalInv, TerminalTypes
<1>2. /\ Head(<<"opened">>) = "opened" /\ Tail(<<"opened">>) = <<>>
      /\ Head(<<"close">>) = "close" /\ Tail(<<"close">>) = <<>>
      /\ Head(<<"opened", "close">>) = "opened" /\ Tail(<<"opened", "close">>) = <<"close">>
  OBVIOUS
<1>3. \/ server[c] = "live" /\ wire[c] = <<"opened">>
      \/ server[c] = "done" /\ wire[c] \in {<<"close">>, <<"opened", "close">>}
  BY DEF TerminalInv, ServerSays
<1>4. Tail(wire[c]) \in Seq({"opened", "close"})
  BY <1>1
<1> QED BY <1>1, <1>2, <1>3, <1>4

\* Of the channels never used there is a first.
LEMMA FirstUnused ==
  ASSUME Terminal!Fresh # {}
  PROVE  Terminal!NextChan \in Terminal!Chans /\ page[Terminal!NextChan] = "unused"
<1>1. Terminal!Fresh \subseteq Nat /\ Terminal!Fresh \subseteq Terminal!Chans
  BY DEF Terminal!Fresh, Terminal!Chans
<1>2. \E c \in Terminal!Fresh : \A d \in Terminal!Fresh : c <= d
  BY <1>1, LeastNumber
<1>3. Terminal!NextChan \in Terminal!Fresh
  BY <1>2 DEF Terminal!NextChan
<1> QED BY <1>1, <1>3 DEF Terminal!Fresh

\* The window connects, its channel gone.
LEMMA Reconnected ==
  ASSUME TerminalInv, Terminal!Fresh # {}, ChannelGoes, NEW t \in {termId, 0}, termId' = t,
         NEW c, NEW a \in BOOLEAN, NEW e \in BOOLEAN, NEW w, NEW online \in BOOLEAN, online = isOpen' \/ online = FALSE,
         online = TRUE => disposed' = FALSE,
         NEW p, p = [d \in Terminal!Chans |-> IF d = channel THEN "closed" ELSE page[d]],
         w = [channel |-> c, termId |-> t, awaiting |-> a, ended |-> e, page |-> p, resuming |-> resuming],
         Terminal!Steps(Terminal!Connect(w, online))
  PROVE  TerminalInv'
<1> DEFINE n == Terminal!NextChan
<1>1. n \in Terminal!Chans /\ page[n] = "unused"
  BY FirstUnused
<1> HIDE DEF n
<1>2. /\ page \in [Terminal!Chans -> {"unused", "opening", "opened", "closed"}]
      /\ resuming \in [Terminal!Chans -> Nat] /\ termId \in Nat /\ channel \in {0} \cup Terminal!Chans
      /\ server \in [Terminal!Chans -> {"none", "asked", "live", "done"}]
      /\ Terminal!Chans \subseteq Nat /\ 0 \notin Terminal!Chans /\ running \subseteq Terminal!Chans
      /\ holder \in [Terminal!Chans -> {0} \cup Terminal!Chans]
  BY DEF TerminalInv, TerminalTypes, Terminal!Chans
<1>3. p \in [Terminal!Chans -> {"unused", "opening", "opened", "closed"}]
  BY <1>2
<1>4. ASSUME online = TRUE PROVE TerminalInv'
  <2>1. Terminal!Connect(w, online) = [channel |-> n, termId |-> t, awaiting |-> a, ended |-> FALSE,
                                   page |-> [p EXCEPT ![n] = "opening"], resuming |-> [resuming EXCEPT ![n] = t]]
    BY <1>2, <1>3, <1>4 DEF Terminal!Connect, n
  <2>2. /\ channel' = n /\ awaitingReconnect' = a /\ ended' = FALSE /\ page' = [p EXCEPT ![n] = "opening"]
        /\ resuming' = [resuming EXCEPT ![n] = t]
        /\ server' = [d \in Terminal!Chans |->
                         IF page[d] = "unused" /\ page'[d] # "unused" THEN "asked" ELSE server[d]]
    <3> DEFINE v == Terminal!Connect(w, online)
    <3>1. Terminal!Becomes(v) /\ Terminal!Asks(v)
      BY DEF Terminal!Steps
    <3> HIDE DEF v
    <3> QED BY <2>1, <3>1 DEF Terminal!Becomes, Terminal!Asks, v
  <2>3. \A d \in Terminal!Chans :
          /\ page'[d] = IF d = n THEN "opening" ELSE IF d = channel THEN "closed" ELSE page[d]
          /\ server'[d] = IF d = n THEN "asked" ELSE server[d]
          /\ resuming'[d] = IF d = n THEN t ELSE resuming[d]
    BY <1>1, <1>2, <1>3, <2>2 DEF TerminalInv, OneChannel
  <2>4. TerminalTypes'
    <3>1. page' \in [Terminal!Chans -> {"unused", "opening", "opened", "closed"}] /\ resuming' \in [Terminal!Chans -> Nat]
      BY <1>1, <1>2, <1>3, <2>2
    <3>2. server' \in [Terminal!Chans -> {"none", "asked", "live", "done"}]
      BY <1>2, <2>2
    <3> QED BY <1>1, <1>2, <2>2, <3>1, <3>2 DEF TerminalTypes, ChannelGoes
  <2>5. /\ n \in {0} \cup Terminal!Chans
        /\ n # 0 => page[n] = "unused" /\ isOpen' = TRUE /\ disposed' = FALSE /\ ended' = FALSE
    BY <1>1, <1>4, <2>2
  <2>6. channel' = n /\ termId' \in {termId, 0} /\ ChannelGoes
    BY <2>2
  <2>7. \A d \in Terminal!Chans :
          /\ page'[d] = IF d = n THEN "opening" ELSE IF d = channel THEN "closed" ELSE page[d]
          /\ server'[d] = IF d = n THEN "asked" ELSE server[d]
          /\ resuming'[d] = IF d = n THEN termId' ELSE resuming[d]
    BY <2>3
  <2> QED BY <2>4, <2>5, <2>6, <2>7, WindowMoves
<1>5. ASSUME online = FALSE PROVE TerminalInv'
  <2>1. Terminal!Connect(w, online) = [channel |-> 0, termId |-> t, awaiting |-> TRUE, ended |-> FALSE,
                                   page |-> p, resuming |-> resuming]
    BY <1>2, <1>3, <1>5 DEF Terminal!Connect, Terminal!None
  <2>2. /\ channel' = 0 /\ awaitingReconnect' = TRUE /\ ended' = FALSE /\ page' = p /\ resuming' = resuming
        /\ server' = [d \in Terminal!Chans |->
                         IF page[d] = "unused" /\ page'[d] # "unused" THEN "asked" ELSE server[d]]
    <3> DEFINE v == Terminal!Connect(w, online)
    <3>1. Terminal!Becomes(v) /\ Terminal!Asks(v)
      BY DEF Terminal!Steps
    <3> HIDE DEF v
    <3> QED BY <2>1, <3>1 DEF Terminal!Becomes, Terminal!Asks, v
  <2>3. \A d \in Terminal!Chans :
          /\ page'[d] = IF d = 0 THEN "opening" ELSE IF d = channel THEN "closed" ELSE page[d]
          /\ server'[d] = IF d = 0 THEN "asked" ELSE server[d]
          /\ resuming'[d] = IF d = 0 THEN t ELSE resuming[d]
    BY <1>2, <1>3, <2>2 DEF TerminalInv, OneChannel
  <2>4. TerminalTypes'
    <3>1. server' \in [Terminal!Chans -> {"none", "asked", "live", "done"}]
      BY <1>2, <2>2
    <3>2. page' \in [Terminal!Chans -> {"unused", "opening", "opened", "closed"}]
      BY <1>3, <2>2
    <3>3. channel' \in {0} \cup Terminal!Chans /\ channel' \in Nat /\ termId' \in Nat
      BY <1>2, <2>2
    <3> QED BY <1>2, <2>2, <3>1, <3>2, <3>3 DEF TerminalTypes, ChannelGoes
  <2>5. 0 \in {0} \cup Terminal!Chans
    OBVIOUS
  <2> QED BY <2>2, <2>3, <2>4, <2>5, WindowMoves
<1> QED BY <1>4, <1>5

\* What onClose makes of the window while it has the socket, unless it starts again.
LEMMA ClosedEnds ==
  ASSUME page[channel] # "opening" \/ resuming[channel] = 0,
         page \in [Terminal!Chans -> {"unused", "opening", "opened", "closed"}]
  PROVE  Terminal!Closed(Terminal!Window, channel, TRUE) =
           [channel |-> 0, termId |-> 0, awaiting |-> awaitingReconnect, ended |-> TRUE,
            page |-> [page EXCEPT ![channel] = "closed"], resuming |-> resuming]
  BY DEF Terminal!Closed, Terminal!Window, Terminal!None

\* The shell it attaches to being gone, the window asks for a new one.
LEMMA ClosedAsks ==
  ASSUME page[channel] = "opening", resuming[channel] # 0,
         page \in [Terminal!Chans -> {"unused", "opening", "opened", "closed"}]
  PROVE  Terminal!Closed(Terminal!Window, channel, TRUE) =
           Terminal!Connect([channel |-> 0, termId |-> 0, awaiting |-> awaitingReconnect, ended |-> ended,
                             page |-> [page EXCEPT ![channel] = "closed"], resuming |-> resuming], TRUE)
<1> DEFINE n == Terminal!NextChan
           v == [channel |-> n, termId |-> 0, awaiting |-> awaitingReconnect, ended |-> FALSE,
                 page |-> [[page EXCEPT ![channel] = "closed"] EXCEPT ![n] = "opening"],
                 resuming |-> [resuming EXCEPT ![n] = 0]]
<1>1. Terminal!Closed(Terminal!Window, channel, TRUE) = v
  BY DEF Terminal!Closed, Terminal!Connect, Terminal!Window, Terminal!None
<1>2. Terminal!Connect([channel |-> 0, termId |-> 0, awaiting |-> awaitingReconnect, ended |-> ended,
                        page |-> [page EXCEPT ![channel] = "closed"], resuming |-> resuming], TRUE) = v
  BY DEF Terminal!Connect, Terminal!None
<1> HIDE DEF v
<1> QED BY <1>1, <1>2

\* "Restart shell" lets go of the shell the window has.
LEMMA RestartKeeps ==
  ASSUME TerminalInv, ~InHaste, Terminal!Restart
  PROVE  TerminalInv'
<1>1. /\ disposed' = disposed /\ isOpen' = isOpen /\ known' = known \ {termId}
      /\ wire' = wire /\ running' = running /\ holder' = holder
  BY DEF Terminal!Restart
<1>6. disposed = FALSE
  BY DEF Terminal!Restart, TerminalInv, TerminalTypes
<1>2. Terminal!Fresh # {}
  BY DEF Terminal!Restart
<1>3. /\ page \in [Terminal!Chans -> {"unused", "opening", "opened", "closed"}]
      /\ wire \in [Terminal!Chans -> Seq({"opened", "close"})]
      /\ isOpen \in BOOLEAN /\ ended \in BOOLEAN /\ disposed \in BOOLEAN /\ awaitingReconnect \in BOOLEAN
      /\ running \subseteq Terminal!Chans /\ channel \in {0} \cup Terminal!Chans /\ 0 \notin Terminal!Chans
  BY DEF TerminalInv, TerminalTypes, Terminal!Chans
<1> DEFINE p == [d \in Terminal!Chans |-> IF d = channel THEN "closed" ELSE page[d]]
<1>4. CASE channel = 0
  <2>1. p = page
    BY <1>3, <1>4
  <2> DEFINE w == [channel |-> 0, termId |-> termId, awaiting |-> awaitingReconnect, ended |-> ended,
                   page |-> p, resuming |-> resuming]
  <2>2. Terminal!Window = w /\ w.channel = 0
    BY <1>4, <2>1 DEF Terminal!Window
  <2>3. Terminal!Steps(Terminal!Connect(w, isOpen))
    BY <1>4, <2>2 DEF Terminal!Restart, Terminal!None
  <2>4. termId' = termId
    <3> DEFINE v == Terminal!Connect(w, isOpen)
    <3>1. v.termId = termId
      BY DEF Terminal!Connect
    <3>2. Terminal!Becomes(v)
      BY <2>3 DEF Terminal!Steps
    <3> HIDE DEF v
    <3> QED BY <3>1, <3>2 DEF Terminal!Becomes
  <2>5. ChannelGoes
    <3>1. \A s \in running : holder[s] = 0 => termId = s \/ s \notin known \/ disposed = TRUE
      BY DEF TerminalInv, ShellsAreHeld
    <3> QED BY <1>1, <1>3, <1>4, <1>6, <2>4, <3>1 DEF ChannelGoes
  <2> HIDE DEF p
  <2> QED BY <1>1, <1>2, <1>3, <1>6, <2>3, <2>4, <2>5, Reconnected DEF p
<1>5. CASE channel # 0
  <2>1. isOpen = TRUE /\ page[channel] \in {"opening", "opened"} /\ channel \in Terminal!Chans
    BY <1>3, <1>5 DEF TerminalInv, OneChannel
  <2>2. page[channel] = "opened" \/ resuming[channel] = 0
    BY <1>5 DEF Terminal!Restart, Terminal!None
  <2> DEFINE w == [channel |-> 0, termId |-> 0, awaiting |-> awaitingReconnect, ended |-> TRUE,
                   page |-> p, resuming |-> resuming]
  <2>3. [page EXCEPT ![channel] = "closed"] = p
    BY <1>3, <2>1
  <2>4. Terminal!Closed(Terminal!Window, channel, isOpen) = w /\ w.channel = 0
    BY <1>3, <2>1, <2>2, <2>3, ClosedEnds
  <2>5. Terminal!Steps(Terminal!Connect(w, isOpen))
    BY <1>5, <2>4 DEF Terminal!Restart, Terminal!None
  <2>6. termId' = 0
    <3> DEFINE v == Terminal!Connect(w, isOpen)
    <3>1. v.termId = 0
      BY DEF Terminal!Connect
    <3>2. Terminal!Becomes(v)
      BY <2>5 DEF Terminal!Steps
    <3> HIDE DEF v
    <3> QED BY <3>1, <3>2 DEF Terminal!Becomes
  <2>7. ASSUME NEW s \in running, holder[s] = channel PROVE s \notin known'
    <3>1. s = Carries(channel)
      BY <1>5, <2>7 DEF TerminalInv, ShellsAreHeld
    <3>2. page[channel] = "opened" => s = termId
      BY <1>5, <3>1 DEF TerminalInv, OneChannel
    <3>3. page[channel] # "opened" => s = channel /\ s \notin Heard
      BY <2>1, <2>2, <3>1 DEF Carries, Heard
    <3> QED BY <1>1, <3>2, <3>3 DEF TerminalInv, HeardOf
  <2>8. ChannelGoes
    <3>1. \A s \in running : holder[s] = 0 => s \notin known'
      BY <1>1, <1>6 DEF TerminalInv, ShellsAreHeld
    <3>2. server[channel] = "asked" => resuming[channel] = 0
      BY <2>1, <2>2 DEF TerminalInv, ServerSays
    <3> QED BY <1>1, <1>3, <1>6, <2>7, <3>1, <3>2 DEF ChannelGoes
  <2> HIDE DEF p
  <2> QED BY <1>1, <1>2, <1>3, <1>6, <2>5, <2>6, <2>8, Reconnected DEF p
<1> QED BY <1>4, <1>5

\* "Start a new shell" is offered when the window has none.
LEMMA StartNewKeeps ==
  ASSUME TerminalInv, Terminal!StartNew
  PROVE  TerminalInv'
<1>1. /\ disposed' = disposed /\ isOpen' = isOpen /\ known' = known /\ wire' = wire
      /\ running' = running /\ holder' = holder /\ Terminal!Fresh # {}
  BY DEF Terminal!StartNew
<1>2. disposed = FALSE /\ ended = TRUE
  BY DEF Terminal!StartNew, TerminalInv, TerminalTypes
<1>3. channel = 0
  BY <1>2 DEF TerminalInv, OneChannel
<1> DEFINE p == [d \in Terminal!Chans |-> IF d = channel THEN "closed" ELSE page[d]]
           w == [channel |-> channel, termId |-> termId, awaiting |-> awaitingReconnect, ended |-> ended,
                 page |-> p, resuming |-> resuming]
<1>4. /\ isOpen \in BOOLEAN /\ awaitingReconnect \in BOOLEAN
      /\ wire \in [Terminal!Chans -> Seq({"opened", "close"})] /\ p = page
  BY <1>3 DEF TerminalInv, TerminalTypes, Terminal!Chans
<1>5. Terminal!Steps(Terminal!Connect(w, isOpen)) /\ (Terminal!Connect(w, isOpen)).termId = termId
  BY <1>4 DEF Terminal!StartNew, Terminal!Window, Terminal!Connect
<1>6. termId' = termId
  <2> HIDE DEF w
  <2> QED BY <1>5 DEF Terminal!Steps, Terminal!Becomes
<1>7. ChannelGoes
  <2>1. \A s \in running : holder[s] = 0 => termId = s \/ s \notin known \/ disposed = TRUE
    BY DEF TerminalInv, ShellsAreHeld
  <2> QED BY <1>1, <1>2, <1>3, <1>4, <1>6, <2>1 DEF ChannelGoes
<1> HIDE DEF p
<1> QED BY <1>1, <1>2, <1>4, <1>5, <1>6, <1>7, Reconnected DEF p

\* A window that is told of the connection waits for it no more.
LEMMA WindowDoesNotWait ==
  ASSUME TerminalTypes
  PROVE  [Terminal!Window EXCEPT !.awaiting = FALSE] =
           [channel |-> channel, termId |-> termId, awaiting |-> FALSE, ended |-> ended,
            page |-> page, resuming |-> resuming]
<1> DEFINE P == [Terminal!Chans -> {"unused", "opening", "opened", "closed"}]
           W == [channel : Nat, termId : Nat, awaiting : BOOLEAN, ended : BOOLEAN, page : P,
                 resuming : [Terminal!Chans -> Nat]]
           v == [Terminal!Window EXCEPT !.awaiting = FALSE]
<1>1. Terminal!Window \in W
  BY DEF TerminalTypes, Terminal!Window
<1> HIDE DEF P
<1>2. v \in W
  BY <1>1
<1>3. /\ v.channel = channel /\ v.termId = termId /\ v.awaiting = FALSE /\ v.ended = ended
      /\ v.page = page /\ v.resuming = resuming
  BY DEF Terminal!Window
<1> HIDE DEF v
<1>4. PICK a \in Nat, b \in Nat, c \in BOOLEAN, d \in BOOLEAN, e \in P, f \in [Terminal!Chans -> Nat] :
        v = [channel |-> a, termId |-> b, awaiting |-> c, ended |-> d, page |-> e, resuming |-> f]
  BY <1>2
<1>5. a = channel /\ b = termId /\ c = FALSE /\ d = ended /\ e = page /\ f = resuming
  BY <1>3, <1>4
<1> QED BY <1>4, <1>5 DEF v

\* The connection is back, and a window that waits for it connects.
LEMMA ReconnectsKeeps ==
  ASSUME TerminalInv, Terminal!Reconnects
  PROVE  TerminalInv'
<1>1. /\ disposed' = disposed /\ isOpen' = TRUE /\ known' = known /\ wire' = wire
      /\ running' = running /\ holder' = holder
  BY DEF Terminal!Reconnects
<1>2. isOpen = FALSE /\ channel = 0
  <2>1. isOpen = FALSE
    BY DEF Terminal!Reconnects, TerminalInv, TerminalTypes
  <2> QED BY <2>1 DEF TerminalInv, OneChannel
<1>3. CASE UNCHANGED <<Terminal!windowVars, server>>
  BY <1>1, <1>2, <1>3 DEF TerminalInv, TerminalTypes, OneChannel, ServerSays, ServerServes,
     ShellsAreHeld,
     HeardOf, Heard, Carries, Terminal!windowVars
<1>4. CASE /\ disposed = FALSE /\ Terminal!Fresh # {}
           /\ Terminal!Steps(Terminal!Connect([Terminal!Window EXCEPT !.awaiting = FALSE], TRUE))
  <2> DEFINE p == [d \in Terminal!Chans |-> IF d = channel THEN "closed" ELSE page[d]]
             w == [channel |-> channel, termId |-> termId, awaiting |-> FALSE, ended |-> ended,
                   page |-> p, resuming |-> resuming]
  <2>1. /\ wire \in [Terminal!Chans -> Seq({"opened", "close"})] /\ p = page /\ ended \in BOOLEAN
    BY <1>2 DEF TerminalInv, TerminalTypes, Terminal!Chans
  <2>2. Terminal!Steps(Terminal!Connect(w, TRUE)) /\ (Terminal!Connect(w, TRUE)).termId = termId
    <3>1. [Terminal!Window EXCEPT !.awaiting = FALSE] = w
      BY <2>1, WindowDoesNotWait DEF TerminalInv, TerminalTypes
    <3>2. (Terminal!Connect(w, TRUE)).termId = termId
      BY DEF Terminal!Connect
    <3> HIDE DEF w
    <3> QED BY <1>4, <3>1, <3>2
  <2>3. termId' = termId
    <3> HIDE DEF w
    <3> QED BY <2>2 DEF Terminal!Steps, Terminal!Becomes
  <2>4. ChannelGoes
    <3>1. \A s \in running : holder[s] = 0 => termId = s \/ s \notin known \/ disposed = TRUE
      BY DEF TerminalInv, ShellsAreHeld
    <3> QED BY <1>1, <1>2, <1>4, <2>1, <2>3, <3>1 DEF ChannelGoes
  <2> HIDE DEF p
  <2> QED BY <1>1, <1>4, <2>1, <2>2, <2>3, <2>4, Reconnected DEF p
<1>5. disposed \in BOOLEAN
  BY DEF TerminalInv, TerminalTypes
<1> QED BY <1>2, <1>3, <1>4, <1>5 DEF Terminal!Reconnects

\* destroy() closes the channel it has.
LEMMA DestroyKeeps ==
  ASSUME TerminalInv, Terminal!Destroy
  PROVE  TerminalInv'
<1>1. /\ disposed' = TRUE /\ isOpen' = isOpen /\ known' \subseteq known /\ wire' = wire
      /\ running' = running /\ holder' = holder /\ Terminal!Steps(Terminal!LetsGo(Terminal!Window))
  BY DEF Terminal!Destroy
<1>2. /\ page \in [Terminal!Chans -> {"unused", "opening", "opened", "closed"}]
      /\ server \in [Terminal!Chans -> {"none", "asked", "live", "done"}]
      /\ wire \in [Terminal!Chans -> Seq({"opened", "close"})]
      /\ isOpen \in BOOLEAN /\ channel \in {0} \cup Terminal!Chans /\ 0 \notin Terminal!Chans
  BY DEF TerminalInv, TerminalTypes, Terminal!Chans
<1> DEFINE p == [d \in Terminal!Chans |-> IF d = channel THEN "closed" ELSE page[d]]
           w == [channel |-> 0, termId |-> termId, awaiting |-> awaitingReconnect, ended |-> ended,
                 page |-> p, resuming |-> resuming]
<1>3. Terminal!LetsGo(Terminal!Window) = w
  <2>1. channel = 0 => page = p
    BY <1>2
  <2>2. channel # 0 => [page EXCEPT ![channel] = "closed"] = p
    BY <1>2
  <2> HIDE DEF p
  <2> QED BY <2>1, <2>2 DEF Terminal!LetsGo, Terminal!Window, Terminal!None
<1>4. /\ channel' = 0 /\ termId' = termId /\ awaitingReconnect' = awaitingReconnect /\ ended' = ended
      /\ page' = p /\ resuming' = resuming
      /\ server' = [d \in Terminal!Chans |->
                       IF page[d] = "unused" /\ p[d] # "unused" THEN "asked" ELSE server[d]]
  BY <1>1, <1>3 DEF Terminal!Steps, Terminal!Becomes, Terminal!Asks
<1>5. \A d \in Terminal!Chans :
        /\ page'[d] = IF d = 0 THEN "opening" ELSE IF d = channel THEN "closed" ELSE page[d]
        /\ server'[d] = IF d = 0 THEN "asked" ELSE server[d]
        /\ resuming'[d] = IF d = 0 THEN termId' ELSE resuming[d]
  BY <1>2, <1>4 DEF TerminalInv, OneChannel
<1>6. TerminalTypes'
  <2>1. server' \in [Terminal!Chans -> {"none", "asked", "live", "done"}]
    BY <1>2, <1>4
  <2>2. page' \in [Terminal!Chans -> {"unused", "opening", "opened", "closed"}]
    BY <1>2, <1>4
  <2> QED BY <1>1, <1>4, <2>1, <2>2 DEF TerminalInv, TerminalTypes
<1>7. ChannelGoes
  BY <1>1, <1>2 DEF ChannelGoes
<1>8. 0 \in {0} \cup Terminal!Chans
  OBVIOUS
<1> QED BY <1>4, <1>5, <1>6, <1>7, <1>8, WindowMoves

\* The server's own steps leave the window as it is.
WindowStays ==
  /\ isOpen' = isOpen /\ disposed' = disposed /\ channel' = channel /\ termId' = termId
  /\ awaitingReconnect' = awaitingReconnect /\ ended' = ended /\ page' = page /\ resuming' = resuming
  /\ known' = known

\* The server starts the shell it is asked for, or attaches the channel to it, or has it no more.
LEMMA ServesKeeps ==
  ASSUME TerminalInv, NEW c \in Terminal!Chans, Terminal!Serves(c)
  PROVE  TerminalInv'
<1>1. WindowStays /\ server[c] = "asked"
  BY DEF Terminal!Serves, WindowStays, Terminal!windowVars
<1>2. /\ server \in [Terminal!Chans -> {"none", "asked", "live", "done"}]
      /\ wire \in [Terminal!Chans -> Seq({"opened", "close"})] /\ page[c] # "unused" /\ page[c] # "opened"
      /\ holder \in [Terminal!Chans -> {0} \cup Terminal!Chans] /\ running \subseteq Terminal!Chans
      /\ resuming[c] \in {0} \cup Terminal!Chans /\ 0 \notin Terminal!Chans
  BY <1>1 DEF TerminalInv, TerminalTypes, ServerSays, HeardOf, Heard, Terminal!Chans
<1>3. /\ \A d \in Terminal!Chans : Carries(d)' = Carries(d)
      /\ OneChannel'
  BY <1>1 DEF Carries, OneChannel, TerminalInv, WindowStays
<1>4. <<"close">> \in Seq({"opened", "close"}) /\ <<"opened">> \in Seq({"opened", "close"})
  OBVIOUS
<1>5. ASSUME NEW x \in {"live", "done"}, server' = [server EXCEPT ![c] = x] PROVE HeardOf'
  BY <1>1, <1>2, <1>5 DEF TerminalInv, HeardOf, Heard, WindowStays
<1>6. CASE resuming[c] # 0 /\ resuming[c] \notin running
  <2>1. /\ wire' = [wire EXCEPT ![c] = <<"close">>] /\ server' = [server EXCEPT ![c] = "done"]
        /\ running' = running /\ holder' = holder
    BY <1>6 DEF Terminal!Serves, Terminal!None
  <2>2. TerminalTypes'
    BY <1>1, <1>2, <1>4, <2>1 DEF TerminalInv, TerminalTypes, WindowStays
  <2>3. ServerSays'
    BY <1>1, <1>2, <2>1 DEF TerminalInv, ServerSays, WindowStays
  <2>4. ServerServes'
    BY <1>1, <1>2, <1>3, <1>6, <2>1 DEF TerminalInv, ServerServes, Carries, WindowStays
  <2>5. ShellsAreHeld'
    BY <1>1, <1>2, <1>3, <2>1 DEF TerminalInv, ShellsAreHeld, Carries, WindowStays, TerminalTypes
  <2> QED BY <1>3, <1>5, <2>1, <2>2, <2>3, <2>4, <2>5 DEF TerminalInv
<1>7. CASE resuming[c] = 0 \/ resuming[c] \in running
  <2> DEFINE s == Carries(c)
  <2>1. /\ wire' = [wire EXCEPT ![c] = <<"opened">>] /\ server' = [server EXCEPT ![c] = "live"]
        /\ running' = running \cup {s} /\ holder' = [holder EXCEPT ![s] = c]
    BY <1>7 DEF Terminal!Serves, Terminal!None, Carries
  <2>2. s \in Terminal!Chans /\ s = Carries(c)
    BY <1>2 DEF Carries
  <2>3. resuming[c] = 0 => s = c /\ c \notin Heard
    BY <1>1 DEF Carries, Heard
  <2>4. c = channel \/ s \notin known \/ disposed = TRUE
    BY <1>1, <2>3 DEF TerminalInv, ServerServes, HeardOf
  <2> HIDE DEF s
  <2>5. TerminalTypes'
    BY <1>1, <1>2, <1>4, <2>1, <2>2 DEF TerminalInv, TerminalTypes, WindowStays
  <2>6. ServerSays'
    BY <1>1, <1>2, <2>1 DEF TerminalInv, ServerSays, WindowStays
  <2>7. ServerServes'
    <3>1. ASSUME NEW d \in Terminal!Chans, server'[d] = "asked", resuming[d] # 0
          PROVE  d = channel \/ disposed = TRUE
      BY <1>2, <2>1, <3>1 DEF TerminalInv, ServerServes
    <3>2. ASSUME NEW d \in Terminal!Chans, d = channel, d # c, server[d] \in {"live", "done"},
                 Carries(d) \in running'
          PROVE  server[d] = "live" /\ holder'[Carries(d)] = d
      <4>1. Carries(d) # s
        <5>1. ASSUME Carries(d) = s, resuming[c] = 0 PROVE FALSE
          <6>1. resuming[d] = c /\ c \in Heard
            BY <1>2, <2>3, <3>2, <5>1 DEF Carries, TerminalInv, HeardOf
          <6> QED BY <2>3, <5>1, <6>1
        <5>2. ASSUME resuming[c] # 0 PROVE FALSE
          BY <1>1, <1>2, <3>2, <5>2 DEF TerminalInv, ServerServes, OneChannel
        <5> QED BY <5>1, <5>2
      <4>2. Carries(d) \in running
        BY <2>1, <3>2, <4>1
      <4>3. server[d] = "live" /\ holder[Carries(d)] = d
        BY <3>2, <4>2 DEF TerminalInv, ServerServes
      <4> QED BY <1>2, <2>1, <4>1, <4>2, <4>3
    <3>3. server'[c] = "live" /\ holder'[Carries(c)] = c
      BY <1>2, <2>1, <2>2
    <3>4. \A d \in Terminal!Chans : d # c => server'[d] = server[d]
      BY <1>2, <2>1
    <3> QED BY <1>1, <1>3, <3>1, <3>2, <3>3, <3>4 DEF ServerServes, WindowStays
  <2>8. ShellsAreHeld'
    <3>1. ASSUME NEW z \in running, z # s
          PROVE  /\ holder[z] # 0 => /\ server'[holder[z]] = "live" /\ z = Carries(holder[z])
                                     /\ holder[z] = channel \/ z \notin known \/ disposed = TRUE
                 /\ holder[z] = 0 => termId = z \/ z \notin known \/ disposed = TRUE
                 /\ holder'[z] = holder[z]
      BY <1>1, <1>2, <2>1, <3>1 DEF TerminalInv, ShellsAreHeld
    <3>2. holder'[s] = c /\ server'[c] = "live"
      BY <1>2, <2>1, <2>2
    <3>3. \A d \in Terminal!Chans : Carries(d)' = Carries(d)
      BY <1>3
    <3>4. ASSUME NEW z \in running'
          PROVE  /\ holder'[z] # 0 => /\ server'[holder'[z]] = "live" /\ z = Carries(holder[z])'
                                      /\ holder'[z] = channel \/ z \notin known \/ disposed = TRUE
                 /\ holder'[z] = 0 => termId = z \/ z \notin known \/ disposed = TRUE
      <4>1. CASE z = s
        BY <1>1, <1>2, <2>2, <2>4, <3>2, <4>1 DEF Carries, WindowStays
      <4>2. CASE z \in running /\ z # s
        BY <1>1, <3>1, <4>2 DEF Carries, WindowStays
      <4> QED BY <2>1, <4>1, <4>2
    <3> QED BY <1>1, <3>4 DEF ShellsAreHeld, WindowStays
  <2> QED BY <1>3, <1>5, <2>1, <2>5, <2>6, <2>7, <2>8 DEF TerminalInv
<1> QED BY <1>6, <1>7

\* The server has one channel less: a shell that was hung up, or exited.
LEMMA ShellEnds ==
  ASSUME TerminalInv, WindowStays, NEW c \in Terminal!Chans, server[c] = "live", page[c] # "unused",
         server' = [server EXCEPT ![c] = "done"], wire' \in [Terminal!Chans -> Seq({"opened", "close"})],
         wire'[c] \in {<<>>, <<"close">>, <<"opened", "close">>},
         \A d \in Terminal!Chans : d # c => wire'[d] = wire[d],
         running' \subseteq running, \A s \in running' : holder[s] # c, holder' = holder,
         c = channel => Carries(c) \notin running'
  PROVE  TerminalInv'
<1>1. /\ server \in [Terminal!Chans -> {"none", "asked", "live", "done"}]
      /\ holder \in [Terminal!Chans -> {0} \cup Terminal!Chans] /\ running \subseteq Terminal!Chans
      /\ \A d \in Terminal!Chans : server'[d] = IF d = c THEN "done" ELSE server[d]
  BY DEF TerminalInv, TerminalTypes
<1>2. \A d \in Terminal!Chans : Carries(d)' = Carries(d)
  BY DEF Carries, WindowStays
<1>3. TerminalTypes' /\ OneChannel'
  BY <1>1 DEF TerminalInv, TerminalTypes, OneChannel, Carries, WindowStays
<1>4. ServerSays'
  BY <1>1 DEF TerminalInv, ServerSays, WindowStays
<1>5. ServerServes'
  BY <1>1, <1>2 DEF TerminalInv, ServerServes, WindowStays
<1>6. HeardOf'
  BY <1>1 DEF TerminalInv, HeardOf, Heard, WindowStays
<1>7. ShellsAreHeld'
  BY <1>1, <1>2 DEF TerminalInv, ShellsAreHeld, Carries, WindowStays
<1> QED BY <1>3, <1>4, <1>5, <1>6, <1>7 DEF TerminalInv

\* The page's `close` arrives.
LEMMA HangsUpKeeps ==
  ASSUME TerminalInv, NEW c \in Terminal!Chans, Terminal!HangsUp(c)
  PROVE  TerminalInv'
<1>1. /\ WindowStays /\ server[c] = "live" /\ page[c] = "closed" /\ server' = [server EXCEPT ![c] = "done"]
      /\ wire' = [wire EXCEPT ![c] = <<>>] /\ running' = {s \in running : holder[s] # c} /\ holder' = holder
  BY DEF Terminal!HangsUp, WindowStays, Terminal!windowVars
<1>2. wire \in [Terminal!Chans -> Seq({"opened", "close"})]
  BY DEF TerminalInv, TerminalTypes
<1>3. c # channel
  BY <1>1 DEF TerminalInv, OneChannel
<1>4. /\ wire' \in [Terminal!Chans -> Seq({"opened", "close"})] /\ wire'[c] = <<>>
      /\ \A d \in Terminal!Chans : d # c => wire'[d] = wire[d]
  BY <1>1, <1>2
<1>5. page[c] # "unused" /\ running' \subseteq running /\ \A s \in running' : holder[s] # c
  BY <1>1
<1> QED BY <1>1, <1>3, <1>4, <1>5, ShellEnds

\* A sequence of none or one with another at its end.
LEMMA OneMore ==
  ASSUME NEW x, NEW y
  PROVE  Append(<<>>, x) = <<x>> /\ Append(<<y>>, x) = <<y, x>>
<1>1. <<x>> \in Seq({x, y}) /\ Len(<<x>>) = 1 /\ <<x>>[1] = x
  OBVIOUS
<1>2. <<y, x>> \in Seq({x, y}) /\ Len(<<y, x>>) = 2 /\ <<y, x>>[1] = y /\ <<y, x>>[2] = x
  OBVIOUS
<1>3. <<>> \in Seq({x, y}) /\ Len(<<>>) = 0 /\ <<y>> \in Seq({x, y}) /\ Len(<<y>>) = 1 /\ <<y>>[1] = y
  OBVIOUS
<1> DEFINE a == Append(<<>>, x)  b == Append(<<y>>, x)
<1>4. a \in Seq({x, y}) /\ Len(a) = 1 /\ a[1] = x
  BY <1>3, AppendProperties
<1>5. b \in Seq({x, y}) /\ Len(b) = 2 /\ b[1] = y /\ b[2] = x
  BY <1>3, AppendProperties
<1> HIDE DEF a, b
<1>6. a = <<x>>
  BY <1>1, <1>4, SeqEqual
<1>7. b = <<y, x>>
  BY <1>2, <1>5, SeqEqual
<1> QED BY <1>6, <1>7 DEF a, b

\* A shell exits, and what its channel has left to say is that it is closed.
LEMMA ShellExitsKeeps ==
  ASSUME TerminalInv, NEW s \in Terminal!Chans, Terminal!ShellExits(s)
  PROVE  TerminalInv'
<1> DEFINE c == holder[s]
<1>1. WindowStays /\ s \in running /\ running' = running \ {s} /\ holder' = holder
  BY DEF Terminal!ShellExits, WindowStays, Terminal!windowVars
<1>2. /\ wire \in [Terminal!Chans -> Seq({"opened", "close"})] /\ c \in {0} \cup Terminal!Chans
  BY DEF TerminalInv, TerminalTypes
<1>3. CASE c = 0
  <2>1. wire' = wire /\ server' = server
    BY <1>3 DEF Terminal!ShellExits, Terminal!None
  <2> QED BY <1>1, <2>1 DEF TerminalInv, TerminalTypes, OneChannel, ServerSays, ServerServes,
          ShellsAreHeld, HeardOf, Heard, Carries, WindowStays
<1>4. CASE c # 0
  <2>1. wire' = [wire EXCEPT ![c] = Append(@, "close")] /\ server' = [server EXCEPT ![c] = "done"]
    BY <1>4 DEF Terminal!ShellExits, Terminal!None
  <2>2. c \in Terminal!Chans /\ server[c] = "live" /\ s = Carries(c)
    BY <1>1, <1>2, <1>4 DEF TerminalInv, ShellsAreHeld
  <2>3. wire[c] \in {<<>>, <<"opened">>} /\ page[c] # "unused"
    BY <2>2 DEF TerminalInv, ServerSays
  <2>4. wire'[c] \in {<<"close">>, <<"opened", "close">>} /\ Append(wire[c], "close") \in Seq({"opened", "close"})
    <3>1. Append(<<>>, "close") = <<"close">> /\ Append(<<"opened">>, "close") = <<"opened", "close">>
      BY OneMore
    <3> HIDE DEF c
    <3>2. wire'[c] = Append(wire[c], "close") /\ Append(wire[c], "close") \in Seq({"opened", "close"})
      BY <1>2, <2>1, <2>2
    <3> QED BY <2>3, <3>1, <3>2
  <2>5. \A z \in running' : holder[z] # c
    <3>1. \A z \in running : holder[z] = c => z = Carries(c)
      BY <1>4 DEF TerminalInv, ShellsAreHeld
    <3> QED BY <1>1, <2>2, <3>1
  <2> HIDE DEF c
  <2> QED BY <1>1, <1>2, <2>1, <2>2, <2>3, <2>4, <2>5, ShellEnds
<1> QED BY <1>3, <1>4

\* The page hears `opened`: the window has the shell.
LEMMA HearsOpenedKeeps ==
  ASSUME TerminalInv, NEW c \in Terminal!Chans, c = channel, Head(wire[c]) = "opened", Terminal!Hears(c)
  PROVE  TerminalInv'
<1> DEFINE s == Carries(c)
<1>1. /\ wire[c] # <<>> /\ wire' = [wire EXCEPT ![c] = Tail(@)] /\ isOpen' = isOpen /\ disposed' = disposed
      /\ running' = running /\ holder' = holder
  BY DEF Terminal!Hears
<1>2. /\ server[c] \in {"live", "done"} /\ (wire'[c] = <<>> \/ (server[c] = "done" /\ wire'[c] = <<"close">>))
      /\ \A d \in Terminal!Chans : d # c => wire'[d] = wire[d]
      /\ wire' \in [Terminal!Chans -> Seq({"opened", "close"})]
  BY <1>1, WireShrinks
<1>3. /\ page \in [Terminal!Chans -> {"unused", "opening", "opened", "closed"}]
      /\ 0 \notin Terminal!Chans /\ Terminal!Chans \subseteq Nat /\ running \subseteq Terminal!Chans
      /\ Terminal!PageOpen(c) /\ page[c] \in {"opening", "opened"}
  BY DEF TerminalInv, TerminalTypes, OneChannel, Terminal!Chans, Terminal!PageOpen
<1>4. /\ channel' = channel /\ termId' = s /\ awaitingReconnect' = awaitingReconnect /\ ended' = ended
      /\ page' = [page EXCEPT ![c] = "opened"] /\ resuming' = resuming
      /\ known' = known \cup {s} /\ server' = server
  BY <1>3 DEF Terminal!Hears, Terminal!Becomes, Terminal!Window, Carries, Terminal!None
<1>5. /\ \A d \in Terminal!Chans : page'[d] = IF d = c THEN "opened" ELSE page[d]
      /\ \A d \in Terminal!Chans : Carries(d)' = Carries(d)
      /\ s = Carries(c)
  BY <1>3, <1>4 DEF Carries
<1>6. HeardOf'
  <2>1. Heard \subseteq Heard'
    BY <1>4, <1>5 DEF Heard
  <2>2. s \in Heard'
    BY <1>2, <1>4, <1>5, <2>1 DEF Carries, Heard, TerminalInv, HeardOf
  <2> HIDE DEF s
  <2> QED BY <1>4, <2>1, <2>2 DEF TerminalInv, HeardOf
<1>7. s \in Terminal!Chans
  BY <1>3 DEF Carries, TerminalInv, HeardOf, Heard
<1> HIDE DEF s
<1>8. TerminalTypes'
  BY <1>1, <1>2, <1>3, <1>4, <1>7 DEF TerminalInv, TerminalTypes
<1>9. OneChannel'
  BY <1>1, <1>3, <1>4, <1>5 DEF TerminalInv, OneChannel
<1>10. ServerSays'
  BY <1>2, <1>3, <1>4, <1>5 DEF TerminalInv, ServerSays
<1>11. ServerServes'
  BY <1>1, <1>4, <1>5 DEF TerminalInv, ServerServes
<1>12. ShellsAreHeld'
  <2>1. s \in running => holder[s] = c
    BY <1>2, <1>5 DEF TerminalInv, ServerServes
  <2>2. ASSUME NEW z \in running, z # s, holder[z] = 0 PROVE z \notin known \/ disposed = TRUE
    <3>1. page[c] = "opened" => termId = s
      BY <1>3, <1>5 DEF TerminalInv, OneChannel
    <3>2. page[c] = "opening" /\ termId # 0 => termId = s
      BY <1>3, <1>5 DEF TerminalInv, OneChannel, Carries
    <3>3. termId # z
      BY <1>3, <2>2, <3>1, <3>2
    <3> QED BY <2>2, <3>3 DEF TerminalInv, ShellsAreHeld
  <2>3. ASSUME NEW z \in running
        PROVE  /\ holder[z] # 0 => /\ server[holder[z]] = "live" /\ z = Carries(holder[z])'
                                   /\ holder[z] = channel \/ z \notin known' \/ disposed = TRUE
               /\ holder[z] = 0 => s = z \/ z \notin known' \/ disposed = TRUE
    BY <1>1, <1>4, <2>1, <2>2 DEF TerminalInv, ShellsAreHeld, Carries
  <2> QED BY <1>1, <1>4, <2>3 DEF ShellsAreHeld
<1> QED BY <1>6, <1>8, <1>9, <1>10, <1>11, <1>12 DEF TerminalInv

\* The page hears `close`: the window has no shell, or asks for one anew.
LEMMA HearsCloseKeeps ==
  ASSUME TerminalInv, NEW c \in Terminal!Chans, c = channel, Head(wire[c]) # "opened", Terminal!Hears(c)
  PROVE  TerminalInv'
<1>1. /\ wire[c] # <<>> /\ wire' = [wire EXCEPT ![c] = Tail(@)] /\ isOpen' = isOpen /\ disposed' = disposed
      /\ running' = running /\ holder' = holder
  BY DEF Terminal!Hears
<1>2. /\ server[c] = "done" /\ wire'[c] = <<>>
      /\ \A d \in Terminal!Chans : d # c => wire'[d] = wire[d]
      /\ wire' \in [Terminal!Chans -> Seq({"opened", "close"})]
  BY <1>1, WireShrinks
<1>3. /\ page \in [Terminal!Chans -> {"unused", "opening", "opened", "closed"}]
      /\ server \in [Terminal!Chans -> {"none", "asked", "live", "done"}]
      /\ resuming \in [Terminal!Chans -> Nat] /\ awaitingReconnect \in BOOLEAN
      /\ 0 \notin Terminal!Chans /\ Terminal!Chans \subseteq Nat /\ running \subseteq Terminal!Chans
      /\ Terminal!PageOpen(c) /\ page[c] \in {"opening", "opened"} /\ isOpen = TRUE /\ disposed = FALSE
  BY DEF TerminalInv, TerminalTypes, OneChannel, Terminal!Chans, Terminal!PageOpen
<1>4. known' = known /\ Terminal!Fresh # {} /\ Terminal!Steps(Terminal!Closed(Terminal!Window, c, isOpen))
  BY <1>3 DEF Terminal!Hears
<1> DEFINE p == [d \in Terminal!Chans |-> IF d = channel THEN "closed" ELSE page[d]]
<1>5. [page EXCEPT ![channel] = "closed"] = p
  BY <1>3
<1>6. ASSUME termId' = 0 PROVE ChannelGoes
  <2>1. ASSUME NEW s \in running, holder[s] = 0 PROVE s \notin known
    <3>1. Carries(c) \notin running
      BY <1>2 DEF TerminalInv, ServerServes
    <3>2. termId = 0 \/ termId = Carries(c)
      BY <1>3 DEF TerminalInv, OneChannel, Carries
    <3>3. termId # s
      BY <1>3, <3>1, <3>2
    <3> QED BY <1>3, <2>1, <3>3 DEF TerminalInv, ShellsAreHeld
  <2>2. \A s \in running : holder[s] # c
    BY <1>2, <1>3 DEF TerminalInv, ShellsAreHeld
  <2> QED BY <1>1, <1>2, <1>3, <1>4, <1>6, <2>1, <2>2 DEF ChannelGoes
<1>7. CASE page[c] = "opening" /\ resuming[c] # 0
  <2> DEFINE w == [channel |-> 0, termId |-> 0, awaiting |-> awaitingReconnect, ended |-> ended,
                   page |-> p, resuming |-> resuming]
  <2>1. Terminal!Closed(Terminal!Window, c, isOpen) = Terminal!Connect(w, isOpen)
    BY <1>3, <1>5, <1>7, ClosedAsks
  <2>2. Terminal!Steps(Terminal!Connect(w, isOpen)) /\ (Terminal!Connect(w, isOpen)).termId = 0
    BY <1>4, <2>1 DEF Terminal!Connect
  <2>3. termId' = 0
    <3> HIDE DEF w
    <3> QED BY <2>2 DEF Terminal!Steps, Terminal!Becomes
  <2>4. ended \in BOOLEAN
    BY DEF TerminalInv, TerminalTypes
  <2> HIDE DEF p
  <2> QED BY <1>1, <1>3, <1>4, <1>6, <2>2, <2>3, <2>4, Reconnected DEF p
<1>8. CASE page[c] # "opening" \/ resuming[c] = 0
  <2> DEFINE w == [channel |-> 0, termId |-> 0, awaiting |-> awaitingReconnect, ended |-> TRUE,
                   page |-> p, resuming |-> resuming]
  <2>1. Terminal!Closed(Terminal!Window, c, isOpen) = w
    BY <1>3, <1>5, <1>8, ClosedEnds
  <2>2. /\ channel' = 0 /\ termId' = 0 /\ awaitingReconnect' = awaitingReconnect /\ ended' = TRUE
        /\ page' = p /\ resuming' = resuming
        /\ server' = [d \in Terminal!Chans |->
                         IF page[d] = "unused" /\ p[d] # "unused" THEN "asked" ELSE server[d]]
    BY <1>4, <2>1 DEF Terminal!Steps, Terminal!Becomes, Terminal!Asks
  <2>3. \A d \in Terminal!Chans :
          /\ page'[d] = IF d = 0 THEN "opening" ELSE IF d = channel THEN "closed" ELSE page[d]
          /\ server'[d] = IF d = 0 THEN "asked" ELSE server[d]
          /\ resuming'[d] = IF d = 0 THEN termId' ELSE resuming[d]
    BY <1>3, <2>2
  <2>4. TerminalTypes'
    <3>1. server' \in [Terminal!Chans -> {"none", "asked", "live", "done"}]
      BY <1>3, <2>2
    <3>2. page' \in [Terminal!Chans -> {"unused", "opening", "opened", "closed"}]
      BY <1>3, <2>2
    <3> QED BY <1>1, <1>2, <2>2, <3>1, <3>2 DEF TerminalInv, TerminalTypes
  <2>5. ChannelGoes /\ 0 \in {0} \cup Terminal!Chans
    BY <1>6, <2>2
  <2> QED BY <2>2, <2>3, <2>4, <2>5, WindowMoves
<1> QED BY <1>7, <1>8

\* The socket goes, and the server may yet have started what it was asked for.
LEMMA DropsKeeps ==
  ASSUME TerminalInv, NEW some \in SUBSET Terminal!Chans, Terminal!Drops(some)
  PROVE  TerminalInv'
<1>1. /\ isOpen' = FALSE /\ disposed' = disposed /\ known' = known
      /\ some \subseteq {c \in Terminal!Chans : server[c] = "asked" /\ resuming[c] = 0}
      /\ running' = running \cup some /\ holder' = [s \in Terminal!Chans |-> 0]
      /\ server' = [c \in Terminal!Chans |-> IF server[c] = "none" THEN "none" ELSE "done"]
      /\ wire' = [c \in Terminal!Chans |-> <<>>]
  BY DEF Terminal!Drops, Terminal!None, Terminal!Shells, Terminal!Chans
<1>2. /\ page \in [Terminal!Chans -> {"unused", "opening", "opened", "closed"}]
      /\ 0 \notin Terminal!Chans /\ Terminal!Chans \subseteq Nat /\ channel \in {0} \cup Terminal!Chans
  BY DEF TerminalInv, TerminalTypes, Terminal!Chans
<1> DEFINE p == [c \in Terminal!Chans |-> IF Terminal!PageOpen(c) THEN "closed" ELSE page[c]]
<1>3. /\ channel' = 0 /\ termId' = termId /\ ended' = ended /\ resuming' = resuming /\ page' = p
      /\ awaitingReconnect' \in {TRUE, awaitingReconnect}
  <2> DEFINE w == IF channel = 0 THEN Terminal!Window ELSE Terminal!Closed(Terminal!Window, channel, FALSE)
             v == [w EXCEPT !.page = p]
  <2>1. Terminal!Becomes(v)
    BY DEF Terminal!Drops, Terminal!None
  <2>2. /\ v.channel = 0 /\ v.termId = termId /\ v.ended = ended /\ v.resuming = resuming /\ v.page = p
        /\ v.awaiting \in {TRUE, awaitingReconnect}
    <3> HIDE DEF p
    <3> QED BY DEF Terminal!Closed, Terminal!Window, Terminal!None
  <2> HIDE DEF v, p
  <2> QED BY <2>1, <2>2 DEF Terminal!Becomes
<1>4. /\ \A c \in Terminal!Chans : page'[c] \in {"unused", "closed"} /\ (page'[c] = "unused" <=> page[c] = "unused")
      /\ \A c \in Terminal!Chans : page[c] \in {"opened", "closed"} => page'[c] = "closed"
  BY <1>2, <1>3 DEF Terminal!PageOpen
<1>5. TerminalTypes'
  <2>1. page' \in [Terminal!Chans -> {"unused", "opening", "opened", "closed"}]
    BY <1>3, <1>4
  <2>2. wire' \in [Terminal!Chans -> Seq({"opened", "close"})] /\ holder' \in [Terminal!Chans -> {0} \cup Terminal!Chans]
    BY <1>1
  <2> QED BY <1>1, <1>2, <1>3, <2>1, <2>2 DEF TerminalInv, TerminalTypes
<1>6. OneChannel'
  BY <1>2, <1>3, <1>4 DEF OneChannel
<1>7. ServerSays'
  BY <1>1, <1>4 DEF ServerSays, TerminalInv
<1>8. ServerServes'
  BY <1>1, <1>2, <1>3 DEF ServerServes
<1>9. HeardOf'
  <2>1. Heard \subseteq Heard'
    BY <1>1, <1>3, <1>4 DEF Heard
  <2> QED BY <1>1, <1>3, <2>1 DEF TerminalInv, HeardOf
<1>10. ShellsAreHeld'
  <2>1. ASSUME NEW s \in some PROVE s \notin known
    BY <1>1 DEF TerminalInv, HeardOf, Heard
  <2>2. ASSUME NEW s \in running, holder[s] # 0, holder[s] = channel PROVE termId = s \/ s \notin known
    <3>1. s = Carries(channel) /\ channel \in Terminal!Chans /\ page[channel] \in {"opening", "opened"}
      BY <1>2, <2>2 DEF TerminalInv, ShellsAreHeld, OneChannel
    <3>2. page[channel] = "opened" => termId = s
      BY <2>2, <3>1 DEF TerminalInv, OneChannel
    <3>3. page[channel] = "opening" /\ resuming[channel] # 0 => termId = s
      BY <2>2, <3>1 DEF TerminalInv, OneChannel, Carries
    <3>4. page[channel] = "opening" /\ resuming[channel] = 0 => s \notin Heard
      BY <3>1 DEF Carries, Heard
    <3> QED BY <3>1, <3>2, <3>3, <3>4 DEF TerminalInv, HeardOf
  <2>3. ASSUME NEW s \in running PROVE termId = s \/ s \notin known \/ disposed = TRUE
    BY <2>2, <2>3 DEF TerminalInv, ShellsAreHeld
  <2>4. \A s \in running' : s \in Terminal!Chans /\ holder'[s] = 0
    BY <1>1 DEF TerminalInv, TerminalTypes
  <2>5. \A s \in running' : termId = s \/ s \notin known \/ disposed = TRUE
    BY <1>1, <2>1, <2>3
  <2> QED BY <1>1, <1>3, <2>4, <2>5 DEF ShellsAreHeld
<1> QED BY <1>5, <1>6, <1>7, <1>8, <1>9, <1>10 DEF TerminalInv

\* The terminal begins in its invariant.
LEMMA TerminalBegins == Terminal!Init => TerminalInv
<1> SUFFICES ASSUME Terminal!Init PROVE TerminalInv
  OBVIOUS
<1>1. 1 \in Terminal!Chans /\ 0 \notin Terminal!Chans
  BY ConstantsAssumption DEF Terminal!TerminalWindowAssumption, Terminal!Chans
<1>2. /\ isOpen = TRUE /\ disposed = FALSE /\ ended = FALSE /\ channel = 1 /\ termId = 0
      /\ awaitingReconnect = FALSE /\ page = [c \in Terminal!Chans |-> IF c = 1 THEN "opening" ELSE "unused"]
      /\ server = [c \in Terminal!Chans |-> IF c = 1 THEN "asked" ELSE "none"]
      /\ resuming = [c \in Terminal!Chans |-> 0] /\ wire = [c \in Terminal!Chans |-> <<>>]
      /\ running = {} /\ holder = [s \in Terminal!Chans |-> 0] /\ known = {}
  BY DEF Terminal!Init, Terminal!None, Terminal!Shells, Terminal!Chans
<1>3. TerminalTypes
  <2>1. <<>> \in Seq({"opened", "close"})
    OBVIOUS
  <2>2. wire \in [Terminal!Chans -> Seq({"opened", "close"})] /\ holder \in [Terminal!Chans -> {0} \cup Terminal!Chans]
    BY <1>2, <2>1
  <2>3. /\ page \in [Terminal!Chans -> {"unused", "opening", "opened", "closed"}]
        /\ server \in [Terminal!Chans -> {"none", "asked", "live", "done"}] /\ resuming \in [Terminal!Chans -> Nat]
    BY <1>2
  <2> QED BY <1>1, <1>2, <2>2, <2>3 DEF TerminalTypes
<1>4. OneChannel /\ ServerSays
  BY <1>1, <1>2 DEF OneChannel, ServerSays
<1> QED BY <1>1, <1>2, <1>3, <1>4 DEF TerminalInv, ServerServes, ShellsAreHeld, HeardOf

\* Every step of the terminal keeps its invariant.
LEMMA TerminalGoesOn == ~InHaste /\ TerminalInv /\ [Terminal!Next]_terminalVars => TerminalInv'
<1> SUFFICES ASSUME ~InHaste, TerminalInv, [Terminal!Next]_terminalVars PROVE TerminalInv'
  OBVIOUS
<1>1. CASE Terminal!Restart \/ Terminal!StartNew \/ Terminal!Destroy \/ Terminal!Reconnects
  BY <1>1, RestartKeeps, StartNewKeeps, DestroyKeeps, ReconnectsKeeps
<1>2. ASSUME NEW c \in Terminal!Chans, Terminal!Serves(c) \/ Terminal!HangsUp(c) \/ Terminal!ShellExits(c)
      PROVE  TerminalInv'
  BY <1>2, ServesKeeps, HangsUpKeeps, ShellExitsKeeps
<1>3. ASSUME NEW c \in Terminal!Chans, Terminal!Hears(c) PROVE TerminalInv'
  <2>1. CASE c = channel
    BY <1>3, <2>1, HearsOpenedKeeps, HearsCloseKeeps
  <2>2. CASE c # channel
    <3>1. /\ WindowStays /\ server' = server /\ running' = running /\ holder' = holder
          /\ wire[c] # <<>> /\ wire' = [wire EXCEPT ![c] = Tail(@)]
      BY <1>3, <2>2 DEF Terminal!Hears, Terminal!PageOpen, TerminalInv, OneChannel, WindowStays,
         Terminal!windowVars
    <3>2. /\ (wire'[c] = <<>> \/ (server[c] = "done" /\ wire'[c] = <<"close">>))
          /\ \A d \in Terminal!Chans : d # c => wire'[d] = wire[d]
          /\ wire' \in [Terminal!Chans -> Seq({"opened", "close"})]
      BY <3>1, WireShrinks
    <3>3. ServerSays'
      BY <3>1, <3>2 DEF TerminalInv, ServerSays, WindowStays
    <3> QED BY <3>1, <3>2, <3>3 DEF TerminalInv, TerminalTypes, OneChannel, ServerServes,
           ShellsAreHeld,
               HeardOf, Heard, Carries, WindowStays
  <2> QED BY <2>1, <2>2
<1>4. ASSUME NEW some \in SUBSET Terminal!Chans, Terminal!Drops(some) PROVE TerminalInv'
  BY <1>4, DropsKeeps
<1>5. CASE UNCHANGED terminalVars
  BY <1>5 DEF terminalVars, TerminalInv, TerminalTypes, OneChannel, ServerSays, ServerServes,
     ShellsAreHeld,
     HeardOf, Heard, Carries
<1> QED BY <1>1, <1>2, <1>3, <1>4, <1>5 DEF Terminal!Next

\* The invariant is what the property is about.
LEMMA TerminalHolds == TerminalInv => Terminal!EveryShellHasItsWindow
<1> SUFFICES ASSUME TerminalInv, NEW s \in running
             PROVE  \/ holder[s] # 0 /\ (holder[s] = channel \/ ~Terminal!PageOpen(holder[s]))
                    \/ holder[s] = 0 /\ (termId = s \/ s \notin known \/ disposed = TRUE)
  BY DEF Terminal!EveryShellHasItsWindow, Terminal!None
<1>1. holder[s] \in {0} \cup Terminal!Chans
  BY DEF TerminalInv, TerminalTypes
<1> QED BY <1>1 DEF TerminalInv, OneChannel, ShellsAreHeld, Terminal!PageOpen


\* A shell that runs is the one in the window, or is on its way out, or is waited for, when the
\* shell is not started anew while it is being picked up (terminal/index.ts 183-192 and 372-383).
THEOREM ShellsHaveWindows == ~InHaste => (Spec => []EveryShellHasItsWindow)
<1> SUFFICES ASSUME ~InHaste PROVE Spec => []EveryShellHasItsWindow
  OBVIOUS
<1>1. Terminal!Init => TerminalInv
  BY ConstantsAssumption, TerminalBegins
<1>2. TerminalInv /\ [Terminal!Next]_terminalVars => TerminalInv'
  BY ConstantsAssumption, TerminalGoesOn
<1>3. TerminalInv => EveryShellHasItsWindow
  BY TerminalHolds DEF EveryShellHasItsWindow
<1> QED BY <1>1, <1>2, <1>3, TerminalRuns, PTL
-----------------------------------------------------------------------------
(* The file chooser.                                                        *)

\* The chooser's variables have their types.
ChooserTypes ==
  /\ kind \in {"open", "save", "save-files", "folder"}
  /\ chooserAsked \subseteq [at : Folders, has : Chooser!Contents, got : BOOLEAN]
  /\ listing = Chooser!Unlisted \/ listing \in [at : Folders, has : Chooser!Contents]
  /\ nameTyped \in FileNames

\* What is selected is an entry of the folder shown, a directory where one is looked for.
PickedIsListed ==
  \A p \in picked : /\ p.at = listing.at /\ listing.has[p.name] \in {"file", "directory"}
                    /\ Chooser!PickingFolder => listing.has[p.name] = "directory"

\* What is asked about is a file to be saved.
ChooserInv ==
  /\ ChooserTypes
  /\ Chooser!AnswerWasSeen
  /\ answer = Chooser!Unanswered => PickedIsListed
  /\ confirming # Chooser!Nothing => kind = "save"

\* The chooser begins in its invariant.
LEMMA ChooserBegins == Chooser!Init => ChooserInv
<1> SUFFICES ASSUME Chooser!Init PROVE ChooserInv
  OBVIOUS
<1>1. Chooser!Empty \in Chooser!Contents
  BY DEF Chooser!Empty, Chooser!Contents
<1>2. ChooserTypes
  BY <1>1 DEF Chooser!Init, Chooser!Ask, ChooserTypes
<1>3. picked = {} /\ answer = Chooser!Unanswered /\ confirming = Chooser!Nothing
  BY DEF Chooser!Init
<1> QED BY <1>2, <1>3 DEF ChooserInv, PickedIsListed, Chooser!AnswerWasSeen, Chooser!Done

\* While it has no answer, what the chooser shows, selects and asks about keeps the invariant.
LEMMA ChooserKept ==
  ASSUME ChooserInv, ChooserTypes', answer = Chooser!Unanswered, answer' = answer, PickedIsListed',
         confirming' # Chooser!Nothing => kind' = "save"
  PROVE  ChooserInv'
  BY DEF ChooserInv, Chooser!AnswerWasSeen, Chooser!Done

\* An answer given leaves the dialog as it was.
LEMMA ChooserAnswered ==
  ASSUME ChooserInv, NEW places, Chooser!Finish(places), NEW c, confirming' = c,
         places # Chooser!Unanswered,
         c # Chooser!Nothing => kind = "save",
         \A p \in places :
           /\ kind = "open" => p.at = listing.at /\ listing.has[p.name] = "file"
           /\ Chooser!PickingFolder =>
                p.at = listing.at /\ (p.name = "none" \/ listing.has[p.name] = "directory")
           /\ kind = "save" /\ p.at = listing.at /\ listing.has[p.name] # "nothing" => p \in agreed'
  PROVE  ChooserInv'
<1>1. /\ answer' = places /\ kind' = kind /\ chooserAsked' = chooserAsked
      /\ listing' = listing /\ picked' = picked /\ hides' = hides /\ nameTyped' = nameTyped
  BY DEF Chooser!Finish
<1> QED BY <1>1 DEF ChooserInv, ChooserTypes, Chooser!AnswerWasSeen, Chooser!Done, Chooser!PickingFolder

\* Asking for another folder changes nothing that is shown.
LEMMA ChooserNavigates ==
  ASSUME ChooserInv, NEW f \in Folders, Chooser!Navigates(f)
  PROVE  ChooserInv'
<1> DEFINE a == Chooser!Ask(f)
<1>1. a \in [at : Folders, has : Chooser!Contents, got : BOOLEAN]
  BY DEF Chooser!Ask, Chooser!Empty, Chooser!Contents
<1>2. /\ chooserAsked' = chooserAsked \cup {a} /\ answer = Chooser!Unanswered /\ answer' = answer
      /\ kind' = kind /\ listing' = listing /\ picked' = picked
      /\ nameTyped' = nameTyped /\ confirming' = confirming
  BY DEF Chooser!Navigates, Chooser!Done
<1> HIDE DEF a
<1> QED BY <1>1, <1>2, ChooserKept DEF ChooserInv, ChooserTypes, PickedIsListed, Chooser!PickingFolder

\* Every step of the chooser keeps its invariant.
LEMMA ChooserGoesOn == ChooserInv /\ [Chooser!Next]_chooserVars => ChooserInv'
<1> SUFFICES ASSUME ChooserInv, [Chooser!Next]_chooserVars PROVE ChooserInv'
  OBVIOUS
<1> DEFINE Asked0 == [at : Folders, has : Chooser!Contents, got : BOOLEAN]
<1>1. /\ ChooserTypes /\ chooserAsked \subseteq Asked0
      /\ listing = Chooser!Unlisted \/ listing \in [at : Folders, has : Chooser!Contents]
      /\ confirming # Chooser!Nothing => kind = "save"
      /\ answer = Chooser!Unanswered => PickedIsListed
  BY DEF ChooserInv, ChooserTypes
<1>2. ASSUME NEW f \in Folders, Chooser!Navigates(f) PROVE ChooserInv'
  BY <1>2, ChooserNavigates
<1>4. ASSUME NEW a \in chooserAsked, NEW has \in Chooser!Contents, Chooser!ServerLists(a, has) PROVE ChooserInv'
  <2> DEFINE b == [at |-> a.at, has |-> has, got |-> TRUE]
  <2>1. b \in Asked0
    BY <1>1
  <2>2. /\ chooserAsked' = (chooserAsked \ {a}) \cup {b} /\ answer' = answer /\ agreed' = agreed
        /\ kind' = kind /\ listing' = listing /\ picked' = picked
        /\ nameTyped' = nameTyped /\ confirming' = confirming
    BY <1>4 DEF Chooser!ServerLists
  <2> HIDE DEF b
  <2>4. ChooserTypes'
    BY <1>1, <2>1, <2>2 DEF ChooserTypes
  <2> QED BY <2>2, <2>4 DEF ChooserInv, PickedIsListed, Chooser!PickingFolder, Chooser!AnswerWasSeen, Chooser!Done
<1>5. ASSUME NEW a \in chooserAsked, Chooser!Lists(a), answer = Chooser!Unanswered PROVE ChooserInv'
  <2> DEFINE l == [at |-> a.at, has |-> a.has]
  <2>1. l \in [at : Folders, has : Chooser!Contents]
    BY <1>1
  <2>2. /\ chooserAsked' = chooserAsked \ {a} /\ listing' = l /\ picked' = {} /\ answer' = answer
        /\ kind' = kind /\ nameTyped' = nameTyped /\ confirming' = confirming
    BY <1>5 DEF Chooser!Lists, Chooser!Done, Chooser!Cleared
  <2> HIDE DEF l
  <2> QED BY <1>1, <1>5, <2>1, <2>2, ChooserKept DEF ChooserTypes, PickedIsListed
<1>6. ASSUME NEW a \in chooserAsked,
             Chooser!ListFails(a) \/ (Chooser!Lists(a) /\ answer # Chooser!Unanswered)
      PROVE  ChooserInv'
  <2>1. /\ chooserAsked' = chooserAsked \ {a} /\ answer' = answer /\ agreed' = agreed
        /\ kind' = kind /\ listing' = listing /\ picked' = picked
        /\ nameTyped' = nameTyped /\ confirming' = confirming
    BY <1>6 DEF Chooser!ListFails, Chooser!Lists, Chooser!Done
  <2> QED BY <2>1 DEF ChooserInv, ChooserTypes, PickedIsListed, Chooser!PickingFolder, Chooser!AnswerWasSeen,
         Chooser!Done
<1>7. ASSUME NEW p \in Chooser!Visible, NEW extend \in BOOLEAN, Chooser!Picks(p, extend) PROVE ChooserInv'
  <2>1. PICK n \in FileNames :
          /\ p = Chooser!Place(listing.at, n)
          /\ listing.has[n] = "directory" \/ (listing.has[n] = "file" /\ ~Chooser!PickingFolder)
    BY DEF Chooser!Visible
  <2>2. p.at = listing.at /\ p.name = n
    BY <2>1 DEF Chooser!Place
  <2>3. /\ picked' \in {{p}, picked \ {p}, picked \cup {p}} /\ nameTyped' \in {n, nameTyped}
        /\ chooserAsked' = chooserAsked /\ answer = Chooser!Unanswered /\ answer' = answer
        /\ kind' = kind /\ listing' = listing /\ confirming' = confirming
    BY <1>7, <2>2 DEF Chooser!Picks, Chooser!Done
  <2>4. PickedIsListed'
    BY <1>1, <2>1, <2>2, <2>3 DEF PickedIsListed, Chooser!PickingFolder
  <2>5. ChooserTypes'
    BY <1>1, <2>3 DEF ChooserTypes
  <2> QED BY <1>1, <2>3, <2>4, <2>5, ChooserKept
<1>8. ASSUME NEW n \in FileNames, Chooser!Types(n) PROVE ChooserInv'
  <2>1. /\ nameTyped' = n /\ chooserAsked' = chooserAsked /\ answer = Chooser!Unanswered /\ answer' = answer
        /\ kind' = kind /\ listing' = listing /\ picked' = picked /\ confirming' = confirming
    BY <1>8 DEF Chooser!Types, Chooser!Done
  <2> QED BY <1>1, <2>1, ChooserKept DEF ChooserTypes, PickedIsListed, Chooser!PickingFolder
<1>9. ASSUME NEW ns \in SUBSET FileNames, Chooser!Filters(ns) PROVE ChooserInv'
  <2>1. /\ chooserAsked' = chooserAsked /\ answer = Chooser!Unanswered
        /\ answer' = answer /\ kind' = kind /\ listing' = listing /\ picked' = picked
        /\ nameTyped' = nameTyped /\ confirming' = confirming
    BY <1>9 DEF Chooser!Filters, Chooser!Done
  <2> QED BY <1>1, <2>1, ChooserKept DEF ChooserTypes, PickedIsListed, Chooser!PickingFolder
<1>10. CASE Chooser!AcceptsSave
  <2> DEFINE target == Chooser!Place(listing.at, nameTyped)
  <2>1. target.at = listing.at /\ target.name = nameTyped
    BY DEF Chooser!Place
  <2>2. CASE \E f \in Folders : Chooser!Navigates(f)
    BY <1>2, <2>2
  <2>3. CASE Chooser!Exists(target) /\ UNCHANGED <<kind, chooserAsked, chooserAsks, listing, picked, hides,
                                                   nameTyped, answer, agreed>>
    <3>1. kind = "save" /\ answer = Chooser!Unanswered
      BY <1>10 DEF Chooser!AcceptsSave, Chooser!CanAccept, Chooser!Done
    <3> QED BY <1>1, <2>3, <3>1, ChooserKept DEF ChooserTypes, PickedIsListed, Chooser!PickingFolder
  <2>4. CASE /\ ~Chooser!IsDirectory(target) /\ ~Chooser!Exists(target)
             /\ Chooser!Finish({target}) /\ confirming' = confirming
    <3>1. kind = "save" /\ listing # Chooser!Unlisted
      BY <1>10 DEF Chooser!AcceptsSave, Chooser!CanAccept
    <3>2. listing.has[nameTyped] \in {"nothing", "file", "directory"} /\ nameTyped \in FileNames
      BY <1>1, <3>1 DEF ChooserTypes, Chooser!Contents
    <3>3. listing.has[nameTyped] = "nothing"
      BY <2>1, <2>4, <3>2 DEF Chooser!IsDirectory, Chooser!Exists
    <3>4. {target} # Chooser!Unanswered
      BY <2>1, <3>2, ConstantsAssumption DEF Chooser!Unanswered, Chooser!Nothing, Chooser!FileChooserAssumption
    <3>5. ~Chooser!PickingFolder
      BY <3>1 DEF Chooser!PickingFolder
    <3> HIDE DEF target
    <3> QED BY <1>1, <2>1, <2>4, <3>1, <3>3, <3>4, <3>5, ChooserAnswered
  <2> QED BY <1>10, <2>2, <2>3, <2>4 DEF Chooser!AcceptsSave
<1>11. ASSUME NEW ok \in BOOLEAN, Chooser!Confirms(ok) PROVE ChooserInv'
  <2>1. CASE Chooser!Finish({confirming}) /\ agreed' = {confirming}
    <3>1. confirming # Chooser!Nothing /\ confirming' = Chooser!Nothing
      BY <1>11 DEF Chooser!Confirms
    <3>2. {confirming} # Chooser!Unanswered /\ kind = "save" /\ ~Chooser!PickingFolder
      BY <1>1, <3>1 DEF Chooser!Unanswered, Chooser!PickingFolder
    <3> QED BY <1>1, <2>1, <3>1, <3>2, ChooserAnswered
  <2>2. CASE UNCHANGED <<kind, chooserAsked, chooserAsks, listing, picked, hides, nameTyped, answer, agreed>>
    <3>1. confirming' = Chooser!Nothing
      BY <1>11 DEF Chooser!Confirms
    <3> QED BY <2>2, <3>1 DEF ChooserInv, ChooserTypes, PickedIsListed, Chooser!PickingFolder,
           Chooser!AnswerWasSeen, Chooser!Done
  <2> QED BY <1>11, <2>1, <2>2 DEF Chooser!Confirms
<1>12. CASE Chooser!AcceptsFolder
  <2>1. /\ Chooser!PickingFolder /\ listing # Chooser!Unlisted
        /\ confirming' = confirming /\ agreed' = agreed /\ kind \notin {"open", "save"}
    BY <1>12 DEF Chooser!AcceptsFolder, Chooser!CanAccept, Chooser!PickingFolder
  <2>2. CASE Chooser!Finish({Chooser!Place(listing.at, "none")})
    <3> DEFINE p == Chooser!Place(listing.at, "none")
    <3>1. p.at = listing.at /\ p.name = "none"
      BY DEF Chooser!Place
    <3>2. listing.at \in Folders
      BY <1>1, <2>1
    <3>3. {p} # Chooser!Unanswered
      BY <3>1, <3>2, ConstantsAssumption DEF Chooser!Unanswered, Chooser!Nothing, Chooser!FileChooserAssumption
    <3> HIDE DEF p
    <3> QED BY <1>1, <2>1, <2>2, <3>1, <3>3, ChooserAnswered DEF p
  <2>3. ASSUME NEW p \in picked, Chooser!IsDirectory(p), Chooser!Finish({p}) PROVE ChooserInv'
    <3>1. p.at = listing.at /\ listing.has[p.name] = "directory" /\ listing.at \in Folders
      BY <1>1, <2>1, <2>3 DEF Chooser!IsDirectory
    <3>2. {p} # Chooser!Unanswered
      <4>1. Chooser!Nothing.at = "none" /\ "none" \notin Folders
        BY ConstantsAssumption DEF Chooser!Nothing, Chooser!FileChooserAssumption
      <4>2. p # Chooser!Nothing
        BY <3>1, <4>1
      <4> QED BY <4>2 DEF Chooser!Unanswered
    <3> QED BY <1>1, <2>1, <2>3, <3>1, <3>2, ChooserAnswered
  <2> QED BY <1>12, <2>2, <2>3 DEF Chooser!AcceptsFolder
<1>13. CASE Chooser!AcceptsOpen
  <2> DEFINE files == {p \in picked : ~Chooser!IsDirectory(p)}
  <2>1. /\ kind = "open" /\ listing # Chooser!Unlisted /\ answer = Chooser!Unanswered
    BY <1>13 DEF Chooser!AcceptsOpen, Chooser!CanAccept, Chooser!Done
  <2>2. CASE \E f \in Folders : Chooser!Navigates(f)
    BY <1>2, <2>2
  <2>3. CASE Chooser!Finish(files) /\ confirming' = confirming
    <3>1. \A p \in files : p.at = listing.at /\ listing.has[p.name] = "file"
      BY <1>1, <2>1 DEF PickedIsListed, Chooser!IsDirectory
    <3>2. listing.at \in Folders
      BY <1>1, <2>1
    <3>3. files # Chooser!Unanswered
      <4>1. "none" \notin Folders
        BY ConstantsAssumption DEF Chooser!FileChooserAssumption
      <4>2. Chooser!Nothing \notin files
        <5> HIDE DEF files
        <5> QED BY <3>1, <3>2, <4>1 DEF Chooser!Nothing
      <4>3. Chooser!Nothing \in Chooser!Unanswered
        BY DEF Chooser!Unanswered
      <4> HIDE DEF files
      <4> QED BY <4>2, <4>3
    <3>4. ~Chooser!PickingFolder /\ kind # "save"
      BY <2>1 DEF Chooser!PickingFolder
    <3> HIDE DEF files
    <3> QED BY <1>1, <2>1, <2>3, <3>1, <3>3, <3>4, ChooserAnswered
  <2> QED BY <1>13, <2>2, <2>3 DEF Chooser!AcceptsOpen
<1>14. CASE Chooser!Cancels
  <2>1. Chooser!Finish({}) /\ confirming' = confirming /\ {} # Chooser!Unanswered
    BY <1>14 DEF Chooser!Cancels, Chooser!Unanswered
  <2> QED BY <1>1, <2>1, ChooserAnswered
<1>15. CASE UNCHANGED chooserVars
  BY <1>15 DEF chooserVars, ChooserInv, ChooserTypes, PickedIsListed, Chooser!PickingFolder,
     Chooser!AnswerWasSeen, Chooser!Done
<1>16. ASSUME NEW a \in chooserAsked, Chooser!Lists(a) PROVE ChooserInv'
  BY <1>5, <1>6, <1>16
<1> QED BY <1>2, <1>4, <1>6, <1>7, <1>8, <1>9, <1>10, <1>11, <1>12, <1>13, <1>14, <1>15, <1>16
      DEF Chooser!Next

-----------------------------------------------------------------------------
(* The file dialogs' requests.                                              *)

Codes == {"ended", "success", "cancelled"}
Downs == {"portal", "portal-close"} \X Requests

\* The portal's variables have their types.
PortalTypes ==
  /\ proxied \in BOOLEAN /\ portalClosed \in BOOLEAN /\ attaches \in Nat
  /\ request \in [Requests -> {"unmade", "looking", "pending", "over"}]
  /\ sender \in [Requests -> Senders] /\ here \subseteq Senders
  /\ heard \in [Requests -> Seq(Codes)]
  /\ down \in Seq(Downs) /\ up \in Seq(Requests \X Codes) /\ choosers \subseteq Requests

\* Who asks is answered once, and while there is a proxy who is waited for is there.
RequestsAnswered ==
  \A r \in Requests :
    /\ Len(heard[r]) <= 1
    /\ request[r] # "over" => heard[r] = <<>>
    /\ request[r] = "over" /\ sender[r] \in here => heard[r] # <<>>
    /\ proxied = TRUE => request[r] # "looking" /\ (request[r] = "pending" => sender[r] \in here)

\* The answers a window has sent are of dialogs it no longer has.
AnswersUnderWay ==
  \A k \in 1..Len(up) :
    /\ up[k][1] \notin choosers /\ request[up[k][1]] \in {"pending", "over"}
    /\ \A i \in 1..Len(down) : down[i] # Portal!Deliver(up[k][1])

\* What is under way to a window opens each dialog once, and takes it down after that
\* where its request is over.
DialogsUnderWay ==
  \A r \in Requests, i \in 1..Len(down) :
    /\ down[i] = Portal!Deliver(r) =>
         /\ r \notin choosers /\ request[r] \in {"pending", "over"}
         /\ \A j \in 1..Len(down) : down[j] = Portal!Deliver(r) => j = i
         /\ request[r] = "over" => \E j \in 1..Len(down) : i < j /\ down[j] = Portal!Dismiss(r)
    /\ down[i] = Portal!Dismiss(r) =>
         /\ request[r] = "over"
         /\ \A j \in 1..Len(down) : i < j => down[j] # Portal!Deliver(r)

\* Of a dialog that is not to be opened the window is right.
DialogsShown ==
  \A r \in Requests :
    /\ request[r] = "pending" /\ (\A i \in 1..Len(down) : down[i] # Portal!Deliver(r)) =>
         r \in choosers \/ \E k \in 1..Len(up) : up[k][1] = r
    /\ r \in choosers => /\ request[r] \in {"pending", "over"}
                         /\ request[r] = "over" => \E i \in 1..Len(down) : down[i] = Portal!Dismiss(r)

\* While a window has the session, what is under way is in order; while none has, nothing is.
WindowInOrder ==
  /\ Portal!Attached /\ portalClosed = FALSE => AnswersUnderWay /\ DialogsUnderWay /\ DialogsShown
  /\ ~Portal!Attached => down = <<>> /\ up = <<>>

\* The invariant of the requests.
PortalInv == PortalTypes /\ RequestsAnswered /\ WindowInOrder

\* A message is of one kind and of one request.
LEMMA Messages ==
  /\ \A r \in Requests : Portal!Deliver(r) \in Downs /\ Portal!Dismiss(r) \in Downs
  /\ \A r, q \in Requests : /\ Portal!Deliver(r) # Portal!Dismiss(q)
                            /\ Portal!Deliver(r) = Portal!Deliver(q) => r = q
                            /\ Portal!Dismiss(r) = Portal!Dismiss(q) => r = q
  /\ \A m \in Downs : \E r \in Requests :
       /\ m[2] = r
       /\ m[1] = "portal" => m = Portal!Deliver(r)
       /\ m[1] # "portal" => m = Portal!Dismiss(r)
  BY DEF Portal!Deliver, Portal!Dismiss, Downs

\* What is sent comes after what is under way.
Follow(q, ms, s) ==
  /\ 1..Len(q) \subseteq 1..Len(s) /\ \A i \in 1..Len(q) : s[i] = q[i]
  /\ \A j \in 1..Len(ms) : \E i \in 1..Len(s) : s[i] = ms[j] /\ \A k \in 1..Len(q) : k < i
  /\ \A i \in 1..Len(s) : i \in 1..Len(q) \/
       \E j \in 1..Len(ms) : s[i] = ms[j] /\ i = Len(q) + j /\ \A k \in 1..Len(q) : k < i

\* That is what joining two sequences does.
LEMMA SentOn ==
  ASSUME NEW q \in Seq(Downs), NEW ms \in Seq(Downs)
  PROVE  q \o ms \in Seq(Downs) /\ Follow(q, ms, q \o ms)
<1> DEFINE s == q \o ms  m == Len(q)  n == Len(ms)
<1>1. m \in Nat /\ n \in Nat
  BY LenProperties
<1>2. s \in Seq(Downs) /\ Len(s) = m + n /\ \A i \in 1..(m + n) : s[i] = IF i <= m THEN q[i] ELSE ms[i - m]
  BY ConcatProperties
<1> HIDE DEF s, m, n
<1>3. ASSUME NEW j \in 1..n PROVE m + j \in 1..(m + n) /\ s[m + j] = ms[j] /\ \A k \in 1..m : k < m + j
  <2>1. m + j \in 1..(m + n) /\ ~(m + j <= m) /\ (m + j) - m = j
    BY <1>1
  <2> QED BY <1>1, <1>2, <2>1
<1>4. ASSUME NEW i \in 1..(m + n), i \notin 1..m
      PROVE  \E j \in 1..n : i = m + j
  <2>1. i - m \in 1..n /\ i = m + (i - m)
    BY <1>1, <1>4
  <2> QED BY <2>1
<1>5. \A i \in 1..m : i \in 1..(m + n) /\ s[i] = q[i]
  BY <1>1, <1>2
<1>6. ASSUME NEW i \in 1..(m + n), i \notin 1..m
      PROVE  \E j \in 1..n : s[i] = ms[j] /\ i = m + j /\ \A k \in 1..m : k < i
  BY <1>3, <1>4, <1>6
<1>7. \A j \in 1..n : \E i \in 1..Len(s) : s[i] = ms[j] /\ \A k \in 1..m : k < i
  BY <1>2, <1>3
<1>8. \A i \in 1..Len(s) : i \in 1..m \/ \E j \in 1..n : s[i] = ms[j] /\ i = m + j /\ \A k \in 1..m : k < i
  BY <1>2, <1>6
<1> QED BY <1>2, <1>5, <1>7, <1>8 DEF Follow, s, m, n

\* Requests end, and their dialogs are taken down after what is under way.
LEMMA DismissalsSent ==
  ASSUME PortalTypes, AnswersUnderWay, DialogsUnderWay, DialogsShown,
         NEW rs \in SUBSET Requests, \A r \in rs : request[r] = "pending",
         \A r \in Requests : request'[r] = IF r \in rs THEN "over" ELSE request[r],
         NEW ms \in Seq(Downs), down' = down \o ms, up' = up, choosers' = choosers,
         \A j \in 1..Len(ms) : \E r \in rs : ms[j] = Portal!Dismiss(r),
         \A r \in rs : \E j \in 1..Len(ms) : ms[j] = Portal!Dismiss(r)
  PROVE  AnswersUnderWay' /\ DialogsUnderWay' /\ DialogsShown'
<1> DEFINE m == Len(down)  n == Len(down')
<1>9. down \in Seq(Downs) /\ \A i \in 1..m : down[i] \in Downs
  BY ElementOfSeq DEF PortalTypes
<1>10. /\ 1..m \subseteq 1..n /\ \A i \in 1..m : down'[i] = down[i]
       /\ \A j \in 1..Len(ms) : \E i \in 1..n : down'[i] = ms[j] /\ \A k \in 1..m : k < i
       /\ \A i \in 1..n : i \in 1..m \/
            \E j \in 1..Len(ms) : down'[i] = ms[j] /\ i = m + j /\ \A k \in 1..m : k < i
  <2>1. Follow(down, ms, down')
    BY <1>9, SentOn
  <2> QED BY <2>1 DEF Follow
<1>1. /\ 1..m \subseteq 1..n /\ \A i \in 1..m : down'[i] = down[i] /\ down[i] \in Downs
      /\ \A r \in rs : \E i \in 1..n : down'[i] = Portal!Dismiss(r) /\ \A k \in 1..m : k < i
      /\ \A i \in 1..n : i \in 1..m \/ \E r \in rs : down'[i] = Portal!Dismiss(r) /\ \A k \in 1..m : k < i
  <2> HIDE DEF m, n
  <2>1. ASSUME NEW r \in rs PROVE \E i \in 1..n : down'[i] = Portal!Dismiss(r) /\ \A k \in 1..m : k < i
    <3>1. PICK j \in 1..Len(ms) : ms[j] = Portal!Dismiss(r)
      OBVIOUS
    <3>2. PICK i \in 1..n : down'[i] = ms[j] /\ \A k \in 1..m : k < i
      BY <1>10
    <3> QED BY <3>1, <3>2
  <2>2. ASSUME NEW i \in 1..n, i \notin 1..m
        PROVE  \E r \in rs : down'[i] = Portal!Dismiss(r) /\ \A k \in 1..m : k < i
    <3>1. PICK j \in 1..Len(ms) : down'[i] = ms[j] /\ i = m + j /\ \A k \in 1..m : k < i
      BY <1>10, <2>2
    <3>2. PICK r \in rs : ms[j] = Portal!Dismiss(r)
      OBVIOUS
    <3> QED BY <3>1, <3>2
  <2> QED BY <1>9, <1>10, <2>1, <2>2
<1>2. \A k \in 1..Len(up) : up[k][1] \in Requests
  BY ElementOfSeq DEF PortalTypes
<1>3. \A r, q \in Requests : /\ Portal!Deliver(r) # Portal!Dismiss(q)
                             /\ Portal!Dismiss(r) = Portal!Dismiss(q) => r = q
  BY Messages
<1>4. \A r \in Requests, i \in 1..n : down'[i] = Portal!Deliver(r) => i \in 1..m /\ down[i] = Portal!Deliver(r)
  <2> HIDE DEF m, n
  <2> SUFFICES ASSUME NEW r \in Requests, NEW i \in 1..n, down'[i] = Portal!Deliver(r)
               PROVE  i \in 1..m /\ down[i] = Portal!Deliver(r)
    OBVIOUS
  <2>1. \A z \in rs : down'[i] # Portal!Dismiss(z)
    BY <1>3
  <2> QED BY <1>1, <2>1
<1> HIDE DEF m, n
<1>5. AnswersUnderWay'
  <2>1. ASSUME NEW k \in 1..Len(up)
        PROVE  /\ up[k][1] \notin choosers /\ request'[up[k][1]] \in {"pending", "over"}
               /\ \A i \in 1..n : down'[i] # Portal!Deliver(up[k][1])
    <3> DEFINE r == up[k][1]
    <3>1. r \in Requests
      BY <1>2
    <3>2. /\ r \notin choosers /\ request[r] \in {"pending", "over"}
          /\ \A i \in 1..m : down[i] # Portal!Deliver(r)
      BY DEF AnswersUnderWay, m
    <3> HIDE DEF r
    <3>3. \A i \in 1..n : down'[i] # Portal!Deliver(r)
      BY <1>4, <3>1, <3>2
    <3>4. request'[r] \in {"pending", "over"}
      BY <3>1, <3>2
    <3> QED BY <3>2, <3>3, <3>4 DEF r
  <2> QED BY <2>1 DEF AnswersUnderWay, n
<1>6. DialogsUnderWay'
  <2>1. ASSUME NEW r \in Requests, NEW i \in 1..n, down'[i] = Portal!Deliver(r)
        PROVE  /\ r \notin choosers /\ request'[r] \in {"pending", "over"}
               /\ \A j \in 1..n : down'[j] = Portal!Deliver(r) => j = i
               /\ request'[r] = "over" => \E j \in 1..n : i < j /\ down'[j] = Portal!Dismiss(r)
    <3>1. i \in 1..m /\ down[i] = Portal!Deliver(r)
      BY <1>4, <2>1
    <3>2. /\ r \notin choosers /\ request[r] \in {"pending", "over"}
          /\ \A j \in 1..m : down[j] = Portal!Deliver(r) => j = i
          /\ request[r] = "over" => \E j \in 1..m : i < j /\ down[j] = Portal!Dismiss(r)
      BY <3>1 DEF DialogsUnderWay, m
    <3>3. r \in rs => \E j \in 1..n : i < j /\ down'[j] = Portal!Dismiss(r)
      BY <1>1, <3>1
    <3>4. r \notin rs /\ request'[r] = "over" => \E j \in 1..n : i < j /\ down'[j] = Portal!Dismiss(r)
      BY <1>1, <3>2
    <3> QED BY <1>4, <3>2, <3>3, <3>4
  <2>2. ASSUME NEW r \in Requests, NEW i \in 1..n, down'[i] = Portal!Dismiss(r)
        PROVE  request'[r] = "over" /\ \A j \in 1..n : i < j => down'[j] # Portal!Deliver(r)
    <3>1. CASE i \in 1..m
      <4>1. request[r] = "over" /\ \A j \in 1..m : i < j => down[j] # Portal!Deliver(r)
        BY <1>1, <2>2, <3>1 DEF DialogsUnderWay, m
      <4> QED BY <1>4, <4>1
    <3>2. CASE i \notin 1..m
      <4>1. r \in rs /\ \A k \in 1..m : k < i
        <5>1. PICK z \in rs : down'[i] = Portal!Dismiss(z) /\ \A k \in 1..m : k < i
          BY <1>1, <3>2
        <5>2. Portal!Dismiss(z) = Portal!Dismiss(r) /\ z \in Requests
          BY <2>2, <5>1
        <5>3. z = r
          BY <1>3, <5>2
        <5> QED BY <5>1, <5>3
      <4>2. \A j \in 1..m : ~(i < j)
        BY <4>1 DEF m
      <4> QED BY <1>4, <4>1, <4>2
    <3> QED BY <3>1, <3>2
  <2>3. ASSUME NEW r \in Requests, NEW i \in 1..n
        PROVE  /\ down'[i] = Portal!Deliver(r) =>
                    /\ r \notin choosers' /\ request'[r] \in {"pending", "over"}
                    /\ \A j \in 1..n : down'[j] = Portal!Deliver(r) => j = i
                    /\ request'[r] = "over" => \E j \in 1..n : i < j /\ down'[j] = Portal!Dismiss(r)
               /\ down'[i] = Portal!Dismiss(r) =>
                    request'[r] = "over" /\ \A j \in 1..n : i < j => down'[j] # Portal!Deliver(r)
    BY <2>1, <2>2
  <2> QED BY <2>3 DEF DialogsUnderWay, n
<1>7. DialogsShown'
  <2>1. ASSUME NEW r \in Requests, request'[r] = "pending", \A i \in 1..n : down'[i] # Portal!Deliver(r)
        PROVE  r \in choosers \/ \E k \in 1..Len(up) : up[k][1] = r
    <3>1. request[r] = "pending" /\ \A i \in 1..m : down[i] # Portal!Deliver(r)
      BY <1>1, <2>1
    <3> QED BY <3>1 DEF DialogsShown, m
  <2>2. ASSUME NEW r \in Requests, r \in choosers
        PROVE  /\ request'[r] \in {"pending", "over"}
               /\ request'[r] = "over" => \E i \in 1..n : down'[i] = Portal!Dismiss(r)
    <3>1. /\ request[r] \in {"pending", "over"}
          /\ request[r] = "over" => \E i \in 1..m : down[i] = Portal!Dismiss(r)
      BY <2>2 DEF DialogsShown, m
    <3> QED BY <1>1, <3>1
  <2> QED BY <2>1, <2>2 DEF DialogsShown, n
<1> QED BY <1>5, <1>6, <1>7

\* A request is passed on to the window.
LEMMA DeliverySent ==
  ASSUME PortalTypes, AnswersUnderWay, DialogsUnderWay, DialogsShown,
         NEW q \in Requests, request[q] \in {"unmade", "looking"},
         \A r \in Requests : request'[r] = IF r = q THEN "pending" ELSE request[r],
         down' = down \o <<Portal!Deliver(q)>>, up' = up, choosers' = choosers
  PROVE  AnswersUnderWay' /\ DialogsUnderWay' /\ DialogsShown'
<1> DEFINE m == Len(down)  n == Len(down')  ms == <<Portal!Deliver(q)>>
<1>1. ms \in Seq(Downs) /\ Len(ms) = 1 /\ ms[1] = Portal!Deliver(q)
  BY Messages
<1>9. down \in Seq(Downs) /\ \A i \in 1..m : down[i] \in Downs
  BY ElementOfSeq DEF PortalTypes
<1>10. /\ 1..m \subseteq 1..n /\ \A i \in 1..m : down'[i] = down[i]
       /\ \A j \in 1..Len(ms) : \E i \in 1..n : down'[i] = ms[j] /\ \A k \in 1..m : k < i
       /\ \A i \in 1..n : i \in 1..m \/
            \E j \in 1..Len(ms) : down'[i] = ms[j] /\ i = m + j /\ \A k \in 1..m : k < i
  <2>1. Follow(down, ms, down')
    BY <1>1, <1>9, SentOn
  <2> QED BY <2>1 DEF Follow
<1> HIDE DEF ms
<1>2. /\ 1..m \subseteq 1..n /\ \A i \in 1..m : down'[i] = down[i] /\ down[i] \in Downs
      /\ \E i \in 1..n : down'[i] = Portal!Deliver(q)
      /\ \A i \in 1..n : i \in 1..m \/ (down'[i] = Portal!Deliver(q) /\ i = m + 1 /\ \A k \in 1..m : k < i)
  <2>1. 1 \in 1..Len(ms) /\ \A j \in 1..Len(ms) : j = 1
    BY <1>1
  <2> HIDE DEF m, n
  <2>2. PICK i \in 1..n : down'[i] = ms[1] /\ \A k \in 1..m : k < i
    BY <1>10, <2>1
  <2>3. ASSUME NEW l \in 1..n, l \notin 1..m
        PROVE  down'[l] = Portal!Deliver(q) /\ l = m + 1 /\ \A k \in 1..m : k < l
    <3>1. PICK j \in 1..Len(ms) : down'[l] = ms[j] /\ l = m + j /\ \A k \in 1..m : k < l
      BY <1>10, <2>3
    <3> QED BY <1>1, <2>1, <3>1
  <2> QED BY <1>1, <1>9, <1>10, <2>2, <2>3
<1>3. \A k \in 1..Len(up) : up[k][1] \in Requests
  BY ElementOfSeq DEF PortalTypes
<1>4. \A r, z \in Requests : /\ Portal!Deliver(r) # Portal!Dismiss(z)
                             /\ Portal!Deliver(r) = Portal!Deliver(z) => r = z
  BY Messages
<1>5. /\ q \notin choosers /\ \A k \in 1..Len(up) : up[k][1] # q
      /\ \A i \in 1..m : down[i] # Portal!Deliver(q) /\ down[i] # Portal!Dismiss(q)
  BY <1>3 DEF AnswersUnderWay, DialogsUnderWay, DialogsShown
<1> HIDE DEF m, n
<1>6. AnswersUnderWay'
  <2>1. ASSUME NEW k \in 1..Len(up)
        PROVE  /\ up[k][1] \notin choosers /\ request'[up[k][1]] \in {"pending", "over"}
               /\ \A i \in 1..n : down'[i] # Portal!Deliver(up[k][1])
    <3>1. /\ up[k][1] \notin choosers /\ request[up[k][1]] \in {"pending", "over"}
          /\ \A i \in 1..m : down[i] # Portal!Deliver(up[k][1])
      BY DEF AnswersUnderWay, m
    <3> QED BY <1>2, <1>3, <1>4, <1>5, <3>1
  <2> QED BY <2>1 DEF AnswersUnderWay, n
<1>7. DialogsUnderWay'
  <2>1. ASSUME NEW r \in Requests, NEW i \in 1..n, down'[i] = Portal!Deliver(r)
        PROVE  /\ r \notin choosers /\ request'[r] \in {"pending", "over"}
               /\ \A j \in 1..n : down'[j] = Portal!Deliver(r) => j = i
               /\ request'[r] = "over" => \E j \in 1..n : i < j /\ down'[j] = Portal!Dismiss(r)
    <3>1. CASE r = q
      BY <1>2, <1>5, <2>1, <3>1
    <3>2. CASE r # q
      <4>1. i \in 1..m /\ down[i] = Portal!Deliver(r)
        BY <1>2, <1>4, <2>1, <3>2
      <4>2. /\ r \notin choosers /\ request[r] \in {"pending", "over"}
            /\ \A j \in 1..m : down[j] = Portal!Deliver(r) => j = i
            /\ request[r] = "over" => \E j \in 1..m : i < j /\ down[j] = Portal!Dismiss(r)
        BY <4>1 DEF DialogsUnderWay, m
      <4> QED BY <1>2, <1>4, <3>2, <4>2
    <3> QED BY <3>1, <3>2
  <2>2. ASSUME NEW r \in Requests, NEW i \in 1..n, down'[i] = Portal!Dismiss(r)
        PROVE  request'[r] = "over" /\ \A j \in 1..n : i < j => down'[j] # Portal!Deliver(r)
    <3>1. i \in 1..m /\ down[i] = Portal!Dismiss(r)
      BY <1>2, <1>4, <2>2
    <3>2. r # q /\ request[r] = "over" /\ \A j \in 1..m : i < j => down[j] # Portal!Deliver(r)
      BY <1>5, <3>1 DEF DialogsUnderWay, m
    <3> QED BY <1>2, <1>4, <3>2
  <2> QED BY <2>1, <2>2 DEF DialogsUnderWay, n
<1>8. DialogsShown'
  <2>1. ASSUME NEW r \in Requests, request'[r] = "pending", \A i \in 1..n : down'[i] # Portal!Deliver(r)
        PROVE  r \in choosers \/ \E k \in 1..Len(up) : up[k][1] = r
    <3>1. r # q /\ request[r] = "pending" /\ \A i \in 1..m : down[i] # Portal!Deliver(r)
      BY <1>2, <2>1
    <3> QED BY <3>1 DEF DialogsShown, m
  <2>2. ASSUME NEW r \in Requests, r \in choosers
        PROVE  /\ request'[r] \in {"pending", "over"}
               /\ request'[r] = "over" => \E i \in 1..n : down'[i] = Portal!Dismiss(r)
    <3>1. /\ request[r] \in {"pending", "over"} /\ r # q
          /\ request[r] = "over" => \E i \in 1..m : down[i] = Portal!Dismiss(r)
      BY <1>5, <2>2 DEF DialogsShown, m
    <3> QED BY <1>2, <3>1
  <2> QED BY <2>1, <2>2 DEF DialogsShown, n
<1> QED BY <1>6, <1>7, <1>8

\* Requests end: who asked is answered, or is there no more.
LEMMA EndedOnce ==
  ASSUME PortalTypes, RequestsAnswered, NEW rs \in SUBSET Requests, \A r \in rs : request[r] = "pending",
         Portal!Ended(rs), NEW code \in Codes, heard' \in [Requests -> Seq(Codes)],
         \A r \in Requests : \/ heard'[r] = heard[r] /\ (r \in rs => sender[r] \notin here')
                             \/ r \in rs /\ heard'[r] = Append(heard[r], code),
         sender' = sender, proxied' = proxied, here' \subseteq here,
         proxied = TRUE => \A r \in Requests : request'[r] = "pending" => sender[r] \in here'
  PROVE  RequestsAnswered'
<1>1. \A r \in Requests : request'[r] = IF r \in rs THEN "over" ELSE request[r]
  BY DEF Portal!Ended
<1>2. ASSUME NEW r \in rs, heard'[r] = Append(heard[r], code)
      PROVE  Len(heard'[r]) <= 1 /\ heard'[r] # <<>>
  <2>1. heard[r] = <<>> /\ heard[r] \in Seq(Codes)
    BY <1>2 DEF RequestsAnswered, PortalTypes
  <2>2. Len(Append(heard[r], code)) = Len(heard[r]) + 1 /\ Len(<<>>) = 0
    BY <2>1, AppendProperties, EmptySeq
  <2> QED BY <1>2, <2>1, <2>2
<1>3. ASSUME NEW r \in Requests
      PROVE  /\ Len(heard'[r]) <= 1
             /\ request'[r] # "over" => heard'[r] = <<>>
             /\ request'[r] = "over" /\ sender[r] \in here' => heard'[r] # <<>>
             /\ proxied = TRUE => request'[r] # "looking" /\ (request'[r] = "pending" => sender[r] \in here')
  <2>1. CASE r \in rs /\ heard'[r] = Append(heard[r], code)
    BY <1>1, <1>2, <2>1
  <2>2. CASE r \in rs /\ heard'[r] = heard[r] /\ sender[r] \notin here'
    BY <1>1, <2>2 DEF RequestsAnswered
  <2>3. CASE r \notin rs
    BY <1>1, <2>3 DEF RequestsAnswered
  <2> QED BY <2>1, <2>2, <2>3
<1> QED BY <1>3 DEF RequestsAnswered

\* A response is one more message to whom it concerns, if that is there.
LEMMA Responded ==
  ASSUME PortalTypes, NEW rs \in SUBSET Requests, NEW code \in Codes, Portal!Response(rs, code)
  PROVE  /\ heard' \in [Requests -> Seq(Codes)]
         /\ \A r \in Requests : \/ heard'[r] = heard[r] /\ (r \in rs => sender[r] \notin here)
                                \/ r \in rs /\ heard'[r] = Append(heard[r], code)
<1>1. \A r \in Requests : heard[r] \in Seq(Codes) /\ Append(heard[r], code) \in Seq(Codes)
  BY AppendProperties DEF PortalTypes
<1>2. heard' = [r \in Requests |-> IF r \in rs /\ sender[r] \in here THEN Append(heard[r], code) ELSE heard[r]]
  BY DEF Portal!Response
<1> QED BY <1>1, <1>2

\* The members of a set in turn are a sequence that has each of them once.
LEMMA InTurnOnce ==
  ASSUME NEW rs \in SUBSET Requests, NEW q \in Portal!InTurn(rs)
  PROVE  /\ Len(q) \in Nat /\ \A k \in 1..Len(q) : q[k] \in rs
         /\ \A r \in rs : \E k \in 1..Len(q) : q[k] = r /\ \A j \in 1..Len(q) : q[j] = r => j = k
<1>1. PICK n \in 0..Portal!Cardinality(rs) : q \in [1..n -> rs]
  BY DEF Portal!InTurn
<1>2. n \in Nat
  BY <1>1
<1>3. Len(q) = n /\ DOMAIN q = 1..n
  BY <1>1, <1>2
<1>4. \A r \in rs : \E k \in DOMAIN q : q[k] = r /\ \A j \in DOMAIN q : q[j] = r => j = k
  BY DEF Portal!InTurn
<1> QED BY <1>1, <1>2, <1>3, <1>4

\* The dialogs of requests that end are taken down, of the window there is.
LEMMA DismissedAll ==
  ASSUME PortalTypes, WindowInOrder, NEW rs \in SUBSET Requests, \A r \in rs : request[r] = "pending",
         Portal!Ended(rs), Portal!DismissAll(rs), UNCHANGED <<up, choosers, attaches>>,
         portalClosed' = portalClosed \/ portalClosed' = TRUE
  PROVE  down' \in Seq(Downs) /\ WindowInOrder'
<1>1. PICK q \in Portal!InTurn(rs) : Portal!Send([k \in 1..Len(q) |-> Portal!Dismiss(q[k])])
  BY DEF Portal!DismissAll
<1> DEFINE ms == [k \in 1..Len(q) |-> Portal!Dismiss(q[k])]
<1>2. /\ Len(q) \in Nat /\ \A k \in 1..Len(q) : q[k] \in rs
      /\ \A r \in rs : \E k \in 1..Len(q) : q[k] = r
  BY InTurnOnce
<1>3. ms \in Seq(Downs) /\ Len(ms) = Len(q) /\ \A k \in 1..Len(q) : ms[k] = Portal!Dismiss(q[k])
  <2>1. \A k \in 1..Len(q) : Portal!Dismiss(q[k]) \in Downs
    BY <1>2, Messages
  <2> QED BY <1>2, <2>1
<1>4. /\ \A j \in 1..Len(ms) : \E r \in rs : ms[j] = Portal!Dismiss(r)
      /\ \A r \in rs : \E j \in 1..Len(ms) : ms[j] = Portal!Dismiss(r)
  <2> HIDE DEF ms
  <2> QED BY <1>2, <1>3
<1>5. down' = IF Portal!Attached THEN down \o ms ELSE down
  BY <1>1 DEF Portal!Send
<1> HIDE DEF ms
<1>6. \A r \in Requests : request'[r] = IF r \in rs THEN "over" ELSE request[r]
  BY DEF Portal!Ended
<1>7. down' \in Seq(Downs)
  BY <1>3, <1>5, SentOn DEF PortalTypes
<1>8. CASE Portal!Attached /\ portalClosed' = FALSE
  <2>1. portalClosed = FALSE /\ AnswersUnderWay /\ DialogsUnderWay /\ DialogsShown
    BY <1>8 DEF WindowInOrder
  <2>2. AnswersUnderWay' /\ DialogsUnderWay' /\ DialogsShown'
    BY <1>3, <1>4, <1>5, <1>6, <1>8, <2>1, DismissalsSent
  <2> QED BY <1>7, <1>8, <2>2 DEF WindowInOrder, Portal!Attached
<1>9. CASE ~(Portal!Attached /\ portalClosed' = FALSE)
  BY <1>5, <1>7, <1>9 DEF WindowInOrder, Portal!Attached
<1> QED BY <1>8, <1>9

\* The window picks a session up that it has let go, and lets go one that it has.
LEMMA AttachesInTurn ==
  ASSUME attaches \in Nat, attaches' = attaches + 1
  PROVE  Portal!Attached' <=> ~Portal!Attached
<1>1. ASSUME NEW n \in Nat PROVE n % 2 = 1 <=> (n + 1) % 2 # 1
  OBVIOUS
<1> QED BY <1>1 DEF Portal!Attached

\* The session hears an answer.
LEMMA ServerReadsKeeps ==
  ASSUME PortalInv, Portal!ServerReads
  PROVE  PortalInv'
<1> DEFINE r == up[1][1]  code == up[1][2]  rs == {r} \cap Portal!Pending
<1>1. /\ up # <<>> /\ up' = Tail(up) /\ proxied' = proxied /\ sender' = sender /\ here' = here
      /\ portalClosed' = portalClosed /\ down' = down /\ choosers' = choosers /\ attaches' = attaches
  BY DEF Portal!ServerReads
<1>2. PortalTypes /\ RequestsAnswered /\ up \in Seq(Requests \X Codes)
  BY DEF PortalInv, PortalTypes
<1>3. /\ Head(up) = up[1] /\ up[1] \in Requests \X Codes /\ up' \in Seq(Requests \X Codes) /\ Len(up) \in Nat \ {0}
      /\ Len(up') = Len(up) - 1 /\ \A k \in 1..(Len(up) - 1) : up'[k] = up[k + 1]
  BY <1>1, <1>2, WithoutFirst
<1>4. r \in Requests /\ code \in Codes
  BY <1>3
<1>5. Portal!Response(rs, code) /\ Portal!Ended(rs)
  BY <1>3 DEF Portal!ServerReads, Portal!Responds
<1> HIDE DEF r, code
<1>6. rs \in SUBSET Requests /\ \A z \in rs : request[z] = "pending"
  BY DEF Portal!Pending
<1>7. \A z \in Requests : request'[z] = IF z \in rs THEN "over" ELSE request[z]
  BY <1>5 DEF Portal!Ended
<1>8. \A z \in Requests : request'[z] = IF z = r /\ request[z] = "pending" THEN "over" ELSE request[z]
  BY <1>7 DEF Portal!Pending
<1>9. /\ heard' \in [Requests -> Seq(Codes)]
      /\ \A z \in Requests : \/ heard'[z] = heard[z] /\ (z \in rs => sender[z] \notin here)
                             \/ z \in rs /\ heard'[z] = Append(heard[z], code)
  <2> HIDE DEF rs
  <2> QED BY <1>2, <1>4, <1>5, <1>6, Responded
<1>10. RequestsAnswered'
  <2>1. proxied = TRUE => \A z \in Requests : request'[z] = "pending" => sender[z] \in here'
    BY <1>1, <1>2, <1>7 DEF RequestsAnswered
  <2> HIDE DEF rs
  <2> QED BY <1>1, <1>2, <1>4, <1>5, <1>6, <1>9, <2>1, EndedOnce
<1>11. PortalTypes'
  <2>1. request' \in [Requests -> {"unmade", "looking", "pending", "over"}]
    BY <1>2, <1>5, <1>7 DEF PortalTypes, Portal!Ended
  <2> QED BY <1>1, <1>2, <1>3, <1>9, <2>1 DEF PortalTypes
<1>12. Portal!Attached' = Portal!Attached /\ Portal!Attached
  BY <1>1 DEF Portal!Attached, PortalInv, WindowInOrder
<1>13. ASSUME portalClosed = FALSE PROVE AnswersUnderWay' /\ DialogsUnderWay' /\ DialogsShown'
  <2>1. AnswersUnderWay /\ DialogsUnderWay /\ DialogsShown
    BY <1>12, <1>13 DEF PortalInv, WindowInOrder
  <2>2. r \notin choosers /\ \A i \in 1..Len(down) : down[i] # Portal!Deliver(r)
    BY <1>3, <2>1 DEF AnswersUnderWay, r
  <2>3. \A k \in 1..Len(up') : k + 1 \in 1..Len(up) /\ up'[k] = up[k + 1]
    BY <1>3
  <2>4. \A k \in 1..Len(up) : k = 1 \/ (k - 1 \in 1..Len(up') /\ up'[k - 1] = up[k])
    BY <1>3
  <2>5. ASSUME NEW k \in 1..Len(up')
        PROVE  /\ up'[k][1] \notin choosers /\ request'[up'[k][1]] \in {"pending", "over"}
               /\ \A i \in 1..Len(down) : down[i] # Portal!Deliver(up'[k][1])
    <3> DEFINE j == k + 1
    <3>1. j \in 1..Len(up) /\ up'[k] = up[j]
      BY <2>3
    <3> HIDE DEF j
    <3>2. up[j][1] \in Requests
      BY <1>2, <3>1, ElementOfSeq
    <3> QED BY <1>8, <2>1, <3>1, <3>2 DEF AnswersUnderWay
  <2>6. DialogsUnderWay'
    BY <1>1, <1>8, <2>1, <2>2 DEF DialogsUnderWay
  <2>7. ASSUME NEW z \in Requests, request'[z] = "pending",
               \A i \in 1..Len(down) : down[i] # Portal!Deliver(z), z \notin choosers
        PROVE  \E k \in 1..Len(up') : up'[k][1] = z
    <3>1. PICK k \in 1..Len(up) : up[k][1] = z
      BY <1>8, <2>1, <2>7 DEF DialogsShown
    <3>2. z # r
      BY <1>8, <2>7
    <3>3. k # 1
      BY <3>1, <3>2 DEF r
    <3> QED BY <2>4, <3>1, <3>3
  <2>8. \A z \in Requests : z \in choosers =>
          /\ request'[z] \in {"pending", "over"}
          /\ request'[z] = "over" => \E i \in 1..Len(down) : down[i] = Portal!Dismiss(z)
    BY <1>8, <2>1, <2>2 DEF DialogsShown
  <2> QED BY <1>1, <2>5, <2>6, <2>7, <2>8 DEF AnswersUnderWay, DialogsShown
<1> QED BY <1>1, <1>10, <1>11, <1>12, <1>13 DEF PortalInv, WindowInOrder

\* The person answers a dialog.
LEMMA AnswersKeeps ==
  ASSUME PortalInv, NEW r \in Requests, NEW code \in {"success", "cancelled"}, Portal!Answers(r, code)
  PROVE  PortalInv'
<1>1. /\ r \in choosers /\ choosers' = choosers \ {r} /\ request' = request /\ heard' = heard
      /\ proxied' = proxied /\ sender' = sender /\ here' = here
      /\ portalClosed' = portalClosed /\ down' = down /\ attaches' = attaches
      /\ up' = IF Portal!Attached THEN Append(up, <<r, code>>) ELSE up
  BY DEF Portal!Answers
<1> DEFINE n == Len(up) + 1  e == <<r, code>>
<1>2. up \in Seq(Requests \X Codes) /\ e \in Requests \X Codes /\ e[1] = r /\ Len(up) \in Nat
  BY LenProperties DEF PortalInv, PortalTypes, Codes
<1>3. /\ Append(up, e) \in Seq(Requests \X Codes) /\ Len(Append(up, e)) = n
      /\ \A k \in 1..Len(up) : Append(up, e)[k] = up[k]
      /\ Append(up, e)[n] = e
  <2> HIDE DEF e
  <2> QED BY <1>2, AppendProperties
<1> HIDE DEF e
<1>4. PortalTypes' /\ RequestsAnswered'
  BY <1>1, <1>2, <1>3 DEF PortalInv, PortalTypes, RequestsAnswered, e
<1>5. CASE ~Portal!Attached
  BY <1>1, <1>4, <1>5 DEF PortalInv, WindowInOrder, Portal!Attached
<1>6. CASE Portal!Attached /\ portalClosed = FALSE
  <2>1. AnswersUnderWay /\ DialogsUnderWay /\ DialogsShown
    BY <1>6 DEF PortalInv, WindowInOrder
  <2>2. /\ Len(up') = n /\ \A k \in 1..Len(up) : k \in 1..n /\ up'[k] = up[k]
        /\ n \in 1..n /\ up'[n][1] = r /\ \A k \in 1..n : k \in 1..Len(up) \/ k = n
    BY <1>1, <1>2, <1>3, <1>6 DEF e
  <2> HIDE DEF n
  <2>3. AnswersUnderWay'
    <3>1. \A i \in 1..Len(down) : down[i] # Portal!Deliver(r)
      BY <1>1, <2>1 DEF DialogsUnderWay
    <3>2. request[r] \in {"pending", "over"}
      BY <1>1, <2>1 DEF DialogsShown
    <3> QED BY <1>1, <2>1, <2>2, <3>1, <3>2 DEF AnswersUnderWay
  <2>4. DialogsUnderWay'
    BY <1>1, <2>1 DEF DialogsUnderWay
  <2>5. DialogsShown'
    BY <1>1, <2>1, <2>2 DEF DialogsShown
  <2> QED BY <1>1, <1>4, <1>6, <2>3, <2>4, <2>5 DEF PortalInv, WindowInOrder, Portal!Attached
<1>7. CASE Portal!Attached /\ portalClosed # FALSE
  BY <1>1, <1>4, <1>7 DEF PortalInv, WindowInOrder, Portal!Attached
<1> QED BY <1>5, <1>6, <1>7

\* The window reads what is under way to it.
LEMMA WindowReadsKeeps ==
  ASSUME PortalInv, Portal!WindowReads
  PROVE  PortalInv'
<1> DEFINE m == Len(down)  n == Len(down')
<1>1. /\ down # <<>> /\ down' = Tail(down) /\ request' = request /\ heard' = heard
      /\ proxied' = proxied /\ sender' = sender /\ here' = here
      /\ portalClosed' = portalClosed /\ up' = up /\ attaches' = attaches
      /\ choosers' = IF Head(down)[1] = "portal" THEN choosers \cup {Head(down)[2]}
                     ELSE choosers \ {Head(down)[2]}
  BY DEF Portal!WindowReads
<1>2. down \in Seq(Downs)
  BY DEF PortalInv, PortalTypes
<1>3. /\ Head(down) = down[1] /\ Head(down) \in Downs /\ down' \in Seq(Downs) /\ m \in Nat \ {0}
      /\ n = m - 1 /\ \A k \in 1..(m - 1) : down'[k] = down[k + 1]
  BY <1>1, <1>2, WithoutFirst
<1>4. PICK r \in Requests : /\ down[1][2] = r
                            /\ down[1][1] = "portal" => down[1] = Portal!Deliver(r)
                            /\ down[1][1] # "portal" => down[1] = Portal!Dismiss(r)
  BY <1>3, Messages
<1>5. PortalTypes' /\ RequestsAnswered'
  BY <1>1, <1>3, <1>4 DEF PortalInv, PortalTypes, RequestsAnswered
<1>6. Portal!Attached /\ Portal!Attached'
  BY <1>1 DEF PortalInv, WindowInOrder, Portal!Attached
<1>7. ASSUME portalClosed = FALSE PROVE AnswersUnderWay' /\ DialogsUnderWay' /\ DialogsShown'
  <2>1. AnswersUnderWay /\ DialogsUnderWay /\ DialogsShown
    BY <1>6, <1>7 DEF PortalInv, WindowInOrder
  <2>2. 1 \in 1..m /\ \A i \in 1..n : i + 1 \in 1..m /\ i + 1 # 1 /\ down'[i] = down[i + 1]
    BY <1>3
  <2>3. ASSUME NEW i \in 1..m, i # 1 PROVE i - 1 \in 1..n /\ down'[i - 1] = down[i] /\ (i - 1) + 1 = i
    BY <1>3, <2>3
  <2>4. \A z, q \in Requests : /\ Portal!Deliver(z) # Portal!Dismiss(q)
                               /\ Portal!Deliver(z) = Portal!Deliver(q) => z = q
                               /\ Portal!Dismiss(z) = Portal!Dismiss(q) => z = q
    BY Messages
  <2>5. ASSUME NEW z \in Requests, NEW i \in 1..m, i # 1, down[i] = Portal!Deliver(z)
        PROVE  z # r /\ (z \in choosers' <=> z \in choosers)
    <3>1. z # r
      BY <1>4, <2>1, <2>2, <2>4, <2>5 DEF DialogsUnderWay
    <3> QED BY <1>1, <1>3, <1>4, <3>1
  <2>6. \A k \in 1..Len(up) : up[k][1] \in Requests
    BY ElementOfSeq DEF PortalInv, PortalTypes
  <2> HIDE DEF m, n
  <2>7. ASSUME NEW k \in 1..Len(up)
        PROVE  /\ up[k][1] \notin choosers' /\ request[up[k][1]] \in {"pending", "over"}
               /\ \A i \in 1..n : down'[i] # Portal!Deliver(up[k][1])
    <3>1. /\ up[k][1] \notin choosers /\ request[up[k][1]] \in {"pending", "over"}
          /\ \A i \in 1..m : down[i] # Portal!Deliver(up[k][1])
      BY <2>1 DEF AnswersUnderWay, m
    <3>2. up[k][1] \notin choosers'
      BY <1>1, <1>3, <1>4, <2>2, <3>1
    <3> QED BY <2>2, <3>1, <3>2
  <2>8. ASSUME NEW z \in Requests, NEW i \in 1..n, down'[i] = Portal!Deliver(z)
        PROVE  /\ z \notin choosers' /\ request[z] \in {"pending", "over"}
               /\ \A j \in 1..n : down'[j] = Portal!Deliver(z) => j = i
               /\ request[z] = "over" => \E j \in 1..n : i < j /\ down'[j] = Portal!Dismiss(z)
    <3> DEFINE l == i + 1
    <3>1. l \in 1..m /\ l # 1 /\ down[l] = Portal!Deliver(z)
      BY <2>2, <2>8
    <3>2. /\ z \notin choosers /\ request[z] \in {"pending", "over"}
          /\ \A j \in 1..m : down[j] = Portal!Deliver(z) => j = l
          /\ request[z] = "over" => \E j \in 1..m : l < j /\ down[j] = Portal!Dismiss(z)
      <4> HIDE DEF l
      <4> QED BY <2>1, <3>1 DEF DialogsUnderWay, m
    <3>3. \A j \in 1..n : down'[j] = Portal!Deliver(z) => j + 1 = l
      BY <2>2, <3>2
    <3>4. ASSUME request[z] = "over" PROVE \E j \in 1..n : i < j /\ down'[j] = Portal!Dismiss(z)
      <4>1. PICK j \in 1..m : l < j /\ down[j] = Portal!Dismiss(z)
        BY <3>2, <3>4
      <4>2. j # 1 /\ i < j - 1
        BY <4>1
      <4> QED BY <2>3, <4>1, <4>2
    <3> QED BY <2>5, <3>1, <3>2, <3>3, <3>4
  <2>9. ASSUME NEW z \in Requests, NEW i \in 1..n, down'[i] = Portal!Dismiss(z)
        PROVE  request[z] = "over" /\ \A j \in 1..n : i < j => down'[j] # Portal!Deliver(z)
    <3> DEFINE l == i + 1
    <3>1. l \in 1..m /\ down[l] = Portal!Dismiss(z)
      BY <2>2, <2>9
    <3>2. request[z] = "over" /\ \A j \in 1..m : l < j => down[j] # Portal!Deliver(z)
      <4> HIDE DEF l
      <4> QED BY <2>1, <3>1 DEF DialogsUnderWay, m
    <3>3. ASSUME NEW j \in 1..n, i < j PROVE down'[j] # Portal!Deliver(z)
      <4>1. j + 1 \in 1..m /\ l < j + 1 /\ down'[j] = down[j + 1]
        BY <2>2, <3>3
      <4> QED BY <3>2, <4>1
    <3> QED BY <3>2, <3>3
  <2>10. ASSUME NEW z \in Requests, request[z] = "pending", \A i \in 1..n : down'[i] # Portal!Deliver(z)
         PROVE  z \in choosers' \/ \E k \in 1..Len(up) : up[k][1] = z
    <3>1. CASE down[1] = Portal!Deliver(z)
      <4>1. z = r /\ down[1][1] = "portal"
        BY <1>4, <2>4, <3>1
      <4> QED BY <1>1, <1>3, <1>4, <4>1
    <3>2. CASE down[1] # Portal!Deliver(z)
      <4>1. \A i \in 1..m : down[i] # Portal!Deliver(z)
        BY <2>3, <2>10, <3>2
      <4>2. z \in choosers \/ \E k \in 1..Len(up) : up[k][1] = z
        BY <2>1, <2>10, <4>1 DEF DialogsShown, m
      <4>3. down[1] # Portal!Dismiss(z)
        BY <2>1, <2>2, <2>10 DEF DialogsUnderWay, m
      <4>4. z \in choosers => z \in choosers'
        BY <1>1, <1>3, <1>4, <4>3
      <4> QED BY <4>2, <4>4
    <3> QED BY <3>1, <3>2
  <2>11. ASSUME NEW z \in Requests, z \in choosers'
         PROVE  /\ request[z] \in {"pending", "over"}
                /\ request[z] = "over" => \E i \in 1..n : down'[i] = Portal!Dismiss(z)
    <3>1. CASE z \in choosers
      <4>1. /\ request[z] \in {"pending", "over"}
            /\ request[z] = "over" => \E i \in 1..m : down[i] = Portal!Dismiss(z)
        BY <2>1, <3>1 DEF DialogsShown, m
      <4>2. down[1] # Portal!Dismiss(z)
        <5>1. ASSUME down[1] = Portal!Dismiss(z) PROVE FALSE
          <6>1. z = r /\ down[1][1] # "portal"
            BY <1>4, <2>4, <5>1
          <6> QED BY <1>1, <1>3, <1>4, <2>11, <6>1
        <5> QED BY <5>1
      <4> QED BY <2>3, <4>1, <4>2
    <3>2. CASE z \notin choosers
      <4>1. z = r /\ down[1] = Portal!Deliver(z)
        BY <1>1, <1>3, <1>4, <2>11, <3>2
      <4>2. /\ request[z] \in {"pending", "over"}
            /\ request[z] = "over" => \E j \in 1..m : 1 < j /\ down[j] = Portal!Dismiss(z)
        BY <2>1, <2>2, <4>1 DEF DialogsUnderWay, m
      <4>3. \A j \in 1..m : 1 < j => j # 1
        OBVIOUS
      <4> QED BY <2>3, <4>2, <4>3
    <3> QED BY <3>1, <3>2
  <2>12. AnswersUnderWay'
    BY <1>1, <2>7 DEF AnswersUnderWay, n
  <2>13. DialogsUnderWay'
    <3>1. ASSUME NEW z \in Requests, NEW i \in 1..n
          PROVE  /\ down'[i] = Portal!Deliver(z) =>
                      /\ z \notin choosers' /\ request'[z] \in {"pending", "over"}
                      /\ \A j \in 1..n : down'[j] = Portal!Deliver(z) => j = i
                      /\ request'[z] = "over" => \E j \in 1..n : i < j /\ down'[j] = Portal!Dismiss(z)
                 /\ down'[i] = Portal!Dismiss(z) =>
                      request'[z] = "over" /\ \A j \in 1..n : i < j => down'[j] # Portal!Deliver(z)
      BY <1>1, <2>8, <2>9
    <3> QED BY <3>1 DEF DialogsUnderWay, n
  <2>14. DialogsShown'
    BY <1>1, <2>10, <2>11 DEF DialogsShown, n
  <2> QED BY <2>12, <2>13, <2>14
<1> QED BY <1>1, <1>5, <1>6, <1>7 DEF PortalInv, WindowInOrder

\* The requests' part begins in its invariant.
LEMMA PortalBegins == Portal!FilePortalAssumption /\ Portal!Init => PortalInv
<1> SUFFICES ASSUME Portal!Init PROVE PortalInv
  OBVIOUS
<1>1. /\ proxied \in BOOLEAN /\ request = [r \in Requests |-> "unmade"]
      /\ sender \in [Requests -> Senders] /\ here = Senders /\ heard = [r \in Requests |-> <<>>]
      /\ portalClosed = FALSE /\ down = <<>> /\ up = <<>> /\ choosers = {} /\ attaches = 1
  BY DEF Portal!Init
<1>2. /\ Len(<<>>) = 0 /\ <<>> \in Seq(Codes) /\ down \in Seq(Downs) /\ up \in Seq(Requests \X Codes)
  BY <1>1
<1>3. PortalTypes
  BY <1>1, <1>2 DEF PortalTypes
<1>4. RequestsAnswered
  BY <1>1, <1>2 DEF RequestsAnswered
<1>5. WindowInOrder
  BY <1>1, <1>2 DEF WindowInOrder, AnswersUnderWay, DialogsUnderWay, DialogsShown
<1> QED BY <1>3, <1>4, <1>5 DEF PortalInv

\* A request becomes one whose dialog is to be shown.
LEMMA Delivered ==
  ASSUME PortalInv, NEW q \in Requests, request[q] \in {"unmade", "looking"},
         proxied = TRUE => sender[q] \in here,
         request' = [request EXCEPT ![q] = "pending"], Portal!Send(<<Portal!Deliver(q)>>),
         UNCHANGED <<proxied, sender, here, heard, portalClosed, up, choosers, attaches>>
  PROVE  PortalInv'
<1>1. PortalTypes /\ RequestsAnswered /\ WindowInOrder
  BY DEF PortalInv
<1>2. \A r \in Requests : request'[r] = IF r = q THEN "pending" ELSE request[r]
  BY <1>1 DEF PortalTypes
<1>3. <<Portal!Deliver(q)>> \in Seq(Downs)
  BY Messages
<1>4. down' = IF Portal!Attached THEN down \o <<Portal!Deliver(q)>> ELSE down
  BY DEF Portal!Send
<1>5. down' \in Seq(Downs)
  BY <1>1, <1>3, <1>4, SentOn DEF PortalTypes
<1>6. PortalTypes'
  BY <1>1, <1>5 DEF PortalTypes
<1>7. RequestsAnswered'
  BY <1>1, <1>2 DEF RequestsAnswered
<1>8. CASE Portal!Attached /\ portalClosed = FALSE
  <2>1. AnswersUnderWay /\ DialogsUnderWay /\ DialogsShown
    BY <1>1, <1>8 DEF WindowInOrder
  <2>2. AnswersUnderWay' /\ DialogsUnderWay' /\ DialogsShown'
    BY <1>1, <1>2, <1>4, <1>8, <2>1, DeliverySent
  <2> QED BY <1>6, <1>7, <1>8, <2>2 DEF PortalInv, WindowInOrder, Portal!Attached
<1>9. CASE ~(Portal!Attached /\ portalClosed = FALSE)
  BY <1>1, <1>4, <1>6, <1>7, <1>9 DEF PortalInv, WindowInOrder, Portal!Attached
<1> QED BY <1>8, <1>9

\* An application asks.
LEMMA AsksKeeps ==
  ASSUME PortalInv, NEW r \in Requests, Portal!Asks(r)
  PROVE  PortalInv'
<1>1. /\ request[r] = "unmade" /\ sender[r] \in here
      /\ UNCHANGED <<proxied, sender, here, heard, portalClosed, up, choosers, attaches>>
  BY DEF Portal!Asks
<1>2. CASE proxied = TRUE
  BY <1>1, <1>2, Delivered DEF Portal!Asks
<1>3. CASE proxied = FALSE
  <2>1. request' = [request EXCEPT ![r] = "looking"] /\ down' = down
    BY <1>3 DEF Portal!Asks
  <2>2. PortalTypes /\ RequestsAnswered /\ WindowInOrder
    BY DEF PortalInv
  <2>3. /\ \A z \in Requests : request'[z] = IF z = r THEN "looking" ELSE request[z]
        /\ request' \in [Requests -> {"unmade", "looking", "pending", "over"}]
    BY <2>1, <2>2 DEF PortalTypes
  <2>4. PortalTypes'
    BY <1>1, <2>1, <2>2, <2>3 DEF PortalTypes
  <2>5. RequestsAnswered'
    BY <1>1, <1>3, <2>1, <2>2, <2>3 DEF RequestsAnswered
  <2>6. ASSUME Portal!Attached, portalClosed = FALSE
        PROVE  AnswersUnderWay' /\ DialogsUnderWay' /\ DialogsShown'
    <3>1. AnswersUnderWay /\ DialogsUnderWay /\ DialogsShown
      BY <2>2, <2>6 DEF WindowInOrder
    <3>2. \A k \in 1..Len(up) : up[k][1] \in Requests
      BY <2>2, ElementOfSeq DEF PortalTypes
    <3>3. AnswersUnderWay'
      BY <1>1, <2>1, <2>3, <3>1, <3>2 DEF AnswersUnderWay
    <3>4. DialogsUnderWay'
      BY <1>1, <2>1, <2>3, <3>1 DEF DialogsUnderWay
    <3>5. DialogsShown'
      BY <1>1, <2>1, <2>3, <3>1 DEF DialogsShown
    <3> QED BY <3>3, <3>4, <3>5
  <2> QED BY <1>1, <2>1, <2>2, <2>4, <2>5, <2>6 DEF PortalInv, WindowInOrder, Portal!Attached
<1>4. proxied \in BOOLEAN
  BY DEF PortalInv, PortalTypes
<1> QED BY <1>2, <1>3, <1>4

\* The bus has told whose request it is.
LEMMA LookedKeeps ==
  ASSUME PortalInv, NEW r \in Requests, Portal!Looked(r)
  PROVE  PortalInv'
<1>1. /\ request[r] = "looking" /\ request' = [request EXCEPT ![r] = "pending"]
      /\ Portal!Send(<<Portal!Deliver(r)>>)
      /\ UNCHANGED <<proxied, sender, here, heard, portalClosed, up, choosers, attaches>>
  BY DEF Portal!Looked
<1>2. proxied # TRUE
  BY <1>1 DEF PortalInv, RequestsAnswered
<1> QED BY <1>1, <1>2, Delivered

\* An application withdraws its request.
LEMMA WithdrawsKeeps ==
  ASSUME PortalInv, NEW r \in Requests, Portal!Withdraws(r)
  PROVE  PortalInv'
<1> DEFINE rs == {r}  ms == <<Portal!Dismiss(r)>>
<1>1. /\ request[r] = "pending" /\ Portal!Ended(rs) /\ Portal!Response(rs, "ended") /\ Portal!Send(ms)
      /\ UNCHANGED <<proxied, sender, here, portalClosed, up, choosers, attaches>>
  BY DEF Portal!Withdraws
<1>2. PortalTypes /\ RequestsAnswered /\ WindowInOrder
  BY DEF PortalInv
<1>3. "ended" \in Codes /\ rs \in SUBSET Requests /\ \A z \in rs : request[z] = "pending"
  BY <1>1 DEF Codes
<1>4. \A z \in Requests : request'[z] = IF z \in rs THEN "over" ELSE request[z]
  BY <1>1 DEF Portal!Ended
<1>5. /\ ms \in Seq(Downs) /\ \A j \in 1..Len(ms) : \E z \in rs : ms[j] = Portal!Dismiss(z)
      /\ \A z \in rs : \E j \in 1..Len(ms) : ms[j] = Portal!Dismiss(z)
  <2>1. Len(ms) = 1 /\ ms[1] = Portal!Dismiss(r)
    OBVIOUS
  <2> QED BY <2>1, Messages
<1>6. down' = IF Portal!Attached THEN down \o ms ELSE down
  BY <1>1 DEF Portal!Send
<1> HIDE DEF rs, ms
<1>7. /\ heard' \in [Requests -> Seq(Codes)]
      /\ \A z \in Requests : \/ heard'[z] = heard[z] /\ (z \in rs => sender[z] \notin here)
                             \/ z \in rs /\ heard'[z] = Append(heard[z], "ended")
  BY <1>1, <1>2, <1>3, Responded
<1>8. RequestsAnswered'
  <2>1. proxied = TRUE => \A z \in Requests : request'[z] = "pending" => sender[z] \in here'
    BY <1>1, <1>2, <1>4 DEF RequestsAnswered
  <2> QED BY <1>1, <1>2, <1>3, <1>7, <2>1, EndedOnce
<1>9. PortalTypes'
  <2>1. down' \in Seq(Downs)
    BY <1>2, <1>5, <1>6, SentOn DEF PortalTypes
  <2>2. request' \in [Requests -> {"unmade", "looking", "pending", "over"}]
    BY <1>1, <1>2, <1>4 DEF PortalTypes, Portal!Ended
  <2> QED BY <1>1, <1>2, <1>7, <2>1, <2>2 DEF PortalTypes
<1>10. CASE Portal!Attached /\ portalClosed = FALSE
  <2>1. AnswersUnderWay /\ DialogsUnderWay /\ DialogsShown
    BY <1>2, <1>10 DEF WindowInOrder
  <2>2. AnswersUnderWay' /\ DialogsUnderWay' /\ DialogsShown'
    BY <1>1, <1>2, <1>3, <1>4, <1>5, <1>6, <1>10, <2>1, DismissalsSent
  <2> QED BY <1>1, <1>8, <1>9, <1>10, <2>2 DEF PortalInv, WindowInOrder, Portal!Attached
<1>11. CASE ~(Portal!Attached /\ portalClosed = FALSE)
  BY <1>1, <1>2, <1>6, <1>8, <1>9, <1>11 DEF PortalInv, WindowInOrder, Portal!Attached
<1> QED BY <1>10, <1>11

\* Requests of applications that are there no more end, and nobody is told.
LEMMA EndedUnheard ==
  ASSUME PortalInv, NEW rs \in SUBSET Requests, \A r \in rs : request[r] = "pending",
         Portal!Ended(rs), Portal!DismissAll(rs), \A r \in rs : sender[r] \notin here',
         here' \subseteq here, UNCHANGED <<proxied, sender, heard, up, choosers, attaches>>,
         portalClosed' = portalClosed \/ portalClosed' = TRUE,
         \A r \in Requests : request[r] = "pending" /\ r \notin rs /\ sender[r] \in here => sender[r] \in here'
  PROVE  PortalInv'
<1>1. PortalTypes /\ RequestsAnswered /\ WindowInOrder
  BY DEF PortalInv
<1>2. \A z \in Requests : request'[z] = IF z \in rs THEN "over" ELSE request[z]
  BY DEF Portal!Ended
<1>3. down' \in Seq(Downs) /\ WindowInOrder'
  BY <1>1, DismissedAll
<1>4. RequestsAnswered'
  <2>1. "ended" \in Codes /\ heard' \in [Requests -> Seq(Codes)]
    BY <1>1 DEF Codes, PortalTypes
  <2>2. proxied = TRUE => \A z \in Requests : request'[z] = "pending" => sender[z] \in here'
    BY <1>1, <1>2 DEF RequestsAnswered
  <2> QED BY <1>1, <2>1, <2>2, EndedOnce
<1>5. PortalTypes'
  <2>1. request' \in [Requests -> {"unmade", "looking", "pending", "over"}]
    BY <1>1, <1>2 DEF PortalTypes, Portal!Ended
  <2> QED BY <1>1, <1>3, <2>1 DEF PortalTypes
<1> QED BY <1>3, <1>4, <1>5 DEF PortalInv

\* An application's connection goes.
LEMMA LeavesKeeps ==
  ASSUME PortalInv, NEW s \in Senders, Portal!Leaves(s)
  PROVE  PortalInv'
<1>1. /\ here' = here \ {s} /\ UNCHANGED <<proxied, sender, heard, portalClosed, up, choosers, attaches>>
  BY DEF Portal!Leaves
<1>2. PortalTypes /\ RequestsAnswered /\ WindowInOrder
  BY DEF PortalInv
<1>3. CASE proxied = TRUE
  <2> DEFINE rs == Portal!Forgotten(s)
  <2>1. Portal!Ended(rs) /\ Portal!DismissAll(rs)
    BY <1>3 DEF Portal!Leaves
  <2>2. /\ rs \in SUBSET Requests /\ \A r \in rs : request[r] = "pending" /\ sender[r] = s
        /\ \A r \in Requests : request[r] = "pending" /\ r \notin rs => sender[r] # s
    BY DEF Portal!Forgotten, Portal!Pending
  <2> HIDE DEF rs
  <2> QED BY <1>1, <1>3, <2>1, <2>2, EndedUnheard
<1>4. CASE proxied = FALSE
  <2>1. request' = request /\ down' = down
    BY <1>4 DEF Portal!Leaves
  <2>2. PortalTypes' /\ RequestsAnswered'
    BY <1>1, <1>2, <1>4, <2>1 DEF PortalTypes, RequestsAnswered
  <2>3. WindowInOrder'
    BY <1>1, <1>2, <2>1 DEF WindowInOrder, AnswersUnderWay, DialogsUnderWay, DialogsShown,
       Portal!Attached
  <2> QED BY <2>2, <2>3 DEF PortalInv
<1> QED BY <1>2, <1>3, <1>4 DEF PortalTypes

\* The portal closes.
LEMMA ClosesKeeps ==
  ASSUME PortalInv, Portal!Closes
  PROVE  PortalInv'
<1> DEFINE rs == Portal!Pending
<1>1. /\ portalClosed' = TRUE /\ Portal!Ended(rs) /\ UNCHANGED <<proxied, sender, up, choosers, attaches>>
  BY DEF Portal!Closes
<1>2. PortalTypes /\ RequestsAnswered /\ WindowInOrder
  BY DEF PortalInv
<1>3. /\ rs \in SUBSET Requests /\ \A r \in rs : request[r] = "pending"
      /\ \A r \in Requests : request[r] = "pending" => r \in rs
  BY DEF Portal!Pending
<1>4. CASE proxied = TRUE
  <2>1. Portal!DismissAll(rs) /\ here' = {} /\ heard' = heard
    BY <1>4 DEF Portal!Closes
  <2> HIDE DEF rs
  <2> QED BY <1>1, <1>3, <1>4, <2>1, EndedUnheard
<1>5. CASE proxied = FALSE
  <2>1. Portal!Response(rs, "ended") /\ down' = down /\ here' = here
    BY <1>5 DEF Portal!Closes
  <2> HIDE DEF rs
  <2>2. "ended" \in Codes
    BY DEF Codes
  <2>3. /\ heard' \in [Requests -> Seq(Codes)]
        /\ \A z \in Requests : \/ heard'[z] = heard[z] /\ (z \in rs => sender[z] \notin here)
                               \/ z \in rs /\ heard'[z] = Append(heard[z], "ended")
    BY <1>2, <1>3, <2>1, <2>2, Responded
  <2>4. RequestsAnswered'
    BY <1>1, <1>2, <1>3, <1>5, <2>1, <2>2, <2>3, EndedOnce
  <2>5. PortalTypes'
    <3>1. request' \in [Requests -> {"unmade", "looking", "pending", "over"}]
      BY <1>1, <1>2 DEF PortalTypes, Portal!Ended
    <3> QED BY <1>1, <1>2, <2>1, <2>3, <3>1 DEF PortalTypes
  <2>6. WindowInOrder'
    BY <1>1, <1>2, <2>1 DEF WindowInOrder, Portal!Attached
  <2> QED BY <2>4, <2>5, <2>6 DEF PortalInv
<1> QED BY <1>2, <1>4, <1>5 DEF PortalTypes

\* The window lets the session go.
LEMMA DetachesKeeps ==
  ASSUME PortalInv, Portal!Detaches
  PROVE  PortalInv'
<1>1. /\ Portal!Attached /\ attaches' = attaches + 1 /\ down' = <<>> /\ up' = <<>>
      /\ UNCHANGED <<proxied, request, sender, here, heard, portalClosed, choosers>>
  BY DEF Portal!Detaches
<1>2. PortalTypes /\ RequestsAnswered /\ attaches \in Nat
  BY DEF PortalInv, PortalTypes
<1>3. ~Portal!Attached'
  BY <1>1, <1>2, AttachesInTurn
<1>4. PortalTypes' /\ RequestsAnswered'
  BY <1>1, <1>2 DEF PortalTypes, RequestsAnswered
<1> QED BY <1>1, <1>3, <1>4 DEF PortalInv, WindowInOrder

\* A window picks the session up.
LEMMA AttachesKeeps ==
  ASSUME PortalInv, Portal!Attaches
  PROVE  PortalInv'
<1>1. /\ ~Portal!Attached /\ attaches' = attaches + 1 /\ choosers' = {}
      /\ UNCHANGED <<proxied, request, sender, here, heard, portalClosed, up>>
  BY DEF Portal!Attaches
<1>2. PortalTypes /\ RequestsAnswered /\ attaches \in Nat
  BY DEF PortalInv, PortalTypes
<1>3. Portal!Attached' /\ up = <<>>
  BY <1>1, <1>2, AttachesInTurn DEF PortalInv, WindowInOrder
<1> DEFINE rs == Portal!Pending
<1>4. rs \in SUBSET Requests /\ \A r \in Requests : r \in rs <=> request[r] = "pending"
  BY DEF Portal!Pending
<1>5. PICK q \in Portal!InTurn(rs) : down' = [k \in 1..Len(q) |-> Portal!Deliver(q[k])]
  BY DEF Portal!Attaches, Portal!Redelivered
<1> HIDE DEF rs
<1>6. /\ Len(q) \in Nat /\ \A k \in 1..Len(q) : q[k] \in rs
      /\ \A r \in rs : \E k \in 1..Len(q) : q[k] = r /\ \A j \in 1..Len(q) : q[j] = r => j = k
  BY <1>4, <1>5, InTurnOnce
<1>7. /\ down' \in Seq(Downs) /\ Len(down') = Len(q)
      /\ \A k \in 1..Len(q) : down'[k] = Portal!Deliver(q[k])
  <2>1. \A k \in 1..Len(q) : Portal!Deliver(q[k]) \in Downs
    BY <1>4, <1>6, Messages
  <2> QED BY <1>5, <1>6, <2>1
<1>8. PortalTypes' /\ RequestsAnswered'
  BY <1>1, <1>2, <1>7 DEF PortalTypes, RequestsAnswered
<1>9. \A r, z \in Requests : /\ Portal!Deliver(r) # Portal!Dismiss(z)
                             /\ Portal!Deliver(r) = Portal!Deliver(z) => r = z
  BY Messages
<1>10. \A k \in 1..Len(q), r \in Requests : /\ down'[k] = Portal!Deliver(r) <=> q[k] = r
                                            /\ down'[k] # Portal!Dismiss(r)
  BY <1>4, <1>6, <1>7, <1>9
<1>11. Len(up') = 0
  BY <1>1, <1>3
<1>12. AnswersUnderWay'
  BY <1>11 DEF AnswersUnderWay
<1>13. DialogsUnderWay'
  BY <1>1, <1>4, <1>6, <1>7, <1>10 DEF DialogsUnderWay
<1>14. DialogsShown'
  BY <1>1, <1>4, <1>6, <1>7, <1>10 DEF DialogsShown
<1> QED BY <1>3, <1>8, <1>12, <1>13, <1>14 DEF PortalInv, WindowInOrder

\* Every step of the requests' part keeps its invariant.
LEMMA PortalGoesOn == PortalInv /\ [Portal!Next]_portalVars => PortalInv'
<1> SUFFICES ASSUME PortalInv, [Portal!Next]_portalVars PROVE PortalInv'
  OBVIOUS
<1>1. CASE UNCHANGED portalVars
  <2>1. PortalTypes' /\ RequestsAnswered'
    BY <1>1 DEF portalVars, PortalInv, PortalTypes, RequestsAnswered
  <2>2. WindowInOrder'
    BY <1>1 DEF portalVars, PortalInv, WindowInOrder, AnswersUnderWay, DialogsUnderWay,
       DialogsShown,
                Portal!Attached
  <2> QED BY <2>1, <2>2 DEF PortalInv
<1> QED BY <1>1, AsksKeeps, LookedKeeps, WithdrawsKeeps, AnswersKeeps, LeavesKeeps, ClosesKeeps,
           ServerReadsKeeps, DetachesKeeps, AttachesKeeps, WindowReadsKeeps DEF Portal!Next

\* In that invariant requests are answered once, and a quiet window shows the right dialogs.
LEMMA PortalHolds == PortalInv => Portal!DialogsAreAnswered
<1> SUFFICES ASSUME PortalInv PROVE Portal!DialogsAreAnswered
  OBVIOUS
<1>1. RequestsAnswered /\ choosers \subseteq Requests
  BY DEF PortalInv, PortalTypes
<1>2. ASSUME Portal!Quiet PROVE choosers = Portal!Pending
  <2>1. AnswersUnderWay /\ DialogsUnderWay /\ DialogsShown /\ Len(down) = 0 /\ Len(up) = 0
    BY <1>2 DEF PortalInv, WindowInOrder, Portal!Quiet
  <2>2. \A r \in Requests : r \in choosers <=> request[r] = "pending"
    BY <2>1 DEF DialogsShown
  <2> QED BY <1>1, <2>2 DEF Portal!Pending
<1> QED BY <1>1, <1>2 DEF Portal!DialogsAreAnswered, RequestsAnswered, Portal!Pending

\* What is chosen in a dialog is in the folder it shows, a file to open, a directory to go
\* to; and a file that folder was shown to have is saved over only where that was agreed to.
\* And an application gets one answer to each request, in a window that shows the dialogs it
\* waits for (chooser.ts 219-263, portal.ts 291-309). There is no hypothesis: others may
\* change the folders, and the filter, at any time.
THEOREM DialogsAreHonest == Spec => []FileDialogsAreHonest
<1>1. Chooser!Init => ChooserInv
  BY ConstantsAssumption, ChooserBegins
<1>2. ChooserInv /\ [Chooser!Next]_chooserVars => ChooserInv'
  BY ConstantsAssumption, ChooserGoesOn
<1>3. Portal!Init => PortalInv
  BY ConstantsAssumption, PortalBegins
<1>4. PortalInv /\ [Portal!Next]_portalVars => PortalInv'
  BY PortalGoesOn
<1>5. ChooserInv /\ PortalInv => FileDialogsAreHonest
  BY PortalHolds DEF ChooserInv, FileDialogsAreHonest
<1> QED BY <1>1, <1>2, <1>3, <1>4, <1>5, ChooserRuns, PortalRuns, PTL
-----------------------------------------------------------------------------
(* The services panel.                                                      *)

\* What a panel can be about: a unit in a manager.
UnitsThere == [unit : Units, scope : Services!Scopes]

\* The panel's variables have their types.
ServicesTypes ==
  /\ servicesWatched \in BOOLEAN /\ scope \in Services!Scopes /\ tab \in {"info", "logs"}
  /\ loading \in Services!Scopes \cup {""} /\ selectedUnit \in Units \cup {NoUnit}
  /\ details \subseteq UnitsThere

\* What is listed, said and followed is of the unit that is chosen; no log is followed on
\* another tab, nor behind the person's back; and what is started or stopped is waited for.
ServicesInv ==
  /\ ServicesTypes
  /\ Services!PanelIsTrue
  /\ tab = "info" => logs = Services!Blank
  /\ ~servicesWatched => controls = {}

\* The panel starts empty.
LEMMA ServicesBegin == Services!Init => ServicesInv
BY DEF Services!Init, ServicesInv, ServicesTypes, Services!PanelIsTrue, Services!LogsAreWatched,
   Services!ShowsWhatIsChosen, Services!DetailIsOfTheUnit, Services!Scopes, Services!Blank

\* What the panel is about is of the unit and the manager that are chosen from now on.
PanelFollows(w, s, t, l, u, d, ls, ss) ==
  /\ ~w => ss = {}
  /\ l \in {"", s}
  /\ d # Services!Blank => d = [unit |-> u, scope |-> s]
  /\ ls # Services!Blank => ls = [unit |-> u, scope |-> s]
  /\ ss \subseteq {ls}
  /\ t = "info" => ls = Services!Blank

\* The invariant, in terms of what a step can change.
LEMMA ServicesNow ==
  /\ ServicesInv <=> /\ ServicesTypes /\ (~servicesWatched => controls = {})
                     /\ PanelFollows(servicesWatched, scope, tab, listed, selectedUnit,
                                     servicesDetail, logs, streams)
  /\ ServicesInv' <=> /\ ServicesTypes' /\ (~servicesWatched' => controls' = {})
                      /\ PanelFollows(servicesWatched', scope', tab', listed', selectedUnit',
                                      servicesDetail', logs', streams')
BY DEF ServicesInv, PanelFollows, Services!PanelIsTrue, Services!LogsAreWatched,
   Services!ShowsWhatIsChosen, Services!DetailIsOfTheUnit, Services!Of, Services!Blank

\* Every step of the panel keeps that.
LEMMA ServicesGoOn ==
  Services!ServicesAssumption /\ ~InHaste /\ ~WhileLogs /\ ServicesInv /\ [Services!Next]_servicesVars
    => ServicesInv'
<1> SUFFICES ASSUME Services!ServicesAssumption, ~InHaste, ~WhileLogs, ServicesInv,
                    [Services!Next]_servicesVars
             PROVE  ServicesInv'
  OBVIOUS
<1> DEFINE Now == PanelFollows(servicesWatched, scope, tab, listed, selectedUnit, servicesDetail,
                               logs, streams)
           Then == PanelFollows(servicesWatched', scope', tab', listed', selectedUnit',
                                servicesDetail', logs', streams')
<1>1. NoUnit \notin Units /\ InHaste \in BOOLEAN /\ WhileLogs \in BOOLEAN
  BY DEF Services!ServicesAssumption
<1>2. ServicesTypes /\ Now /\ (~servicesWatched => controls = {})
  BY ServicesNow
<1>3. SUFFICES ServicesTypes' /\ Then /\ (~servicesWatched' => controls' = {})
  BY ServicesNow
<1>4. ASSUME NEW u \in Units \cup {NoUnit}, Services!Select(u)
      PROVE  ServicesTypes' /\ Then /\ (~servicesWatched' => controls' = {})
  <2>1. details' \subseteq UnitsThere
    <3>1. \/ details' = details
          \/ u # NoUnit /\ details' = details \cup {[unit |-> u, scope |-> scope]}
      BY <1>4 DEF Services!Select,
         Services!MayFollow, Services!RenderDetail, Services!OpenLogs, Services!CloseLogs, Services!Of, Services!Blank
    <3>2. u # NoUnit => [unit |-> u, scope |-> scope] \in UnitsThere
      BY <1>2 DEF ServicesTypes, UnitsThere
    <3> QED BY <1>1, <1>2, <3>1, <3>2 DEF ServicesTypes
  <2>2. /\ servicesWatched' \in BOOLEAN /\ scope' \in Services!Scopes /\ tab' \in {"info", "logs"}
        /\ loading' \in Services!Scopes \cup {""} /\ selectedUnit' \in Units \cup {NoUnit}
    BY <1>1, <1>2, <1>4 DEF ServicesTypes, Services!Select,
       Services!MayFollow, Services!RenderDetail, Services!OpenLogs, Services!CloseLogs, Services!Of, Services!Blank
  <2>3. Then
    BY <1>1, <1>2, <1>4 DEF ServicesTypes, PanelFollows, Services!Select,
       Services!MayFollow, Services!RenderDetail, Services!OpenLogs, Services!CloseLogs, Services!Of, Services!Blank
  <2>4. ~servicesWatched' => controls' = {}
    BY <1>1, <1>2, <1>4 DEF ServicesTypes, Services!Select,
       Services!MayFollow, Services!RenderDetail, Services!OpenLogs, Services!CloseLogs, Services!Of, Services!Blank
  <2> QED BY <2>1, <2>2, <2>3, <2>4 DEF ServicesTypes
<1>5. ASSUME NEW t \in {"info", "logs"}, Services!SetTab(t)
      PROVE  ServicesTypes' /\ Then /\ (~servicesWatched' => controls' = {})
  BY <1>1, <1>2, <1>5 DEF ServicesTypes, PanelFollows, UnitsThere, Services!SetTab,
     Services!OpenLogs, Services!CloseLogs, Services!Of, Services!Blank
<1>6. ASSUME NEW s \in Services!Scopes, Services!SetScope(s)
      PROVE  ServicesTypes' /\ Then /\ (~servicesWatched' => controls' = {})
  BY <1>1, <1>2, <1>6 DEF ServicesTypes, PanelFollows, UnitsThere, Services!SetScope, Services!Load,
     Services!OpenLogs, Services!CloseLogs, Services!Of, Services!Blank
<1>7. ASSUME NEW s \in Services!Scopes, NEW u \in Units, Services!Manage(u, s)
      PROVE  ServicesTypes' /\ Then /\ (~servicesWatched' => controls' = {})
  <2>1. details' \subseteq UnitsThere
    <3>1. \/ details' = details
          \/ details' = details \cup {[unit |-> u, scope |-> s]}
      BY <1>7 DEF Services!Manage,
         Services!Load, Services!MayFollow, Services!OpenLogs, Services!CloseLogs, Services!Of, Services!Blank
    <3>2. u # NoUnit => [unit |-> u, scope |-> s] \in UnitsThere
      BY <1>2 DEF ServicesTypes, UnitsThere
    <3> QED BY <1>1, <1>2, <3>1, <3>2 DEF ServicesTypes
  <2>2. /\ servicesWatched' \in BOOLEAN /\ scope' \in Services!Scopes /\ tab' \in {"info", "logs"}
        /\ loading' \in Services!Scopes \cup {""} /\ selectedUnit' \in Units \cup {NoUnit}
    BY <1>1, <1>2, <1>7 DEF ServicesTypes, Services!Manage,
       Services!Load, Services!MayFollow, Services!OpenLogs, Services!CloseLogs, Services!Of, Services!Blank
  <2>3. Then
    BY <1>1, <1>2, <1>7 DEF ServicesTypes, PanelFollows, Services!Manage,
       Services!Load, Services!MayFollow, Services!OpenLogs, Services!CloseLogs, Services!Of, Services!Blank
  <2>4. ~servicesWatched' => controls' = {}
    BY <1>1, <1>2, <1>7 DEF ServicesTypes, Services!Manage,
       Services!Load, Services!MayFollow, Services!OpenLogs, Services!CloseLogs, Services!Of, Services!Blank
  <2> QED BY <2>1, <2>2, <2>3, <2>4 DEF ServicesTypes
<1>8. ASSUME NEW ok \in BOOLEAN, Services!ListArrives(ok)
      PROVE  ServicesTypes' /\ Then /\ (~servicesWatched' => controls' = {})
  BY <1>1, <1>2, <1>8 DEF ServicesTypes, PanelFollows, UnitsThere, Services!ListArrives,
     Services!StillAsked, Services!Blank
<1>9. ASSUME NEW d \in details, Services!DetailArrives(d)
      PROVE  ServicesTypes' /\ Then /\ (~servicesWatched' => controls' = {})
  BY <1>1, <1>2, <1>9 DEF ServicesTypes, PanelFollows, UnitsThere, Services!DetailArrives,
     Services!StillAsked, Services!Blank
<1>10. ASSUME NEW u \in Units, Services!Control(u)
       PROVE  ServicesTypes' /\ Then /\ (~servicesWatched' => controls' = {})
  BY <1>1, <1>2, <1>10 DEF ServicesTypes, PanelFollows, Services!Control
<1>11. ASSUME NEW u \in Units, Services!ShowLogs(u)
       PROVE  ServicesTypes' /\ Then /\ (~servicesWatched' => controls' = {})
  <2>1. details' \subseteq UnitsThere
    <3>1. \/ details' = details
          \/ details' = details \cup {[unit |-> u, scope |-> scope]}
      BY <1>11 DEF Services!ShowLogs,
         Services!MayFollow, Services!OpenLogs, Services!CloseLogs, Services!Of, Services!Blank
    <3>2. u # NoUnit => [unit |-> u, scope |-> scope] \in UnitsThere
      BY <1>2 DEF ServicesTypes, UnitsThere
    <3> QED BY <1>1, <1>2, <3>1, <3>2 DEF ServicesTypes
  <2>2. /\ servicesWatched' \in BOOLEAN /\ scope' \in Services!Scopes /\ tab' \in {"info", "logs"}
        /\ loading' \in Services!Scopes \cup {""} /\ selectedUnit' \in Units \cup {NoUnit}
    BY <1>1, <1>2, <1>11 DEF ServicesTypes, Services!ShowLogs,
       Services!MayFollow, Services!OpenLogs, Services!CloseLogs, Services!Of, Services!Blank
  <2>3. Then
    BY <1>1, <1>2, <1>11 DEF ServicesTypes, PanelFollows, Services!ShowLogs,
       Services!MayFollow, Services!OpenLogs, Services!CloseLogs, Services!Of, Services!Blank
  <2>4. ~servicesWatched' => controls' = {}
    BY <1>1, <1>2, <1>11 DEF ServicesTypes, Services!ShowLogs,
       Services!MayFollow, Services!OpenLogs, Services!CloseLogs, Services!Of, Services!Blank
  <2> QED BY <2>1, <2>2, <2>3, <2>4 DEF ServicesTypes
<1>12. ASSUME NEW c \in controls, Services!ControlShown(c)
       PROVE  ServicesTypes' /\ Then /\ (~servicesWatched' => controls' = {})
  <2>1. details' \subseteq UnitsThere
    <3>1. \/ details' = details
          \/ c.unit = selectedUnit /\ c.unit # NoUnit /\ details' = details \cup {[unit |-> selectedUnit, scope |-> scope]}
      BY <1>12 DEF Services!ControlShown,
         Services!RenderDetail, Services!OpenLogs, Services!CloseLogs, Services!Of, Services!Blank
    <3>2. selectedUnit # NoUnit => [unit |-> selectedUnit, scope |-> scope] \in UnitsThere
      BY <1>2 DEF ServicesTypes, UnitsThere
    <3> QED BY <1>1, <1>2, <3>1, <3>2 DEF ServicesTypes
  <2>2. /\ servicesWatched' \in BOOLEAN /\ scope' \in Services!Scopes /\ tab' \in {"info", "logs"}
        /\ loading' \in Services!Scopes \cup {""} /\ selectedUnit' \in Units \cup {NoUnit}
    BY <1>1, <1>2, <1>12 DEF ServicesTypes, Services!ControlShown,
       Services!RenderDetail, Services!OpenLogs, Services!CloseLogs, Services!Of, Services!Blank
  <2>3. Then
    BY <1>1, <1>2, <1>12 DEF ServicesTypes, PanelFollows, Services!ControlShown,
       Services!RenderDetail, Services!OpenLogs, Services!CloseLogs, Services!Of, Services!Blank
  <2>4. ~servicesWatched' => controls' = {}
    BY <1>1, <1>2, <1>12 DEF ServicesTypes, Services!ControlShown,
       Services!RenderDetail, Services!OpenLogs, Services!CloseLogs, Services!Of, Services!Blank
  <2> QED BY <2>1, <2>2, <2>3, <2>4 DEF ServicesTypes
<1>13. ASSUME NEW c \in controls, NEW cameUp \in BOOLEAN, Services!ControlEnds(c, cameUp)
       PROVE  ServicesTypes' /\ Then /\ (~servicesWatched' => controls' = {})
  BY <1>1, <1>2, <1>13 DEF ServicesTypes, PanelFollows, Services!ControlEnds, Services!Load
<1>17. ASSUME NEW c \in controls, Services!ControlFails(c)
       PROVE  ServicesTypes' /\ Then /\ (~servicesWatched' => controls' = {})
  BY <1>1, <1>2, <1>17 DEF ServicesTypes, PanelFollows, Services!ControlFails
<1>14. ASSUME Services!Polls \/ Services!LogEnds
       PROVE  ServicesTypes' /\ Then /\ (~servicesWatched' => controls' = {})
  BY <1>1, <1>2, <1>14 DEF ServicesTypes, PanelFollows, Services!Polls, Services!LogEnds,
     Services!Load
<1>15. ASSUME Services!Activates \/ Services!Deactivates
       PROVE  ServicesTypes' /\ Then /\ (~servicesWatched' => controls' = {})
  BY <1>1, <1>2, <1>15 DEF ServicesTypes, PanelFollows, Services!Activates, Services!Deactivates,
     Services!Leaving, Services!Load, Services!OpenLogs, Services!CloseLogs, Services!Of, Services!Blank
<1>16. CASE UNCHANGED servicesVars
  BY <1>2, <1>16 DEF servicesVars, ServicesTypes, PanelFollows
<1> HIDE DEF Then
<1> QED BY <1>4, <1>5, <1>6, <1>7, <1>8, <1>9, <1>10, <1>11, <1>12, <1>13, <1>14, <1>15, <1>16, <1>17
        DEF Services!Next

-----------------------------------------------------------------------------
(* The processes panel.                                                     *)

\* The panel's variables have their types.
ProcessesTypes ==
  /\ living \subseteq Pids /\ list \subseteq Pids
  /\ processesRows \subseteq Pids /\ polling \in {"no", "asked", "taken"}
  /\ processesWatched \in BOOLEAN /\ previous \in BOOLEAN /\ ownOnly \in BOOLEAN
  /\ filter \in Pids \cup {NoPid} /\ wantSelect \in Pids \cup {NoPid}
  /\ selectedPid \in Pids \cup {NoPid} /\ inspected \subseteq Pids

\* A signal goes to the pid that was named.
SignalsAreNamed ==
  /\ \A s \in signals : s.pid = s.named
  /\ misfired = FALSE

\* The row that is marked is the process that is selected, and the one inspected.
MarkIsTrue(key, pid, d) == key = pid /\ (d # NoPid => d = pid)

\* A process that is to be selected when it is listed is not hidden from the table.
WantedIsShown(want, f, own) == want # NoPid => f \in {NoPid, want} /\ own = FALSE

\* Together with them: a panel nobody watches has no list nor signal on its way, and nothing
\* to compute rates from.
ProcessesInv ==
  /\ ProcessesTypes /\ SignalsAreNamed
  /\ MarkIsTrue(selectedKey, selectedPid, processesDetail)
  /\ WantedIsShown(wantSelect, filter, ownOnly)
  /\ ~processesWatched => polling = "no" /\ signals = {} /\ prompt = NoPid /\ previous = FALSE

\* The panel starts with nothing listed or selected.
LEMMA ProcessesBegin == Processes!ProcessesAssumption /\ Processes!Init => ProcessesInv
<1> SUFFICES ASSUME Processes!ProcessesAssumption, Processes!Init PROVE ProcessesInv
  OBVIOUS
<1>1. ProcessesTypes
  BY DEF Processes!Init, ProcessesTypes
<1>2. SignalsAreNamed
  BY DEF Processes!Init, SignalsAreNamed
<1>3. /\ MarkIsTrue(selectedKey, selectedPid, processesDetail)
      /\ WantedIsShown(wantSelect, filter, ownOnly)
  BY DEF Processes!Init, MarkIsTrue, WantedIsShown
<1> QED BY <1>1, <1>2, <1>3 DEF Processes!Init, ProcessesInv

\* A row that is selected is one the table shows, or none.
LEMMA SelectKeepsMark ==
  ASSUME ProcessesTypes, MarkIsTrue(selectedKey, selectedPid, processesDetail), NoPid \notin Pids,
         NEW r \in SUBSET Pids, NEW f, NEW own, NEW key \in Pids \cup {NoPid},
         key = NoPid \/ key \in Processes!Shown(r, f, own), Processes!Select(key, r, f, own)
  PROVE  /\ MarkIsTrue(selectedKey', selectedPid', processesDetail')
         /\ selectedPid' = key /\ inspected' \subseteq Pids
<1>1. CASE key = selectedKey
  BY <1>1 DEF Processes!Select, MarkIsTrue, ProcessesTypes
<1>2. CASE key # selectedKey
  <2> DEFINE pid == IF key \in Processes!Shown(r, f, own) THEN key ELSE NoPid
  <2>1. key # NoPid => key \in Pids
    OBVIOUS
  <2>2. pid = key
    <3>1. NoPid \notin Processes!Shown(r, f, own)
      BY DEF Processes!Shown
    <3> QED BY <3>1
  <2>3. /\ selectedKey' = key /\ selectedPid' = key /\ processesDetail' = NoPid
        /\ inspected' = IF key = NoPid THEN inspected ELSE inspected \cup {key}
    BY <1>2, <2>2 DEF Processes!Select
  <2> QED BY <2>1, <2>3 DEF MarkIsTrue, ProcessesTypes
<1> QED BY <1>1, <1>2

\* After a list, or with a process that was handed over, what is selected is in the list.
LEMMA AfterPollKeeps ==
  ASSUME ProcessesTypes, MarkIsTrue(selectedKey, selectedPid, processesDetail), NoPid \notin Pids,
         NEW r \in SUBSET Pids, NEW f \in Pids \cup {NoPid}, NEW want \in Pids \cup {NoPid},
         WantedIsShown(want, f, ownOnly), Processes!AfterPoll(r, f, want)
  PROVE  /\ MarkIsTrue(selectedKey', selectedPid', processesDetail')
         /\ WantedIsShown(wantSelect', filter', ownOnly)
         /\ selectedPid' \in Pids \cup {NoPid} /\ inspected' \subseteq Pids
         /\ filter' \in Pids \cup {NoPid} /\ wantSelect' \in Pids \cup {NoPid}
<1> DEFINE found == want \in r
           chosen == IF ~found \/ want = selectedKey THEN selectedPid
                     ELSE IF want \in Processes!Shown(r, f, ownOnly) THEN want ELSE NoPid
           died == chosen # NoPid /\ chosen \notin r
<1>1. /\ wantSelect' = IF found THEN NoPid ELSE want
      /\ filter' = IF died /\ f = chosen THEN NoPid ELSE f
      /\ IF died THEN Processes!Select(NoPid, r, f, ownOnly)
         ELSE IF found THEN Processes!Select(want, r, f, ownOnly)
         ELSE UNCHANGED <<selectedKey, selectedPid, inspected, processesDetail>>
  BY DEF Processes!AfterPoll
<1>2. found => want \in Processes!Shown(r, f, ownOnly)
  BY DEF Processes!Shown, WantedIsShown
<1>3. /\ filter' \in Pids \cup {NoPid} /\ wantSelect' \in Pids \cup {NoPid}
      /\ WantedIsShown(wantSelect', filter', ownOnly)
  <2> HIDE DEF died, chosen, found
  <2>1. filter' \in {f, NoPid} /\ wantSelect' \in {want, NoPid}
    BY <1>1
  <2> QED BY <2>1 DEF WantedIsShown
<1> HIDE DEF died, chosen
<1>4. CASE died
  BY <1>1, <1>3, <1>4, SelectKeepsMark
<1>5. CASE ~died /\ found
  BY <1>1, <1>2, <1>3, <1>5, SelectKeepsMark
<1>6. CASE ~died /\ ~found
  BY <1>1, <1>3, <1>6 DEF ProcessesTypes
<1> QED BY <1>4, <1>5, <1>6

\* Every step of the panel, and of the host, keeps that.
LEMMA ProcessesGoOn ==
  Processes!ProcessesAssumption /\ ~InHaste /\ ProcessesInv
    /\ [Processes!Next]_processesVars => ProcessesInv'
<1> SUFFICES ASSUME Processes!ProcessesAssumption, ~InHaste, ProcessesInv,
                    [Processes!Next]_processesVars
             PROVE  ProcessesInv'
  OBVIOUS
<1> DEFINE Mark == MarkIsTrue(selectedKey, selectedPid, processesDetail)
           Wanted == WantedIsShown(wantSelect, filter, ownOnly)
           Left == ~processesWatched => polling = "no" /\ signals = {} /\ prompt = NoPid
                                        /\ previous = FALSE
<1>1. NoPid \notin Pids /\ InHaste = FALSE
  BY DEF Processes!ProcessesAssumption
<1>2. ProcessesTypes /\ SignalsAreNamed /\ Mark /\ Wanted /\ Left
  BY DEF ProcessesInv
<1>3. SUFFICES ProcessesTypes' /\ SignalsAreNamed' /\ Mark' /\ Wanted' /\ Left'
  BY DEF ProcessesInv
<1>4. ASSUME NEW p \in Pids, Processes!Starts(p) \/ Processes!Ends(p)
      PROVE  ProcessesTypes' /\ SignalsAreNamed' /\ Mark' /\ Wanted' /\ Left'
  <2>1. UNCHANGED <<processesWatched, polling, list, previous, processesRows, filter, ownOnly, selectedKey,
                    selectedPid, wantSelect, inspected, processesDetail, prompt, signals, misfired>>
    BY <1>4 DEF Processes!Starts, Processes!Ends, Processes!pollVars, Processes!tableVars
  <2>2. living' \in SUBSET Pids
    <3>1. CASE Processes!Starts(p)
      BY <1>2, <3>1 DEF Processes!Starts, ProcessesTypes
    <3>2. CASE Processes!Ends(p)
      BY <1>2, <3>2 DEF Processes!Ends, ProcessesTypes
    <3> QED BY <1>4, <3>1, <3>2
  <2>3. ProcessesTypes' /\ SignalsAreNamed'
    BY <1>2, <2>1, <2>2 DEF ProcessesTypes, SignalsAreNamed
  <2> QED BY <1>2, <2>1, <2>3
<1>5. ASSUME NEW p \in Pids, Processes!Clicks(p)
      PROVE  ProcessesTypes' /\ SignalsAreNamed' /\ Mark' /\ Wanted' /\ Left'
  <2> DEFINE key == IF p = selectedKey THEN NoPid ELSE p
  <2>1. /\ p \in Processes!Shown(processesRows, filter, ownOnly)
        /\ Processes!Select(key, processesRows, filter, ownOnly)
        /\ UNCHANGED <<living, processesWatched, polling, list, previous, processesRows, filter,
                       ownOnly, wantSelect, prompt, signals, misfired>>
    BY <1>5 DEF Processes!Clicks, Processes!pollVars
  <2>2. key \in Pids \cup {NoPid} /\ (key = NoPid \/ key \in Processes!Shown(processesRows, filter, ownOnly))
    BY <2>1
  <2> HIDE DEF key
  <2>3. Mark' /\ selectedPid' = key /\ inspected' \subseteq Pids
    <3>1. processesRows \in SUBSET Pids
      BY <1>2 DEF ProcessesTypes
    <3> QED BY <1>1, <1>2, <2>1, <2>2, <3>1, SelectKeepsMark
  <2>4. ProcessesTypes' /\ SignalsAreNamed'
    BY <1>2, <2>1, <2>2, <2>3 DEF ProcessesTypes, SignalsAreNamed
  <2> QED BY <1>2, <2>1, <2>3, <2>4
<1>6. ASSUME NEW p \in Pids, Processes!Applies(p)
      PROVE  ProcessesTypes' /\ SignalsAreNamed' /\ Mark' /\ Wanted' /\ Left'
  <2>1. /\ ownOnly = FALSE /\ Processes!AfterPoll(processesRows, p, p)
        /\ UNCHANGED <<living, processesWatched, polling, list, previous, processesRows,
                       ownOnly, prompt, signals, misfired>>
    BY <1>1, <1>2, <1>6 DEF Processes!Applies, Processes!pollVars,
       ProcessesTypes
  <2>2. WantedIsShown(p, p, ownOnly) /\ processesRows \in SUBSET Pids /\ p \in Pids \cup {NoPid}
    BY <1>2, <2>1 DEF WantedIsShown, ProcessesTypes
  <2>3. /\ MarkIsTrue(selectedKey', selectedPid', processesDetail')
        /\ WantedIsShown(wantSelect', filter', ownOnly)
        /\ selectedPid' \in Pids \cup {NoPid} /\ inspected' \subseteq Pids
        /\ filter' \in Pids \cup {NoPid} /\ wantSelect' \in Pids \cup {NoPid}
    BY <1>1, <1>2, <2>1, <2>2, AfterPollKeeps
  <2>4. ProcessesTypes' /\ SignalsAreNamed'
    BY <1>2, <2>1, <2>3 DEF ProcessesTypes, SignalsAreNamed
  <2> QED BY <1>2, <2>1, <2>3, <2>4
<1>7. ASSUME NEW f \in Pids \cup {NoPid}, NEW own \in BOOLEAN, Processes!Filters(f, own)
      PROVE  ProcessesTypes' /\ SignalsAreNamed' /\ Mark' /\ Wanted' /\ Left'
  <2>1. /\ filter' = f /\ ownOnly' = own
        /\ wantSelect # NoPid => f \in {NoPid, wantSelect} /\ own = FALSE
        /\ UNCHANGED <<living, processesWatched, polling, list, previous, processesRows, selectedKey,
                       selectedPid, wantSelect, inspected, processesDetail, prompt, signals, misfired>>
    BY <1>1, <1>7 DEF Processes!Filters, Processes!pollVars
  <2>2. ProcessesTypes' /\ SignalsAreNamed' /\ Wanted'
    BY <1>2, <2>1 DEF ProcessesTypes, SignalsAreNamed, WantedIsShown
  <2> QED BY <1>2, <2>1, <2>2
<1>8. ASSUME NEW p \in inspected, NEW stillThere \in BOOLEAN, Processes!DetailArrives(p, stillThere)
      PROVE  ProcessesTypes' /\ SignalsAreNamed' /\ Mark' /\ Wanted' /\ Left'
  <2>1. /\ inspected' \subseteq Pids
        /\ UNCHANGED <<living, processesWatched, polling, list, previous, processesRows, filter, ownOnly,
                       selectedKey, selectedPid, wantSelect, prompt, signals, misfired>>
    BY <1>2, <1>8 DEF ProcessesTypes, Processes!DetailArrives, Processes!pollVars
  <2>2. processesDetail' \in {processesDetail, NoPid} \/ (processesDetail' = p /\ selectedPid = p)
    BY <1>8 DEF Processes!DetailArrives, Processes!StillSelected
  <2>3. Mark'
    BY <1>2, <2>1, <2>2 DEF MarkIsTrue
  <2>4. ProcessesTypes' /\ SignalsAreNamed'
    BY <1>2, <2>1 DEF ProcessesTypes, SignalsAreNamed
  <2> QED BY <1>2, <2>1, <2>3, <2>4
<1>9. ASSUME NEW p \in Pids, Processes!Asks(p)
      PROVE  ProcessesTypes' /\ SignalsAreNamed' /\ Mark' /\ Wanted' /\ Left'
  <2>1. /\ processesWatched /\ prompt' = p
        /\ UNCHANGED <<living, processesWatched, polling, list, previous, processesRows, filter,
                       ownOnly, wantSelect, signals, misfired>>
    BY <1>9 DEF Processes!Asks, Processes!pollVars
  <2>2. Mark' /\ inspected' \subseteq Pids /\ selectedPid' \in Pids \cup {NoPid}
    <3>1. CASE UNCHANGED <<selectedKey, selectedPid, inspected, processesDetail>>
      BY <1>2, <3>1 DEF ProcessesTypes
    <3>2. CASE p \in Processes!Shown(processesRows, filter, ownOnly) /\ Processes!Select(p, processesRows, filter, ownOnly)
      <4>1. processesRows \in SUBSET Pids
        BY <1>2 DEF ProcessesTypes
      <4> QED BY <1>1, <1>2, <3>2, <4>1, SelectKeepsMark
    <3> QED BY <1>9, <3>1, <3>2 DEF Processes!Asks
  <2>3. ProcessesTypes' /\ SignalsAreNamed'
    BY <1>2, <2>1, <2>2 DEF ProcessesTypes, SignalsAreNamed
  <2> QED BY <1>2, <2>1, <2>2, <2>3
<1>10. ASSUME NEW ok \in BOOLEAN, Processes!Answers(ok)
       PROVE  ProcessesTypes' /\ SignalsAreNamed' /\ Mark' /\ Wanted' /\ Left'
  <2>1. /\ prompt # NoPid /\ prompt' = NoPid
        /\ signals' = signals \/ signals' = {[named |-> prompt, pid |-> prompt]}
        /\ UNCHANGED <<living, processesWatched, polling, list, previous, processesRows, filter, ownOnly,
                       selectedKey, selectedPid, wantSelect, inspected, processesDetail, misfired>>
    BY <1>10 DEF Processes!Answers, Processes!Target, Processes!pollVars,
       Processes!tableVars
  <2>3. ProcessesTypes' /\ SignalsAreNamed'
    BY <1>2, <2>1 DEF ProcessesTypes, SignalsAreNamed
  <2> QED BY <1>2, <2>1, <2>3
<1>11. ASSUME NEW s \in signals, Processes!Delivered(s)
       PROVE  ProcessesTypes' /\ SignalsAreNamed' /\ Mark' /\ Wanted' /\ Left'
  <2>1. /\ signals' = signals \ {s} /\ polling' \in {polling, "asked"}
        /\ UNCHANGED <<living, processesWatched, list, previous, processesRows, filter, ownOnly,
                       selectedKey, selectedPid, wantSelect, inspected, processesDetail, prompt>>
        /\ misfired' = (misfired \/ (s.pid # s.named /\ s.pid \in living))
    BY <1>11 DEF Processes!Delivered, Processes!Poll, Processes!tableVars
  <2>2. misfired' = FALSE
    BY <1>2, <2>1 DEF SignalsAreNamed
  <2>3. ProcessesTypes' /\ SignalsAreNamed' /\ Left'
    BY <1>2, <2>1, <2>2 DEF ProcessesTypes, SignalsAreNamed
  <2> QED BY <1>2, <2>1, <2>3
<1>12. ASSUME Processes!Polls \/ Processes!ListTaken \/ Processes!ListFails \/ Processes!Activates
              \/ Processes!Deactivates
       PROVE  ProcessesTypes' /\ SignalsAreNamed' /\ Mark' /\ Wanted' /\ Left'
  <2>1. /\ UNCHANGED <<living, processesRows, filter, ownOnly, selectedKey,
                       selectedPid, wantSelect, inspected, processesDetail, prompt, signals, misfired>>
        /\ list' \in {list, living, {}} /\ polling' \in {"no", "asked", "taken"}
        /\ previous' \in BOOLEAN /\ processesWatched' \in BOOLEAN
    BY <1>2, <1>12 DEF Processes!Polls, Processes!ListTaken, Processes!ListFails,
       Processes!Activates,
       Processes!Deactivates, Processes!Poll, Processes!tableVars, ProcessesTypes
  <2>2. ProcessesTypes' /\ SignalsAreNamed'
    BY <1>2, <2>1 DEF ProcessesTypes, SignalsAreNamed
  <2>3. Left'
    BY <1>1, <1>2, <1>12 DEF Processes!Polls, Processes!ListTaken, Processes!ListFails,
       Processes!Activates, Processes!Deactivates, Processes!Poll
  <2> QED BY <1>2, <2>1, <2>2, <2>3
<1>13. ASSUME Processes!ListArrives
       PROVE  ProcessesTypes' /\ SignalsAreNamed' /\ Mark' /\ Wanted' /\ Left'
  <2>1. /\ polling = "taken" /\ polling' = "no" /\ list' = {} /\ processesRows' = list
        /\ previous' = TRUE /\ Processes!AfterPoll(list, filter, wantSelect)
        /\ UNCHANGED <<living, processesWatched, ownOnly, prompt, signals, misfired>>
    BY <1>13 DEF Processes!ListArrives
  <2>2. list \in SUBSET Pids /\ filter \in Pids \cup {NoPid} /\ wantSelect \in Pids \cup {NoPid}
    BY <1>2 DEF ProcessesTypes
  <2>3. /\ MarkIsTrue(selectedKey', selectedPid', processesDetail')
        /\ WantedIsShown(wantSelect', filter', ownOnly)
        /\ selectedPid' \in Pids \cup {NoPid} /\ inspected' \subseteq Pids
        /\ filter' \in Pids \cup {NoPid} /\ wantSelect' \in Pids \cup {NoPid}
    BY <1>1, <1>2, <2>1, <2>2, AfterPollKeeps
  <2>4. previous' \in BOOLEAN
    BY <2>1
  <2>5. ProcessesTypes' /\ SignalsAreNamed'
    BY <1>2, <2>1, <2>2, <2>3, <2>4 DEF ProcessesTypes, SignalsAreNamed
  <2> QED BY <1>2, <2>1, <2>3, <2>5
<1>14. CASE UNCHANGED processesVars
  BY <1>2, <1>14 DEF processesVars, ProcessesTypes, SignalsAreNamed
<1> HIDE DEF Mark, Wanted, Left
<1> QED BY <1>4, <1>5, <1>6, <1>7, <1>8, <1>9, <1>10, <1>11, <1>12, <1>13, <1>14 DEF Processes!Next

\* In that invariant a signal is for the process that was named, and the details are of the row
\* that is marked.
LEMMA ProcessesHold == ProcessesInv => Processes!KillsWhatWasNamed
BY DEF ProcessesInv, MarkIsTrue, SignalsAreNamed, Processes!KillsWhatWasNamed,
   Processes!DetailIsOfTheMarked, Processes!MarkedIsSelected, Processes!StruckIsNamed,
   Processes!RatesAreOfAdjacentLists

-----------------------------------------------------------------------------
(* The journal panel.                                                       *)

\* What can be in the boxes, and what a stream can send.
Boxes == [Journal!Fields -> 0..1]
FromStreams == [of : 1..Streams, what : {"entries", "backlog", "closed"}, filters : Boxes]

\* The panel's variables have their types.
JournalTypes ==
  /\ active \in BOOLEAN /\ gone \in BOOLEAN /\ boxes \in Boxes /\ filters \in Boxes
  /\ debounce \in Journal!Typed \cup {""} /\ generation \in 0..Streams /\ stream \in 0..generation
  /\ served \in [1..Streams -> Boxes \cup {Journal!Shut}] /\ arriving \in Seq(FromStreams)
  /\ journalRows \in Seq(Boxes)

\* The filters are what is in the boxes, but for the one that is being typed in; and what is
\* shown came through them.
FiltersAreTheBoxes ==
  /\ gone = FALSE => \A f \in Journal!Fields : f # debounce => filters[f] = boxes[f]
  /\ active = TRUE => gone = FALSE /\ \A k \in 1..Len(journalRows) : journalRows[k] = filters

\* The one stream the server has is the panel's, for its filters, and so is what it sends; what
\* it says last is that it is closed.
StreamIsThePanels ==
  /\ \A g \in 1..Streams : served[g] # Journal!Shut => g = stream /\ served[g] = filters
  /\ active = FALSE => stream = 0
  /\ \A k \in 1..Len(arriving) :
       /\ arriving[k].of <= generation
       /\ arriving[k].of = stream => arriving[k].filters = filters
       /\ arriving[k].what = "closed" => served[arriving[k].of] = Journal!Shut

JournalInv == JournalTypes /\ FiltersAreTheBoxes /\ StreamIsThePanels

\* The filters of an open stream are not those of one that is shut.
LEMMA ShutIsNoFilter == Journal!Shut \notin Boxes
<1>1. Journal!Shut["unit"] = 9 /\ \A f \in Boxes : f["unit"] \in 0..1
  BY DEF Journal!Shut, Journal!Fields, Journal!Typed, Boxes
<1> QED BY <1>1

\* The panel starts empty and out of sight.
LEMMA JournalBegins == Journal!JournalViewerAssumption /\ Journal!Init => JournalInv
<1> SUFFICES ASSUME Journal!JournalViewerAssumption, Journal!Init PROVE JournalInv
  OBVIOUS
<1>1. /\ active = FALSE /\ gone = FALSE /\ debounce = "" /\ generation = 0 /\ stream = 0
      /\ boxes = Journal!Blank /\ filters = Journal!Blank
      /\ served = [g \in 1..Streams |-> Journal!Shut] /\ arriving = <<>> /\ journalRows = <<>>
  BY DEF Journal!Init, Journal!None
<1>2. Journal!Blank \in Boxes /\ Streams \in Nat
  BY DEF Journal!Blank, Boxes, Journal!JournalViewerAssumption
<1>3. /\ Len(arriving) = 0 /\ Len(journalRows) = 0
      /\ arriving \in Seq(FromStreams) /\ journalRows \in Seq(Boxes)
  BY <1>1, EmptySeq
<1>4. /\ served \in [1..Streams -> Boxes \cup {Journal!Shut}]
      /\ \A g \in 1..Streams : served[g] = Journal!Shut
  BY <1>1
<1>8. generation \in 0..Streams /\ stream \in 0..generation
  <2>1. 0 \in 0..Streams /\ 0 \in 0..0
    BY <1>2
  <2> QED BY <1>1, <2>1
<1>5. JournalTypes
  BY <1>1, <1>2, <1>3, <1>4, <1>8 DEF JournalTypes
<1>6. FiltersAreTheBoxes
  BY <1>1 DEF FiltersAreTheBoxes
<1>7. StreamIsThePanels
  <2>1. \A k \in 1..Len(arriving) : FALSE
    BY <1>3
  <2> QED BY <1>1, <1>4, <2>1 DEF StreamIsThePanels
<1> QED BY <1>5, <1>6, <1>7 DEF JournalInv

\* Closing the stream there is leaves the server with none.
LEMMA ClosingLeavesNone ==
  ASSUME Journal!JournalViewerAssumption, JournalInv
  PROVE  Journal!Closing(stream) = [g \in 1..Streams |-> Journal!Shut]
<1>1. /\ stream \in Nat /\ served \in [1..Streams -> Boxes \cup {Journal!Shut}]
      /\ \A g \in 1..Streams : g # stream => served[g] = Journal!Shut
  <2>1. Streams \in Nat /\ generation \in 0..Streams /\ stream \in 0..generation
    BY DEF JournalInv, JournalTypes, Journal!JournalViewerAssumption
  <2>2. stream \in Nat
    BY <2>1
  <2> QED BY <2>2 DEF JournalInv, JournalTypes, StreamIsThePanels
<1>2. CASE stream = 0
  BY <1>1, <1>2 DEF Journal!Closing, Journal!None
<1>3. CASE stream # 0
  BY <1>1, <1>3 DEF Journal!Closing, Journal!None
<1> QED BY <1>2, <1>3

\* A stream that is opened for the filters is the only one, and shows nothing yet.
LEMMA OpensKeepsStreams ==
  ASSUME Journal!JournalViewerAssumption, JournalInv, NEW f \in Boxes, filters' = f, active' = TRUE,
         Journal!Opens(f)
  PROVE  /\ generation' \in 0..Streams /\ stream' \in 0..generation' /\ journalRows' = <<>>
         /\ served' \in [1..Streams -> Boxes \cup {Journal!Shut}] /\ arriving' \in Seq(FromStreams)
         /\ StreamIsThePanels'
<1>1. /\ generation \in 0..Streams /\ Streams \in Nat /\ arriving \in Seq(FromStreams)
      /\ generation < Streams /\ generation' = generation + 1 /\ stream' = generation + 1
      /\ journalRows' = <<>> /\ arriving' = arriving
      /\ served' = [[g \in 1..Streams |-> Journal!Shut] EXCEPT ![generation + 1] = f]
  BY ClosingLeavesNone DEF JournalInv, JournalTypes, Journal!Opens, Journal!JournalViewerAssumption
<1>2. \A g \in 1..Streams : served'[g] = IF g = generation + 1 THEN f ELSE Journal!Shut
  BY <1>1
<1>3. served' \in [1..Streams -> Boxes \cup {Journal!Shut}]
  BY <1>1
<1>4. ASSUME NEW k \in 1..Len(arriving)
      PROVE  /\ arriving[k].of \in 1..Streams /\ arriving[k].of <= generation
             /\ arriving[k].of # generation + 1
  <2>1. arriving[k] \in FromStreams /\ arriving[k].of <= generation
    BY <1>1, ElementOfSeq DEF JournalInv, StreamIsThePanels
  <2> QED BY <1>1, <2>1 DEF FromStreams
<1>5. StreamIsThePanels'
  BY <1>1, <1>2, <1>4 DEF StreamIsThePanels
<1> QED BY <1>1, <1>3, <1>5

\* So is none at all.
LEMMA ClosesKeepsStreams ==
  ASSUME Journal!JournalViewerAssumption, JournalInv, Journal!ClosesStream
  PROVE  /\ generation' = generation /\ stream' = 0 /\ journalRows' = journalRows
         /\ served' \in [1..Streams -> Boxes \cup {Journal!Shut}] /\ arriving' = arriving
         /\ StreamIsThePanels'
<1>1. /\ generation' = generation /\ stream' = 0 /\ journalRows' = journalRows /\ arriving' = arriving
      /\ served' = [g \in 1..Streams |-> Journal!Shut] /\ arriving \in Seq(FromStreams)
  BY ClosingLeavesNone DEF JournalInv, JournalTypes, Journal!ClosesStream, Journal!None
<1>2. ASSUME NEW k \in 1..Len(arriving)
      PROVE  arriving[k].of \in 1..Streams /\ arriving[k].of <= generation
  <2>1. arriving[k] \in FromStreams /\ arriving[k].of <= generation
    BY <1>1, <1>2, ElementOfSeq DEF JournalInv, StreamIsThePanels
  <2> QED BY <2>1 DEF FromStreams
<1>3. \A g \in 1..Streams : served'[g] = Journal!Shut
  BY <1>1
<1>4. StreamIsThePanels'
  BY <1>1, <1>2, <1>3 DEF StreamIsThePanels
<1> QED BY <1>1, <1>4

\* Nothing has a place in a sequence without a length; zero has one in what starts with it.
LEMMA NoPlace == ASSUME NEW q, Len(q) = 0 PROVE \A k \in 1..Len(q) : FALSE
OBVIOUS
LEMMA ZeroIsFirst == ASSUME NEW n \in Nat, NEW g \in 0..n PROVE 0 \in 0..g
OBVIOUS

\* Filters that are taken from the boxes restart the stream.
LEMMA JournalRestarts ==
  ASSUME Journal!JournalViewerAssumption, JournalInv, gone = FALSE, NEW f \in Boxes, Journal!Restart(f),
         boxes' \in Boxes, debounce' \in Journal!Typed \cup {""}, UNCHANGED <<active, gone>>,
         \A g \in Journal!Fields : g # debounce' => f[g] = boxes'[g]
  PROVE  JournalInv'
<1>1. filters' = f /\ active \in BOOLEAN
  BY DEF Journal!Restart, JournalInv, JournalTypes
<1>2. CASE active = TRUE
  <2>1. Journal!Opens(f)
    BY <1>2 DEF Journal!Restart
  <2>2. /\ generation' \in 0..Streams /\ stream' \in 0..generation' /\ journalRows' = <<>>
        /\ served' \in [1..Streams -> Boxes \cup {Journal!Shut}] /\ arriving' \in Seq(FromStreams)
        /\ StreamIsThePanels'
    BY <1>1, <1>2, <2>1, OpensKeepsStreams
  <2>3. Len(journalRows') = 0 /\ journalRows' \in Seq(Boxes)
    <3>1. journalRows' = <<>>
      BY <2>2
    <3>2. <<>> \in Seq(Boxes) /\ Len(<<>>) = 0
      BY EmptySeq
    <3> QED BY <3>1, <3>2, Zenon
  <2>4. JournalTypes'
    BY <1>1, <2>2, <2>3 DEF JournalInv, JournalTypes
  <2>5. FiltersAreTheBoxes'
    <3>1. \A k \in 1..Len(journalRows') : FALSE
      BY <2>3, NoPlace, Zenon
    <3>2. active' = TRUE => gone' = FALSE
      OBVIOUS
    <3> QED BY <1>1, <3>1, <3>2 DEF FiltersAreTheBoxes
  <2> QED BY <2>2, <2>4, <2>5 DEF JournalInv
<1>3. CASE active = FALSE
  <2>1. Journal!ClosesStream
    BY <1>3 DEF Journal!Restart
  <2>2. /\ generation' = generation /\ stream' = 0 /\ journalRows' = journalRows
        /\ served' \in [1..Streams -> Boxes \cup {Journal!Shut}] /\ arriving' = arriving
        /\ StreamIsThePanels'
    BY <2>1, ClosesKeepsStreams
  <2>3. generation' \in 0..Streams /\ stream' \in 0..generation' /\ arriving' \in Seq(FromStreams)
    <3>1. Streams \in Nat /\ generation \in 0..Streams
      BY DEF JournalInv, JournalTypes, Journal!JournalViewerAssumption
    <3>4. arriving \in Seq(FromStreams)
      BY DEF JournalInv, JournalTypes
    <3>2. stream' = 0 /\ generation' = generation /\ arriving' = arriving
      BY <2>2
    <3>3. 0 \in 0..generation
      BY <3>1, ZeroIsFirst, Zenon
    <3> QED BY <3>1, <3>2, <3>3, <3>4
  <2>4. JournalTypes'
    BY <1>1, <2>2, <2>3 DEF JournalInv, JournalTypes
  <2>5. FiltersAreTheBoxes'
    BY <1>1, <1>3 DEF FiltersAreTheBoxes
  <2> QED BY <2>2, <2>4, <2>5 DEF JournalInv
<1> QED BY <1>1, <1>2, <1>3

\* Typing in a box is in the boxes at once, and in the filters after the pause.
LEMMA TypesKeepsFilters ==
  ASSUME Pauses = TRUE, JournalInv, NEW f \in Journal!Typed, NEW v \in 0..1, Journal!Types(f, v)
  PROVE  JournalInv'
<1>1. /\ boxes' = [boxes EXCEPT ![f] = v] /\ debounce' = f /\ (debounce # "" => debounce = f)
      /\ active = TRUE /\ gone = FALSE
      /\ UNCHANGED <<active, gone, filters, generation, stream, served, arriving, journalRows>>
  <2>1. active \in BOOLEAN /\ gone \in BOOLEAN
    BY DEF JournalInv, JournalTypes
  <2> QED BY <2>1 DEF Journal!Types
<1>2. f \in Journal!Fields /\ boxes \in Boxes /\ "" \notin Journal!Fields
  BY DEF Journal!Fields, Journal!Typed, JournalInv, JournalTypes
<1>3. boxes' \in Boxes /\ \A g \in Journal!Fields : g # f => boxes'[g] = boxes[g]
  BY <1>1, <1>2 DEF Boxes
<1>4. JournalTypes'
  BY <1>1, <1>3 DEF JournalInv, JournalTypes
<1>5. \A g \in Journal!Fields : g # f => filters[g] = boxes[g]
  BY <1>1, <1>2 DEF JournalInv, FiltersAreTheBoxes
<1>6. FiltersAreTheBoxes'
  BY <1>1, <1>3, <1>5 DEF JournalInv, FiltersAreTheBoxes
<1>7. StreamIsThePanels'
  BY <1>1 DEF JournalInv, StreamIsThePanels
<1> QED BY <1>4, <1>6, <1>7 DEF JournalInv

\* So are the other ways to choose a filter.
LEMMA ChoiceKeepsFilters ==
  ASSUME Journal!JournalViewerAssumption, JournalInv,
         NEW fs \in SUBSET Journal!Fields, NEW v \in 0..1,
         Journal!TakesEffect \/ Journal!Chooses(v) \/ Journal!Sets(fs, v)
  PROVE  JournalInv'
<1>1. /\ boxes \in Boxes /\ filters \in Boxes /\ gone \in BOOLEAN
      /\ debounce \in Journal!Typed \cup {""} /\ "others" \in Journal!Fields
      /\ Journal!Typed \subseteq Journal!Fields /\ "" \notin Journal!Fields
  BY DEF JournalInv, JournalTypes, Journal!Fields, Journal!Typed
<1>2. gone = FALSE
  BY <1>1 DEF Journal!TakesEffect, Journal!Chooses, Journal!Sets
<1>3. \A g \in Journal!Fields : g # debounce => filters[g] = boxes[g]
  BY <1>2 DEF JournalInv, FiltersAreTheBoxes
<1>4. CASE Journal!TakesEffect
  <2> DEFINE f == [filters EXCEPT ![debounce] = boxes[debounce]]
  <2>1. /\ Journal!Restart(f) /\ debounce' = "" /\ debounce \in Journal!Fields
        /\ UNCHANGED <<active, gone, boxes>>
    BY <1>1, <1>4 DEF Journal!TakesEffect
  <2>2. boxes' = boxes /\ boxes' \in Boxes /\ debounce' \in Journal!Typed \cup {""}
    BY <1>1, <2>1
  <2>3. f \in Boxes /\ \A g \in Journal!Fields : f[g] = boxes[g]
    BY <1>1, <1>3, <2>1 DEF Boxes
  <2> HIDE DEF f
  <2>4. \A g \in Journal!Fields : g # debounce' => f[g] = boxes'[g]
    BY <2>2, <2>3
  <2> QED BY <1>2, <2>1, <2>2, <2>3, <2>4, JournalRestarts
<1>5. CASE Journal!Chooses(v)
  <2> DEFINE f == [filters EXCEPT !["others"] = v]
  <2>1. /\ Journal!Restart(f) /\ debounce' = debounce /\ boxes' = [boxes EXCEPT !["others"] = v]
        /\ UNCHANGED <<active, gone>>
    BY <1>5 DEF Journal!Chooses
  <2>2. boxes' \in Boxes /\ debounce' \in Journal!Typed \cup {""}
    BY <1>1, <2>1 DEF Boxes
  <2>3. f \in Boxes
    BY <1>1 DEF Boxes
  <2>4. \A g \in Journal!Fields : g # debounce' => f[g] = boxes'[g]
    BY <1>1, <1>3, <2>1 DEF Boxes
  <2> HIDE DEF f
  <2> QED BY <1>2, <2>1, <2>2, <2>3, <2>4, JournalRestarts
<1>6. CASE Journal!Sets(fs, v)
  <2> DEFINE f == [g \in Journal!Fields |-> IF g \in fs THEN v ELSE filters[g]]
  <2>1. /\ Journal!Restart(f) /\ debounce' = debounce
        /\ boxes' = [g \in Journal!Fields |-> IF g \in fs THEN v ELSE boxes[g]]
        /\ UNCHANGED <<active, gone>>
    BY <1>6 DEF Journal!Sets
  <2>2. boxes' \in Boxes /\ debounce' \in Journal!Typed \cup {""}
    BY <1>1, <2>1 DEF Boxes
  <2>3. f \in Boxes
    BY <1>1 DEF Boxes
  <2>4. \A g \in Journal!Fields : g # debounce' => f[g] = boxes'[g]
    BY <1>1, <1>3, <2>1 DEF Boxes
  <2> HIDE DEF f
  <2> QED BY <1>2, <2>1, <2>2, <2>3, <2>4, JournalRestarts
<1> QED BY <1>4, <1>5, <1>6

\* A panel that is shown opens a stream for the boxes.
LEMMA ActivatesKeepsFilters ==
  ASSUME Journal!JournalViewerAssumption, JournalInv, Journal!Activates
  PROVE  JournalInv'
<1>1. /\ active' = TRUE /\ gone = FALSE /\ Journal!Opens(filters) /\ filters' = filters
      /\ filters \in Boxes /\ UNCHANGED <<gone, boxes, debounce>>
  <2>1. gone \in BOOLEAN
    BY DEF JournalInv, JournalTypes
  <2> QED BY <2>1 DEF Journal!Activates, JournalInv, JournalTypes
<1>2. /\ generation' \in 0..Streams /\ stream' \in 0..generation' /\ journalRows' = <<>>
      /\ served' \in [1..Streams -> Boxes \cup {Journal!Shut}] /\ arriving' \in Seq(FromStreams)
      /\ StreamIsThePanels'
  BY <1>1, OpensKeepsStreams
<1>3. Len(journalRows') = 0 /\ journalRows' \in Seq(Boxes)
  <2>1. journalRows' = <<>>
    BY <1>2
  <2>2. <<>> \in Seq(Boxes) /\ Len(<<>>) = 0
    BY EmptySeq
  <2> QED BY <2>1, <2>2, Zenon
<1>4. JournalTypes'
  BY <1>1, <1>2, <1>3 DEF JournalInv, JournalTypes
<1>5. FiltersAreTheBoxes'
  <2>1. \A k \in 1..Len(journalRows') : FALSE
    BY <1>3, NoPlace, Zenon
  <2> QED BY <1>1, <2>1 DEF JournalInv, FiltersAreTheBoxes
<1> QED BY <1>2, <1>4, <1>5 DEF JournalInv

\* One that is left closes it. What was being typed is given up with the panel alone.
LEMMA DeactivatesKeepsFilters ==
  ASSUME Journal!JournalViewerAssumption, Pauses = TRUE, JournalInv, NEW forGood \in BOOLEAN,
         Journal!Deactivates(forGood)
  PROVE  JournalInv'
<1>1. /\ active' = FALSE /\ gone = FALSE /\ gone' = forGood /\ debounce' = ""
      /\ (debounce = "" \/ forGood) /\ Journal!ClosesStream /\ UNCHANGED <<boxes, filters>>
  <2>1. gone \in BOOLEAN
    BY DEF JournalInv, JournalTypes
  <2> QED BY <2>1 DEF Journal!Deactivates
<1>2. /\ generation' = generation /\ stream' = 0 /\ journalRows' = journalRows
      /\ served' \in [1..Streams -> Boxes \cup {Journal!Shut}] /\ arriving' = arriving
      /\ StreamIsThePanels'
  BY <1>1, ClosesKeepsStreams
<1>3. stream' \in 0..generation'
  <2>1. Streams \in Nat /\ generation \in 0..Streams
    BY DEF JournalInv, JournalTypes, Journal!JournalViewerAssumption
  <2>2. 0 \in 0..generation
    BY <2>1, ZeroIsFirst, Zenon
  <2> QED BY <1>2, <2>2
<1>4. JournalTypes'
  <2>1. gone' \in BOOLEAN /\ active' \in BOOLEAN
    BY <1>1
  <2> QED BY <1>1, <1>2, <1>3, <2>1 DEF JournalInv, JournalTypes
<1>5. FiltersAreTheBoxes'
  BY <1>1 DEF JournalInv, FiltersAreTheBoxes
<1> QED BY <1>2, <1>4, <1>5 DEF JournalInv

\* What the server sends is of the panel's stream, and nothing after it is closed.
LEMMA SendingKeepsStreams ==
  ASSUME Journal!JournalViewerAssumption, JournalInv, NEW g \in 1..Streams, NEW what \in {"entries", "backlog", "closed"},
         Journal!ServerSends(g, what)
  PROVE  JournalInv'
<1> DEFINE m == [of |-> g, what |-> what, filters |-> served[g]]
<1>1. /\ served[g] # Journal!Shut /\ arriving' = Append(arriving, m)
      /\ served' = IF what = "closed" THEN [served EXCEPT ![g] = Journal!Shut] ELSE served
      /\ UNCHANGED <<active, gone, boxes, filters, debounce, generation, stream, journalRows>>
  BY DEF Journal!ServerSends, Journal!Served
<1>2. /\ served \in [1..Streams -> Boxes \cup {Journal!Shut}] /\ arriving \in Seq(FromStreams)
      /\ g = stream /\ served[g] = filters /\ stream \in 0..generation /\ filters \in Boxes
  BY <1>1 DEF JournalInv, JournalTypes, StreamIsThePanels
<1>3. m \in FromStreams /\ m.of = stream /\ m.what = what /\ m.filters = filters
  BY <1>2 DEF FromStreams
<1> HIDE DEF m
<1>4. /\ arriving' \in Seq(FromStreams) /\ Len(arriving') = Len(arriving) + 1 /\ Len(arriving) \in Nat
      /\ \A k \in 1..Len(arriving) : arriving'[k] = arriving[k]
      /\ arriving'[Len(arriving) + 1] = m
  BY <1>1, <1>2, <1>3, AppendProperties, LenProperties
<1>5. /\ served' \in [1..Streams -> Boxes \cup {Journal!Shut}]
      /\ \A h \in 1..Streams : served'[h] # Journal!Shut => served[h] # Journal!Shut /\ served'[h] = served[h]
      /\ what = "closed" => served'[g] = Journal!Shut
  BY <1>1, <1>2
<1>6. JournalTypes'
  BY <1>1, <1>4, <1>5 DEF JournalInv, JournalTypes
<1>7. ASSUME NEW k \in 1..Len(arriving')
      PROVE  /\ arriving'[k].of <= generation
             /\ arriving'[k].of = stream => arriving'[k].filters = filters
             /\ arriving'[k].what = "closed" => served'[arriving'[k].of] = Journal!Shut
  <2>1. CASE k \in 1..Len(arriving)
    <3>1. arriving[k] \in FromStreams
      BY <1>2, <2>1, ElementOfSeq
    <3>2. arriving[k].of \in 1..Streams
      BY <3>1 DEF FromStreams
    <3>3. /\ arriving[k].of <= generation
          /\ arriving[k].of = stream => arriving[k].filters = filters
          /\ arriving[k].what = "closed" => served[arriving[k].of] = Journal!Shut
      BY <2>1 DEF JournalInv, StreamIsThePanels
    <3>4. arriving'[k] = arriving[k]
      BY <1>4, <2>1
    <3> QED BY <1>5, <3>2, <3>3, <3>4
  <2>2. CASE k = Len(arriving) + 1
    <3>1. Streams \in Nat /\ generation \in 0..Streams /\ stream \in 0..generation
      BY DEF JournalInv, JournalTypes, Journal!JournalViewerAssumption
    <3> QED BY <1>2, <1>3, <1>4, <1>5, <2>2, <3>1
  <2> QED BY <1>4, <2>1, <2>2
<1>8. StreamIsThePanels'
  <2>1. /\ \A h \in 1..Streams : served'[h] # Journal!Shut => h = stream' /\ served'[h] = filters'
        /\ active' = FALSE => stream' = 0
    BY <1>1, <1>5 DEF JournalInv, StreamIsThePanels
  <2> QED BY <1>1, <1>7, <2>1 DEF StreamIsThePanels
<1>9. FiltersAreTheBoxes'
  BY <1>1 DEF JournalInv, FiltersAreTheBoxes
<1> QED BY <1>6, <1>8, <1>9 DEF JournalInv

\* Rows that came through one filter still do when another is added and the oldest dropped.
LEMMA TrimmedKeeps ==
  ASSUME Journal!JournalViewerAssumption, NEW S, NEW q \in Seq(S), NEW x \in S
  PROVE  /\ Journal!Trimmed(Append(q, x)) \in Seq(S)
         /\ (\A k \in 1..Len(q) : q[k] = x) =>
              \A k \in 1..Len(Journal!Trimmed(Append(q, x))) : Journal!Trimmed(Append(q, x))[k] = x
<1> DEFINE r == Append(q, x)  n == Len(r)
<1>1. /\ r \in Seq(S) /\ Len(q) \in Nat /\ n = Len(q) + 1 /\ MaxRows \in Nat
      /\ \A k \in 1..Len(q) : r[k] = q[k]
      /\ r[Len(q) + 1] = x
  BY AppendProperties, LenProperties DEF Journal!JournalViewerAssumption
<1>2. (\A k \in 1..Len(q) : q[k] = x) => \A k \in 1..n : r[k] = x
  BY <1>1
<1>3. \A k \in 1..n : r[k] \in S
  BY <1>1, ElementOfSeq
<1> HIDE DEF r, n
<1>4. CASE n > MaxRows
  <2> DEFINE t == SubSeq(r, n + 1 - MaxRows, n)
  <2>1. n \in Nat /\ n + 1 - MaxRows \in Int /\ n + 1 - MaxRows >= 1
    BY <1>1, <1>4
  <2>2. /\ t \in Seq(S) /\ Len(t) = (IF n + 1 - MaxRows <= n THEN n - (n + 1 - MaxRows) + 1 ELSE 0)
        /\ \A i \in 1 .. n - (n + 1 - MaxRows) + 1 : t[i] = r[n + 1 - MaxRows + i - 1]
    <3>1. \A i \in (n + 1 - MaxRows) .. n : r[i] \in S
      BY <1>3, <2>1
    <3>2. n \in Int
      BY <2>1
    <3> HIDE DEF t
    <3> QED BY <2>1, <3>1, <3>2, SubSeqProperties DEF t
  <2>3. Journal!Trimmed(r) = t
    BY <1>4 DEF Journal!Trimmed, n
  <2> HIDE DEF t
  <2>4. \A i \in 1..Len(t) : n + 1 - MaxRows + i - 1 \in 1..n /\ t[i] = r[n + 1 - MaxRows + i - 1]
    BY <1>1, <2>1, <2>2
  <2>5. (\A k \in 1..n : r[k] = x) => \A i \in 1..Len(t) : t[i] = x
    BY <2>4
  <2> QED BY <1>2, <2>2, <2>3, <2>5 DEF r
<1>5. CASE ~(n > MaxRows)
  <2>1. Journal!Trimmed(r) = r
    BY <1>5 DEF Journal!Trimmed, n
  <2> QED BY <1>1, <1>2, <2>1 DEF r, n
<1> QED BY <1>4, <1>5

\* What arrives is shown when it is of the stream the panel has.
LEMMA ArrivingKeepsStreams ==
  ASSUME Journal!JournalViewerAssumption, JournalInv, Journal!Arrives
  PROVE  JournalInv'
<1> DEFINE m == Head(arriving)
<1>1. /\ arriving # <<>> /\ arriving' = Tail(arriving) /\ arriving \in Seq(FromStreams)
      /\ journalRows' = IF m.of = stream /\ m.what = "entries"
                        THEN Journal!Trimmed(Append(journalRows, m.filters)) ELSE journalRows
      /\ stream' = IF m.of = stream /\ m.what = "closed" THEN 0 ELSE stream
      /\ UNCHANGED <<active, gone, boxes, filters, debounce, generation, served>>
  BY DEF Journal!Arrives, Journal!None, JournalInv, JournalTypes
<1>2. /\ m \in FromStreams /\ m = arriving[1] /\ arriving' \in Seq(FromStreams)
      /\ Len(arriving) \in Nat \ {0} /\ Len(arriving') = Len(arriving) - 1
      /\ \A k \in 1..(Len(arriving) - 1) : arriving'[k] = arriving[k + 1]
  BY <1>1, WithoutFirst
<1> HIDE DEF m
<1>3. \A k \in 1..Len(arriving) :
        /\ arriving[k].of <= generation
        /\ arriving[k].of = stream => arriving[k].filters = filters
        /\ arriving[k].what = "closed" => served[arriving[k].of] = Journal!Shut
  BY DEF JournalInv, StreamIsThePanels
<1>4. /\ 1 \in 1..Len(arriving) /\ m.of \in 1..Streams /\ m.filters \in Boxes
      /\ m.of = stream => m.filters = filters
      /\ m.what = "closed" => served[m.of] = Journal!Shut
  <2>1. 1 \in 1..Len(arriving)
    BY <1>2
  <2> QED BY <1>2, <1>3, <2>1 DEF FromStreams
<1>5. /\ journalRows \in Seq(Boxes) /\ stream \in 0..generation /\ Streams \in Nat
      /\ generation \in 0..Streams
  BY DEF JournalInv, JournalTypes, Journal!JournalViewerAssumption
<1>6. /\ journalRows' \in Seq(Boxes)
      /\ active = TRUE => \A k \in 1..Len(journalRows') : journalRows'[k] = filters
  <2>1. active = TRUE => \A k \in 1..Len(journalRows) : journalRows[k] = filters
    BY DEF JournalInv, FiltersAreTheBoxes
  <2>2. CASE m.of = stream /\ m.what = "entries"
    <3>1. journalRows' = Journal!Trimmed(Append(journalRows, filters)) /\ filters \in Boxes
      BY <1>1, <1>4, <2>2
    <3>2. /\ Journal!Trimmed(Append(journalRows, filters)) \in Seq(Boxes)
          /\ (\A k \in 1..Len(journalRows) : journalRows[k] = filters) =>
               \A k \in 1..Len(Journal!Trimmed(Append(journalRows, filters))) :
                 Journal!Trimmed(Append(journalRows, filters))[k] = filters
      BY <1>5, <3>1, TrimmedKeeps
    <3> QED BY <2>1, <3>1, <3>2
  <2>3. CASE ~(m.of = stream /\ m.what = "entries")
    <3>1. journalRows' = journalRows
      BY <1>1, <2>3
    <3> QED BY <1>5, <2>1, <3>1
  <2> QED BY <2>2, <2>3
<1>7. stream' \in 0..generation
  BY <1>1, <1>5
<1>8. JournalTypes'
  BY <1>1, <1>2, <1>6, <1>7 DEF JournalInv, JournalTypes
<1>9. FiltersAreTheBoxes'
  BY <1>1, <1>6 DEF JournalInv, FiltersAreTheBoxes
<1>10. /\ \A g \in 1..Streams : served[g] # Journal!Shut => g = stream' /\ served[g] = filters
       /\ active = FALSE => stream' = 0
  <2>1. /\ \A g \in 1..Streams : served[g] # Journal!Shut => g = stream /\ served[g] = filters
        /\ active = FALSE => stream = 0
    BY DEF JournalInv, StreamIsThePanels
  <2>2. CASE m.of = stream /\ m.what = "closed"
    BY <1>1, <1>4, <2>1, <2>2
  <2>3. CASE ~(m.of = stream /\ m.what = "closed")
    BY <1>1, <2>1, <2>3
  <2> QED BY <2>2, <2>3
<1>11. ASSUME NEW k \in 1..Len(arriving')
       PROVE  /\ arriving'[k].of <= generation
              /\ arriving'[k].of = stream' => arriving'[k].filters = filters
              /\ arriving'[k].what = "closed" => served[arriving'[k].of] = Journal!Shut
  <2>1. k + 1 \in 1..Len(arriving) /\ arriving'[k] = arriving[k + 1]
    BY <1>2
  <2>2. arriving'[k] \in FromStreams
    BY <1>2, ElementOfSeq
  <2>3. stream' \in {0, stream} /\ arriving'[k].of # 0
    <3>1. arriving'[k].of \in 1..Streams
      BY <2>2 DEF FromStreams
    <3> QED BY <1>1, <1>5, <3>1
  <2>4. /\ arriving[k + 1].of <= generation
        /\ arriving[k + 1].of = stream => arriving[k + 1].filters = filters
        /\ arriving[k + 1].what = "closed" => served[arriving[k + 1].of] = Journal!Shut
    BY <1>3, <2>1
  <2> QED BY <2>1, <2>3, <2>4
<1>12. StreamIsThePanels'
  BY <1>1, <1>10, <1>11 DEF StreamIsThePanels
<1> QED BY <1>8, <1>9, <1>12 DEF JournalInv

\* Every step of the panel, and of the server, keeps that.
LEMMA JournalGoesOn ==
  Journal!JournalViewerAssumption /\ Pauses = TRUE /\ JournalInv /\ [Journal!Next]_journalVars
    => JournalInv'
<1> SUFFICES ASSUME Journal!JournalViewerAssumption, Pauses = TRUE, JournalInv,
                    [Journal!Next]_journalVars
             PROVE  JournalInv'
  OBVIOUS
<1>1. ASSUME NEW f \in Journal!Typed, NEW v \in 0..1, Journal!Types(f, v) PROVE JournalInv'
  BY <1>1, TypesKeepsFilters
<1>2. ASSUME Journal!TakesEffect PROVE JournalInv'
  <2>1. {} \in SUBSET Journal!Fields /\ 0 \in 0..1
    OBVIOUS
  <2> QED BY <1>2, <2>1, ChoiceKeepsFilters
<1>3. ASSUME NEW v \in 0..1, Journal!Chooses(v) PROVE JournalInv'
  <2>1. {} \in SUBSET Journal!Fields
    OBVIOUS
  <2> QED BY <1>3, <2>1, ChoiceKeepsFilters
<1>4. ASSUME Journal!Sets({"unit"}, 1) \/ Journal!Sets(Journal!Fields, 0) PROVE JournalInv'
  <2>1. {"unit"} \in SUBSET Journal!Fields /\ Journal!Fields \in SUBSET Journal!Fields /\ {0, 1} \subseteq 0..1
    BY DEF Journal!Fields, Journal!Typed
  <2> QED BY <1>4, <2>1, ChoiceKeepsFilters
<1>5. CASE UNCHANGED journalVars
  BY <1>5 DEF journalVars, JournalInv, JournalTypes, FiltersAreTheBoxes, StreamIsThePanels
<1> QED BY <1>1, <1>2, <1>3, <1>4, <1>5, ActivatesKeepsFilters, DeactivatesKeepsFilters,
           SendingKeepsStreams, ArrivingKeepsStreams DEF Journal!Next

\* In that invariant what is shown is what the boxes ask for, and nothing is read behind it.
LEMMA JournalHolds ==
  Journal!JournalViewerAssumption /\ JournalInv => Journal!ShowsWhatIsAsked
<1> SUFFICES ASSUME Journal!JournalViewerAssumption, JournalInv PROVE Journal!ShowsWhatIsAsked
  OBVIOUS
<1>1. /\ active \in BOOLEAN /\ filters \in Boxes /\ boxes \in Boxes /\ journalRows \in Seq(Boxes)
      /\ "" \notin Journal!Fields
  BY DEF JournalInv, JournalTypes, Journal!Fields, Journal!Typed
<1>2. ASSUME active, debounce = "" PROVE filters = boxes /\ \A k \in DOMAIN journalRows : journalRows[k] = boxes
  <2>1. \A f \in Journal!Fields : filters[f] = boxes[f]
    BY <1>1, <1>2 DEF JournalInv, FiltersAreTheBoxes
  <2>2. filters = boxes
    <3>1. filters \in [Journal!Fields -> 0..1] /\ boxes \in [Journal!Fields -> 0..1]
      BY <1>1 DEF Boxes
    <3>2. filters = [f \in Journal!Fields |-> filters[f]] /\ boxes = [f \in Journal!Fields |-> boxes[f]]
      BY <3>1
    <3> QED BY <2>1, <3>2
  <2>3. \A k \in 1..Len(journalRows) : journalRows[k] = filters
    BY <1>1, <1>2 DEF JournalInv, FiltersAreTheBoxes
  <2>4. DOMAIN journalRows = 1..Len(journalRows)
    BY <1>1, LenProperties
  <2> QED BY <2>2, <2>3, <2>4
<1>3. Journal!Served \subseteq {stream}
  BY DEF JournalInv, StreamIsThePanels, Journal!Served
<1>4. ~active => Journal!Served = {}
  <2>1. ~active => \A g \in 1..Streams : ~(served[g] # Journal!Shut)
    <3>1. \A g \in 1..Streams : g # 0
      BY DEF Journal!JournalViewerAssumption
    <3> QED BY <1>1, <3>1 DEF JournalInv, StreamIsThePanels
  <2> QED BY <2>1 DEF Journal!Served
<1> QED BY <1>2, <1>3, <1>4 DEF Journal!ShowsWhatIsAsked
-----------------------------------------------------------------------------
(* The stream of the journal.                                               *)

\* What was sent is c + 1, c + 2, ... up to e, without the end of the backlog or with it.
WithoutDone(s, e) == \E c \in Nat : e = c + Len(s) /\ \A k \in 1..Len(s) : s[k] = c + k
WithDone(s, e) ==
  \E c \in Nat, d \in 1..Len(s) :
    /\ e = c + Len(s) - 1
    /\ \A k \in 1..Len(s) : s[k] = IF k < d THEN c + k ELSE IF k = d THEN 0 ELSE c + k - 1

\* What goes on from there keeps the order.
LEMMA OrderGrows ==
  ASSUME NEW s \in Seq(Nat), NEW q \in Seq(Nat), NEW e \in Nat, \A k \in 1..Len(q) : q[k] = e + k
  PROVE  /\ WithoutDone(s, e) => WithoutDone(s \o q, e + Len(q))
         /\ WithDone(s, e) => WithDone(s \o q, e + Len(q))
<1> DEFINE t == s \o q
<1>1. /\ t \in Seq(Nat) /\ Len(t) = Len(s) + Len(q) /\ Len(s) \in Nat /\ Len(q) \in Nat
      /\ \A k \in 1..Len(s) : t[k] = s[k]
      /\ \A k \in 1..Len(q) : t[Len(s) + k] = e + k
  <2>1. /\ t \in Seq(Nat) /\ Len(t) = Len(s) + Len(q)
        /\ \A k \in 1..(Len(s) + Len(q)) : t[k] = IF k <= Len(s) THEN s[k] ELSE q[k - Len(s)]
    BY ConcatProperties
  <2>2. Len(s) \in Nat /\ Len(q) \in Nat
    BY LenProperties
  <2> HIDE DEF t
  <2>3. ASSUME NEW k \in 1..Len(q) PROVE t[Len(s) + k] = e + k
    <3>1. Len(s) + k \in 1..(Len(s) + Len(q)) /\ ~(Len(s) + k <= Len(s)) /\ Len(s) + k - Len(s) = k
      BY <2>2
    <3>2. t[Len(s) + k] = q[Len(s) + k - Len(s)]
      <4> DEFINE l == Len(s) + k
      <4>1. l \in 1..(Len(s) + Len(q)) /\ ~(l <= Len(s))
        BY <3>1
      <4> HIDE DEF l
      <4>2. t[l] = q[l - Len(s)]
        BY <2>1, <4>1
      <4> QED BY <4>2 DEF l
    <3>3. q[Len(s) + k - Len(s)] = q[k]
      BY <3>1
    <3>4. q[k] = e + k
      OBVIOUS
    <3> QED BY <3>2, <3>3, <3>4
  <2>4. \A k \in 1..Len(s) : k \in 1..(Len(s) + Len(q)) /\ k <= Len(s)
    BY <2>2
  <2> QED BY <2>1, <2>2, <2>3, <2>4
<1> HIDE DEF t
<1>2. \A k \in 1..Len(t) : k \in 1..Len(s) \/ (k - Len(s) \in 1..Len(q) /\ t[k] = e + (k - Len(s)))
  <2>1. ASSUME NEW k \in 1..Len(t), k \notin 1..Len(s) PROVE k - Len(s) \in 1..Len(q) /\ k = Len(s) + (k - Len(s))
    BY <1>1, <2>1
  <2> QED BY <1>1, <2>1
<1>3. ASSUME WithoutDone(s, e) PROVE WithoutDone(t, e + Len(q))
  <2>1. PICK c \in Nat : e = c + Len(s) /\ \A k \in 1..Len(s) : s[k] = c + k
    BY <1>3 DEF WithoutDone
  <2>2. \A k \in 1..Len(t) : t[k] = c + k
    BY <1>1, <1>2, <2>1
  <2>3. e + Len(q) = c + Len(t)
    BY <1>1, <2>1
  <2> QED BY <2>2, <2>3 DEF WithoutDone
<1>4. ASSUME WithDone(s, e) PROVE WithDone(t, e + Len(q))
  <2>1. PICK c \in Nat, d \in 1..Len(s) :
          /\ e = c + Len(s) - 1
          /\ \A k \in 1..Len(s) : s[k] = IF k < d THEN c + k ELSE IF k = d THEN 0 ELSE c + k - 1
    BY <1>4 DEF WithDone
  <2>2. ASSUME NEW k \in 1..Len(t)
        PROVE  t[k] = IF k < d THEN c + k ELSE IF k = d THEN 0 ELSE c + k - 1
    <3>1. CASE k \in 1..Len(s)
      <4>1. t[k] = s[k]
        BY <1>1, <3>1
      <4> QED BY <2>1, <3>1, <4>1
    <3>2. CASE k - Len(s) \in 1..Len(q) /\ t[k] = e + (k - Len(s))
      <4>1. k > d /\ k \in Nat /\ ~(k < d) /\ k # d
        BY <1>1, <3>2
      <4>2. e + (k - Len(s)) = c + k - 1
        BY <1>1, <2>1, <4>1
      <4>3. t[k] = c + k - 1
        BY <3>2, <4>2
      <4> QED BY <4>1, <4>3
    <3> QED BY <1>2, <3>1, <3>2
  <2>3. e + Len(q) = c + Len(t) - 1 /\ d \in 1..Len(t)
    BY <1>1, <2>1
  <2> QED BY <2>2, <2>3 DEF WithDone
<1> QED BY <1>3, <1>4 DEF t

\* The end of the backlog is said after what was sent.
LEMMA OrderEnds ==
  ASSUME NEW s \in Seq(Nat), NEW e \in Nat, WithoutDone(s, e)
  PROVE  WithDone(s \o <<0>>, e)
<1> DEFINE t == Append(s, 0)
<1>1. s \o <<0>> = t
  BY AppendIsConcat
<1>2. /\ Len(t) = Len(s) + 1 /\ Len(s) \in Nat /\ \A k \in 1..Len(s) : t[k] = s[k]
      /\ t[Len(s) + 1] = 0
  BY AppendProperties, LenProperties
<1> HIDE DEF t
<1>3. PICK c \in Nat : e = c + Len(s) /\ \A k \in 1..Len(s) : s[k] = c + k
  BY DEF WithoutDone
<1>4. Len(t) \in 1..Len(t) /\ e = c + Len(t) - 1
  BY <1>2, <1>3
<1>5. \A k \in 1..Len(t) : t[k] = IF k < Len(t) THEN c + k ELSE IF k = Len(t) THEN 0 ELSE c + k - 1
  <2>1. \A k \in 1..Len(t) : k \in 1..Len(s) \/ k = Len(t)
    BY <1>2
  <2>2. \A k \in 1..Len(s) : k < Len(t)
    BY <1>2
  <2> QED BY <1>2, <1>3, <2>1, <2>2
<1> QED BY <1>1, <1>4, <1>5 DEF WithDone

\* Of what is in order: one entry is d, the end, if it was sent at all.
LEMMA OrderIsOne ==
  ASSUME NEW s \in Seq(Nat), NEW e \in Nat, WithoutDone(s, e) \/ WithDone(s, e)
  PROVE  \E c \in Nat, d \in 1..(Len(s) + 1) :
           /\ d <= Len(s) => e = c + Len(s) - 1
           /\ d = Len(s) + 1 => e = c + Len(s)
           /\ \A k \in 1..Len(s) : /\ k < d => s[k] = c + k
                                   /\ k = d => s[k] = 0
                                   /\ k > d => s[k] = c + k - 1
<1>1. Len(s) \in Nat
  BY LenProperties
<1>2. CASE WithoutDone(s, e)
  <2>1. PICK c \in Nat : e = c + Len(s) /\ \A k \in 1..Len(s) : s[k] = c + k
    BY <1>2 DEF WithoutDone
  <2> DEFINE d == Len(s) + 1
  <2>2. d \in 1..(Len(s) + 1) /\ ~(d <= Len(s)) /\ \A k \in 1..Len(s) : k < d /\ ~(k = d) /\ ~(k > d)
    BY <1>1
  <2>3. d = Len(s) + 1
    OBVIOUS
  <2> HIDE DEF d
  <2> QED BY <2>1, <2>2, <2>3
<1>3. CASE WithDone(s, e)
  <2>1. PICK c \in Nat, d \in 1..Len(s) :
          /\ e = c + Len(s) - 1
          /\ \A k \in 1..Len(s) : s[k] = IF k < d THEN c + k ELSE IF k = d THEN 0 ELSE c + k - 1
    BY <1>3 DEF WithDone
  <2>2. d \in 1..(Len(s) + 1) /\ ~(d = Len(s) + 1)
    BY <1>1
  <2>3. \A k \in 1..Len(s) : /\ k < d => s[k] = c + k
                             /\ k = d => s[k] = 0
                             /\ k > d => s[k] = c + k - 1
    BY <2>1, <1>1
  <2> QED BY <2>1, <2>2, <2>3
<1> QED BY <1>2, <1>3

\* Of what is in order, the next entry is the next number, and the last the last one.
LEMMA OrderMeans ==
  ASSUME NEW e \in Nat, sentOn \in Seq(Nat), WithoutDone(sentOn, e) \/ WithDone(sentOn, e)
  PROVE  /\ \A j, k \in DOMAIN sentOn : Stream!NextAfter(j, k) => sentOn[k] = sentOn[j] + 1
         /\ \A k \in DOMAIN sentOn : Stream!IsLastEntry(k) => sentOn[k] = e
         /\ \A k \in DOMAIN sentOn :
              sentOn[k] = Stream!Done /\ k < Len(sentOn) => \A j \in 1..k - 1 : sentOn[j] < sentOn[k + 1]
<1> DEFINE n == Len(sentOn)
<1>1. PICK c \in Nat, d \in 1..(n + 1) :
        /\ d <= n => e = c + n - 1
        /\ d = n + 1 => e = c + n
        /\ \A k \in 1..n : /\ k < d => sentOn[k] = c + k
                           /\ k = d => sentOn[k] = 0
                           /\ k > d => sentOn[k] = c + k - 1
  BY OrderIsOne
<1>2. n \in Nat /\ DOMAIN sentOn = 1..n /\ Stream!Done = 0 /\ n = Len(sentOn)
  BY LenProperties DEF Stream!Done
<1> HIDE DEF n
<1>3. \A k \in 1..n : sentOn[k] = 0 <=> k = d
  <2>1. ASSUME NEW k \in 1..n, k # d PROVE sentOn[k] # 0
    <3>1. k < d \/ k > d
      BY <1>2, <2>1
    <3>2. c + k # 0 /\ (k > d => c + k - 1 # 0)
      BY <1>2
    <3> QED BY <1>1, <3>1, <3>2
  <2> QED BY <1>1, <2>1
<1>4. ASSUME NEW j \in 1..n, NEW k \in 1..n, Stream!NextAfter(j, k)
      PROVE  sentOn[k] = sentOn[j] + 1
  <2>1. sentOn[j] # 0 /\ sentOn[k] # 0 /\ j < k /\ \A i \in (j + 1)..(k - 1) : sentOn[i] = 0
    BY <1>2, <1>4 DEF Stream!NextAfter, Stream!IsEntry, Stream!OnlyDone
  <2>2. j # d /\ k # d
    BY <1>3, <2>1
  <2>3. \A i \in (j + 1)..(k - 1) : i = d
    <3>1. \A i \in (j + 1)..(k - 1) : i \in 1..n
      BY <1>2
    <3> QED BY <1>3, <2>1, <3>1
  <2>4. j \in Nat /\ k \in Nat /\ j < k /\ d \in Nat
    BY <1>2, <2>1
  <2>5. k > j + 1 => j + 1 = d
    <3>1. k > j + 1 => j + 1 \in (j + 1)..(k - 1)
      BY <2>4
    <3> QED BY <2>3, <3>1
  <2>6. k > j + 2 => j + 2 = d
    <3>1. k > j + 2 => j + 2 \in (j + 1)..(k - 1)
      BY <2>4
    <3> QED BY <2>3, <3>1
  <2>7. k = j + 1 \/ (k = j + 2 /\ d = j + 1)
    BY <2>4, <2>5, <2>6
  <2>8. CASE k = j + 1 /\ k < d
    <3>1. sentOn[j] = c + j /\ sentOn[k] = c + k
      BY <1>1, <2>4, <2>8
    <3> QED BY <2>4, <2>8, <3>1
  <2>9. CASE k = j + 1 /\ j > d
    <3>1. sentOn[j] = c + j - 1 /\ sentOn[k] = c + k - 1
      BY <1>1, <2>4, <2>9
    <3> QED BY <2>4, <2>9, <3>1
  <2>10. CASE k = j + 2 /\ d = j + 1
    <3>1. sentOn[j] = c + j /\ sentOn[k] = c + k - 1
      BY <1>1, <2>4, <2>10
    <3> QED BY <2>4, <2>10, <3>1
  <2> QED BY <2>2, <2>4, <2>7, <2>8, <2>9, <2>10
<1>5. ASSUME NEW k \in 1..n, Stream!IsLastEntry(k) PROVE sentOn[k] = e
  <2>1. sentOn[k] # 0 /\ \A i \in (k + 1)..n : sentOn[i] = 0
    BY <1>2, <1>5 DEF Stream!IsLastEntry, Stream!IsEntry, Stream!OnlyDone
  <2>2. k # d
    BY <1>3, <2>1
  <2>3. \A i \in (k + 1)..n : i = d
    <3>1. \A i \in (k + 1)..n : i \in 1..n
      BY <1>2
    <3> QED BY <1>3, <2>1, <3>1
  <2>4. k \in Nat /\ n \in Nat /\ k <= n /\ d \in Nat /\ d <= n + 1
    BY <1>2
  <2>5. n > k => k + 1 = d
    <3>1. n > k => k + 1 \in (k + 1)..n
      BY <1>2, <2>4
    <3> QED BY <2>3, <3>1
  <2>6. n > k + 1 => k + 2 = d
    <3>1. n > k + 1 => k + 2 \in (k + 1)..n
      BY <1>2, <2>4
    <3> QED BY <2>3, <3>1
  <2>7. k = n \/ (k + 1 = n /\ d = k + 1)
    BY <2>4, <2>5, <2>6
  <2>8. CASE k = n /\ k < d
    <3>1. sentOn[k] = c + k /\ d = n + 1
      BY <1>1, <1>2, <2>4, <2>8
    <3> QED BY <1>1, <2>8, <3>1
  <2>9. CASE k = n /\ k > d
    <3>1. sentOn[k] = c + k - 1 /\ d <= n
      BY <1>1, <1>2, <2>4, <2>9
    <3> QED BY <1>1, <2>9, <3>1
  <2>10. CASE k + 1 = n /\ d = k + 1
    <3>1. sentOn[k] = c + k /\ d <= n /\ c + n - 1 = c + k
      BY <1>1, <1>2, <2>4, <2>10
    <3> QED BY <1>1, <3>1
  <2>11. k < d \/ k > d
    BY <2>2, <2>4
  <2> QED BY <2>7, <2>8, <2>9, <2>10, <2>11
<1>6. ASSUME NEW k \in 1..n, sentOn[k] = 0, k < n, NEW j \in 1..k - 1
      PROVE  sentOn[j] < sentOn[k + 1]
  <2>1. k = d /\ k + 1 \in 1..n /\ j \in 1..n /\ j < d /\ k + 1 > d /\ j \in Nat /\ k \in Nat
    <3>1. k + 1 \in 1..n /\ j \in 1..n /\ j < k /\ k + 1 > k
      BY <1>2, <1>6
    <3> QED BY <1>3, <1>6, <3>1
  <2>2. sentOn[j] = c + j /\ sentOn[k + 1] = c + (k + 1) - 1
    BY <1>1, <2>1
  <2> QED BY <2>1, <2>2
<1> QED BY <1>2, <1>4, <1>5, <1>6

\* The last entry read of what journalctl wrote.
LastRead == next - 1 - (Len(pipes["backlog"]) + Len(pipes["follow"]))
\* The last one that is in sentOn, what is in the batch being after it.
LastSent == LastRead - Len(batch)

\* Everything there is of the journal on its way, in one line: sent, batched, written, to write.
StreamInv ==
  /\ logged \in Nat /\ next \in Nat /\ ends \in Nat /\ lastCursor \in Nat
  /\ pipes \in [{"backlog", "follow"} -> Seq(Nat)]
  /\ batch \in Seq(Nat) /\ sentOn \in Seq(Nat)
  /\ run # "follow" => pipes["follow"] = <<>> \/ pipes["backlog"] = <<>>
  /\ run = "backlog" => pipes["follow"] = <<>> /\ WithoutDone(sentOn, LastSent) /\ next <= ends + 1
  /\ run = "follow" => pipes["backlog"] = <<>>
  /\ run \in {"backlog", "follow", "over"}
  /\ LastSent \in Nat /\ lastCursor \in {0, LastRead}
  /\ \A r \in {"backlog", "follow"} : \A k \in 1..Len(pipes[r]) : pipes[r][k] = LastRead + k
  /\ Len(batch) < BatchSize /\ \A k \in 1..Len(batch) : batch[k] = LastSent + k
  /\ WithoutDone(sentOn, LastSent) \/ WithDone(sentOn, LastSent)

\* It holds at first.
LEMMA StreamBegins == Stream!JournalStreamAssumption /\ Stream!Init => StreamInv
<1> SUFFICES ASSUME Stream!JournalStreamAssumption, Stream!Init PROVE StreamInv
  OBVIOUS
<1>1. /\ Entries \in Nat \ {0} /\ BacklogLines \in Nat \ {0} /\ BatchSize \in Nat \ {0}
  BY DEF Stream!JournalStreamAssumption
<1>2. /\ logged \in 0..Entries /\ run = "backlog" /\ next = Stream!FirstOf(logged) /\ ends = logged
      /\ pipes = [r \in {"backlog", "follow"} |-> <<>>]
      /\ lastCursor = 0 /\ batch = <<>> /\ sentOn = <<>>
  BY DEF Stream!Init
<1>3. logged \in Nat /\ next \in Nat /\ ends \in Nat /\ next >= 1 /\ next <= ends + 1
  BY <1>1, <1>2 DEF Stream!FirstOf, Stream!Larger
<1>4. /\ pipes["backlog"] = <<>> /\ pipes["follow"] = <<>>
      /\ pipes \in [{"backlog", "follow"} -> Seq(Nat)] /\ <<>> \in Seq(Nat) /\ Len(<<>>) = 0
  <2>1. <<>> \in Seq(Nat) /\ Len(<<>>) = 0
    BY EmptySeq
  <2> QED BY <1>2, <2>1
<1>5. LastRead = next - 1 /\ LastSent = next - 1 /\ next - 1 \in Nat
  BY <1>2, <1>3, <1>4 DEF LastRead, LastSent
<1>6. WithoutDone(sentOn, LastSent)
  <2>1. next - 1 = (next - 1) + Len(<<>>) /\ \A k \in 1..Len(<<>>) : FALSE
    BY <1>3, <1>4
  <2>2. WithoutDone(<<>>, next - 1)
    BY <1>5, <2>1 DEF WithoutDone
  <2> QED BY <1>2, <1>5, <2>2
<1>7. Len(batch) < BatchSize /\ (\A k \in 1..Len(batch) : FALSE) /\ batch \in Seq(Nat) /\ sentOn \in Seq(Nat)
  BY <1>1, <1>2, <1>4
<1>8. \A r \in {"backlog", "follow"} : \A k \in 1..Len(pipes[r]) : FALSE
  BY <1>4
<1> HIDE DEF LastRead, LastSent
<1> QED BY <1>2, <1>3, <1>4, <1>5, <1>6, <1>7, <1>8 DEF StreamInv

\* What the panel is shown is in order.
LEMMA StreamHolds == StreamInv => Stream!NoneTwiceNoneMissing
<1> SUFFICES ASSUME StreamInv PROVE Stream!NoneTwiceNoneMissing
  OBVIOUS
<1>1. /\ sentOn \in Seq(Nat) /\ LastSent \in Nat
      /\ WithoutDone(sentOn, LastSent) \/ WithDone(sentOn, LastSent)
  BY DEF StreamInv
<1>2. ASSUME run = "follow", pipes["follow"] = <<>>, batch = <<>> PROVE LastSent = next - 1
  <2>1. pipes["backlog"] = <<>> /\ next \in Nat
    BY <1>2 DEF StreamInv
  <2>2. Len(<<>>) = 0
    OBVIOUS
  <2>3. LastSent = next - 1 - (Len(<<>>) + Len(<<>>)) - Len(<<>>)
    BY <1>2, <2>1, Zenon DEF LastSent, LastRead
  <2> QED BY <2>1, <2>2, <2>3
<1>3. DOMAIN sentOn = 1..Len(sentOn)
  BY <1>1, LenProperties
<1> DEFINE e == LastSent
<1>4. /\ \A j, k \in DOMAIN sentOn : Stream!NextAfter(j, k) => sentOn[k] = sentOn[j] + 1
      /\ \A k \in DOMAIN sentOn : Stream!IsLastEntry(k) => sentOn[k] = e
      /\ \A k \in DOMAIN sentOn :
           sentOn[k] = Stream!Done /\ k < Len(sentOn) => \A j \in 1..k - 1 : sentOn[j] < sentOn[k + 1]
  BY <1>1, OrderMeans
<1> QED BY <1>2, <1>4 DEF Stream!NoneTwiceNoneMissing

\* What the numbers are, for the steps that use them.
LEMMA StreamNumbers ==
  ASSUME StreamInv
  PROVE  /\ Len(pipes["backlog"]) \in Nat /\ Len(pipes["follow"]) \in Nat /\ Len(batch) \in Nat
         /\ LastRead = LastSent + Len(batch) /\ LastSent \in Nat /\ LastRead \in Nat
         /\ next = LastRead + 1 + Len(pipes["backlog"]) + Len(pipes["follow"])
         /\ next \in Nat /\ pipes["backlog"] \in Seq(Nat) /\ pipes["follow"] \in Seq(Nat)
<1>1. /\ pipes["backlog"] \in Seq(Nat) /\ pipes["follow"] \in Seq(Nat) /\ batch \in Seq(Nat)
      /\ next \in Nat /\ LastSent \in Nat
  BY DEF StreamInv
<1>2. /\ Len(pipes["backlog"]) \in Nat /\ Len(pipes["follow"]) \in Nat /\ Len(batch) \in Nat
  BY <1>1, LenProperties
<1> DEFINE b == Len(pipes["backlog"])  f == Len(pipes["follow"])  n == Len(batch)
<1>3. b \in Nat /\ f \in Nat /\ n \in Nat /\ next \in Nat /\ LastSent \in Nat
  BY <1>1, <1>2
<1>4. LastRead = next - 1 - (b + f) /\ LastSent = LastRead - n
  BY DEF LastRead, LastSent
<1>5. /\ LastRead = LastSent + n /\ LastRead \in Nat /\ next = LastRead + 1 + b + f
  <2> HIDE DEF b, f, n
  <2> DEFINE l == LastRead  e == LastSent
  <2>1. l = next - 1 - (b + f) /\ e = l - n /\ e \in Nat
    BY <1>3, <1>4
  <2> HIDE DEF l, e
  <2>2. l = e + n /\ l \in Nat /\ next = l + 1 + b + f
    BY <1>3, <2>1
  <2> QED BY <2>2 DEF l, e
<1> QED BY <1>1, <1>3, <1>5

\* The child writes the next entry.
LEMMA StreamWritten == StreamInv /\ Stream!ChildWrites => StreamInv'
<1> SUFFICES ASSUME StreamInv, Stream!ChildWrites PROVE StreamInv'
  OBVIOUS
<1> DEFINE b == Len(pipes["backlog"])  f == Len(pipes["follow"])  e == LastSent  l == LastRead
           n == Len(batch)
<1>1. /\ run \in {"backlog", "follow"} /\ next <= ends
      /\ pipes' = [pipes EXCEPT ![run] = Append(@, next)] /\ next' = next + 1
      /\ UNCHANGED <<logged, run, ends, lastCursor, batch, sentOn>>
  BY DEF Stream!ChildWrites
<1>2. /\ b \in Nat /\ f \in Nat /\ n \in Nat /\ l = e + n /\ e \in Nat /\ l \in Nat
      /\ next = l + 1 + b + f /\ next \in Nat
  BY StreamNumbers
<1>2a. next \in Nat
  BY StreamNumbers
<1>3. pipes \in [{"backlog", "follow"} -> Seq(Nat)]
  BY DEF StreamInv
<1>4. /\ \A r \in {"backlog", "follow"} : r # run => pipes[r] = <<>> /\ pipes'[r] = <<>> /\ Len(pipes[r]) = 0
      /\ pipes'[run] = Append(pipes[run], next) /\ pipes[run] \in Seq(Nat)
  <2>1. \A r \in {"backlog", "follow"} : r # run => pipes[r] = <<>>
    BY <1>1 DEF StreamInv
  <2>2. Len(<<>>) = 0
    OBVIOUS
  <2> QED BY <1>1, <1>3, <2>1, <2>2
<1> DEFINE q == Append(pipes[run], next)  p == Len(pipes[run])
<1>5. /\ q \in Seq(Nat) /\ Len(q) = p + 1 /\ p \in Nat /\ (\A k \in 1..p : q[k] = pipes[run][k]) /\ q[p + 1] = next
  BY <1>2a, <1>4, AppendProperties, LenProperties
<1>6. pipes' \in [{"backlog", "follow"} -> Seq(Nat)]
  <2> HIDE DEF q
  <2> QED BY <1>1, <1>3, <1>4, <1>5 DEF q
<1>7. b + f = p /\ next = l + 1 + p
  <2>1. (b = p /\ f = 0) \/ (f = p /\ b = 0)
    BY <1>1, <1>4
  <2> HIDE DEF b, f, l, p, e, n
  <2>2. p \in Nat
    BY <1>5
  <2> QED BY <1>2, <2>1, <2>2
<1>8. Len(pipes["backlog"])' + Len(pipes["follow"])' = p + 1
  <2>1. /\ run = "backlog" => pipes'["follow"] = <<>> /\ pipes'["backlog"] = q
        /\ run = "follow" => pipes'["backlog"] = <<>> /\ pipes'["follow"] = q
    BY <1>4
  <2>2. Len(<<>>) = 0 /\ Len(q) = p + 1 /\ p \in Nat
    BY <1>5
  <2> HIDE DEF q, p
  <2>3. CASE run = "backlog"
    <3>1. Len(pipes'["backlog"]) = p + 1 /\ Len(pipes'["follow"]) = 0
      BY <2>1, <2>2, <2>3
    <3> QED BY <2>2, <3>1
  <2>4. CASE run = "follow"
    <3>1. Len(pipes'["follow"]) = p + 1 /\ Len(pipes'["backlog"]) = 0
      BY <2>1, <2>2, <2>4
    <3> QED BY <2>2, <3>1
  <2> QED BY <1>1, <2>3, <2>4
<1>9. LastRead' = l /\ LastSent' = e
  <2>1. LastRead' = next' - 1 - (Len(pipes["backlog"])' + Len(pipes["follow"])')
    BY DEF LastRead
  <2>2. LastSent' = LastRead' - n
    BY <1>1 DEF LastSent
  <2>3. p \in Nat /\ next' = next + 1 /\ LastRead' = next' - 1 - (p + 1)
    BY <1>1, <1>5, <1>8, <2>1
  <2> DEFINE m == LastRead'
  <2>4. m = next' - 1 - (p + 1) /\ LastSent' = m - n
    BY <2>2, <2>3, Zenon
  <2> HIDE DEF l, e, n, p, b, f, m
  <2>5. m = l /\ m - n = e
    BY <1>2, <1>7, <2>3, <2>4
  <2> QED BY <2>4, <2>5 DEF m
<1>10. \A r \in {"backlog", "follow"} : \A k \in 1..Len(pipes'[r]) : pipes'[r][k] = l + k
  <2>1. \A k \in 1..Len(pipes[run]) : pipes[run][k] = l + k
    BY <1>1 DEF StreamInv
  <2>2. ASSUME NEW k \in 1..Len(q) PROVE q[k] = l + k
    <3>1. k \in 1..p \/ k = p + 1
      BY <1>5, <2>2
    <3>2. CASE k \in 1..p
      BY <1>5, <2>1, <3>2
    <3>3. CASE k = p + 1
      <4>1. q[k] = l + 1 + p
        BY <1>5, <1>7, <3>3
      <4> HIDE DEF l, p, q
      <4> QED BY <1>2, <1>5, <3>3, <4>1
    <3> QED BY <3>1, <3>2, <3>3
  <2>3. \A r \in {"backlog", "follow"} : r # run => \A k \in 1..Len(pipes'[r]) : FALSE
    BY <1>4
  <2> QED BY <1>4, <2>2, <2>3
<1>11. /\ run' # "follow" => pipes'["follow"] = <<>> \/ pipes'["backlog"] = <<>>
       /\ run' = "backlog" => pipes'["follow"] = <<>> /\ next' <= ends' + 1
       /\ run' = "follow" => pipes'["backlog"] = <<>>
  <2>1. ends \in Nat
    BY DEF StreamInv
  <2>2. next' <= ends' + 1
    BY <1>1, <1>2a, <2>1
  <2> QED BY <1>1, <1>4, <2>2
<1>12. /\ (run = "backlog" => WithoutDone(sentOn, e))' /\ (WithoutDone(sentOn, e) \/ WithDone(sentOn, e))'
       /\ (\A k \in 1..n : batch[k] = e + k)' /\ lastCursor' \in {0, l} /\ (n < BatchSize)'
  <2>1. /\ run = "backlog" => WithoutDone(sentOn, e) 
        /\ WithoutDone(sentOn, e) \/ WithDone(sentOn, e)
        /\ \A k \in 1..n : batch[k] = e + k
        /\ lastCursor \in {0, l} /\ n < BatchSize
    BY DEF StreamInv
  <2>2. e' = e /\ n' = n /\ batch' = batch /\ sentOn' = sentOn /\ run' = run /\ lastCursor' = lastCursor
    BY <1>1, <1>9
  <2> HIDE DEF e, n, l
  <2> QED BY <2>1, <2>2 DEF WithDone, WithoutDone
<1>13. (logged \in Nat /\ ends \in Nat /\ lastCursor \in Nat /\ batch \in Seq(Nat) /\ sentOn \in Seq(Nat))'
  BY <1>1 DEF StreamInv
<1> HIDE DEF p, q, b, f
<1>14. next' \in Nat /\ LastSent' \in Nat /\ run' \in {"backlog", "follow", "over"} /\ lastCursor' \in {0, LastRead'}
  BY <1>1, <1>2, <1>9, <1>12
<1> QED BY <1>6, <1>9, <1>10, <1>11, <1>12, <1>13, <1>14 DEF StreamInv

\* What is read goes into the batch, or with it.
LEMMA StreamQueued ==
  ASSUME StreamInv, Stream!JournalStreamAssumption, Stream!Queue(LastRead + 1)
  PROVE  LET n == Len(batch)'  e == LastRead + 1 - n
         IN /\ n \in Nat /\ e \in Nat /\ n < BatchSize /\ batch' \in Seq(Nat) /\ sentOn' \in Seq(Nat)
            /\ lastCursor' = LastRead + 1
            /\ \A k \in 1..n : batch'[k] = e + k
            /\ WithoutDone(sentOn', e) \/ WithDone(sentOn', e)
            /\ run = "backlog" => WithoutDone(sentOn', e)
<1> DEFINE n == Len(batch)  e == LastSent  l == LastRead  q == Append(batch, l + 1)
<1>1. n \in Nat /\ l = e + n /\ e \in Nat /\ l \in Nat
  BY StreamNumbers
<1>2. /\ n < BatchSize /\ \A k \in 1..n : batch[k] = e + k
      /\ batch \in Seq(Nat) /\ sentOn \in Seq(Nat)
      /\ WithoutDone(sentOn, e) \/ WithDone(sentOn, e)
      /\ run = "backlog" => WithoutDone(sentOn, e)
  BY DEF StreamInv
<1>3. BatchSize \in Nat \ {0}
  BY DEF Stream!JournalStreamAssumption
<1>4. lastCursor' = l + 1
  BY DEF Stream!Queue
<1>5. l + 1 \in Nat
  BY <1>1
<1>6. q \in Seq(Nat) /\ Len(q) = n + 1 /\ (\A k \in 1..n : q[k] = batch[k]) /\ q[n + 1] = l + 1
  BY <1>2, <1>5, AppendProperties
<1>7. \A k \in 1..Len(q) : q[k] = e + k
  <2> HIDE DEF q, n, e, l
  <2>1. \A k \in 1..Len(q) : k \in 1..n \/ k = n + 1
    BY <1>1, <1>6
  <2>2. q[n + 1] = e + (n + 1)
    BY <1>1, <1>6
  <2> QED BY <1>2, <1>6, <2>1, <2>2
<1>8. CASE n + 1 >= BatchSize
  <2>1. sentOn' = sentOn \o q /\ batch' = <<>>
    <3>1. ~(n >= 4 * BatchSize)
      BY <1>1, <1>2, <1>3
    <3> QED BY <1>8, <3>1 DEF Stream!Queue
  <2>2. Len(batch') = 0 /\ batch' \in Seq(Nat)
    BY <2>1, EmptySeq
  <2>3. sentOn \o q \in Seq(Nat)
    BY <1>2, <1>6, ConcatProperties
  <2>4. e + Len(q) = l + 1 - Len(batch') /\ l + 1 - Len(batch') = l + 1
    <3> HIDE DEF e, n, l, q
    <3>1. Len(q) = n + 1
      BY <1>6
    <3> QED BY <1>1, <2>2, <3>1
  <2> HIDE DEF q, e, l
  <2>5. /\ WithoutDone(sentOn, e) => WithoutDone(sentOn \o q, e + Len(q))
        /\ WithDone(sentOn, e) => WithDone(sentOn \o q, e + Len(q))
    BY <1>1, <1>2, <1>6, <1>7, OrderGrows
  <2>6. \A k \in 1..Len(batch') : FALSE
    BY <2>2
  <2>7. 0 < BatchSize
    BY <1>3
  <2> QED BY <1>2, <1>4, <1>5, <2>1, <2>2, <2>3, <2>4, <2>5, <2>6, <2>7 DEF l
<1>9. CASE ~(n + 1 >= BatchSize)
  <2>1. sentOn' = sentOn /\ batch' = q
    <3>1. ~(n >= 4 * BatchSize)
      BY <1>1, <1>2, <1>3
    <3> QED BY <1>9, <3>1 DEF Stream!Queue
  <2>2. Len(batch') = n + 1 /\ batch' \in Seq(Nat) /\ \A k \in 1..Len(batch') : batch'[k] = e + k
    BY <1>6, <1>7, <2>1
  <2>3. l + 1 - Len(batch') = e /\ n + 1 \in Nat /\ n + 1 < BatchSize
    <3> HIDE DEF e, n, l, q
    <3> QED BY <1>1, <1>3, <1>9, <2>2
  <2> HIDE DEF e, n, q
  <2> QED BY <1>1, <1>2, <1>4, <2>1, <2>2, <2>3
<1> QED BY <1>8, <1>9

\* What is read of journalctl is the next entry.
LEMMA StreamRead ==
  ASSUME StreamInv, Stream!JournalStreamAssumption, NEW r \in {"backlog", "follow"}, Stream!Reads(r)
  PROVE  StreamInv'
<1> DEFINE b == Len(pipes["backlog"])  f == Len(pipes["follow"])  l == LastRead  q == pipes[r]
           o == IF r = "backlog" THEN "follow" ELSE "backlog"
<1>1. /\ q # <<>> /\ pipes' = [pipes EXCEPT ![r] = Tail(q)] /\ Stream!Queue(Head(q))
      /\ UNCHANGED <<logged, run, next, ends>>
  BY DEF Stream!Reads
<1>2. /\ b \in Nat /\ f \in Nat /\ l \in Nat /\ next = l + 1 + b + f /\ next \in Nat
  BY StreamNumbers
<1>3. pipes \in [{"backlog", "follow"} -> Seq(Nat)] /\ q \in Seq(Nat)
  BY DEF StreamInv
<1>4. /\ o \in {"backlog", "follow"} /\ o # r /\ pipes[o] = <<>> /\ (run # "over" => r = run)
      /\ run \in {"backlog", "follow", "over"}
  <2>1. q # <<>>
    BY <1>1
  <2> HIDE DEF q
  <2> QED BY <2>1 DEF StreamInv, q
<1>5. /\ Tail(q) \in Seq(Nat) /\ Head(q) = q[1] /\ Len(q) \in Nat \ {0} /\ Len(Tail(q)) = Len(q) - 1
      /\ \A i \in 1..(Len(q) - 1) : Tail(q)[i] = q[i + 1]
  BY <1>1, <1>3, WithoutFirst
<1>6. \A k \in 1..Len(q) : q[k] = l + k
  BY DEF StreamInv
<1>7. Head(q) = l + 1
  <2> HIDE DEF q, l
  <2>1. 1 \in 1..Len(q)
    BY <1>5
  <2> QED BY <1>5, <1>6, <2>1
<1>8. pipes'[r] = Tail(q) /\ pipes'[o] = <<>> /\ pipes' \in [{"backlog", "follow"} -> Seq(Nat)]
  <2>1. pipes'[r] = Tail(q) /\ pipes'[o] = pipes[o]
    BY <1>1, <1>3, <1>4
  <2>2. pipes' \in [{"backlog", "follow"} -> Seq(Nat)]
    BY <1>1, <1>3, <1>5
  <2> QED BY <1>4, <2>1, <2>2
<1>9. b + f = Len(q) /\ Len(pipes["backlog"])' + Len(pipes["follow"])' = Len(q) - 1
  <2>1. Len(<<>>) = 0 /\ Len(q) \in Nat \ {0}
    BY <1>5
  <2>2. CASE r = "backlog"
    <3>1. b = Len(q) /\ f = 0 /\ Len(pipes'["backlog"]) = Len(q) - 1 /\ Len(pipes'["follow"]) = 0
      BY <1>4, <1>5, <1>8, <2>1, <2>2
    <3> HIDE DEF b, f, q
    <3> QED BY <2>1, <3>1
  <2>3. CASE r = "follow"
    <3>1. f = Len(q) /\ b = 0 /\ Len(pipes'["follow"]) = Len(q) - 1 /\ Len(pipes'["backlog"]) = 0
      BY <1>4, <1>5, <1>8, <2>1, <2>3
    <3> HIDE DEF b, f, q
    <3> QED BY <2>1, <3>1
  <2> QED BY <2>2, <2>3
<1>10. LastRead' = l + 1
  <2> DEFINE m == Len(q)
  <2>1. LastRead' = next' - 1 - (Len(pipes["backlog"])' + Len(pipes["follow"])')
    BY DEF LastRead
  <2>2. LastRead' = next - 1 - (m - 1) /\ m \in Nat /\ b + f = m
    BY <1>1, <1>5, <1>9, <2>1
  <2> HIDE DEF l, b, f, m
  <2>3. next - 1 - (m - 1) = l + 1
    BY <1>2, <2>2
  <2> QED BY <2>2, <2>3
<1> DEFINE n == Len(batch)'  e == LastRead + 1 - n
<1>11. /\ n \in Nat /\ e \in Nat /\ n < BatchSize /\ batch' \in Seq(Nat) /\ sentOn' \in Seq(Nat)
       /\ lastCursor' = l + 1
       /\ \A k \in 1..n : batch'[k] = e + k
       /\ WithoutDone(sentOn', e) \/ WithDone(sentOn', e)
       /\ run = "backlog" => WithoutDone(sentOn', e)
  <2>1. Stream!Queue(LastRead + 1)
    BY <1>1, <1>7
  <2> QED BY <2>1, StreamQueued
<1>12. LastSent' = e
  <2>1. LastSent' = LastRead' - n
    BY DEF LastSent
  <2>2. LastRead' = LastRead + 1 /\ LastRead \in Nat /\ n \in Nat
    BY <1>2, <1>10, <1>11
  <2> HIDE DEF n, l
  <2> QED BY <2>1, <2>2
<1>13. \A s \in {"backlog", "follow"} : \A k \in 1..Len(pipes'[s]) : pipes'[s][k] = (l + 1) + k
  <2>1. ASSUME NEW k \in 1..Len(Tail(q)) PROVE Tail(q)[k] = (l + 1) + k
    <3> HIDE DEF q, l
    <3>1. k \in 1..(Len(q) - 1) /\ k + 1 \in 1..Len(q) /\ k \in Nat
      BY <1>5
    <3>2. Tail(q)[k] = l + (k + 1)
      BY <1>5, <1>6, <3>1
    <3> QED BY <1>2, <3>1, <3>2
  <2>2. \A k \in 1..Len(<<>>) : FALSE
    OBVIOUS
  <2>3. \A s \in {"backlog", "follow"} : s = r \/ s = o
    BY <1>4
  <2> HIDE DEF q, l, o
  <2> QED BY <1>8, <2>1, <2>2, <2>3
<1>14. /\ run' # "follow" => pipes'["follow"] = <<>> \/ pipes'["backlog"] = <<>>
       /\ run' = "backlog" => pipes'["follow"] = <<>> /\ next' <= ends' + 1
       /\ run' = "follow" => pipes'["backlog"] = <<>>
  <2>1. run = "backlog" => next <= ends + 1
    BY DEF StreamInv
  <2>2. run' = run /\ next' = next /\ ends' = ends
    BY <1>1
  <2> QED BY <1>4, <1>8, <2>1, <2>2
<1>15. logged' \in Nat /\ next' \in Nat /\ ends' \in Nat /\ lastCursor' \in Nat /\ run' \in {"backlog", "follow", "over"}
  <2>1. logged \in Nat /\ next \in Nat /\ ends \in Nat /\ l + 1 \in Nat
    BY <1>2 DEF StreamInv
  <2> QED BY <1>1, <1>4, <1>11, <2>1
<1>16. LastSent' \in Nat /\ lastCursor' \in {0, LastRead'} /\ Len(batch)' < BatchSize
       /\ \A k \in 1..Len(batch') : batch'[k] = LastSent' + k
  BY <1>10, <1>11, <1>12
<1>17. /\ WithoutDone(sentOn', LastSent') \/ WithDone(sentOn', LastSent')
       /\ run' = "backlog" => WithoutDone(sentOn', LastSent')
  BY <1>1, <1>11, <1>12
<1>18. (\A s \in {"backlog", "follow"} : \A k \in 1..Len(pipes[s]) : pipes[s][k] = LastRead + k)'
  <2> HIDE DEF l
  <2> QED BY <1>10, <1>13
<1>19. (batch \in Seq(Nat) /\ sentOn \in Seq(Nat) /\ pipes \in [{"backlog", "follow"} -> Seq(Nat)])'
  BY <1>8, <1>11
<1>20. /\ (WithoutDone(sentOn, LastSent) \/ WithDone(sentOn, LastSent))'
       /\ (run = "backlog" => WithoutDone(sentOn, LastSent))'
  BY <1>17 DEF WithDone, WithoutDone
<1> HIDE DEF l, e, n, o, q, b, f
<1> QED BY <1>14, <1>15, <1>16, <1>18, <1>19, <1>20 DEF StreamInv

\* A flush sends the batch.
LEMMA StreamSends ==
  ASSUME StreamInv
  PROVE  /\ WithoutDone(sentOn, LastSent) => WithoutDone(sentOn \o batch, LastRead)
         /\ WithDone(sentOn, LastSent) => WithDone(sentOn \o batch, LastRead)
         /\ sentOn \o batch \in Seq(Nat)
<1> DEFINE e == LastSent  n == Len(batch)
<1>1. e \in Nat /\ LastRead = e + n
  BY StreamNumbers
<1>2. batch \in Seq(Nat) /\ sentOn \in Seq(Nat) /\ \A k \in 1..Len(batch) : batch[k] = e + k
  BY DEF StreamInv
<1> HIDE DEF e
<1>3. /\ WithoutDone(sentOn, e) => WithoutDone(sentOn \o batch, e + Len(batch))
      /\ WithDone(sentOn, e) => WithDone(sentOn \o batch, e + Len(batch))
  BY <1>1, <1>2, OrderGrows
<1>4. sentOn \o batch \in Seq(Nat)
  BY <1>2, ConcatProperties
<1> QED BY <1>1, <1>3, <1>4 DEF e

\* What a step that sends the batch leaves as it was.
LEMMA StreamStays ==
  ASSUME StreamInv, Stream!JournalStreamAssumption, UNCHANGED pipes, batch' = <<>>, next' = next
  PROVE  /\ LastRead' = LastRead /\ LastSent' = LastRead /\ LastRead' \in Nat
         /\ (\A r \in {"backlog", "follow"} : \A k \in 1..Len(pipes[r]) : pipes[r][k] = LastRead + k)'
         /\ (Len(batch) < BatchSize /\ batch \in Seq(Nat) /\ \A k \in 1..Len(batch) : batch[k] = LastSent + k)'
<1>1. LastRead' = LastRead
  BY DEF LastRead
<1>2. LastRead \in Nat
  BY StreamNumbers
<1>3. Len(batch') = 0 /\ batch' \in Seq(Nat) /\ \A k \in 1..Len(batch') : FALSE
  <2>1. Len(batch') = 0 /\ batch' \in Seq(Nat)
    BY EmptySeq
  <2> QED BY <2>1
<1>4. LastSent' = LastRead' - Len(batch')
  BY DEF LastSent
<1>5. LastSent' = LastRead
  BY <1>1, <1>2, <1>3, <1>4
<1>6. \A r \in {"backlog", "follow"} : \A k \in 1..Len(pipes[r]) : pipes[r][k] = LastRead + k
  BY DEF StreamInv
<1>7. (\A r \in {"backlog", "follow"} : \A k \in 1..Len(pipes[r]) : pipes[r][k] = LastRead + k)'
  BY <1>1, <1>6
<1>8. 0 < BatchSize
  BY DEF Stream!JournalStreamAssumption
<1> QED BY <1>1, <1>2, <1>3, <1>5, <1>7, <1>8

\* By the timer.
LEMMA StreamFlushed == Stream!JournalStreamAssumption /\ StreamInv /\ Stream!Flushes => StreamInv'
<1> SUFFICES ASSUME Stream!JournalStreamAssumption, StreamInv, Stream!Flushes PROVE StreamInv'
  OBVIOUS
<1>1. /\ sentOn' = sentOn \o batch /\ batch' = <<>>
      /\ UNCHANGED <<logged, run, next, ends, pipes, lastCursor>>
  BY DEF Stream!Flushes
<1>2. /\ LastRead' = LastRead /\ LastSent' = LastRead /\ LastRead' \in Nat
      /\ (\A r \in {"backlog", "follow"} : \A k \in 1..Len(pipes[r]) : pipes[r][k] = LastRead + k)'
      /\ (Len(batch) < BatchSize /\ batch \in Seq(Nat) /\ \A k \in 1..Len(batch) : batch[k] = LastSent + k)'
  BY <1>1, StreamStays
<1>3. /\ WithoutDone(sentOn, LastSent) => WithoutDone(sentOn \o batch, LastRead)
      /\ WithDone(sentOn, LastSent) => WithDone(sentOn \o batch, LastRead)
      /\ sentOn \o batch \in Seq(Nat)
  BY StreamSends
<1>4. /\ WithoutDone(sentOn, LastSent) \/ WithDone(sentOn, LastSent)
      /\ run = "backlog" => WithoutDone(sentOn, LastSent)
  BY DEF StreamInv
<1>5. /\ WithoutDone(sentOn', LastSent') \/ WithDone(sentOn', LastSent')
      /\ run' = "backlog" => WithoutDone(sentOn', LastSent')
      /\ sentOn' \in Seq(Nat)
  BY <1>1, <1>2, <1>3, <1>4
<1>6. /\ (WithoutDone(sentOn, LastSent) \/ WithDone(sentOn, LastSent))'
      /\ (run = "backlog" => WithoutDone(sentOn, LastSent))'
  BY <1>5 DEF WithDone, WithoutDone
<1>7. /\ (logged \in Nat /\ next \in Nat /\ ends \in Nat /\ lastCursor \in Nat)'
      /\ (pipes \in [{"backlog", "follow"} -> Seq(Nat)])'
      /\ (run # "follow" => pipes["follow"] = <<>> \/ pipes["backlog"] = <<>>)'
      /\ (run = "backlog" => pipes["follow"] = <<>> /\ next <= ends + 1)'
      /\ (run = "follow" => pipes["backlog"] = <<>>)'
      /\ (run \in {"backlog", "follow", "over"})'
      /\ lastCursor' \in {0, LastRead'}
  BY <1>1, <1>2 DEF StreamInv
<1> QED BY <1>2, <1>5, <1>6, <1>7 DEF StreamInv

\* The child of the backlog ends when all of it was read; the next one goes on from there.
LEMMA StreamTurns ==
  Stream!JournalStreamAssumption /\ ~EarlyExit /\ StreamInv /\ Stream!BacklogEnds => StreamInv'
<1> SUFFICES ASSUME Stream!JournalStreamAssumption, ~EarlyExit, StreamInv, Stream!BacklogEnds
             PROVE  StreamInv'
  OBVIOUS
<1>1. /\ run = "backlog" /\ next > ends /\ pipes["backlog"] = <<>>
      /\ sentOn' = sentOn \o batch \o <<0>> /\ batch' = <<>>
      /\ \/ run' = "follow" /\ next' = Stream!Resumes /\ ends' = Entries + 1
         \/ run' = "over" /\ UNCHANGED <<next, ends>>
      /\ UNCHANGED <<logged, pipes, lastCursor>>
  BY DEF Stream!BacklogEnds, Stream!Done, Stream!Open
<1>2. /\ pipes["follow"] = <<>> /\ WithoutDone(sentOn, LastSent) /\ next <= ends + 1
      /\ lastCursor \in {0, LastRead} /\ next \in Nat /\ ends \in Nat /\ lastCursor \in Nat /\ logged \in Nat
      /\ pipes \in [{"backlog", "follow"} -> Seq(Nat)]
  BY <1>1 DEF StreamInv
<1>3. LastRead = next - 1
  <2>1. LastRead = next - 1 - (Len(<<>>) + Len(<<>>)) /\ Len(<<>>) = 0
    BY <1>1, <1>2 DEF LastRead
  <2> QED BY <1>2, <2>1
<1>4. next' = next
  <2>1. next = ends + 1
    BY <1>1, <1>2
  <2>2. Stream!Resumes = next
    <3>1. CASE lastCursor = 0
      BY <2>1, <3>1 DEF Stream!Resumes
    <3>2. CASE lastCursor # 0
      <4>1. lastCursor = next - 1
        BY <1>2, <1>3, <3>2
      <4> QED BY <1>2, <3>2, <4>1 DEF Stream!Resumes
    <3> QED BY <3>1, <3>2
  <2> QED BY <1>1, <2>2
<1>5. /\ LastRead' = LastRead /\ LastSent' = LastRead /\ LastRead' \in Nat
      /\ (\A r \in {"backlog", "follow"} : \A k \in 1..Len(pipes[r]) : pipes[r][k] = LastRead + k)'
      /\ (Len(batch) < BatchSize /\ batch \in Seq(Nat) /\ \A k \in 1..Len(batch) : batch[k] = LastSent + k)'
  BY <1>1, <1>4, StreamStays
<1>6. /\ WithoutDone(sentOn \o batch, LastRead) /\ sentOn \o batch \in Seq(Nat)
  BY <1>2, StreamSends
<1>7. WithDone(sentOn', LastSent')
  <2>1. LastRead \in Nat
    BY StreamNumbers
  <2>2. WithDone((sentOn \o batch) \o <<0>>, LastRead)
    BY <1>6, <2>1, OrderEnds
  <2> QED BY <1>1, <1>5, <2>2
<1>8. sentOn' \in Seq(Nat)
  <2>1. <<0>> \in Seq(Nat)
    OBVIOUS
  <2> QED BY <1>1, <1>6, <2>1, ConcatProperties
<1>9. WithDone(sentOn, LastSent)'
  BY <1>7 DEF WithDone
<1>10. Entries + 1 \in Nat
  BY DEF Stream!JournalStreamAssumption
<1>11. ends' \in Nat /\ run' \in {"follow", "over"} /\ next' \in Nat /\ lastCursor' \in Nat /\ logged' \in Nat
  BY <1>1, <1>2, <1>4, <1>10
<1>12. lastCursor' \in {0, LastRead'} /\ pipes' = pipes
  BY <1>1, <1>2, <1>5
<1>13. LastSent' \in Nat
  BY <1>5
<1>14. (WithoutDone(sentOn, LastSent) \/ WithDone(sentOn, LastSent))'
  BY <1>9
<1>15. /\ (run # "follow" => pipes["follow"] = <<>> \/ pipes["backlog"] = <<>>)'
       /\ (run = "follow" => pipes["backlog"] = <<>>)' /\ run' # "backlog"
       /\ (pipes \in [{"backlog", "follow"} -> Seq(Nat)])'
  BY <1>1, <1>2, <1>11, <1>12
<1> QED BY <1>5, <1>8, <1>11, <1>12, <1>13, <1>14, <1>15 DEF StreamInv

\* Every step keeps it.
LEMMA StreamGoesOn ==
  Stream!JournalStreamAssumption /\ ~EarlyExit /\ StreamInv /\ [Stream!Next]_streamVars => StreamInv'
<1> SUFFICES ASSUME Stream!JournalStreamAssumption, ~EarlyExit, StreamInv, [Stream!Next]_streamVars
             PROVE  StreamInv'
  OBVIOUS
<1>1. ASSUME UNCHANGED <<run, next, ends, pipes, lastCursor, batch, sentOn>>, logged' \in Nat
      PROVE  StreamInv'
  BY <1>1 DEF StreamInv, LastRead, LastSent, WithDone, WithoutDone
<1>2. logged \in Nat
  BY DEF StreamInv
<1>3. CASE Stream!Logs
  BY <1>1, <1>2, <1>3 DEF Stream!Logs
<1>4. CASE Stream!Stops
  <2>1. run' = "over" /\ UNCHANGED <<logged, next, ends, pipes, lastCursor, batch, sentOn>>
    BY <1>4 DEF Stream!Stops
  <2>2. pipes["follow"] = <<>> \/ pipes["backlog"] = <<>>
    BY DEF StreamInv
  <2> QED BY <2>1, <2>2 DEF StreamInv, LastRead, LastSent, WithDone, WithoutDone
<1>5. CASE Stream!BrowserTakes
  BY <1>1, <1>2, <1>5 DEF Stream!BrowserTakes
<1>6. CASE UNCHANGED streamVars
  BY <1>1, <1>2, <1>6 DEF streamVars
<1>7. CASE \E r \in DOMAIN pipes : Stream!Reads(r)
  <2>1. DOMAIN pipes = {"backlog", "follow"}
    BY DEF StreamInv
  <2> QED BY <1>7, <2>1, StreamRead
<1> QED BY <1>3, <1>4, <1>5, <1>6, <1>7, StreamWritten, StreamFlushed, StreamTurns DEF Stream!Next

-----------------------------------------------------------------------------
(* The bus: a connection of our own.                                        *)

\* What connect() and the socket say of the calls.
BusInv ==
  /\ connect \in {"waiting", "resolved", "rejected"}
  /\ socketIs \in {"connecting", "auth", "open", "broken", "gone"}
  /\ serial \in Nat /\ calls \in [1..Serials -> {"unmade", "pending", "answered", "refused"}]
  /\ answeredWith \in [1..Serials -> Nat]
  /\ replies \in Seq([to : 1..Serials, how : {"answered", "refused"}])
  /\ connect = "waiting" => socketIs \in {"connecting", "auth", "open"}
  /\ connect = "resolved" => socketIs \in {"open", "broken", "gone"}
  /\ connect = "rejected" => socketIs = "gone"
  /\ socketIs \in {"connecting", "auth"} => serial = 0
  /\ socketIs = "gone" /\ connect = "resolved" => Bus!PendingCalls = {}
  /\ \A s \in 1..Serials : answeredWith[s] \in {0, s}

\* It holds at first.
LEMMA BusBegins == Bus!Init => BusInv
<1> SUFFICES ASSUME Bus!Init PROVE BusInv
  OBVIOUS
<1>1. <<>> \in Seq([to : 1..Serials, how : {"answered", "refused"}])
  BY EmptySeq
<1> QED BY <1>1 DEF Bus!Init, BusInv

\* A call that is made waits.
LEMMA BusCalls ==
  ASSUME BusInv, Bus!Call, serial + 1 \in 1..Serials
  PROVE  serial' \in Nat /\ calls' \in [1..Serials -> {"unmade", "pending", "answered", "refused"}]
  BY DEF BusInv, Bus!Call

\* Every step keeps it.
LEMMA BusGoesOn == Bus!BusConnectionAssumption /\ ~Late /\ BusInv /\ [Bus!Next]_busVars => BusInv'
<1> SUFFICES ASSUME Bus!BusConnectionAssumption, ~Late, BusInv, [Bus!Next]_busVars PROVE BusInv'
  OBVIOUS
<1> USE DEF Bus!PendingCalls
<1>1. CASE Bus!Connects
  BY <1>1 DEF BusInv, Bus!Connects
<1>2. CASE Bus!Accepted
  <2>1. Bus!Call /\ socketIs = "auth" /\ socketIs' = "open" /\ UNCHANGED <<connect, answeredWith, replies>>
    BY <1>2 DEF Bus!Accepted
  <2>2. serial + 1 \in 1..Serials
    BY <2>1 DEF BusInv, Bus!BusConnectionAssumption
  <2>3. serial' \in Nat /\ calls' \in [1..Serials -> {"unmade", "pending", "answered", "refused"}]
    BY <2>1, <2>2, BusCalls
  <2>4. connect' \in {"waiting", "resolved"}
    BY <2>1 DEF BusInv
  <2> QED BY <2>1, <2>3, <2>4 DEF BusInv
<1>3. CASE Bus!FailsEarly
  <2>1. /\ connect = "waiting" /\ socketIs' = "gone" /\ replies' = <<>> /\ connect' = "rejected"
        /\ UNCHANGED <<serial, calls, answeredWith>>
    BY <1>3 DEF Bus!FailsEarly
  <2>2. replies' \in Seq([to : 1..Serials, how : {"answered", "refused"}])
    BY <2>1, EmptySeq
  <2> QED BY <2>1, <2>2 DEF BusInv
<1>4. CASE Bus!CallsMore
  <2>1. Bus!Call /\ connect = "resolved" /\ socketIs = "open" /\ serial < Serials
        /\ UNCHANGED <<connect, socketIs, answeredWith, replies>>
    BY <1>4 DEF Bus!CallsMore
  <2>2. serial + 1 \in 1..Serials
    BY <2>1 DEF BusInv, Bus!BusConnectionAssumption
  <2>3. serial' \in Nat /\ calls' \in [1..Serials -> {"unmade", "pending", "answered", "refused"}]
    BY <2>1, <2>2, BusCalls
  <2> QED BY <2>1, <2>3 DEF BusInv
<1>5. ASSUME NEW s \in 1..Serials, NEW how \in {"answered", "refused"}, Bus!BusReplies(s, how) PROVE BusInv'
  <2>1. /\ replies' = Append(replies, [to |-> s, how |-> how])
        /\ UNCHANGED <<connect, socketIs, serial, calls, answeredWith>>
    BY <1>5 DEF Bus!BusReplies
  <2>2. [to |-> s, how |-> how] \in [to : 1..Serials, how : {"answered", "refused"}]
    OBVIOUS
  <2>3. replies' \in Seq([to : 1..Serials, how : {"answered", "refused"}])
    BY <2>1, <2>2, AppendProperties DEF BusInv
  <2> QED BY <2>1, <2>3 DEF BusInv
<1>6. CASE Bus!Dispatch
  <2> DEFINE reply == Head(replies)
  <2>1. /\ replies # <<>> /\ socketIs = "open" /\ replies' = Tail(replies)
        /\ calls' = [s \in 1..Serials |-> IF s \in Bus!Answers(reply) THEN reply.how ELSE calls[s]]
        /\ answeredWith' = [s \in 1..Serials |->
                              IF s \in Bus!Answers(reply) THEN reply.to ELSE answeredWith[s]]
        /\ connect' = IF Bus!HelloSerial \notin Bus!Answers(reply) THEN connect
                      ELSE IF reply.how = "answered" THEN "resolved" ELSE "rejected"
        /\ socketIs' = IF connect' = "rejected" THEN "gone" ELSE socketIs
        /\ serial' = serial
    BY <1>6 DEF Bus!Dispatch
  <2>2. /\ reply \in [to : 1..Serials, how : {"answered", "refused"}]
        /\ Tail(replies) \in Seq([to : 1..Serials, how : {"answered", "refused"}])
    <3>1. replies \in Seq([to : 1..Serials, how : {"answered", "refused"}])
      BY DEF BusInv
    <3> QED BY <2>1, <3>1, HeadTailProperties
  <2>3. \A s \in 1..Serials : s \in Bus!Answers(reply) => s = reply.to
    BY DEF Bus!Answers
  <2> HIDE DEF reply
  <2>4. /\ calls' \in [1..Serials -> {"unmade", "pending", "answered", "refused"}]
    BY <2>1, <2>2 DEF BusInv
  <2>5. answeredWith' \in [1..Serials -> Nat]
    BY <2>1, <2>2 DEF BusInv
  <2>6. \A s \in 1..Serials : answeredWith'[s] \in {0, s}
    BY <2>1, <2>3 DEF BusInv
  <2>7. connect \in {"waiting", "resolved"}
    BY <2>1 DEF BusInv
  <2>8. connect' \in {"waiting", "resolved", "rejected"} /\ (connect' = "rejected" <=> socketIs' = "gone")
        /\ (connect' # "rejected" => socketIs' = "open")
    BY <2>1, <2>7
  <2>9. serial' \in Nat
    BY <2>1 DEF BusInv
  <2> QED BY <2>1, <2>2, <2>4, <2>5, <2>6, <2>8, <2>9 DEF BusInv
<1>7. CASE Bus!Breaks
  <2>1. /\ connect = "resolved" /\ socketIs' = "broken" /\ replies' = <<>>
        /\ UNCHANGED <<connect, serial, calls, answeredWith>>
    BY <1>7 DEF Bus!Breaks
  <2>2. replies' \in Seq([to : 1..Serials, how : {"answered", "refused"}])
    BY <2>1, EmptySeq
  <2> QED BY <2>1, <2>2 DEF BusInv
<1>8. CASE Bus!Closed
  <2>1. /\ socketIs = "broken" /\ socketIs' = "gone"
        /\ calls' = [s \in 1..Serials |-> IF calls[s] = "pending" THEN "refused" ELSE calls[s]]
        /\ UNCHANGED <<connect, serial, answeredWith, replies>>
    BY <1>8 DEF Bus!Closed, Bus!Refused
  <2>2. calls' \in [1..Serials -> {"unmade", "pending", "answered", "refused"}]
        /\ \A s \in 1..Serials : calls'[s] # "pending"
    BY <2>1 DEF BusInv
  <2>3. connect = "resolved"
    BY <2>1 DEF BusInv
  <2> QED BY <2>1, <2>2, <2>3 DEF BusInv
<1>9. CASE UNCHANGED busVars
  BY <1>9 DEF busVars, BusInv
<1> QED BY <1>1, <1>2, <1>3, <1>4, <1>5, <1>6, <1>7, <1>8, <1>9 DEF Bus!Next

\* Whoever waits for an answer gets one, and their own.
LEMMA BusHolds == BusInv => Bus!CallsAreSettled
  BY DEF BusInv, Bus!CallsAreSettled, Bus!AnswersAreTheirOwn

-----------------------------------------------------------------------------
(* The bus: the proxy of a snap.                                            *)

\* The halves that travel to the application, and the frames of the application.
BusHalves == {"hello", "signal", "ours"} \X {"first", "last"}
AppHalves == Nat \X {"first", "last"}
Passes == Nat \X {"portal", "bus"}

\* The first c frames, as they are passed on; and those of the halves hs.
FirstOnward(c) == [k \in 1..c |-> Proxy!Onward(k)]
OnwardOf(hs) == [k \in DOMAIN Proxy!FramesOf(hs) |-> Proxy!Onward(Proxy!FramesOf(hs)[k])]

\* What is at place k of what an application writes is the k-th half.
LEMMA HalfIs ==
  ASSUME NEW k \in Nat
  PROVE  Proxy!Half(k) \in AppHalves /\ Proxy!Half(k)[1] = (k + 1) \div 2
<1>1. (k + 1) \div 2 \in Nat
  OBVIOUS
<1> DEFINE side == IF k % 2 = 1 THEN "first" ELSE "last"
<1>2. side \in {"first", "last"} /\ Proxy!Half(k) = <<(k + 1) \div 2, side>>
  BY DEF Proxy!Half
<1> HIDE DEF side
<1> QED BY <1>1, <1>2 DEF AppHalves

\* How many halves are left, of m after c frames, when n more frames are whole.
LEMMA LeftOfThem ==
  ASSUME NEW c \in Nat, NEW m \in Nat, NEW n \in Nat
  PROVE  m - 2 * n = (2 * c + m) - 2 * (c + n)
  OBVIOUS

\* Where the k-th of those is.
LEMMA PlaceOfHalf ==
  ASSUME NEW c \in Nat, NEW m \in Nat, NEW n \in Nat, NEW k \in 1..(m - 2 * n)
  PROVE  2 * n + k \in 1..m /\ 2 * c + (2 * n + k) = 2 * (c + n) + k
  OBVIOUS

\* Of the halves from a place that is even, the whole frames go on and a half may be left.
LEMMA ProxyTakes ==
  ASSUME NEW c \in Nat, NEW hs \in Seq(AppHalves), \A k \in 1..Len(hs) : hs[k] = Proxy!Half(2 * c + k),
         onward = FirstOnward(c), NEW d, d = c + (Len(hs) \div 2)
  PROVE  /\ d \in Nat /\ Proxy!Rest(hs) \in Seq(AppHalves)
         /\ Len(Proxy!Rest(hs)) = (2 * c + Len(hs)) - 2 * d
         /\ \A k \in 1..Len(Proxy!Rest(hs)) : Proxy!Rest(hs)[k] = Proxy!Half(2 * d + k)
         /\ onward \o OnwardOf(hs) = FirstOnward(d)
<1> DEFINE m == Len(hs)  n == m \div 2  rest == Proxy!Rest(hs)  frames == Proxy!FramesOf(hs)
           more == [k \in 1..n |-> Proxy!Onward(c + k)]  all == [k \in 1..d |-> Proxy!Onward(k)]
<1>0. d = c + n
  OBVIOUS
<1>01. onward = [k \in 1..c |-> Proxy!Onward(k)]
  BY DEF FirstOnward
<1>1. m \in Nat /\ n \in Nat /\ 2 * n <= m /\ m <= 2 * n + 1
  <2>1. m \in Nat
    BY LenProperties
  <2> HIDE DEF m
  <2> QED BY <2>1
<1>2. d \in Nat
  <2> HIDE DEF n
  <2> QED BY <1>1, <1>0
<1>3. rest \in Seq(AppHalves) /\ Len(rest) = m - 2 * n /\ \A k \in 1..(m - 2 * n) : rest[k] = hs[2 * n + k]
  <2> DEFINE a == 2 * n + 1
  <2>1. rest = SubSeq(hs, a, m) /\ a \in Nat /\ m - a + 1 = m - 2 * n
    BY <1>1 DEF Proxy!Rest
  <2>2. \A i \in a..m : hs[i] \in AppHalves
    <3>1. \A i \in a..m : i \in 1..m
      BY <1>1
    <3> QED BY <3>1, ElementOfSeq
  <2>3. a <= m + 1
    BY <1>1
  <2> DEFINE r == SubSeq(hs, a, m)
  <2>4. /\ r \in Seq(AppHalves) /\ Len(r) = IF a <= m THEN m - a + 1 ELSE 0
        /\ \A i \in 1..(m - a + 1) : r[i] = hs[a + i - 1]
    BY <1>1, <2>1, <2>2, SubSeqProperties
  <2> HIDE DEF r, rest, n, m
  <2>5. Len(r) = m - 2 * n
    BY <1>1, <2>3, <2>4
  <2>6. \A k \in 1..(m - 2 * n) : k \in 1..(m - a + 1) /\ a + k - 1 = 2 * n + k
    BY <1>1
  <2>7. \A k \in 1..(m - 2 * n) : r[k] = hs[2 * n + k]
    BY <2>4, <2>6
  <2> QED BY <2>1, <2>4, <2>5, <2>7 DEF r
<1>4. \A k \in 1..Len(rest) : rest[k] = Proxy!Half(2 * d + k)
  <2> HIDE DEF rest, n, m
  <2>0. d = c + n
    BY <1>0
  <2>1. ASSUME NEW k \in 1..Len(rest) PROVE rest[k] = Proxy!Half(2 * d + k)
    <3>0. k \in 1..(m - 2 * n)
      BY <1>3
    <3>1. k \in 1..(m - 2 * n) /\ 2 * n + k \in 1..m /\ 2 * c + (2 * n + k) = 2 * d + k
      <4>1. m \in Nat /\ n \in Nat
        BY <1>1
      <4>2. 2 * n + k \in 1..m /\ 2 * c + (2 * n + k) = 2 * (c + n) + k
        BY <3>0, <4>1, PlaceOfHalf
      <4> QED BY <2>0, <3>0, <4>2, Zenon
    <3>2. hs[2 * n + k] = Proxy!Half(2 * c + (2 * n + k))
      BY <3>1 DEF m
    <3> QED BY <1>3, <3>1, <3>2
  <2> QED BY <2>1
<1>5. frames = [k \in 1..n |-> c + k]
  <2>1. frames = [k \in 1..n |-> hs[2 * k][1]]
    BY DEF Proxy!FramesOf
  <2> HIDE DEF n, m, frames
  <2>2. ASSUME NEW k \in 1..n PROVE hs[2 * k][1] = c + k
    <3>1. 2 * k \in 1..m /\ 2 * c + 2 * k \in Nat /\ (2 * c + 2 * k + 1) \div 2 = c + k
      BY <1>1
    <3>2. hs[2 * k] = Proxy!Half(2 * c + 2 * k)
      BY <3>1 DEF m
    <3> QED BY <3>1, <3>2, HalfIs
  <2> QED BY <2>1, <2>2
<1>6. [k \in DOMAIN frames |-> Proxy!Onward(frames[k])] = more
  <2> HIDE DEF frames, n
  <2> QED BY <1>5
<1>7. \A k \in Nat : Proxy!Onward(k) \in Passes
  BY DEF Proxy!Onward, Passes
<1>8. onward \o more = all
  <2> HIDE DEF n
  <2>1. /\ onward \in Seq(Passes) /\ Len(onward) = c
    BY <1>7, <1>01, LenProperties
  <2>2. /\ more \in Seq(Passes) /\ Len(more) = n
    <3>1. \A k \in 1..n : Proxy!Onward(c + k) \in Passes
      BY <1>1, <1>7
    <3> QED BY <1>1, <3>1, LenProperties
  <2>3. /\ all \in Seq(Passes) /\ Len(all) = d
    <3>1. \A k \in 1..d : Proxy!Onward(k) \in Passes
      BY <1>7
    <3> QED BY <1>2, <3>1, LenProperties
  <2> DEFINE t == onward \o more
  <2>4. /\ t \in Seq(Passes) /\ Len(t) = c + n
        /\ \A k \in 1..(c + n) : t[k] = IF k <= c THEN onward[k] ELSE more[k - c]
    <3> HIDE DEF more
    <3>1. /\ t \in Seq(Passes) /\ Len(t) = Len(onward) + Len(more)
          /\ \A k \in 1..(Len(onward) + Len(more)) :
               t[k] = IF k <= Len(onward) THEN onward[k] ELSE more[k - Len(onward)]
      BY <2>1, <2>2, ConcatProperties
    <3>2. Len(onward) = c /\ Len(more) = n
      BY <2>1, <2>2
    <3> HIDE DEF t
    <3> QED BY <3>1, <3>2
  <2>5. ASSUME NEW k \in 1..(c + n) PROVE t[k] = all[k]
    <3>1. k \in 1..d /\ all[k] = Proxy!Onward(k)
      <4>1. k \in 1..d
        BY <1>0
      <4> QED BY <4>1
    <3>2. CASE k <= c
      <4>1. k \in 1..c /\ onward[k] = Proxy!Onward(k)
        BY <1>01, <3>2
      <4> HIDE DEF t, all, more
      <4> QED BY <2>4, <3>1, <3>2, <4>1
    <3>3. CASE ~(k <= c)
      <4>1. k - c \in 1..n /\ c + (k - c) = k
        BY <1>1, <3>3
      <4>2. more[k - c] = Proxy!Onward(k)
        BY <4>1
      <4> HIDE DEF t, all, more
      <4> QED BY <2>4, <3>1, <3>3, <4>2
    <3> QED BY <3>2, <3>3
  <2> HIDE DEF t, all, more
  <2>6. t = all
    <3>1. Len(t) = Len(all) /\ \A k \in 1..Len(t) : t[k] = all[k]
      BY <1>0, <2>3, <2>4, <2>5
    <3> QED BY <2>3, <2>4, <3>1, SeqEqual
  <2> QED BY <2>6 DEF t
<1>9. Len(rest) = (2 * c + m) - 2 * d
  <2>1. Len(rest) = m - 2 * n
    BY <1>3
  <2>2. m \in Nat /\ n \in Nat /\ d = c + n
    BY <1>0, <1>1
  <2> HIDE DEF rest, n, m
  <2>3. m - 2 * n = (2 * c + m) - 2 * d
    <3>1. m - 2 * n = (2 * c + m) - 2 * (c + n)
      BY <2>2, LeftOfThem
    <3> QED BY <2>2, <3>1, Zenon
  <2> QED BY <2>1, <2>3
<1> HIDE DEF more, all
<1>10. onward \o [k \in DOMAIN frames |-> Proxy!Onward(frames[k])] = all
  BY <1>6, <1>8
<1>11. onward \o OnwardOf(hs) = FirstOnward(d)
  BY <1>10 DEF OnwardOf, FirstOnward, all, frames
<1> QED BY <1>2, <1>3, <1>4, <1>9, <1>11

\* Until the bus lets an application in what it wrote is kept, and then all of it goes on but
\* for a half of a frame.
AppInv ==
  /\ wrote \in Nat /\ authed \in BOOLEAN
  /\ early \in Seq(AppHalves) /\ fromClient \in Seq(AppHalves)
  /\ authed = FALSE => /\ Len(early) = wrote /\ \A k \in 1..wrote : early[k] = Proxy!Half(k)
                       /\ fromClient = <<>> /\ onward = <<>>
  /\ authed = TRUE =>
       /\ Len(fromClient) = wrote - 2 * (wrote \div 2)
       /\ \A k \in 1..Len(fromClient) : fromClient[k] = Proxy!Half(2 * (wrote \div 2) + k)
       /\ onward = FirstOnward(wrote \div 2)

\* It holds at first.
LEMMA AppBegins == Proxy!Init => AppInv
<1> SUFFICES ASSUME Proxy!Init PROVE AppInv
  OBVIOUS
<1>1. wrote = 0 /\ early = <<>> /\ fromClient = <<>> /\ authed = FALSE /\ onward = <<>>
  BY DEF Proxy!Init
<1>2. <<>> \in Seq(AppHalves) /\ Len(<<>>) = 0
  BY EmptySeq
<1>3. Len(early) = wrote /\ wrote \in Nat /\ early \in Seq(AppHalves) /\ fromClient \in Seq(AppHalves)
  BY <1>1, <1>2
<1>4. \A k \in 1..wrote : FALSE
  BY <1>1
<1>5. authed \in BOOLEAN
  BY <1>1
<1> QED BY <1>1, <1>3, <1>4, <1>5 DEF AppInv

\* A half that is written goes on, or is kept.
LEMMA AppWritten == AppInv /\ Proxy!AppWrites => AppInv'
<1> SUFFICES ASSUME AppInv, Proxy!AppWrites PROVE AppInv'
  OBVIOUS
<1> DEFINE h == Proxy!Half(wrote + 1)  chunk == <<h>>
<1>1. /\ wrote' = wrote + 1 /\ authed' = authed
      /\ authed = TRUE => Proxy!FromClient(chunk) /\ early' = early
      /\ authed # TRUE => early' = early \o chunk /\ fromClient' = fromClient /\ onward' = onward
  BY DEF Proxy!AppWrites, Proxy!Kept
<1>2. wrote \in Nat /\ authed \in BOOLEAN /\ early \in Seq(AppHalves) /\ fromClient \in Seq(AppHalves)
  BY DEF AppInv
<1>3. h \in AppHalves
  BY <1>2, HalfIs
<1>4. chunk \in Seq(AppHalves) /\ Len(chunk) = 1 /\ chunk[1] = h
  <2> HIDE DEF h
  <2> QED BY <1>3
<1>5. CASE authed = FALSE
  <2>1. /\ Len(early) = wrote /\ \A k \in 1..wrote : early[k] = Proxy!Half(k)
        /\ fromClient = <<>> /\ onward = <<>>
    BY <1>5 DEF AppInv
  <2> DEFINE t == early \o chunk
  <2>2. early' = t /\ fromClient' = <<>> /\ onward' = <<>> /\ authed' = FALSE
    BY <1>1, <1>5, <2>1
  <2>3. /\ t \in Seq(AppHalves) /\ Len(t) = Len(early) + Len(chunk)
        /\ \A k \in 1..(Len(early) + Len(chunk)) :
             t[k] = IF k <= Len(early) THEN early[k] ELSE chunk[k - Len(early)]
    <3> HIDE DEF chunk
    <3> QED BY <1>2, <1>4, ConcatProperties
  <2> HIDE DEF t, chunk
  <2>4. /\ Len(t) = wrote + 1
        /\ \A k \in 1..(wrote + 1) : t[k] = IF k <= wrote THEN early[k] ELSE chunk[k - wrote]
    BY <1>4, <2>1, <2>3
  <2>5. ASSUME NEW k \in 1..(wrote + 1) PROVE t[k] = Proxy!Half(k)
    <3>1. CASE k \in 1..wrote
      BY <2>1, <2>4, <3>1
    <3>2. CASE k = wrote + 1
      <4>1. ~(k <= wrote) /\ k - wrote = 1
        BY <1>2, <3>2
      <4>2. t[k] = h
        BY <1>4, <2>4, <4>1
      <4> QED BY <3>2, <4>2
    <3> QED BY <1>2, <3>1, <3>2
  <2>6. wrote' \in Nat /\ fromClient' \in Seq(AppHalves)
    BY <1>1, <1>2, <2>2, EmptySeq
  <2> QED BY <1>1, <2>2, <2>3, <2>4, <2>5, <2>6 DEF AppInv
<1>6. CASE authed = TRUE
  <2> DEFINE c == wrote \div 2  hs == fromClient \o chunk  d == c + (Len(hs) \div 2)
  <2>1. /\ Len(fromClient) = wrote - 2 * c /\ \A k \in 1..Len(fromClient) : fromClient[k] = Proxy!Half(2 * c + k)
        /\ onward = FirstOnward(c)
    BY <1>6 DEF AppInv
  <2>2. c \in Nat /\ 2 * c <= wrote
    BY <1>2
  <2>3. /\ hs \in Seq(AppHalves) /\ Len(hs) = Len(fromClient) + Len(chunk)
        /\ \A k \in 1..(Len(fromClient) + Len(chunk)) :
             hs[k] = IF k <= Len(fromClient) THEN fromClient[k] ELSE chunk[k - Len(fromClient)]
    <3> HIDE DEF chunk
    <3> QED BY <1>2, <1>4, ConcatProperties
  <2> DEFINE f == Len(fromClient)
  <2>4. f \in Nat /\ f = wrote - 2 * c
    BY <1>2, <2>1, LenProperties
  <2>5. /\ Len(hs) = f + 1 /\ \A k \in 1..(f + 1) : hs[k] = IF k <= f THEN fromClient[k] ELSE chunk[k - f]
    <3> HIDE DEF hs, chunk
    <3> QED BY <1>4, <2>3
  <2> HIDE DEF hs, chunk
  <2>6. \A k \in 1..Len(hs) : hs[k] = Proxy!Half(2 * c + k)
    <3>1. ASSUME NEW k \in 1..(f + 1) PROVE hs[k] = Proxy!Half(2 * c + k)
      <4>1. CASE k \in 1..f
        BY <2>1, <2>4, <2>5, <4>1
      <4>2. CASE k = f + 1
        <5> HIDE DEF c, f
        <5>1. ~(k <= f) /\ k - f = 1 /\ 2 * c + k = wrote + 1 /\ k \in 1..(f + 1)
          BY <1>2, <2>2, <2>4, <4>2
        <5>2. hs[k] = chunk[1]
          BY <2>5, <5>1
        <5> QED BY <1>4, <5>1, <5>2
      <4> QED BY <2>4, <4>1, <4>2
    <3> QED BY <2>5, <3>1
  <2>7. d = (wrote + 1) \div 2 /\ d \in Nat
    <3>1. Len(hs) = wrote - 2 * c + 1
      BY <2>4, <2>5
    <3> QED BY <1>2, <3>1
  <2>8. wrote' \div 2 = d /\ Len(hs) + 2 * c = wrote'
    <3>1. Len(hs) = wrote - 2 * c + 1
      BY <2>4, <2>5
    <3> QED BY <1>1, <1>2, <2>7, <3>1
  <2>9. d = c + (Len(hs) \div 2)
    OBVIOUS
  <2> HIDE DEF c, d
  <2>91. hs \in Seq(AppHalves) /\ c \in Nat /\ onward = FirstOnward(c)
    BY <2>1, <2>2, <2>3
  <2>10. /\ d \in Nat /\ Proxy!Rest(hs) \in Seq(AppHalves)
         /\ Len(Proxy!Rest(hs)) = (2 * c + Len(hs)) - 2 * d
         /\ \A k \in 1..Len(Proxy!Rest(hs)) : Proxy!Rest(hs)[k] = Proxy!Half(2 * d + k)
         /\ onward \o OnwardOf(hs) = FirstOnward(d)
    BY <2>6, <2>9, <2>91, ProxyTakes
  <2>11. /\ fromClient' = Proxy!Rest(hs)
         /\ onward' = onward \o OnwardOf(hs)
         /\ early' = early
    BY <1>1, <1>6 DEF Proxy!FromClient, OnwardOf, hs
  <2>12. FirstOnward(wrote' \div 2) = FirstOnward(wrote \div 2)'
    BY DEF Proxy!AppWrites, FirstOnward, Proxy!Onward, Proxy!Intercepts
  <2>13. onward' = FirstOnward(wrote' \div 2)
    BY <2>8, <2>10, <2>11
  <2>14. Len(fromClient') = wrote' - 2 * (wrote' \div 2)
    <3>1. Len(fromClient') = (2 * c + Len(hs)) - 2 * d /\ Len(hs) + 2 * c = wrote' /\ wrote' \div 2 = d
      BY <2>8, <2>10, <2>11
    <3> DEFINE m == Len(hs)
    <3>2. m \in Nat /\ c \in Nat /\ d \in Nat
      BY <2>2, <2>3, <2>7, LenProperties
    <3>3. Len(fromClient') = (2 * c + m) - 2 * d /\ m + 2 * c = wrote' /\ wrote' \div 2 = d
      BY <3>1
    <3> HIDE DEF m
    <3>4. (2 * c + m) - 2 * d = wrote' - 2 * (wrote' \div 2)
      <4>1. m + 2 * c = wrote' /\ wrote' \div 2 = d
        BY <3>3
      <4>2. 2 * c + m = m + 2 * c
        BY <3>2
      <4> QED BY <4>1, <4>2, Zenon
    <3> QED BY <3>3, <3>4, Zenon
  <2>15. \A k \in 1..Len(fromClient') : fromClient'[k] = Proxy!Half(2 * (wrote' \div 2) + k)
    BY <2>8, <2>10, <2>11
  <2>16. (onward = FirstOnward(wrote \div 2))'
    BY <2>12, <2>13
  <2>17. wrote' \in Nat /\ authed' = TRUE /\ authed' \in BOOLEAN /\ early' \in Seq(AppHalves)
         /\ fromClient' \in Seq(AppHalves)
    BY <1>1, <1>2, <1>6, <2>10, <2>11
  <2>18. (\A k \in 1..Len(fromClient) : fromClient[k] = Proxy!Half(2 * (wrote \div 2) + k))'
    BY <2>15 DEF Proxy!Half
  <2> QED BY <2>14, <2>16, <2>17, <2>18 DEF AppInv
<1> QED BY <1>2, <1>5, <1>6

\* What was kept goes on when the bus lets the application in.
LEMMA AppLetIn == AppInv /\ Proxy!LetIn => AppInv'
<1> SUFFICES ASSUME AppInv, Proxy!LetIn PROVE AppInv'
  OBVIOUS
<1>1. /\ ~authed /\ authed' = TRUE /\ wrote' = wrote /\ proxyAsks' = proxyAsks /\ early' = <<>>
      /\ fromClient' = Proxy!Rest(fromClient \o early) /\ onward' = onward \o OnwardOf(fromClient \o early)
  BY DEF Proxy!LetIn, Proxy!FromClient, OnwardOf
<1>2. wrote \in Nat /\ early \in Seq(AppHalves)
  BY DEF AppInv
<1>3. authed = FALSE
  BY <1>1 DEF AppInv
<1>4. Len(early) = wrote /\ (\A k \in 1..wrote : early[k] = Proxy!Half(k)) /\ fromClient = <<>> /\ onward = <<>>
  BY <1>3 DEF AppInv
<1>5. fromClient \o early = early
  BY <1>2, <1>4, ConcatEmptySeq
<1> DEFINE d == 0 + (Len(early) \div 2)
<1>6. d = wrote \div 2 /\ d = 0 + (Len(early) \div 2) /\ d \in Nat
  BY <1>2, <1>4
<1>7. onward = FirstOnward(0)
  <2>1. [k \in 1..0 |-> Proxy!Onward(k)] = <<>>
    OBVIOUS
  <2> QED BY <1>4, <2>1 DEF FirstOnward
<1>8. \A k \in 1..Len(early) : early[k] = Proxy!Half(2 * 0 + k)
  <2>1. \A k \in 1..Len(early) : 2 * 0 + k = k
    BY <1>2, <1>4
  <2> QED BY <1>4, <2>1
<1> HIDE DEF d
<1>9. /\ Proxy!Rest(early) \in Seq(AppHalves)
      /\ Len(Proxy!Rest(early)) = (2 * 0 + Len(early)) - 2 * d
      /\ \A k \in 1..Len(Proxy!Rest(early)) : Proxy!Rest(early)[k] = Proxy!Half(2 * d + k)
      /\ onward \o OnwardOf(early) = FirstOnward(d)
  <2> DEFINE z == 0
  <2>1. /\ z \in Nat /\ early \in Seq(AppHalves) /\ d = z + (Len(early) \div 2) /\ onward = FirstOnward(z)
        /\ \A k \in 1..Len(early) : early[k] = Proxy!Half(2 * z + k)
    BY <1>2, <1>6, <1>7, <1>8
  <2> HIDE DEF z
  <2>2. /\ Proxy!Rest(early) \in Seq(AppHalves)
        /\ Len(Proxy!Rest(early)) = (2 * z + Len(early)) - 2 * d
        /\ \A k \in 1..Len(Proxy!Rest(early)) : Proxy!Rest(early)[k] = Proxy!Half(2 * d + k)
        /\ onward \o OnwardOf(early) = FirstOnward(d)
    BY <2>1, ProxyTakes
  <2> QED BY <2>2 DEF z
<1>10. (2 * 0 + Len(early)) - 2 * d = wrote - 2 * d
  BY <1>2, <1>4
<1>11. fromClient' = Proxy!Rest(early) /\ onward' = FirstOnward(d)
  BY <1>1, <1>5, <1>9
<1>12. FirstOnward(wrote \div 2)' = FirstOnward(wrote \div 2)
  BY <1>1 DEF FirstOnward, Proxy!Onward, Proxy!Intercepts
<1>13. (onward = FirstOnward(wrote \div 2))'
  BY <1>6, <1>11, <1>12
<1>14. Len(fromClient') = wrote' - 2 * (wrote' \div 2)
  BY <1>1, <1>6, <1>9, <1>10, <1>11
<1>15. (\A k \in 1..Len(fromClient) : fromClient[k] = Proxy!Half(2 * (wrote \div 2) + k))'
  <2>1. wrote' \div 2 = d /\ fromClient' = Proxy!Rest(early)
    BY <1>1, <1>6, <1>11
  <2>2. \A k \in 1..Len(fromClient') : fromClient'[k] = Proxy!Half(2 * (wrote' \div 2) + k)
    BY <1>9, <2>1
  <2> QED BY <2>2 DEF Proxy!Half
<1>16. authed' \in BOOLEAN
  BY <1>1
<1>17. wrote' \in Nat /\ early' \in Seq(AppHalves) /\ fromClient' \in Seq(AppHalves)
  BY <1>1, <1>2, <1>9, <1>11, EmptySeq
<1> QED BY <1>1, <1>13, <1>14, <1>15, <1>16, <1>17 DEF AppInv

\* Every step keeps it.
LEMMA AppGoesOn == AppInv /\ [Proxy!Next]_proxyVars => AppInv'
<1> SUFFICES ASSUME AppInv, [Proxy!Next]_proxyVars PROVE AppInv'
  OBVIOUS
<1>1. ASSUME UNCHANGED <<proxyAsks, wrote, early, fromClient, authed, onward>> PROVE AppInv'
  BY <1>1 DEF AppInv, FirstOnward, Proxy!Onward, Proxy!Intercepts, Proxy!Half
<1>2. CASE Proxy!FromBus
  BY <1>1, <1>2 DEF Proxy!FromBus, Proxy!ownerVars
<1>3. CASE Proxy!Injects
  BY <1>1, <1>3 DEF Proxy!Injects
<1>4. CASE Proxy!OwnerChanges
  BY <1>1, <1>4 DEF Proxy!OwnerChanges, Proxy!busVars
<1>5. ASSUME NEW sort, Proxy!BusSends(sort) PROVE AppInv'
  BY <1>1, <1>5 DEF Proxy!BusSends
<1>6. ASSUME NEW n, Proxy!ControlReads(n) PROVE AppInv'
  BY <1>1, <1>6 DEF Proxy!ControlReads, Proxy!busVars
<1>7. CASE UNCHANGED proxyVars
  BY <1>1, <1>7 DEF proxyVars
<1> QED BY <1>2, <1>3, <1>4, <1>5, <1>6, <1>7, AppWritten, AppLetIn DEF Proxy!Next

\* What goes to an application comes in pairs of halves, of side h are elsewhere.
InPairs(s, h) ==
  /\ (Len(s) + h) % 2 = 0
  /\ \A i \in 1..Len(s) :
       /\ (i + h) % 2 = 1 => s[i][2] = "first" /\ s[i + 1] = <<s[i][1], "last">>
       /\ (i + h) % 2 = 0 => s[i][2] = "last"

\* The two halves of a frame.
BusFrame(a) == <<<<a, "first">>, <<a, "last">>>>

\* They are what a half that was held and the one that came make.
LEMMA TwoHalves ==
  ASSUME NEW a
  PROVE  <<<<a, "first">>>> \o <<<<a, "last">>>> = BusFrame(a)
<1> DEFINE x == <<a, "first">>  y == <<a, "last">>
<1>1. BusFrame(a) = <<x, y>>
  BY DEF BusFrame
<1> HIDE DEF x, y
<1>2. <<x>> \o <<y>> = <<x, y>>
  <2>1. <<x>> \in Seq({x, y}) /\ <<y>> \in Seq({x, y}) /\ <<x, y>> \in Seq({x, y})
    OBVIOUS
  <2>2. Len(<<x>>) = 1 /\ Len(<<y>>) = 1 /\ Len(<<x, y>>) = 2
    OBVIOUS
  <2> DEFINE p == <<x>>  q == <<y>>  r == <<x, y>>
  <2>3. p[1] = x /\ q[1] = y /\ r[1] = x /\ r[2] = y
    OBVIOUS
  <2> DEFINE s == p \o q
  <2>4. p \in Seq({x, y}) /\ q \in Seq({x, y}) /\ r \in Seq({x, y}) /\ Len(p) = 1 /\ Len(q) = 1 /\ Len(r) = 2
    BY <2>1, <2>2
  <2> HIDE DEF p, q, r
  <2>5. /\ s \in Seq({x, y}) /\ Len(s) = Len(p) + Len(q)
        /\ \A i \in 1..(Len(p) + Len(q)) : s[i] = IF i <= Len(p) THEN p[i] ELSE q[i - Len(p)]
    BY <2>4, ConcatProperties
  <2> HIDE DEF s
  <2>6. Len(s) = 2 /\ \A i \in 1..2 : s[i] = IF i <= 1 THEN p[i] ELSE q[i - 1]
    BY <2>4, <2>5
  <2>7. s[1] = p[1] /\ s[2] = q[1]
    <3>1. 1 \in 1..2 /\ 2 \in 1..2 /\ ~(2 <= 1) /\ 1 <= 1 /\ 2 - 1 = 1
      OBVIOUS
    <3> QED BY <2>6, <3>1
  <2>8. \A i \in 1..Len(s) : s[i] = r[i]
    BY <2>3, <2>6, <2>7
  <2>9. s = r
    BY <2>4, <2>5, <2>6, <2>8, SeqEqual
  <2> QED BY <2>9 DEF s, p, q, r
<1>3. <<x>> \o <<y>> = BusFrame(a)
  BY <1>1, <1>2
<1> QED BY <1>3 DEF x, y

\* The first half of a pair is not the last one there is.
LEMMA PairGoesOn ==
  ASSUME NEW n \in Nat, NEW h \in {0, 1}, (n + h) % 2 = 0, NEW i \in 1..n
  PROVE  (i + h) % 2 = 1 => i + 1 \in 1..n
  OBVIOUS

\* A whole frame is a pair more.
LEMMA PairsGrow ==
  ASSUME NEW s \in Seq(BusHalves), NEW h \in {0, 1}, InPairs(s, h), NEW a \in {"hello", "signal", "ours"}
  PROVE  /\ s \o BusFrame(a) \in Seq(BusHalves) /\ InPairs(s \o BusFrame(a), h) /\ s \o BusFrame(a) # <<>>
         /\ s # <<>> => (s \o BusFrame(a))[1] = s[1]
<1> DEFINE p == BusFrame(a)  t == s \o p  n == Len(s)
<1>1. p \in Seq(BusHalves) /\ Len(p) = 2 /\ p[1] = <<a, "first">> /\ p[2] = <<a, "last">>
  BY DEF BusHalves, BusFrame
<1> HIDE DEF p
<1>2. n \in Nat
  BY LenProperties
<1>3. /\ t \in Seq(BusHalves) /\ Len(t) = n + 2
      /\ \A i \in 1..(n + 2) : t[i] = IF i <= n THEN s[i] ELSE p[i - n]
  <2>1. /\ t \in Seq(BusHalves) /\ Len(t) = n + Len(p)
        /\ \A i \in 1..(n + Len(p)) : t[i] = IF i <= n THEN s[i] ELSE p[i - n]
    BY <1>1, ConcatProperties
  <2> HIDE DEF t, n
  <2> QED BY <1>1, <2>1
<1>4. /\ (n + h) % 2 = 0
      /\ \A i \in 1..n : /\ (i + h) % 2 = 1 => s[i][2] = "first" /\ s[i + 1] = <<s[i][1], "last">>
                         /\ (i + h) % 2 = 0 => s[i][2] = "last"
  BY DEF InPairs
<1> HIDE DEF t, n
<1>5. t[n + 1] = <<a, "first">> /\ t[n + 2] = <<a, "last">> /\ \A i \in 1..n : t[i] = s[i]
  <2>1. n + 1 \in 1..(n + 2) /\ ~(n + 1 <= n) /\ (n + 1) - n = 1
    BY <1>2
  <2>2. n + 2 \in 1..(n + 2) /\ ~(n + 2 <= n) /\ (n + 2) - n = 2
    BY <1>2
  <2>3. \A i \in 1..n : i \in 1..(n + 2) /\ i <= n
    BY <1>2
  <2>9. \A i \in 1..(n + 2) : ~(i <= n) => t[i] = p[i - n]
    BY <1>3
  <2>4. t[n + 1] = p[(n + 1) - n]
    BY <2>1, <2>9, Zenon
  <2>5. t[n + 2] = p[(n + 2) - n]
    BY <2>2, <2>9, Zenon
  <2>6. \A i \in 1..n : t[i] = s[i]
    BY <1>3, <2>3
  <2>7. p[(n + 1) - n] = <<a, "first">>
    BY <1>1, <2>1
  <2>8. p[(n + 2) - n] = <<a, "last">>
    BY <1>1, <2>2
  <2> QED BY <2>4, <2>5, <2>6, <2>7, <2>8
<1>6. ASSUME NEW i \in 1..(n + 2)
      PROVE  /\ (i + h) % 2 = 1 => t[i][2] = "first" /\ t[i + 1] = <<t[i][1], "last">>
             /\ (i + h) % 2 = 0 => t[i][2] = "last"
  <2>1. CASE i \in 1..n
    <3>1. (i + h) % 2 = 1 => i + 1 \in 1..n
      <4>1. (n + h) % 2 = 0
        BY <1>4
      <4> QED BY <1>2, <2>1, <4>1, PairGoesOn
    <3> QED BY <1>4, <1>5, <2>1, <3>1
  <2>2. CASE i = n + 1
    <3>1. (i + h) % 2 = 1 /\ ~((i + h) % 2 = 0) /\ i + 1 = n + 2
      BY <1>2, <1>4, <2>2
    <3>2. t[i] = <<a, "first">> /\ t[i + 1] = <<a, "last">>
      BY <1>5, <2>2, <3>1
    <3> QED BY <3>1, <3>2
  <2>3. CASE i = n + 2
    <3>1. (i + h) % 2 = 0 /\ ~((i + h) % 2 = 1)
      BY <1>2, <1>4, <2>3
    <3>2. t[i] = <<a, "last">>
      BY <1>5, <2>3
    <3> QED BY <3>1, <3>2
  <2> QED BY <1>2, <2>1, <2>2, <2>3
<1>7. (Len(t) + h) % 2 = 0 /\ Len(t) # 0
  BY <1>2, <1>3, <1>4
<1>8. t # <<>>
  BY <1>7, EmptySeq
<1>9. s # <<>> => t[1] = s[1]
  <2>1. s # <<>> => n # 0
    BY EmptySeq DEF n
  <2>2. n # 0 => 1 \in 1..n
    BY <1>2
  <2> QED BY <1>5, <2>1, <2>2
<1>10. InPairs(t, h)
  BY <1>3, <1>6, <1>7 DEF InPairs
<1> QED BY <1>3, <1>8, <1>9, <1>10 DEF t, n, p

\* Without its first half, the other one is elsewhere.
LEMMA PairsPass ==
  ASSUME NEW s \in Seq(BusHalves), NEW h \in {0, 1}, InPairs(s, h), s # <<>>
  PROVE  /\ Head(s) \in BusHalves /\ Tail(s) \in Seq(BusHalves) /\ InPairs(Tail(s), 1 - h)
         /\ Head(s) = s[1]
         /\ h = 0 => Head(s)[2] = "first" /\ Tail(s) # <<>> /\ Tail(s)[1] = <<Head(s)[1], "last">>
         /\ h = 1 => Head(s)[2] = "last"
<1> DEFINE n == Len(s)  t == Tail(s)
<1>1. /\ Head(s) \in BusHalves /\ Head(s) = s[1] /\ t \in Seq(BusHalves) /\ n \in Nat \ {0}
      /\ Len(t) = n - 1 /\ \A i \in 1..(n - 1) : t[i] = s[i + 1]
  BY WithoutFirst
<1>2. /\ (n + h) % 2 = 0
      /\ \A i \in 1..n : /\ (i + h) % 2 = 1 => s[i][2] = "first" /\ s[i + 1] = <<s[i][1], "last">>
                         /\ (i + h) % 2 = 0 => s[i][2] = "last"
  BY DEF InPairs
<1> HIDE DEF n, t
<1>3. 1 \in 1..n /\ (h = 0 => (1 + h) % 2 = 1 /\ 1 \in 1..(n - 1)) /\ (h = 1 => (1 + h) % 2 = 0)
  BY <1>1, <1>2
<1>4. ASSUME NEW i \in 1..(n - 1)
      PROVE  /\ (i + (1 - h)) % 2 = 1 => t[i][2] = "first" /\ t[i + 1] = <<t[i][1], "last">>
             /\ (i + (1 - h)) % 2 = 0 => t[i][2] = "last"
  <2>1. i + 1 \in 1..n /\ t[i] = s[i + 1] /\ i \in Nat
    BY <1>1
  <2>2. /\ (i + (1 - h)) % 2 = 1 => (i + 1 + h) % 2 = 1 /\ i + 1 \in 1..(n - 1)
        /\ (i + (1 - h)) % 2 = 0 => (i + 1 + h) % 2 = 0
    BY <1>1, <1>2, <2>1
  <2> QED BY <1>1, <1>2, <2>1, <2>2
<1>5. (n - 1 + (1 - h)) % 2 = 0
  BY <1>1, <1>2
<1>6. InPairs(t, 1 - h)
  BY <1>1, <1>4, <1>5 DEF InPairs
<1>7. h = 0 => Head(s)[2] = "first" /\ t # <<>> /\ t[1] = <<Head(s)[1], "last">>
  <2>1. h = 0 => s[1][2] = "first" /\ s[1 + 1] = <<s[1][1], "last">> /\ t[1] = s[1 + 1]
    BY <1>1, <1>2, <1>3
  <2>2. h = 0 => Len(t) # 0
    BY <1>1, <1>3
  <2> QED BY <1>1, <2>1, <2>2, EmptySeq
<1>8. h = 1 => Head(s)[2] = "last"
  BY <1>1, <1>2, <1>3
<1> QED BY <1>1, <1>6, <1>7, <1>8 DEF t

\* What the bus sends is passed on in pairs: the half that waits is the first of the next one.
PairsInv ==
  /\ busSends \in Seq(BusHalves) /\ toApp \in Seq(BusHalves) /\ InPairs(toApp, 0)
  /\ \/ fromBus = <<>> /\ InPairs(busSends, 0)
     \/ /\ InPairs(busSends, 1) /\ busSends # <<>>
        /\ \E a \in {"hello", "signal", "ours"} :
             fromBus = <<<<a, "first">>>> /\ busSends[1] = <<a, "last">>

\* It holds at first.
LEMMA PairsBegin == Proxy!Init => PairsInv
<1> SUFFICES ASSUME Proxy!Init PROVE PairsInv
  OBVIOUS
<1>1. busSends = <<>> /\ fromBus = <<>> /\ toApp = <<>>
  BY DEF Proxy!Init
<1>2. <<>> \in Seq(BusHalves) /\ Len(<<>>) = 0
  BY EmptySeq
<1>3. InPairs(<<>>, 0)
  BY <1>2 DEF InPairs
<1> QED BY <1>1, <1>2, <1>3 DEF PairsInv

\* The bus sends a whole frame.
LEMMA PairsSent ==
  ASSUME PairsInv, NEW sort \in {"hello", "signal"}, Proxy!BusSends(sort)
  PROVE  PairsInv'
<1> DEFINE t == busSends \o BusFrame(sort)
<1>1. busSends' = t /\ fromBus' = fromBus /\ toApp' = toApp
  BY DEF Proxy!BusSends, BusFrame
<1>2. busSends \in Seq(BusHalves) /\ toApp \in Seq(BusHalves) /\ InPairs(toApp, 0)
  BY DEF PairsInv
<1>3. sort \in {"hello", "signal", "ours"} /\ 0 \in {0, 1} /\ 1 \in {0, 1}
  OBVIOUS
<1>4. CASE fromBus = <<>> /\ InPairs(busSends, 0)
  <2>1. t \in Seq(BusHalves) /\ InPairs(t, 0)
    BY <1>2, <1>3, <1>4, PairsGrow
  <2> HIDE DEF t
  <2> QED BY <1>1, <1>2, <1>4, <2>1 DEF PairsInv, InPairs
<1>5. CASE /\ InPairs(busSends, 1) /\ busSends # <<>>
           /\ \E a \in {"hello", "signal", "ours"} :
                fromBus = <<<<a, "first">>>> /\ busSends[1] = <<a, "last">>
  <2>2. t \in Seq(BusHalves) /\ InPairs(t, 1) /\ t # <<>> /\ t[1] = busSends[1]
    BY <1>2, <1>3, <1>5, PairsGrow
  <2> HIDE DEF t
  <2>3. PICK a \in {"hello", "signal", "ours"} :
          fromBus = <<<<a, "first">>>> /\ busSends[1] = <<a, "last">>
    BY <1>5
  <2>4. fromBus' = <<<<a, "first">>>> /\ busSends'[1] = <<a, "last">> /\ busSends' # <<>>
    BY <1>1, <2>2, <2>3
  <2>5. InPairs(busSends', 1) /\ busSends' \in Seq(BusHalves) /\ InPairs(toApp', 0) /\ toApp' \in Seq(BusHalves)
    BY <1>1, <1>2, <2>2
  <2>6. InPairs(busSends, 1)' /\ InPairs(toApp, 0)'
    BY <2>5 DEF InPairs
  <2> QED BY <2>4, <2>5, <2>6 DEF PairsInv
<1> QED BY <1>4, <1>5 DEF PairsInv

\* A half comes: the first is held, and the last goes on with it.
LEMMA PairsPassed == PairsInv /\ Proxy!FromBus => PairsInv'
<1> SUFFICES ASSUME PairsInv, Proxy!FromBus PROVE PairsInv'
  OBVIOUS
<1> DEFINE half == Head(busSends)
<1>1. /\ busSends # <<>> /\ busSends' = Tail(busSends)
      /\ toApp' = toApp \o (IF half[2] = "first" THEN <<>> ELSE fromBus \o <<half>>)
      /\ fromBus' = IF half[2] = "first" THEN <<half>> ELSE <<>>
  BY DEF Proxy!FromBus, Proxy!Passed
<1>2. busSends \in Seq(BusHalves) /\ toApp \in Seq(BusHalves) /\ InPairs(toApp, 0)
  BY DEF PairsInv
<1>3. 0 \in {0, 1} /\ 1 \in {0, 1} /\ 1 - 0 = 1 /\ 1 - 1 = 0
  OBVIOUS
<1>4. CASE fromBus = <<>> /\ InPairs(busSends, 0)
  <2>1. /\ half \in BusHalves /\ Tail(busSends) \in Seq(BusHalves) /\ InPairs(Tail(busSends), 1)
        /\ half[2] = "first" /\ Tail(busSends) # <<>> /\ Tail(busSends)[1] = <<half[1], "last">>
    BY <1>1, <1>2, <1>3, <1>4, PairsPass
  <2>2. PICK a \in {"hello", "signal", "ours"} : half = <<a, "first">>
    BY <2>1 DEF BusHalves
  <2>3. busSends'[1] = <<a, "last">> /\ fromBus' = <<<<a, "first">>>> /\ busSends' # <<>>
    <3>1. half[1] = a
      BY <2>2
    <3>2. busSends' = Tail(busSends) /\ fromBus' = <<half>>
      BY <1>1, <2>1
    <3> HIDE DEF half
    <3> QED BY <2>1, <2>2, <3>1, <3>2, Zenon
  <2>4. toApp' = toApp
    <3>1. toApp' = toApp \o <<>>
      BY <1>1, <2>1
    <3> QED BY <1>2, <3>1, ConcatEmptySeq
  <2>5. InPairs(busSends, 1)' /\ InPairs(toApp, 0)' /\ busSends' \in Seq(BusHalves) /\ toApp' \in Seq(BusHalves)
    BY <1>1, <1>2, <2>1, <2>4 DEF InPairs
  <2> QED BY <2>3, <2>5 DEF PairsInv
<1>5. CASE /\ InPairs(busSends, 1)
           /\ \E a \in {"hello", "signal", "ours"} :
                fromBus = <<<<a, "first">>>> /\ busSends[1] = <<a, "last">>
  <2>1. /\ half \in BusHalves /\ Tail(busSends) \in Seq(BusHalves) /\ InPairs(Tail(busSends), 0)
        /\ half[2] = "last" /\ half = busSends[1]
    BY <1>1, <1>2, <1>3, <1>5, PairsPass
  <2>2. PICK a \in {"hello", "signal", "ours"} :
          fromBus = <<<<a, "first">>>> /\ busSends[1] = <<a, "last">>
    BY <1>5
  <2>3. fromBus' = <<>> /\ toApp' = toApp \o (fromBus \o <<half>>)
    BY <1>1, <2>1
  <2>4. fromBus \o <<half>> = BusFrame(a)
    BY <2>1, <2>2, TwoHalves, Zenon
  <2> DEFINE t == toApp \o BusFrame(a)
  <2>5. t \in Seq(BusHalves) /\ InPairs(t, 0)
    BY <1>2, <1>3, PairsGrow
  <2>6. toApp' = t
    BY <2>3, <2>4
  <2> HIDE DEF t
  <2>7. InPairs(busSends, 0)' /\ InPairs(toApp, 0)' /\ busSends' \in Seq(BusHalves) /\ toApp' \in Seq(BusHalves)
    BY <1>1, <2>1, <2>5, <2>6 DEF InPairs
  <2> QED BY <2>3, <2>7 DEF PairsInv
<1> QED BY <1>4, <1>5 DEF PairsInv

\* An answer of ours goes in whole.
LEMMA PairsInjected == PairsInv /\ Proxy!Injects => PairsInv'
<1> SUFFICES ASSUME PairsInv, Proxy!Injects PROVE PairsInv'
  OBVIOUS
<1> DEFINE t == toApp \o BusFrame("ours")
<1>1. toApp' = t /\ UNCHANGED <<busSends, fromBus>>
  BY DEF Proxy!Injects, BusFrame
<1>2. toApp \in Seq(BusHalves) /\ InPairs(toApp, 0) /\ 0 \in {0, 1} /\ "ours" \in {"hello", "signal", "ours"}
  BY DEF PairsInv
<1>3. t \in Seq(BusHalves) /\ InPairs(t, 0)
  BY <1>2, PairsGrow
<1> HIDE DEF t
<1>4. toApp' \in Seq(BusHalves) /\ InPairs(toApp, 0)'
  BY <1>1, <1>3 DEF InPairs
<1>5. UNCHANGED <<busSends, fromBus>>
  BY <1>1
<1> QED BY <1>4, <1>5 DEF PairsInv, InPairs

\* Every step keeps it.
LEMMA PairsGoOn == PairsInv /\ [Proxy!Next]_proxyVars => PairsInv'
<1> SUFFICES ASSUME PairsInv, [Proxy!Next]_proxyVars PROVE PairsInv'
  OBVIOUS
<1>1. ASSUME UNCHANGED <<busSends, fromBus, toApp>> PROVE PairsInv'
  BY <1>1 DEF PairsInv, InPairs
<1>2. CASE Proxy!AppWrites
  BY <1>1, <1>2 DEF Proxy!AppWrites
<1>3. CASE Proxy!LetIn
  BY <1>1, <1>3 DEF Proxy!LetIn
<1>4. CASE Proxy!OwnerChanges
  BY <1>1, <1>4 DEF Proxy!OwnerChanges, Proxy!busVars
<1>5. ASSUME NEW n, Proxy!ControlReads(n) PROVE PairsInv'
  BY <1>1, <1>5 DEF Proxy!ControlReads, Proxy!busVars
<1>6. CASE UNCHANGED proxyVars
  BY <1>1, <1>6 DEF proxyVars
<1> QED BY <1>2, <1>3, <1>4, <1>5, <1>6, PairsSent, PairsPassed, PairsInjected DEF Proxy!Next

\* Both streams are whole.
LEMMA StreamsHold == AppInv /\ PairsInv => Proxy!StreamsStayWhole
<1> SUFFICES ASSUME AppInv, PairsInv PROVE Proxy!StreamsStayWhole
  OBVIOUS
<1>1. authed => onward = [k \in 1..wrote \div 2 |-> <<k, IF k \in proxyAsks THEN "portal" ELSE "bus">>]
  BY DEF AppInv, FirstOnward, Proxy!Onward, Proxy!Intercepts
<1>2. toApp \in Seq(BusHalves) /\ InPairs(toApp, 0)
  BY DEF PairsInv
<1>3. DOMAIN toApp = 1..Len(toApp) /\ Len(toApp) \in Nat
  BY <1>2, LenProperties
<1>4. ASSUME NEW k \in 1..Len(toApp), toApp[k][2] = "first"
      PROVE  k < Len(toApp) /\ toApp[k + 1] = <<toApp[k][1], "last">>
  <2> DEFINE n == Len(toApp)
  <2>1. (n + 0) % 2 = 0 /\ n \in Nat
    BY <1>2, <1>3 DEF InPairs
  <2>2. /\ (k + 0) % 2 = 1 => toApp[k + 1] = <<toApp[k][1], "last">>
        /\ (k + 0) % 2 = 0 => toApp[k][2] = "last"
    BY <1>2 DEF InPairs
  <2>3. ~((k + 0) % 2 = 0)
    BY <1>4, <2>2
  <2> HIDE DEF n
  <2>4. (k + 0) % 2 = 1 /\ k < n
    <3>1. k \in 1..n
      BY DEF n
    <3> QED BY <2>1, <2>3, <3>1
  <2> QED BY <2>2, <2>4 DEF n
<1> QED BY <1>1, <1>3, <1>4 DEF Proxy!StreamsStayWhole

\* The news of the owner that are not read end with the owner there is.
OwnerInv ==
  /\ nameOwner \in Nat /\ ownerNews \in Seq([kind : {"lookup", "changed"}, owner : Nat])
  /\ IF ownerNews = <<>> THEN ownerName = nameOwner ELSE ownerNews[Len(ownerNews)].owner = nameOwner

\* It holds at first.
LEMMA OwnerBegins == Proxy!Init => OwnerInv
<1> SUFFICES ASSUME Proxy!Init PROVE OwnerInv
  OBVIOUS
<1> DEFINE r == [kind |-> "lookup", owner |-> 1]
<1>1. nameOwner = 1 /\ ownerNews = <<r>>
  BY DEF Proxy!Init
<1>2. r \in [kind : {"lookup", "changed"}, owner : Nat] /\ r.owner = 1
  OBVIOUS
<1> HIDE DEF r
<1>3. <<r>> \in Seq([kind : {"lookup", "changed"}, owner : Nat]) /\ Len(<<r>>) = 1 /\ <<r>> # <<>> /\ <<r>>[1] = r
  BY <1>2
<1>4. ownerNews # <<>> /\ ownerNews[Len(ownerNews)].owner = nameOwner
  BY <1>1, <1>2, <1>3
<1> QED BY <1>1, <1>3, <1>4 DEF OwnerInv

\* The name changes hands.
LEMMA OwnerChanged == OwnerInv /\ Proxy!OwnerChanges => OwnerInv'
<1> SUFFICES ASSUME OwnerInv, Proxy!OwnerChanges PROVE OwnerInv'
  OBVIOUS
<1> DEFINE r == [kind |-> "changed", owner |-> nameOwner + 1]  t == Append(ownerNews, r)
<1>1. nameOwner' = nameOwner + 1 /\ ownerNews' = t
  BY DEF Proxy!OwnerChanges
<1>2. nameOwner \in Nat /\ ownerNews \in Seq([kind : {"lookup", "changed"}, owner : Nat])
  BY DEF OwnerInv
<1>3. r \in [kind : {"lookup", "changed"}, owner : Nat] /\ r.owner = nameOwner + 1
  BY <1>2
<1> HIDE DEF r
<1>4. t \in Seq([kind : {"lookup", "changed"}, owner : Nat]) /\ Len(t) = Len(ownerNews) + 1 /\ t[Len(ownerNews) + 1] = r
  BY <1>2, <1>3, AppendProperties
<1>5. t # <<>>
  BY <1>2, <1>3, AppendProperties
<1> HIDE DEF t
<1>6. ownerNews' # <<>> /\ ownerNews'[Len(ownerNews')].owner = nameOwner'
  BY <1>1, <1>3, <1>4, <1>5
<1> QED BY <1>1, <1>2, <1>4, <1>6 DEF OwnerInv

\* The news are read, up to the n-th: the last of those is what is known.
LEMMA OwnerLearned ==
  ASSUME ~Coalesced, OwnerInv, NEW n \in 1..Len(ownerNews), Proxy!ControlReads(n)
  PROVE  OwnerInv'
<1> DEFINE R == [kind : {"lookup", "changed"}, owner : Nat]  q == ownerNews  l == Len(ownerNews)
           c == SubSeq(q, 1, n)  t == SubSeq(q, n + 1, l)
<1>1. /\ n > 1 => Head(q).kind # "lookup"
      /\ ownerName' = (IF Head(c).kind = "lookup" THEN Head(c).owner ELSE c[Len(c)].owner)
      /\ ownerNews' = t /\ nameOwner' = nameOwner
  BY DEF Proxy!ControlReads, Proxy!Learned, Proxy!AfterChunk
<1>2. nameOwner \in Nat /\ q \in Seq(R)
  BY DEF OwnerInv
<1>3. l \in Nat /\ l # 0 /\ \A i \in 1..l : q[i] \in R
  <2>1. l \in Nat
    BY <1>2, LenProperties
  <2>2. l # 0
    <3>1. n \in 1..l
      OBVIOUS
    <3> HIDE DEF l
    <3> QED BY <2>1, <3>1
  <2>3. \A i \in 1..l : q[i] \in R
    <3> HIDE DEF R, q
    <3> QED BY <1>2, ElementOfSeq DEF q
  <2> QED BY <2>1, <2>2, <2>3
<1>4. q # <<>>
  BY <1>3, EmptySeq
<1>5. q[l].owner = nameOwner
  BY <1>4 DEF OwnerInv
<1> HIDE DEF R, q
<1>6. /\ c \in Seq(R) /\ Len(c) = n /\ \A i \in 1..n : c[i] = q[i]
  <2>1. \A i \in 1..n : q[i] \in R
    BY <1>3
  <2> HIDE DEF l
  <2>2. /\ c \in Seq(R) /\ Len(c) = IF 1 <= n THEN n - 1 + 1 ELSE 0
        /\ \A i \in 1..(n - 1 + 1) : c[i] = q[1 + i - 1]
    BY <1>2, <2>1, SubSeqProperties
  <2> HIDE DEF c
  <2>3. \A i \in 1..n : i \in 1..(n - 1 + 1) /\ 1 + i - 1 = i
    OBVIOUS
  <2>4. \A i \in 1..n : c[i] = q[i]
    BY <2>2, <2>3
  <2> QED BY <2>2, <2>4
<1>7. /\ t \in Seq(R) /\ Len(t) = l - n /\ \A i \in 1..(l - n) : t[i] = q[n + i]
  <2>1. \A i \in (n + 1)..l : q[i] \in R
    BY <1>3
  <2>2. /\ t \in Seq(R) /\ Len(t) = IF n + 1 <= l THEN l - (n + 1) + 1 ELSE 0
        /\ \A i \in 1..(l - (n + 1) + 1) : t[i] = q[(n + 1) + i - 1]
    BY <1>2, <1>3, <2>1, SubSeqProperties
  <2> HIDE DEF t, l
  <2>3. l - (n + 1) + 1 = l - n /\ \A i \in 1..(l - n) : (n + 1) + i - 1 = n + i
    BY <1>3
  <2>4. Len(t) = l - n
    <3>1. Len(t) = IF n + 1 <= l THEN l - (n + 1) + 1 ELSE 0
      BY <2>2
    <3>2. n \in 1..l
      BY DEF l
    <3> QED BY <1>3, <3>1, <3>2
  <2>5. \A i \in 1..(l - n) : t[i] = q[n + i]
    BY <2>2, <2>3
  <2> QED BY <2>2, <2>4, <2>5
<1>8. Head(c) = q[1] /\ Head(q) = q[1] /\ c[Len(c)] = q[n]
  <2>0. 1 \in 1..n /\ n \in 1..n /\ n # 0
    <3>1. n \in 1..l
      OBVIOUS
    <3> HIDE DEF l
    <3> QED BY <1>3, <3>1
  <2>1. c # <<>> /\ 1 \in 1..n /\ n \in 1..n
    <3>1. Len(c) = n
      BY <1>6
    <3> HIDE DEF c
    <3> QED BY <2>0, <3>1, EmptySeq
  <2>2. Head(c) = c[1] /\ Head(q) = q[1]
    BY <1>2, <1>4, <1>6, <2>1, WithoutFirst
  <2> HIDE DEF c
  <2> QED BY <1>6, <2>1, <2>2
<1> HIDE DEF c, t
<1>9. ownerName' = q[n].owner
  <2>1. CASE q[1].kind = "lookup"
    <3>1. n = 1
      BY <1>1, <1>8, <2>1
    <3> QED BY <1>1, <1>8, <2>1, <3>1
  <2>2. CASE q[1].kind # "lookup"
    BY <1>1, <1>8, <2>2
  <2> QED BY <2>1, <2>2
<1>10. CASE n = l
  <2>1. Len(t) = 0
    BY <1>3, <1>7, <1>10
  <2>2. ownerNews' = <<>>
    BY <1>1, <1>7, <2>1, EmptySeq
  <2>3. ownerName' = nameOwner'
    BY <1>1, <1>5, <1>9, <1>10
  <2> QED BY <1>1, <1>2, <1>7, <2>2, <2>3 DEF OwnerInv, R
<1>11. CASE n # l
  <2>1. l - n \in 1..(l - n) /\ n + (l - n) = l /\ l - n # 0
    BY <1>3, <1>11
  <2>2. t[Len(t)] = q[l]
    BY <1>7, <2>1
  <2>3. ownerNews' # <<>>
    BY <1>1, <1>7, <2>1, EmptySeq
  <2>4. ownerNews'[Len(ownerNews')].owner = nameOwner'
    BY <1>1, <1>5, <2>2
  <2> QED BY <1>1, <1>2, <1>7, <2>3, <2>4 DEF OwnerInv, R
<1> QED BY <1>10, <1>11

\* Every step keeps it.
LEMMA OwnerGoesOn == ~Coalesced /\ OwnerInv /\ [Proxy!Next]_proxyVars => OwnerInv'
<1> SUFFICES ASSUME ~Coalesced, OwnerInv, [Proxy!Next]_proxyVars PROVE OwnerInv'
  OBVIOUS
<1>1. ASSUME UNCHANGED <<nameOwner, ownerNews, ownerName>> PROVE OwnerInv'
  BY <1>1 DEF OwnerInv
<1>2. CASE Proxy!AppWrites
  BY <1>1, <1>2 DEF Proxy!AppWrites, Proxy!ownerVars
<1>3. CASE Proxy!LetIn
  BY <1>1, <1>3 DEF Proxy!LetIn, Proxy!ownerVars
<1>4. CASE Proxy!FromBus
  BY <1>1, <1>4 DEF Proxy!FromBus, Proxy!ownerVars
<1>5. CASE Proxy!Injects
  BY <1>1, <1>5 DEF Proxy!Injects, Proxy!ownerVars
<1>6. ASSUME NEW sort, Proxy!BusSends(sort) PROVE OwnerInv'
  BY <1>1, <1>6 DEF Proxy!BusSends, Proxy!ownerVars
<1>7. ASSUME NEW n, Proxy!ControlReads(n) PROVE OwnerInv'
  BY <1>7, OwnerLearned DEF Proxy!ControlReads
<1>8. CASE UNCHANGED proxyVars
  BY <1>1, <1>8 DEF proxyVars
<1> QED BY <1>2, <1>3, <1>4, <1>5, <1>6, <1>7, <1>8, OwnerChanged DEF Proxy!Next

\* With nothing left to read, the owner is known.
LEMMA OwnerHolds == OwnerInv => Proxy!OwnerIsCurrent
  BY DEF OwnerInv, Proxy!OwnerIsCurrent

-----------------------------------------------------------------------------
(* What is shown and signalled, panel by panel.                             *)

\* The services panel shows and follows what is of the manager and the unit that are chosen, in
\* whichever order the answers come, where the panel is not left while a control runs, a notice
\* leads to the logs only over the list it came from (~InHaste), and no other unit is chosen while
\* the log of one is watched (~WhileLogs) (units.ts).
THEOREM ServicesStayTrue == ~InHaste /\ ~WhileLogs => (Spec => []Services!PanelIsTrue)
<1> SUFFICES ASSUME ~InHaste, ~WhileLogs PROVE Spec => []Services!PanelIsTrue
  OBVIOUS
<1>1. Services!Init => ServicesInv
  BY ServicesBegin
<1>2. ServicesInv /\ [Services!Next]_servicesVars => ServicesInv'
  BY ConstantsAssumption, ServicesGoOn
<1>3. ServicesInv => Services!PanelIsTrue
  BY DEF ServicesInv
<1> QED BY <1>1, <1>2, <1>3, ServicesRuns, PTL

\* The row that is marked is the one selected, the details are of it, the rates of adjacent lists,
\* and a signal goes to the pid the person was asked about, whatever comes, goes and answers in
\* between, where the panel is not left while a list or a signal is on its way and a pid that was
\* handed over is not filtered away (~InHaste). A pid may be used again, and a signal then goes to
\* whoever has it by then, as in the code (processes.ts).
THEOREM ProcessesStayTrue == ~InHaste => (Spec => []Processes!KillsWhatWasNamed)
<1> SUFFICES ASSUME ~InHaste PROVE Spec => []Processes!KillsWhatWasNamed
  OBVIOUS
<1>1. Processes!Init => ProcessesInv
  BY ConstantsAssumption, ProcessesBegin
<1>2. ProcessesInv /\ [Processes!Next]_processesVars => ProcessesInv'
  BY ConstantsAssumption, ProcessesGoOn
<1> QED BY <1>1, <1>2, ProcessesHold, ProcessesRuns, PTL

\* The journal viewer shows what its boxes ask for once they have taken effect, and leaves no
\* journalctl running for anything else, where who types into a box pauses until that takes effect
\* before doing anything else (Pauses = TRUE, journal.ts 272-283).
THEOREM JournalsStayTrue == Pauses = TRUE => (Spec => []Journal!ShowsWhatIsAsked)
<1> SUFFICES ASSUME Pauses = TRUE PROVE Spec => []Journal!ShowsWhatIsAsked
  OBVIOUS
<1>1. Journal!Init => JournalInv
  BY ConstantsAssumption, JournalBegins
<1>2. JournalInv /\ [Journal!Next]_journalVars => JournalInv'
  BY ConstantsAssumption, JournalGoesOn
<1>3. JournalInv => Journal!ShowsWhatIsAsked
  BY ConstantsAssumption, JournalHolds
<1> QED BY <1>1, <1>2, <1>3, JournalRuns, PTL

\* A journal that is followed sends each entry once and in order and misses none, across the end
\* of one journalctl and the start of the next, where what a child wrote is read before its end is
\* told (~EarlyExit; the service listens for `exit`, journal.ts 350-365, and not for `close`).
THEOREM StreamsStayTrue == ~EarlyExit => (Spec => []Stream!NoneTwiceNoneMissing)
<1> SUFFICES ASSUME ~EarlyExit PROVE Spec => []Stream!NoneTwiceNoneMissing
  OBVIOUS
<1>1. Stream!Init => StreamInv
  BY ConstantsAssumption, StreamBegins
<1>2. StreamInv /\ [Stream!Next]_streamVars => StreamInv'
  BY ConstantsAssumption, StreamGoesOn
<1> QED BY <1>1, <1>2, StreamHolds, StreamRuns, PTL

\* The four panels at once, under the four conditions.
THEOREM PanelsStayTrue ==
  ~InHaste /\ ~WhileLogs /\ Pauses = TRUE /\ ~EarlyExit => (Spec => []PanelsAreTrue)
<1> SUFFICES ASSUME ~InHaste, ~WhileLogs, Pauses = TRUE, ~EarlyExit
             PROVE  Spec => []PanelsAreTrue
  OBVIOUS
<1>1. PanelsAreTrue <=> /\ Journal!ShowsWhatIsAsked /\ Services!PanelIsTrue
                        /\ Processes!KillsWhatWasNamed /\ Stream!NoneTwiceNoneMissing
  BY DEF PanelsAreTrue
<1> QED BY <1>1, ServicesStayTrue, ProcessesStayTrue, JournalsStayTrue, StreamsStayTrue, PTL

-----------------------------------------------------------------------------
(* What is passed on and answered over the bus.                             *)

\* A call is given its own answer or none, whenever the bus hangs up and whoever calls.
LEMMA OwnAnswers == Spec => []Bus!AnswersAreTheirOwn
<1> DEFINE Inv == answeredWith \in [1..Serials -> Nat] /\ Bus!AnswersAreTheirOwn
<1>1. Bus!Init => Inv
  BY DEF Bus!Init, Bus!AnswersAreTheirOwn
<1>2. Inv /\ [Bus!Next]_busVars => Inv'
  <2> SUFFICES ASSUME Inv, [Bus!Next]_busVars PROVE Inv'
    OBVIOUS
  <2>1. CASE Bus!Dispatch
    <3>1. PICK reply : answeredWith' = [s \in 1..Serials |-> IF s \in Bus!Answers(reply) THEN reply.to
                                                            ELSE answeredWith[s]]
      BY <2>1 DEF Bus!Dispatch
    <3>2. \A s \in Bus!Answers(reply) : s = reply.to
      BY DEF Bus!Answers
    <3> QED BY <3>1, <3>2 DEF Bus!AnswersAreTheirOwn
  <2>2. CASE UNCHANGED answeredWith
    BY <2>2 DEF Bus!AnswersAreTheirOwn
  <2>3. Bus!Dispatch \/ UNCHANGED answeredWith
    BY DEF Bus!Next, Bus!Connects, Bus!Accepted, Bus!FailsEarly, Bus!CallsMore, Bus!BusReplies,
       Bus!Breaks, Bus!Closed, busVars
  <2> QED BY <2>1, <2>2, <2>3
<1>3. Inv => Bus!AnswersAreTheirOwn
  OBVIOUS
<1> QED BY <1>1, <1>2, <1>3, BusRuns, PTL

\* The proxy loses, overtakes and splits nothing of an application or of the bus, however the
\* chunks are cut, whenever the bus lets an application in and whenever we answer ourselves
\* (busproxy.ts 263-295); and a call of our own is given its own answer or none (dbus.ts 540-560).
THEOREM MessagesStayWhole == Spec => [](Proxy!StreamsStayWhole /\ Bus!AnswersAreTheirOwn)
<1>1. Proxy!Init => AppInv /\ PairsInv
  BY AppBegins, PairsBegin
<1>2. AppInv /\ PairsInv /\ [Proxy!Next]_proxyVars => AppInv' /\ PairsInv'
  BY AppGoesOn, PairsGoOn
<1> QED BY <1>1, <1>2, StreamsHold, OwnAnswers, ProxyRuns, PTL

\* The owner the portal's answers are signed with is the one the bus has, once all the bus told
\* was read, where no signal comes in one chunk with the answer of the lookup (~Coalesced,
\* busproxy.ts 110-117).
THEOREM OwnersAreKnown == ~Coalesced => (Spec => []Proxy!OwnerIsCurrent)
<1> SUFFICES ASSUME ~Coalesced PROVE Spec => []Proxy!OwnerIsCurrent
  OBVIOUS
<1>1. Proxy!Init => AppInv /\ PairsInv /\ OwnerInv
  BY AppBegins, PairsBegin, OwnerBegins
<1>2. AppInv /\ PairsInv /\ OwnerInv /\ [Proxy!Next]_proxyVars => AppInv' /\ PairsInv' /\ OwnerInv'
  BY AppGoesOn, PairsGoOn, OwnerGoesOn
<1> QED BY <1>1, <1>2, OwnerHolds, ProxyRuns, PTL

\* Nobody waits for a bus that is gone, where it does not hang up before it has let us in and
\* nobody calls over a connection that is gone (~Late, dbus.ts 512-516).
THEOREM CallsSettle == ~Late => (Spec => []Bus!CallsAreSettled)
<1> SUFFICES ASSUME ~Late PROVE Spec => []Bus!CallsAreSettled
  OBVIOUS
<1>1. Bus!Init => BusInv
  BY BusBegins
<1>2. BusInv /\ [Bus!Next]_busVars => BusInv'
  BY ConstantsAssumption, BusGoesOn
<1> QED BY <1>1, <1>2, BusHolds, BusRuns, PTL

\* The three at once, under the two conditions.
THEOREM BusStaysFaithful == ~Coalesced /\ ~Late => (Spec => []BusIsFaithful)
<1> SUFFICES ASSUME ~Coalesced, ~Late PROVE Spec => []BusIsFaithful
  OBVIOUS
<1>1. Proxy!StreamsStayWhole /\ Proxy!OwnerIsCurrent /\ Bus!CallsAreSettled => BusIsFaithful
  BY DEF BusIsFaithful
<1> QED BY <1>1, MessagesStayWhole, OwnersAreKnown, CallsSettle, PTL
=============================================================================
