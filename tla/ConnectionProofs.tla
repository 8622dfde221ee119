-------------------------- MODULE ConnectionProofs --------------------------
(***************************************************************************)
(* What holds of a page and its server for any number of sockets, ids and  *)
(* faults. The channel table of a session is proved correct from the       *)
(* session's own actions: ChannelInv says where the opener of an id can be *)
(* when its entry is live, reserved or gone, which is what an opener that  *)
(* comes back late relies on. The page's states and timers are proved next *)
(* (ClientInv), and last what the queues between the two can hold, so that *)
(* both ends agree once they are empty (LinkInv).                          *)
(***************************************************************************)
EXTENDS Connection, TLAPS

-----------------------------------------------------------------------------
(* Tables and queues keep their types. `Table` stays folded elsewhere.     *)

\* Changing one entry of a table.
LEMMA EntryType ==
  ASSUME NEW T, NEW f \in Table(T), NEW s \in Sessions, NEW i \in Ids, NEW v \in T
  PROVE  [f EXCEPT ![s][i] = v] \in Table(T)
BY DEF Table

\* Replacing one session's row of a table.
LEMMA RowType ==
  ASSUME NEW T, NEW f \in Table(T), NEW s \in Sessions, NEW g \in [Ids -> T]
  PROVE  [f EXCEPT ![s] = g] \in Table(T)
BY DEF Table

\* A frame put on a queue, and one taken off it.
LEMMA QueueType ==
  ASSUME NEW M, NEW q \in [Sessions -> Seq(M)], NEW s \in Sessions
  PROVE  /\ \A m \in M : [q EXCEPT ![s] = Append(@, m)] \in [Sessions -> Seq(M)]
         /\ q[s] # <<>> => /\ Head(q[s]) \in M
                           /\ [q EXCEPT ![s] = Tail(@)] \in [Sessions -> Seq(M)]
OBVIOUS

\* send() of a well-formed message leaves the queues well typed.
LEMMA SendType ==
  ASSUME MuxTypeOK, NEW s \in Sessions, NEW m \in ServerMessage, Send(s, m)
  PROVE  toClient' \in [Sessions -> Seq(ServerMessage)]
BY QueueType DEF Send, MuxTypeOK

\* Running the onClose of some channels keeps the counts and the words they
\* were told typed.
LEMMA RunOnCloseType ==
  ASSUME MuxTypeOK, NEW s \in Sessions, NEW I, NEW lost \in BOOLEAN, RunOnClose(s, I, lost)
  PROVE  onCloseRuns' \in Table(Nat) /\ onCloseLost' \in Table(BOOLEAN)
<1> DEFINE live == {i \in I : channels[s][i] = "live"}
           runs == [i \in Ids |-> IF i \in live THEN onCloseRuns[s][i] + 1 ELSE onCloseRuns[s][i]]
           told == [i \in Ids |-> IF i \in live THEN lost ELSE onCloseLost[s][i]]
<1>1. runs \in [Ids -> Nat] /\ told \in [Ids -> BOOLEAN]
  BY DEF MuxTypeOK, Table
<1>2. onCloseRuns' = [onCloseRuns EXCEPT ![s] = runs] /\ onCloseLost' = [onCloseLost EXCEPT ![s] = told]
  BY DEF RunOnClose, MuxTypeOK, Table
<1> HIDE DEF runs, told
<1> QED BY <1>1, <1>2, RowType DEF MuxTypeOK
-----------------------------------------------------------------------------
(* The type of a session's state, action by action.                        *)

\* An `open` message, with or without such a channel.
LEMMA HandleOpenType ==
  ASSUME MuxTypeOK, NEW s \in Sessions, NEW i \in Ids, HandleOpen(s, i)
  PROVE  MuxTypeOK'
<1>1. channels \in Table(EntryState) /\ opener \in Table(OpenerState)
  BY DEF MuxTypeOK
<1>2. /\ channels' = channels \/ channels' = [channels EXCEPT ![s][i] = "placeholder"]
      /\ \/ opener' = [opener EXCEPT ![s][i] = "awaiting"]
         \/ opener' = [opener EXCEPT ![s][i] = "threw"]
  BY DEF HandleOpen
<1>3. channels' \in Table(EntryState)
  BY <1>1, <1>2, EntryType DEF EntryState
<1>4. opener' \in Table(OpenerState)
  BY <1>1, <1>2, EntryType DEF OpenerState
<1>5. toClient' \in [Sessions -> Seq(ServerMessage)]
  <2>1. [t |-> "close", id |-> i] \in ServerMessage
    BY DEF ServerMessage
  <2>2. UNCHANGED toClient \/ Send(s, [t |-> "close", id |-> i])
    BY DEF HandleOpen
  <2> QED BY <2>1, <2>2, SendType DEF MuxTypeOK
<1> QED BY <1>3, <1>4, <1>5 DEF HandleOpen, Seen, MuxTypeOK

\* The microtask after an opener returned.
LEMMA OpenerReturnsType ==
  ASSUME MuxTypeOK, NEW s \in Sessions, NEW i \in Ids, OpenerReturns(s, i)
  PROVE  MuxTypeOK'
<1>1. /\ channels \in Table(EntryState) /\ opener \in Table(OpenerState)
      /\ onCloseRuns \in Table(Nat) /\ onCloseLost \in Table(BOOLEAN)
  BY DEF MuxTypeOK
<1>2. /\ opener' = [opener EXCEPT ![s][i] = "returned"]
      /\ channels' = channels \/ channels' = [channels EXCEPT ![s][i] = "live"]
      /\ UNCHANGED onCloseRuns \/ onCloseRuns' = [onCloseRuns EXCEPT ![s][i] = @ + 1]
      /\ UNCHANGED onCloseLost \/ onCloseLost' = [onCloseLost EXCEPT ![s][i] = LateLost(s)]
  BY DEF OpenerReturns
<1>3. channels' \in Table(EntryState) /\ opener' \in Table(OpenerState)
  <2>1. channels' \in Table(EntryState)
    BY <1>1, <1>2, EntryType DEF EntryState
  <2>2. opener' \in Table(OpenerState)
    BY <1>1, <1>2, EntryType DEF OpenerState
  <2> QED BY <2>1, <2>2
<1>4. onCloseRuns' \in Table(Nat)
  <2>1. onCloseRuns[s][i] + 1 \in Nat
    BY <1>1 DEF Table
  <2>2. [onCloseRuns EXCEPT ![s][i] = onCloseRuns[s][i] + 1] \in Table(Nat)
    BY <1>1, <2>1, EntryType
  <2> QED BY <1>1, <1>2, <2>2
<1>5. onCloseLost' \in Table(BOOLEAN)
  <2>1. LateLost(s) \in BOOLEAN
    BY DEF LateLost, MuxTypeOK
  <2> QED BY <1>1, <1>2, <2>1, EntryType
<1>6. toClient' \in [Sessions -> Seq(ServerMessage)]
  <2>1. [t |-> "opened", id |-> i] \in ServerMessage
    BY DEF ServerMessage
  <2>2. UNCHANGED toClient \/ Send(s, [t |-> "opened", id |-> i])
    BY DEF OpenerReturns
  <2> QED BY <2>1, <2>2, SendType DEF MuxTypeOK
<1> QED BY <1>3, <1>4, <1>5, <1>6 DEF OpenerReturns, MuxTypeOK, beatVars

\* The catch after an opener rejected.
LEMMA OpenerThrowsType ==
  ASSUME MuxTypeOK, NEW s \in Sessions, NEW i \in Ids, OpenerThrows(s, i)
  PROVE  MuxTypeOK'
<1>1. channels \in Table(EntryState) /\ opener \in Table(OpenerState)
  BY DEF MuxTypeOK
<1>2. /\ opener' = [opener EXCEPT ![s][i] = "threw"]
      /\ channels' = [channels EXCEPT ![s][i] = "none"]
      /\ Send(s, [t |-> "close", id |-> i])
  BY DEF OpenerThrows
<1>3. channels' \in Table(EntryState) /\ opener' \in Table(OpenerState)
  BY <1>1, <1>2, EntryType DEF EntryState, OpenerState
<1>4. toClient' \in [Sessions -> Seq(ServerMessage)]
  <2>1. [t |-> "close", id |-> i] \in ServerMessage
    BY DEF ServerMessage
  <2> QED BY <1>2, <2>1, SendType
<1> QED BY <1>3, <1>4 DEF OpenerThrows, MuxTypeOK, beatVars

\* closeChannel(), whoever asks for it.
LEMMA CloseChannelType ==
  ASSUME MuxTypeOK, NEW s \in Sessions, NEW i \in Ids, CloseChannel(s, i)
  PROVE  /\ channels' \in Table(EntryState)
         /\ onCloseRuns' \in Table(Nat) /\ onCloseLost' \in Table(BOOLEAN)
         /\ toClient' \in [Sessions -> Seq(ServerMessage)]
<1>1. channels' \in Table(EntryState)
  <2>1. channels \in Table(EntryState) /\ channels' = [channels EXCEPT ![s][i] = "none"]
    BY DEF MuxTypeOK, CloseChannel
  <2> QED BY <2>1, EntryType DEF EntryState
<1>2. onCloseRuns' \in Table(Nat) /\ onCloseLost' \in Table(BOOLEAN)
  BY RunOnCloseType DEF CloseChannel
<1>3. toClient' \in [Sessions -> Seq(ServerMessage)]
  <2>1. [t |-> "close", id |-> i] \in ServerMessage
    BY DEF ServerMessage
  <2>2. UNCHANGED toClient \/ Send(s, [t |-> "close", id |-> i])
    BY DEF CloseChannel
  <2> QED BY <2>1, <2>2, SendType DEF MuxTypeOK
<1> QED BY <1>1, <1>2, <1>3

\* The browser's `close` message.
LEMMA HandleCloseType ==
  ASSUME MuxTypeOK, NEW s \in Sessions, NEW i \in Ids, HandleClose(s, i)
  PROVE  MuxTypeOK'
<1>1. asked' \in Table(BOOLEAN)
  <2>1. asked \in Table(BOOLEAN) /\ asked' = [asked EXCEPT ![s][i] = TRUE]
    BY DEF MuxTypeOK, HandleClose
  <2> QED BY <2>1, EntryType
<1> QED BY <1>1, CloseChannelType DEF HandleClose, Seen, MuxTypeOK

\* ctx.close().
LEMMA ServiceClosesType ==
  ASSUME MuxTypeOK, NEW s \in Sessions, NEW i \in Ids, ServiceCloses(s, i)
  PROVE  MuxTypeOK'
<1>1. served' \in Table(BOOLEAN)
  <2>1. served \in Table(BOOLEAN) /\ served' = [served EXCEPT ![s][i] = TRUE]
    BY DEF MuxTypeOK, ServiceCloses
  <2> QED BY <2>1, EntryType
<1> QED BY <1>1, CloseChannelType DEF ServiceCloses, MuxTypeOK, beatVars

\* The `res` of a handler that came back.
LEMMA AnswerType ==
  ASSUME MuxTypeOK, NEW s \in Sessions, NEW i \in Ids, Answer(s, i)
  PROVE  MuxTypeOK'
<1>1. Res(i) \in ServerMessage
  BY DEF Res, ServerMessage
<1>2. toClient' \in [Sessions -> Seq(ServerMessage)]
  BY <1>1, SendType DEF Answer
<1> QED BY <1>2 DEF Answer, MuxTypeOK, channelVars, beatVars

\* The socket's close event and the dispose() it calls.
LEMMA SocketClosesType ==
  ASSUME MuxTypeOK, NEW s \in Sessions, SocketCloses(s)
  PROVE  MuxTypeOK'
<1>1. channels' \in Table(EntryState)
  <2> DEFINE row == [i \in Ids |-> "none"]
  <2>1. channels \in Table(EntryState) /\ channels' = [channels EXCEPT ![s] = row]
    BY DEF MuxTypeOK, SocketCloses, Dispose
  <2>2. row \in [Ids -> EntryState]
    BY DEF EntryState
  <2> QED BY <2>1, <2>2, RowType
<1>2. onCloseRuns' \in Table(Nat) /\ onCloseLost' \in Table(BOOLEAN)
  BY RunOnCloseType DEF SocketCloses, Dispose
<1> QED BY <1>1, <1>2 DEF SocketCloses, Dispose, MuxTypeOK, beatVars

\* The actions that touch neither a table nor, but for a frame of no id, a queue.
LEMMA SocketStepType ==
  ASSUME MuxTypeOK, NEW s \in Sessions,
         Accept(s) \/ HangUp(s) \/ Pong(s) \/ TickQuiet(s) \/ TickTerminates(s)
  PROVE  MuxTypeOK'
<1>1. [t |-> "hello"] \in ServerMessage /\ [t |-> "fin"] \in ServerMessage
  BY DEF ServerMessage
<1>2. toClient' \in [Sessions -> Seq(ServerMessage)]
  <2>1. \/ toClient' = toClient
        \/ \E m \in ServerMessage : toClient' = [toClient EXCEPT ![s] = Append(@, m)]
    BY <1>1 DEF Accept, HangUp, Pong, TickQuiet, TickTerminates
  <2>2. toClient \in [Sessions -> Seq(ServerMessage)]
    BY DEF MuxTypeOK
  <2>3. ASSUME NEW m \in ServerMessage, toClient' = [toClient EXCEPT ![s] = Append(@, m)]
        PROVE  toClient' \in [Sessions -> Seq(ServerMessage)]
    BY <2>2, <2>3, QueueType
  <2> QED BY <2>1, <2>2, <2>3
<1>3. UNCHANGED <<closed, channelVars, requests>>
  BY DEF Accept, HangUp, Pong, TickQuiet, TickTerminates, channelVars
<1>4. readyState' \in [Sessions -> {"NONE", "OPEN", "CLOSING", "CLOSED"}]
  BY DEF MuxTypeOK, Accept, HangUp, Pong, TickQuiet, TickTerminates
<1>5. quiet' \in [Sessions -> BOOLEAN] /\ pinged' \in [Sessions -> BOOLEAN]
  <2>1. /\ \/ quiet' = quiet
           \/ \E b \in BOOLEAN : quiet' = [quiet EXCEPT ![s] = b]
        /\ \/ pinged' = pinged
           \/ \E b \in BOOLEAN : pinged' = [pinged EXCEPT ![s] = b]
    BY DEF Accept, HangUp, Pong, Seen, TickQuiet, TickTerminates, beatVars
  <2>2. quiet \in [Sessions -> BOOLEAN] /\ pinged \in [Sessions -> BOOLEAN]
    BY DEF MuxTypeOK
  <2> QED BY <2>1, <2>2
<1> QED BY <1>2, <1>3, <1>4, <1>5 DEF MuxTypeOK, channelVars

\* A `req` message, up to the await of its handler.
LEMMA HandleRequestType ==
  ASSUME MuxTypeOK, NEW s \in Sessions, NEW i \in Ids, HandleRequest(s, i)
  PROVE  MuxTypeOK'
BY DEF HandleRequest, Seen, MuxTypeOK, channelVars

\* Any step of the services.
LEMMA ServiceStepType ==
  ASSUME MuxTypeOK, NEW s \in Sessions, NEW i \in Ids, ServiceStep(s, i)
  PROVE  MuxTypeOK'
BY OpenerReturnsType, OpenerThrowsType, ServiceClosesType, AnswerType DEF ServiceStep

\* A session that is left alone, its queue included.
LEMMA MuxIdleType ==
  ASSUME MuxTypeOK, UNCHANGED <<muxVars, toClient>>
  PROVE  MuxTypeOK'
BY DEF MuxTypeOK, muxVars, channelVars, beatVars

-----------------------------------------------------------------------------
(* The type of the page's state, action by action.                         *)

\* sendMessage() of a well-formed message.
LEMMA SendMessageType ==
  ASSUME ClientTypeOK, NEW m \in ClientMessage, SendMessage(m)
  PROVE  toServer' \in [Sessions -> Seq(ClientMessage)]
<1>1. CASE IsOpen
  <2>1. ws \in Sessions
    BY <1>1 DEF IsOpen, ClientTypeOK
  <2> QED BY <1>1, <2>1, QueueType DEF SendMessage, ClientTypeOK
<1>2. CASE ~IsOpen
  BY <1>2 DEF SendMessage, ClientTypeOK
<1> QED BY <1>1, <1>2

\* connect() on a socket not used before.
LEMMA ConnectType ==
  ASSUME ClientTypeOK, NEW s \in Sessions, Start(s) \/ TimerFires(s) \/ SocketOpens(s)
  PROVE  ClientTypeOK'
BY DEF ClientTypeOK, Start, TimerFires, SocketOpens, Connect, workVars

\* The calls and channels of the page.
LEMMA PageWorkType ==
  ASSUME ClientTypeOK,
         Call \/ OpenChannel \/ \E i \in Ids : RefuseOffline(i) \/ CloseHandle(i)
  PROVE  ClientTypeOK'
<1>1. CASE Call
  <2>1. nextId \in Ids /\ ws \in Sessions
    BY <1>1 DEF Call, IsOpen, ClientTypeOK
  <2>2. [t |-> "req", id |-> nextId] \in ClientMessage
    BY <2>1 DEF ClientMessage
  <2>3. toServer' \in [Sessions -> Seq(ClientMessage)]
    BY <1>1, <2>2, SendMessageType DEF Call
  <2> QED BY <1>1, <2>1, <2>3 DEF Call, ClientTypeOK, linkVars
<1>2. CASE OpenChannel
  <2>1. nextId \in Ids
    BY <1>2 DEF OpenChannel
  <2>2. [t |-> "open", id |-> nextId] \in ClientMessage
    BY <2>1 DEF ClientMessage
  <2>3. toServer' \in [Sessions -> Seq(ClientMessage)]
    BY <1>2, <2>2, SendMessageType DEF OpenChannel, ClientTypeOK
  <2>4. bornOn' \in [Ids -> Sessions \cup {None}]
    BY <1>2, <2>1 DEF OpenChannel, ClientTypeOK
  <2>5. /\ nextId' = nextId + 1
        /\ handles' \in {handles, handles \cup {nextId}}
        /\ offline' \in {offline, offline \cup {nextId}}
        /\ UNCHANGED <<linkVars, pending, over>>
    BY <1>2 DEF OpenChannel
  <2>6. nextId' \in Nat /\ handles' \subseteq Ids /\ offline' \subseteq Ids
    BY <2>1, <2>5 DEF ClientTypeOK
  <2> QED BY <2>3, <2>4, <2>5, <2>6 DEF ClientTypeOK, linkVars
<1>3. ASSUME NEW i \in Ids, RefuseOffline(i) PROVE ClientTypeOK'
  BY <1>3 DEF RefuseOffline, ClientTypeOK, linkVars
<1>4. ASSUME NEW i \in Ids, CloseHandle(i) PROVE ClientTypeOK'
  <2>1. [t |-> "close", id |-> i] \in ClientMessage
    BY DEF ClientMessage
  <2>2. toServer' \in [Sessions -> Seq(ClientMessage)]
    BY <1>4, <2>1, SendMessageType DEF CloseHandle
  <2> QED BY <1>4, <2>2 DEF CloseHandle, ClientTypeOK, linkVars
<1> QED BY <1>1, <1>2, <1>3, <1>4

\* disconnect(), as both its callers use it.
LEMMA DisconnectType ==
  ASSUME ClientTypeOK, HostRemoved \/ Revoke
  PROVE  ClientTypeOK'
<1>1. Disconnect /\ state' \in {"closed", "connecting", "open", "reconnecting"}
  BY DEF HostRemoved, Revoke, ClientTypeOK
<1>2. [t |-> "fin"] \in ClientMessage
  BY DEF ClientMessage
<1>3. toServer' \in [Sessions -> Seq(ClientMessage)]
  BY <1>1, <1>2, SendMessageType DEF Disconnect
<1> QED BY <1>1, <1>3 DEF Disconnect, CancelReconnect, ClientTypeOK, workVars

\* onDisconnect(), revoked or not.
LEMMA OnDisconnectType ==
  ASSUME ClientTypeOK, NEW s \in Sessions, NEW revoked \in BOOLEAN, OnDisconnect(s, revoked)
  PROVE  ClientTypeOK'
<1>1. /\ pending' \subseteq Ids /\ handles' \subseteq Ids /\ over' \subseteq Ids
      /\ UNCHANGED <<nextId, offline, bornOn, toServer>>
  BY DEF OnDisconnect, Settled, ClientTypeOK
<1>2. /\ ws' = None /\ socket' = [socket EXCEPT ![s] = "gone"]
      /\ boot' \in {boot, "forgotten"}
  BY DEF OnDisconnect
<1>3. /\ state' \in {"closed", "reconnecting"}
      /\ attempt' = attempt \/ attempt' = attempt + 1
      /\ reconnectTimer' = reconnectTimer \/ reconnectTimer' = TRUE
      /\ stopped' = stopped \/ stopped' = TRUE
  BY DEF OnDisconnect, ScheduleReconnect
<1>4. attempt' \in Nat /\ socket' \in [Sessions -> {"unused", "connecting", "open", "closing", "gone"}]
  BY <1>2, <1>3 DEF ClientTypeOK
<1>5. reconnectTimer' \in BOOLEAN /\ stopped' \in BOOLEAN
  BY <1>3 DEF ClientTypeOK
<1>6. boot' \in {"idle", "waiting", "forgotten", "up"}
  BY <1>2 DEF ClientTypeOK
<1> QED BY <1>1, <1>2, <1>3, <1>4, <1>5, <1>6 DEF ClientTypeOK

\* Every message of the server that the page handles.
LEMMA OnServerMessageType ==
  ASSUME ClientTypeOK, NEW s \in Sessions, NEW m \in ServerMessage,
         m.t # "fin", OnServerMessage(s, m)
  PROVE  ClientTypeOK'
<1>1. CASE UNCHANGED <<clientVars, toServer>>
  BY <1>1 DEF ClientTypeOK, clientVars, linkVars, workVars
<1>2. CASE m.t = "hello" /\ OnHello
  BY <1>2 DEF OnHello, ClientTypeOK, workVars
<1>3. CASE m.t \in {"res", "close"} /\ (OnRes(m.id) \/ OnClose(m.id))
  <2>1. m.id \in Ids
    BY <1>3 DEF ServerMessage
  <2> QED BY <1>3, <2>1 DEF OnRes, OnClose, ClientTypeOK, linkVars
<1> QED BY <1>1, <1>2, <1>3 DEF OnServerMessage

\* A page that is left alone.
LEMMA ClientIdleType ==
  ASSUME ClientTypeOK, UNCHANGED <<clientVars, toServer>>
  PROVE  ClientTypeOK'
BY DEF ClientTypeOK, clientVars, linkVars, workVars

-----------------------------------------------------------------------------
(* Type correctness of the connection.                                     *)

\* Any step of the page.
LEMMA PageStepType ==
  ASSUME TypeOK, PageStep
  PROVE  TypeOK'
<1>1. MuxTypeOK'
  BY MuxIdleType DEF PageStep, TypeOK
<1>2. ClientTypeOK'
  BY ConnectType, PageWorkType, DisconnectType DEF PageStep, TypeOK
<1> QED BY <1>1, <1>2 DEF PageStep, TypeOK

\* Steps of the server alone.
LEMMA ServerSideType ==
  ASSUME TypeOK, NEW s \in Sessions,
         \/ ServerStep(s) \/ HeartbeatTerminates(s) \/ PongArrives(s)
         \/ UpgradeAccepted(s) \/ TokenChanged(s) \/ ServerNotices(s)
  PROVE  TypeOK'
<1>1. MuxTypeOK'
  BY ServiceStepType, SocketStepType, SocketClosesType
     DEF ServerStep, HeartbeatTerminates, PongArrives, UpgradeAccepted, TokenChanged,
         ServerNotices, TypeOK
<1>2. ClientTypeOK'
  BY ClientIdleType
     DEF ServerStep, HeartbeatTerminates, PongArrives, UpgradeAccepted, TokenChanged,
         ServerNotices, TypeOK
<1>3. /\ cut' = cut \/ cut' = [cut EXCEPT ![s] = TRUE]
      /\ faults' = faults \/ faults' = faults + 1
  BY DEF ServerStep, HeartbeatTerminates, PongArrives, UpgradeAccepted, TokenChanged,
         ServerNotices, Fault
<1>4. cut' \in [Sessions -> BOOLEAN] /\ faults' \in Nat
  <2>1. cut \in [Sessions -> BOOLEAN] /\ faults \in Nat
    BY DEF TypeOK
  <2>2. cut' \in [Sessions -> BOOLEAN]
    BY <1>3, <2>1
  <2> QED BY <1>3, <2>1, <2>2
<1> QED BY <1>1, <1>2, <1>4 DEF TypeOK

\* Steps of the browser's socket alone, and the failing link.
LEMMA ClientSideType ==
  ASSUME TypeOK, NEW s \in Sessions,
         UpgradeAnswered(s) \/ UpgradeRefused(s) \/ LinkFails(s) \/ ClientNotices(s)
  PROVE  TypeOK'
<1>1. MuxTypeOK'
  BY MuxIdleType DEF UpgradeAnswered, UpgradeRefused, LinkFails, ClientNotices, TypeOK
<1>2. ClientTypeOK'
  BY ConnectType, OnDisconnectType, ClientIdleType
     DEF UpgradeAnswered, UpgradeRefused, LinkFails, ClientNotices, TypeOK
<1>3. /\ cut' = cut \/ cut' = [cut EXCEPT ![s] = TRUE]
      /\ faults' = faults \/ faults' = faults + 1
  BY DEF UpgradeAnswered, UpgradeRefused, LinkFails, ClientNotices, Fault
<1>4. cut' \in [Sessions -> BOOLEAN] /\ faults' \in Nat
  <2>1. cut \in [Sessions -> BOOLEAN] /\ faults \in Nat
    BY DEF TypeOK
  <2>2. cut' \in [Sessions -> BOOLEAN]
    BY <1>3, <2>1
  <2> QED BY <1>3, <2>1, <2>2
<1> QED BY <1>1, <1>2, <1>4 DEF TypeOK

\* The page reads a frame.
LEMMA ClientReceivesType ==
  ASSUME TypeOK, NEW s \in Sessions, ClientReceives(s)
  PROVE  TypeOK'
<1> DEFINE m == Head(toClient[s])
<1>1. m \in ServerMessage /\ toClient' \in [Sessions -> Seq(ServerMessage)]
  BY QueueType DEF ClientReceives, TypeOK, MuxTypeOK
<1>2. MuxTypeOK'
  BY <1>1 DEF ClientReceives, TypeOK, MuxTypeOK, muxVars, channelVars, beatVars
<1>3. ClientTypeOK'
  <2>1. CASE m.t = "fin"
    BY <2>1, OnDisconnectType DEF ClientReceives, TypeOK
  <2>2. CASE m.t # "fin"
    BY <1>1, <2>2, OnServerMessageType DEF ClientReceives, TypeOK
  <2> QED BY <2>1, <2>2
<1> QED BY <1>2, <1>3 DEF ClientReceives, TypeOK

\* The server reads a frame.
LEMMA ServerReceivesType ==
  ASSUME TypeOK, NEW s \in Sessions, ServerReceives(s)
  PROVE  TypeOK'
<1> DEFINE m == Head(toServer[s])
<1>1. m \in ClientMessage /\ toServer' \in [Sessions -> Seq(ClientMessage)]
  BY QueueType DEF ServerReceives, TypeOK, ClientTypeOK
<1>2. ClientTypeOK'
  BY <1>1 DEF ServerReceives, TypeOK, ClientTypeOK, clientVars, linkVars, workVars
<1>3. MuxTypeOK'
  <2>1. CASE m.t = "fin"
    BY <2>1, SocketClosesType DEF ServerReceives, TypeOK
  <2>2. CASE m.t # "fin"
    <3>1. m.id \in Ids
      BY <1>1, <2>2 DEF ClientMessage
    <3>2. HandleRequest(s, m.id) \/ HandleOpen(s, m.id) \/ HandleClose(s, m.id)
      BY <2>2 DEF ServerReceives
    <3> QED BY <3>1, <3>2, HandleRequestType, HandleOpenType, HandleCloseType DEF TypeOK
  <2> QED BY <2>1, <2>2
<1> QED BY <1>2, <1>3 DEF ServerReceives, TypeOK

\* Every variable of the page, the session and the link keeps its type,
\* however many sockets and ids there are.
THEOREM TypeCorrect == Spec => []TypeOK
<1>1. Init => TypeOK
  <2>1. Init => MuxTypeOK
    BY DEF Init, MuxInit, MuxTypeOK, Table, EntryState, OpenerState
  <2>2. ASSUME Init PROVE ClientTypeOK
    <3>1. /\ socket \in [Sessions -> {"unused", "connecting", "open", "closing", "gone"}]
          /\ bornOn \in [Ids -> Sessions \cup {None}]
          /\ toServer \in [Sessions -> Seq(ClientMessage)]
      BY <2>2 DEF Init, ClientInit
    <3> QED BY <2>2, <3>1 DEF Init, ClientInit, ClientTypeOK
  <2> QED BY <2>1, <2>2 DEF Init, TypeOK
<1>2. TypeOK /\ [Next]_vars => TypeOK'
  <2>1. ASSUME TypeOK, Next PROVE TypeOK'
    BY <2>1, PageStepType, ServerSideType, ClientSideType, ClientReceivesType,
       ServerReceivesType DEF Next
  <2>2. ASSUME TypeOK, UNCHANGED vars PROVE TypeOK'
    BY <2>2, MuxIdleType, ClientIdleType DEF TypeOK, vars
  <2> QED BY <2>1, <2>2
<1> QED BY <1>1, <1>2, PTL DEF Spec

-----------------------------------------------------------------------------
(* The channel table.                                                      *)

\* One id of one session. An entry that is gone while its opener is still at
\* work was closed by somebody, or the session was disposed of.
ChannelInv(s, i) ==
  /\ opener[s][i] = "returned" =>
       onCloseRuns[s][i] = IF channels[s][i] = "live" THEN 0 ELSE 1
  /\ opener[s][i] # "returned" => onCloseRuns[s][i] = 0 /\ channels[s][i] # "live"
  /\ closed[s] => channels[s][i] = "none"
  /\ opener[s][i] = "awaiting" /\ channels[s][i] = "none" /\ ~closed[s] =>
       asked[s][i] \/ served[s][i]
  /\ onCloseRuns[s][i] > 0 /\ ~onCloseLost[s][i] => asked[s][i] \/ served[s][i]

MuxInv == \A s \in Sessions, i \in Ids : ChannelInv(s, i)

\* The entries ChannelInv speaks of.
LEMMA Tables ==
  ASSUME MuxTypeOK
  PROVE  /\ channels \in Table(EntryState) /\ opener \in Table(OpenerState)
         /\ onCloseRuns \in Table(Nat) /\ onCloseLost \in Table(BOOLEAN)
         /\ asked \in Table(BOOLEAN) /\ served \in Table(BOOLEAN)
         /\ closed \in [Sessions -> BOOLEAN]
BY DEF MuxTypeOK

\* What ChannelInv says of one entry.
LEMMA Entries ==
  ASSUME MuxTypeOK, NEW r \in Sessions, NEW j \in Ids
  PROVE  /\ channels[r][j] \in EntryState /\ opener[r][j] \in OpenerState
         /\ onCloseRuns[r][j] \in Nat /\ onCloseLost[r][j] \in BOOLEAN
         /\ asked[r][j] \in BOOLEAN /\ served[r][j] \in BOOLEAN /\ closed[r] \in BOOLEAN
BY Tables DEF Table

\* RunOnClose, entry by entry.
LEMMA RunOnCloseAt ==
  ASSUME MuxTypeOK, NEW s \in Sessions, NEW I, NEW lost, RunOnClose(s, I, lost),
         NEW r \in Sessions, NEW j \in Ids
  PROVE  IF r = s /\ j \in I /\ channels[s][j] = "live"
           THEN onCloseRuns'[r][j] = onCloseRuns[r][j] + 1 /\ onCloseLost'[r][j] = lost
           ELSE onCloseRuns'[r][j] = onCloseRuns[r][j] /\ onCloseLost'[r][j] = onCloseLost[r][j]
<1> DEFINE live == {i \in I : channels[s][i] = "live"}
           runs == [i \in Ids |-> IF i \in live THEN onCloseRuns[s][i] + 1 ELSE onCloseRuns[s][i]]
           told == [i \in Ids |-> IF i \in live THEN lost ELSE onCloseLost[s][i]]
<1>1. onCloseRuns' = [onCloseRuns EXCEPT ![s] = runs] /\ onCloseLost' = [onCloseLost EXCEPT ![s] = told]
  BY DEF RunOnClose, MuxTypeOK, Table
<1>2. /\ runs[j] = IF j \in live THEN onCloseRuns[s][j] + 1 ELSE onCloseRuns[s][j]
      /\ told[j] = IF j \in live THEN lost ELSE onCloseLost[s][j]
  OBVIOUS
<1> HIDE DEF runs, told
<1>3. /\ onCloseRuns'[r][j] = IF r = s THEN runs[j] ELSE onCloseRuns[r][j]
      /\ onCloseLost'[r][j] = IF r = s THEN told[j] ELSE onCloseLost[r][j]
  BY <1>1, Tables DEF Table
<1> QED BY <1>2, <1>3

\* An `open` message reserves an entry whose opener has not run.
LEMMA HandleOpenInv ==
  ASSUME MuxTypeOK, MuxInv, NEW s \in Sessions, NEW i \in Ids, HandleOpen(s, i)
  PROVE  MuxInv'
<1> SUFFICES ASSUME NEW r \in Sessions, NEW j \in Ids PROVE ChannelInv(r, j)'
  BY DEF MuxInv
<1>1. ChannelInv(r, j) /\ ChannelInv(s, i)
  BY DEF MuxInv
<1>2. /\ opener[s][i] = "none" /\ closed[s] = FALSE
      /\ UNCHANGED <<closed, onCloseRuns, onCloseLost, asked, served>>
      /\ \/ /\ channels' = [channels EXCEPT ![s][i] = "placeholder"]
            /\ opener' = [opener EXCEPT ![s][i] = "awaiting"]
         \/ /\ channels' = channels
            /\ opener' = [opener EXCEPT ![s][i] = "threw"]
  BY DEF HandleOpen, Listening, MuxTypeOK
<1>3. \/ /\ channels'[r][j] = IF r = s /\ j = i THEN "placeholder" ELSE channels[r][j]
         /\ opener'[r][j] = IF r = s /\ j = i THEN "awaiting" ELSE opener[r][j]
      \/ /\ channels'[r][j] = channels[r][j]
         /\ opener'[r][j] = IF r = s /\ j = i THEN "threw" ELSE opener[r][j]
  BY <1>2, Tables DEF Table
<1> QED BY <1>1, <1>2, <1>3, Entries DEF ChannelInv

\* An opener that returns makes its channel live or has it closed, once.
LEMMA OpenerReturnsInv ==
  ASSUME MuxTypeOK, MuxInv, NEW s \in Sessions, NEW i \in Ids, OpenerReturns(s, i)
  PROVE  MuxInv'
<1> SUFFICES ASSUME NEW r \in Sessions, NEW j \in Ids PROVE ChannelInv(r, j)'
  BY DEF MuxInv
<1>1. ChannelInv(r, j) /\ ChannelInv(s, i)
  BY DEF MuxInv
<1>2. /\ opener[s][i] = "awaiting" /\ UNCHANGED <<closed, asked, served>>
      /\ opener'[r][j] = IF r = s /\ j = i THEN "returned" ELSE opener[r][j]
  BY Tables DEF Table, OpenerReturns
<1>3. CASE ~Superseded(s, i)
  <2>1. /\ channels'[r][j] = IF r = s /\ j = i THEN "live" ELSE channels[r][j]
        /\ UNCHANGED <<onCloseRuns, onCloseLost>>
    BY <1>3, Tables DEF Table, OpenerReturns
  <2> QED BY <1>1, <1>2, <1>3, <2>1, Entries DEF ChannelInv, Superseded
<1>4. CASE Superseded(s, i)
  <2>1. /\ onCloseRuns' = [onCloseRuns EXCEPT ![s][i] = onCloseRuns[s][i] + 1]
        /\ onCloseLost' = [onCloseLost EXCEPT ![s][i] = LateLost(s)]
        /\ UNCHANGED channels
    BY <1>4, Entries DEF OpenerReturns, Table
  <2>2. /\ onCloseRuns'[r][j] = IF r = s /\ j = i THEN onCloseRuns[s][i] + 1 ELSE onCloseRuns[r][j]
        /\ onCloseLost'[r][j] = IF r = s /\ j = i THEN LateLost(s) ELSE onCloseLost[r][j]
    BY <2>1, Tables DEF Table
  <2>3. closed[s] \in BOOLEAN /\ channels[s][i] \in EntryState
    BY Entries DEF Table
  <2> QED BY <1>1, <1>2, <1>4, <2>1, <2>2, <2>3, Entries
          DEF ChannelInv, Superseded, LateLost, EntryState
<1> QED BY <1>3, <1>4

\* An opener that rejects leaves no channel to close.
LEMMA OpenerThrowsInv ==
  ASSUME MuxTypeOK, MuxInv, NEW s \in Sessions, NEW i \in Ids, OpenerThrows(s, i)
  PROVE  MuxInv'
<1> SUFFICES ASSUME NEW r \in Sessions, NEW j \in Ids PROVE ChannelInv(r, j)'
  BY DEF MuxInv
<1>1. ChannelInv(r, j) /\ ChannelInv(s, i)
  BY DEF MuxInv
<1>2. /\ opener[s][i] = "awaiting"
      /\ UNCHANGED <<closed, onCloseRuns, onCloseLost, asked, served>>
      /\ channels'[r][j] = IF r = s /\ j = i THEN "none" ELSE channels[r][j]
      /\ opener'[r][j] = IF r = s /\ j = i THEN "threw" ELSE opener[r][j]
  BY Tables DEF Table, OpenerThrows
<1> QED BY <1>1, <1>2, Entries DEF ChannelInv

\* closeChannel(), once the reason for it has been noted.
LEMMA CloseChannelInv ==
  ASSUME MuxTypeOK, MuxInv, NEW s \in Sessions, NEW i \in Ids, CloseChannel(s, i),
         UNCHANGED <<closed, opener>>,
         \/ asked' = [asked EXCEPT ![s][i] = TRUE] /\ UNCHANGED served
         \/ served' = [served EXCEPT ![s][i] = TRUE] /\ UNCHANGED asked
  PROVE  MuxInv'
<1> SUFFICES ASSUME NEW r \in Sessions, NEW j \in Ids PROVE ChannelInv(r, j)'
  BY DEF MuxInv
<1>1. ChannelInv(r, j)
  BY DEF MuxInv
<1>2. channels'[r][j] = IF r = s /\ j = i THEN "none" ELSE channels[r][j]
  BY Tables DEF Table, CloseChannel
<1>3. \/ asked'[r][j] = (IF r = s /\ j = i THEN TRUE ELSE asked[r][j]) /\ served'[r][j] = served[r][j]
      \/ served'[r][j] = (IF r = s /\ j = i THEN TRUE ELSE served[r][j]) /\ asked'[r][j] = asked[r][j]
  <2>1. CASE asked' = [asked EXCEPT ![s][i] = TRUE] /\ UNCHANGED served
    <3>1. asked'[r][j] = IF r = s /\ j = i THEN TRUE ELSE asked[r][j]
      BY <2>1, Tables DEF Table
    <3> QED BY <2>1, <3>1
  <2>2. CASE served' = [served EXCEPT ![s][i] = TRUE] /\ UNCHANGED asked
    <3>1. served'[r][j] = IF r = s /\ j = i THEN TRUE ELSE served[r][j]
      BY <2>2, Tables DEF Table
    <3> QED BY <2>2, <3>1
  <2> QED BY <2>1, <2>2
<1>4. /\ r = s /\ j = i =>
           asked'[r][j] \/ served'[r][j]
      /\ asked[r][j] \/ served[r][j] => asked'[r][j] \/ served'[r][j]
  <2>1. asked[r][j] \in BOOLEAN /\ served[r][j] \in BOOLEAN
    BY Entries
  <2> QED BY <1>3, <2>1
<1>5. opener'[r][j] = opener[r][j] /\ closed'[r] = closed[r]
  OBVIOUS
<1>6. RunOnClose(s, {i}, FALSE)
  BY DEF CloseChannel
<1>7. IF r = s /\ j = i /\ channels[s][j] = "live"
        THEN onCloseRuns'[r][j] = onCloseRuns[r][j] + 1 /\ onCloseLost'[r][j] = FALSE
        ELSE onCloseRuns'[r][j] = onCloseRuns[r][j] /\ onCloseLost'[r][j] = onCloseLost[r][j]
  <2>1. IF r = s /\ j \in {i} /\ channels[s][j] = "live"
          THEN onCloseRuns'[r][j] = onCloseRuns[r][j] + 1 /\ onCloseLost'[r][j] = FALSE
          ELSE onCloseRuns'[r][j] = onCloseRuns[r][j] /\ onCloseLost'[r][j] = onCloseLost[r][j]
    BY <1>6, RunOnCloseAt
  <2> QED BY <2>1
<1>8. onCloseRuns[r][j] \in Nat /\ channels[r][j] \in EntryState
  BY Entries
<1> QED BY <1>1, <1>2, <1>4, <1>5, <1>7, <1>8 DEF ChannelInv, EntryState

\* dispose() closes the live channels, each for the first time.
LEMMA SocketClosesInv ==
  ASSUME MuxTypeOK, MuxInv, NEW s \in Sessions, SocketCloses(s)
  PROVE  MuxInv'
<1> SUFFICES ASSUME NEW r \in Sessions, NEW j \in Ids PROVE ChannelInv(r, j)'
  BY DEF MuxInv
<1>1. ChannelInv(r, j)
  BY DEF MuxInv
<1>2. /\ closed' = [closed EXCEPT ![s] = TRUE]
      /\ channels' = [channels EXCEPT ![s] = [k \in Ids |-> "none"]]
      /\ RunOnClose(s, Ids, TRUE)
      /\ UNCHANGED <<opener, asked, served>>
  BY DEF SocketCloses, Dispose
<1>3. /\ channels'[r][j] = IF r = s THEN "none" ELSE channels[r][j]
      /\ closed'[r] = IF r = s THEN TRUE ELSE closed[r]
  BY <1>2, Tables DEF Table
<1>4. RunOnClose(s, Ids, TRUE)
  BY <1>2
<1>5. IF r = s /\ j \in Ids /\ channels[s][j] = "live"
        THEN onCloseRuns'[r][j] = onCloseRuns[r][j] + 1 /\ onCloseLost'[r][j] = TRUE
        ELSE onCloseRuns'[r][j] = onCloseRuns[r][j] /\ onCloseLost'[r][j] = onCloseLost[r][j]
  BY <1>4, RunOnCloseAt
<1>6. /\ opener'[r][j] = opener[r][j] /\ asked'[r][j] = asked[r][j]
      /\ served'[r][j] = served[r][j]
  BY <1>2
<1>7. onCloseRuns[r][j] \in Nat
  BY Entries
<1> QED BY <1>1, <1>3, <1>5, <1>6, <1>7 DEF ChannelInv

\* Steps that touch neither the table nor `closed`.
LEMMA OthersInv ==
  ASSUME MuxInv, UNCHANGED <<closed, channelVars>>
  PROVE  MuxInv'
BY DEF MuxInv, ChannelInv, channelVars

\* Every step, whoever takes it.
LEMMA MuxStep ==
  ASSUME TypeOK, MuxInv, Next
  PROVE  MuxInv'
<1> USE DEF TypeOK
<1>1. CASE PageStep
  BY <1>1, OthersInv DEF PageStep, muxVars
<1>2. ASSUME NEW s \in Sessions, ServerStep(s) PROVE MuxInv'
  <2>1. CASE TickQuiet(s)
    BY <2>1, OthersInv DEF TickQuiet
  <2>2. ASSUME NEW i \in Ids, ServiceStep(s, i) PROVE MuxInv'
    <3>1. CASE ServiceCloses(s, i)
      BY <3>1, CloseChannelInv DEF ServiceCloses
    <3>2. CASE Answer(s, i)
      BY <3>2, OthersInv DEF Answer
    <3> QED BY <2>2, <3>1, <3>2, OpenerReturnsInv, OpenerThrowsInv DEF ServiceStep
  <2> QED BY <1>2, <2>1, <2>2 DEF ServerStep
<1>3. ASSUME NEW s \in Sessions,
             \/ HeartbeatTerminates(s) \/ PongArrives(s) \/ UpgradeAccepted(s)
             \/ UpgradeAnswered(s) \/ UpgradeRefused(s) \/ TokenChanged(s)
             \/ LinkFails(s) \/ ClientNotices(s) \/ ClientReceives(s)
      PROVE MuxInv'
  BY <1>3, OthersInv
     DEF HeartbeatTerminates, TickTerminates, PongArrives, Pong, UpgradeAccepted, Accept,
         UpgradeAnswered, UpgradeRefused, TokenChanged, HangUp, LinkFails, ClientNotices,
         ClientReceives, muxVars
<1>4. ASSUME NEW s \in Sessions, ServerNotices(s) PROVE MuxInv'
  BY <1>4, SocketClosesInv DEF ServerNotices
<1>5. ASSUME NEW s \in Sessions, ServerReceives(s) PROVE MuxInv'
  <2> DEFINE m == Head(toServer[s])
  <2>1. CASE m.t = "fin"
    BY <1>5, <2>1, SocketClosesInv DEF ServerReceives
  <2>2. CASE m.t # "fin"
    <3>1. m \in ClientMessage
      BY <1>5, QueueType DEF ServerReceives, ClientTypeOK
    <3>2. m.id \in Ids
      BY <2>2, <3>1 DEF ClientMessage
    <3>3. HandleRequest(s, m.id) \/ HandleOpen(s, m.id) \/ HandleClose(s, m.id)
      BY <1>5, <2>2 DEF ServerReceives
    <3>4. CASE HandleRequest(s, m.id)
      BY <3>4, OthersInv DEF HandleRequest
    <3>5. CASE HandleClose(s, m.id)
      BY <3>2, <3>5, CloseChannelInv DEF HandleClose
    <3> QED BY <3>2, <3>3, <3>4, <3>5, HandleOpenInv
  <2> QED BY <2>1, <2>2
<1> QED BY <1>1, <1>2, <1>3, <1>4, <1>5 DEF Next

\* The strengthened invariant of one entry holds for every entry, always.
THEOREM MuxCorrect == Spec => []MuxInv
<1>1. Init => MuxInv
  BY DEF Init, MuxInit, MuxInv, ChannelInv
<1>2. TypeOK /\ MuxInv /\ [Next]_vars => MuxInv'
  <2>1. CASE UNCHANGED vars
    BY <2>1, OthersInv DEF vars, muxVars
  <2> QED BY <2>1, MuxStep
<1> QED BY <1>1, <1>2, TypeCorrect, PTL DEF Spec

\* "Always runs exactly once" (server/src/service.ts): for every id of every
\* session, whatever overtook its opener.
THEOREM OnCloseRunsOnce == Spec => []OnCloseExactlyOnce
<1>1. MuxInv => OnCloseExactlyOnce
  <2> SUFFICES ASSUME MuxInv, NEW s \in Sessions, NEW i \in Ids,
                      opener[s][i] = "returned"
               PROVE  onCloseRuns[s][i] = IF channels[s][i] = "live" /\ ~closed[s] THEN 0 ELSE 1
    BY DEF OnCloseExactlyOnce
  <2> QED BY DEF MuxInv, ChannelInv
<1> QED BY <1>1, MuxCorrect, PTL

\* Only the browser or the service can end a channel as not lost.
THEOREM DropsAreLost == Spec => []DropIsNeverAHangUp
<1>1. MuxInv => DropIsNeverAHangUp
  BY DEF MuxInv, ChannelInv, DropIsNeverAHangUp
<1> QED BY <1>1, MuxCorrect, PTL

-----------------------------------------------------------------------------
(* The page's own books: which socket it holds, and what waits on it.      *)

\* A socket that is neither unused nor gone is the one the client holds; a
\* reconnect is scheduled only while it holds none and has not been stopped;
\* and what waits was sent over the socket that is held.
ClientInv ==
  /\ \A s \in Sessions : socket[s] \in {"connecting", "open", "closing"} <=> ws = s
  /\ reconnectTimer => ws = None /\ ~stopped
  /\ boot = "idle" => ws = None /\ ~reconnectTimer /\ ~stopped
  /\ \A i \in pending \cup handles : bornOn[i] = ws /\ ws # None
  /\ \A i \in pending \cup handles : i < nextId
  /\ ws # None /\ socket[ws] = "connecting" => pending \cup handles = {}

\* connect(): nothing was held, so nothing waits.
LEMMA ConnectInv ==
  ASSUME ClientTypeOK, ClientInv, NEW s \in Sessions, Start(s) \/ TimerFires(s)
  PROVE  ClientInv'
<1>1. ws = None /\ pending \cup handles = {} /\ s # None
  BY ConnectionAssumption DEF ClientInv, Start, TimerFires
<1>2. /\ ws' = s /\ socket[s] = "unused" /\ socket' = [socket EXCEPT ![s] = "connecting"]
      /\ UNCHANGED workVars /\ ~reconnectTimer' /\ boot' # "idle"
  BY DEF Start, TimerFires, Connect, ClientInv
<1>3. \A r \in Sessions : socket'[r] \in {"connecting", "open", "closing"} <=> ws' = r
  BY <1>1, <1>2, ConnectionAssumption DEF ClientInv, ClientTypeOK
<1> QED BY <1>1, <1>2, <1>3 DEF ClientInv, workVars

\* The calls and channels of the page wait on the socket it holds.
LEMMA PageWorkInv ==
  ASSUME ClientTypeOK, ClientInv,
         \/ Call \/ OpenChannel \/ \E i \in Ids : RefuseOffline(i) \/ CloseHandle(i)
  PROVE  ClientInv'
<1>1. CASE Call
  BY <1>1, ConnectionAssumption DEF Call, IsOpen, ClientInv, ClientTypeOK, linkVars
<1>2. CASE OpenChannel
  <2>1. nextId \in Nat /\ UNCHANGED <<linkVars, pending>> /\ nextId' = nextId + 1 /\ boot # "idle"
    BY <1>2 DEF OpenChannel, ClientTypeOK
  <2>2. CASE UNCHANGED <<handles, bornOn>>
    BY <2>1, <2>2, ConnectionAssumption DEF ClientInv, ClientTypeOK, linkVars
  <2>3. CASE /\ IsOpen /\ nextId \in Ids /\ handles' = handles \cup {nextId}
             /\ bornOn' = [bornOn EXCEPT ![nextId] = ws]
    <3>1. \A i \in pending' \cup handles' : bornOn'[i] = ws /\ i < nextId'
      BY <2>1, <2>3 DEF ClientInv, ClientTypeOK
    <3> QED BY <2>1, <2>3, <3>1 DEF IsOpen, ClientInv, linkVars
  <2> QED BY <1>2, <2>2, <2>3 DEF OpenChannel
<1>3. ASSUME NEW i \in Ids, RefuseOffline(i) \/ CloseHandle(i) PROVE ClientInv'
  BY <1>3 DEF RefuseOffline, CloseHandle, ClientInv, ClientTypeOK, linkVars
<1> QED BY <1>1, <1>2, <1>3

\* disconnect() cancels the timer and leaves the socket to close.
LEMMA DisconnectInv ==
  ASSUME ClientTypeOK, ClientInv, HostRemoved \/ Revoke
  PROVE  ClientInv'
BY DEF HostRemoved, Revoke, Disconnect, CancelReconnect, ClientInv, ClientTypeOK, workVars

\* onDisconnect() settles everything before the next attempt is scheduled.
LEMMA OnDisconnectInv ==
  ASSUME ClientTypeOK, ClientInv, NEW s \in Sessions, NEW revoked \in BOOLEAN, ws = s,
         OnDisconnect(s, revoked)
  PROVE  ClientInv'
<1>1. pending' = {} /\ handles' = {} /\ ws' = None /\ s # None
      /\ socket' = [socket EXCEPT ![s] = "gone"] /\ boot' # "idle"
  BY ConnectionAssumption DEF OnDisconnect, Settled, ClientInv
<1>2. reconnectTimer' => ~stopped'
  BY <1>1 DEF OnDisconnect, ScheduleReconnect, ClientInv
<1> QED BY <1>1, <1>2, ConnectionAssumption DEF ClientInv, ClientTypeOK

\* Whoever takes the step: the page's books stay right, and a client that was
\* stopped makes no socket.
LEMMA ClientStep ==
  ASSUME TypeOK, ClientInv, Next
  PROVE  ClientInv' /\ (stopped => ws' \in {ws, None})
<1> USE DEF TypeOK
<1>1. CASE UNCHANGED clientVars
  BY <1>1 DEF ClientInv, clientVars, linkVars, workVars
<1>2. CASE PageStep
  <2>1. stopped => ws' \in {ws, None}
    BY <1>2, ConnectionAssumption DEF PageStep, Start, TimerFires, Call, OpenChannel, RefuseOffline, CloseHandle, HostRemoved,
       Revoke, Disconnect, ClientInv, linkVars
  <2> QED BY <1>2, <2>1, ConnectInv, PageWorkInv, DisconnectInv DEF PageStep
<1>3. ASSUME NEW s \in Sessions, UpgradeAnswered(s) PROVE ClientInv' /\ (stopped => ws' \in {ws, None})
  BY <1>3 DEF UpgradeAnswered, SocketOpens, ClientInv, ClientTypeOK, workVars
<1>4. ASSUME NEW s \in Sessions, UpgradeRefused(s) \/ ClientNotices(s)
      PROVE ClientInv' /\ (stopped => ws' \in {ws, None})
  <2>1. ws = s /\ OnDisconnect(s, FALSE)
    BY <1>4 DEF UpgradeRefused, ClientNotices, ClientInv
  <2> QED BY <2>1, OnDisconnectInv DEF OnDisconnect
<1>5. ASSUME NEW s \in Sessions, ClientReceives(s)
      PROVE ClientInv' /\ (stopped => ws' \in {ws, None})
  <2> DEFINE m == Head(toClient[s])
  <2>1. ws = s
    BY <1>5 DEF ClientReceives, ClientInv
  <2>2. CASE m.t = "fin"
    BY <1>5, <2>1, <2>2, OnDisconnectInv DEF ClientReceives, OnDisconnect
  <2>3. CASE m.t # "fin"
    <3>1. \/ UNCHANGED clientVars \/ OnHello \/ OnRes(m.id) \/ OnClose(m.id)
      BY <1>5, <2>3 DEF ClientReceives, OnServerMessage
    <3>2. CASE OnHello
      BY <3>2 DEF OnHello, ClientInv, workVars
    <3>3. CASE OnRes(m.id) \/ OnClose(m.id)
      BY <3>3 DEF OnRes, OnClose, ClientInv, linkVars
    <3> QED BY <1>1, <3>1, <3>2, <3>3 DEF clientVars, linkVars
  <2> QED BY <2>2, <2>3
<1>6. ASSUME NEW s \in Sessions,
             \/ ServerStep(s) \/ HeartbeatTerminates(s) \/ PongArrives(s) \/ UpgradeAccepted(s)
             \/ TokenChanged(s) \/ LinkFails(s) \/ ServerNotices(s) \/ ServerReceives(s)
      PROVE ClientInv' /\ (stopped => ws' \in {ws, None})
  <2>1. UNCHANGED clientVars
    BY <1>6 DEF ServerStep, HeartbeatTerminates, PongArrives, UpgradeAccepted, TokenChanged,
                LinkFails, ServerNotices, ServerReceives
  <2> QED BY <1>1, <2>1 DEF clientVars, linkVars
<1> QED BY <1>2, <1>3, <1>4, <1>5, <1>6 DEF Next

\* The page's books are right whenever anybody looks.
THEOREM ClientCorrect == Spec => []ClientInv
<1>1. Init => ClientInv
  BY ConnectionAssumption DEF Init, ClientInit, ClientInv
<1>2. TypeOK /\ ClientInv /\ [Next]_vars => ClientInv'
  <2>1. CASE UNCHANGED vars
    BY <2>1 DEF vars, clientVars, linkVars, workVars, ClientInv
  <2> QED BY <2>1, ClientStep
<1> QED BY <1>1, <1>2, TypeCorrect, PTL DEF Spec

\* A client that was stopped never makes another socket.
THEOREM StoppedStaysStopped == Spec => StoppedNeverReturns
<1>1. TypeOK /\ ClientInv /\ [Next]_vars => [stopped => ws' \in {ws, None}]_<<ws, stopped>>
  <2>1. CASE UNCHANGED vars
    BY <2>1 DEF vars, clientVars, linkVars
  <2> QED BY <2>1, ClientStep
<1> QED BY <1>1, ClientCorrect, TypeCorrect, PTL DEF Spec, StoppedNeverReturns

-----------------------------------------------------------------------------
(* The two tables and the queues between them.                             *)

\* A queue holds a message, holds it once at most, or holds b behind every a.
Has(q, m) == \E p \in DOMAIN q : q[p] = m
Once(q, m) == \A p, r \in DOMAIN q : q[p] = m /\ q[r] = m => p = r
Follows(q, a, b) == \A p \in DOMAIN q : q[p] = a => \E r \in DOMAIN q : p < r /\ q[r] = b

\* The sequence a is q with m behind it.
Appended(a, q, m) ==
  \E n \in Nat : /\ DOMAIN q = 1..n /\ DOMAIN a = 1..(n + 1)
                 /\ a[n + 1] = m /\ \A p \in 1..n : a[p] = q[p]

\* Append does that.
LEMMA AppendAppends ==
  ASSUME NEW M, NEW q \in Seq(M), NEW m \in M
  PROVE  Appended(Append(q, m), q, m)
<1>1. /\ DOMAIN q = 1..Len(q) /\ DOMAIN Append(q, m) = 1..(Len(q) + 1) /\ Len(q) \in Nat
      /\ Append(q, m)[Len(q) + 1] = m /\ \A p \in 1..Len(q) : Append(q, m)[p] = q[p]
  OBVIOUS
<1> QED BY <1>1 DEF Appended

\* What appending a message does to the three.
LEMMA AtTheEnd ==
  ASSUME NEW q, NEW m, NEW a, Appended(a, q, m)
  PROVE  \A x, y :
           /\ Has(a, x) <=> Has(q, x) \/ x = m
           /\ Once(q, x) /\ (m # x \/ ~Has(q, x)) => Once(a, x)
           /\ m # x /\ (m = y \/ Follows(q, x, y)) => Follows(a, x, y)
<1>1. PICK n \in Nat : /\ DOMAIN q = 1..n /\ DOMAIN a = 1..(n + 1)
                        /\ a[n + 1] = m /\ \A p \in 1..n : a[p] = q[p]
  BY DEF Appended
<1> TAKE x, y
<1>2. Has(a, x) <=> Has(q, x) \/ x = m
  BY <1>1 DEF Has
<1>3. Once(q, x) /\ (m # x \/ ~Has(q, x)) => Once(a, x)
  BY <1>1 DEF Has, Once
<1>4. m # x /\ (m = y \/ Follows(q, x, y)) => Follows(a, x, y)
  BY <1>1 DEF Follows
<1> QED BY <1>2, <1>3, <1>4

\* What taking the oldest message does to them.
LEMMA AtTheHead ==
  ASSUME NEW M, NEW q \in Seq(M), q # <<>>, NEW u, u = Tail(q)
  PROVE  \A x, y :
           /\ Has(q, x) <=> Has(u, x) \/ x = Head(q)
           /\ Once(q, x) => Once(u, x) /\ (Head(q) = x => ~Has(u, x))
           /\ Follows(q, x, y) => Follows(u, x, y) /\ (Head(q) = x => Has(u, y))
<1>1. /\ DOMAIN q = 1..Len(q) /\ DOMAIN u = 1..(Len(q) - 1) /\ Len(q) \in Nat /\ Len(q) > 0
      /\ Head(q) = q[1] /\ \A p \in 1..(Len(q) - 1) : u[p] = q[p + 1]
  OBVIOUS
<1>0. \A p \in DOMAIN q : p # 1 => \E r \in DOMAIN u : r + 1 = p /\ u[r] = q[p]
  <2> TAKE p \in DOMAIN q
  <2> HAVE p # 1
  <2>1. p - 1 \in DOMAIN u /\ u[p - 1] = q[p] /\ p - 1 + 1 = p
    BY <1>1
  <2> QED BY <2>1
<1> TAKE x, y
<1>2. Has(q, x) <=> Has(u, x) \/ x = q[1]
  <2>1. Has(u, x) => Has(q, x)
    BY <1>1 DEF Has
  <2>2. Has(q, x) => Has(u, x) \/ x = q[1]
    BY <1>1, <1>0 DEF Has
  <2>3. x = q[1] => Has(q, x)
    BY <1>1 DEF Has
  <2> QED BY <2>1, <2>2, <2>3
<1>3. Once(q, x) => Once(u, x) /\ (q[1] = x => ~Has(u, x))
  <2> SUFFICES ASSUME Once(q, x) PROVE Once(u, x) /\ (q[1] = x => ~Has(u, x))
    OBVIOUS
  <2>1. ASSUME NEW p \in DOMAIN u, NEW r \in DOMAIN u, u[p] = x, u[r] = x PROVE p = r
    <3>1. p + 1 \in DOMAIN q /\ r + 1 \in DOMAIN q /\ q[p + 1] = x /\ q[r + 1] = x
      BY <1>1, <2>1
    <3> QED BY <1>1, <3>1 DEF Once
  <2>2. ASSUME q[1] = x, NEW p \in DOMAIN u, u[p] = x PROVE FALSE
    <3>1. p + 1 \in DOMAIN q /\ q[p + 1] = x /\ 1 \in DOMAIN q
      BY <1>1, <2>2
    <3> QED BY <1>1, <2>2, <3>1 DEF Once
  <2> QED BY <2>1, <2>2 DEF Has, Once
<1>4. ASSUME Follows(q, x, y) PROVE Follows(u, x, y) /\ (q[1] = x => Has(u, y))
  <2>1. ASSUME NEW p \in DOMAIN u, u[p] = x PROVE \E r \in DOMAIN u : p < r /\ u[r] = y
    <3>1. p + 1 \in DOMAIN q /\ q[p + 1] = x
      BY <1>1, <2>1
    <3>2. PICK r \in DOMAIN q : p + 1 < r /\ q[r] = y
      BY <1>4, <3>1 DEF Follows
    <3> QED BY <1>0, <1>1, <3>2
  <2>2. ASSUME q[1] = x PROVE Has(u, y)
    <3>1. PICK r \in DOMAIN q : 1 < r /\ q[r] = y
      BY <1>1, <1>4, <2>2 DEF Follows
    <3> QED BY <1>0, <1>1, <3>1 DEF Has
  <2> QED BY <2>1, <2>2 DEF Follows
<1> QED BY <1>1, <1>2, <1>3, <1>4

\* The two messages of the page that are about a channel; the server's
\* `close` is the second one too.
OpenMsg(i) == [t |-> "open", id |-> i]
CloseMsg(i) == [t |-> "close", id |-> i]

\* Before the page's socket opens nothing about an id has crossed it.
Fresh(s, i) ==
  /\ opener[s][i] = "none" /\ channels[s][i] = "none"
  /\ ~Has(toClient[s], CloseMsg(i)) /\ toServer[s] = <<>>

\* One id of a socket that both ends hold open. An `open` on its way has not
\* been seen by the server, and a page that has changed its mind has a
\* `close` behind it; an entry of the session is a channel of the page or
\* will be closed by what is on its way; a channel of the page has its `open`
\* on its way, its entry, or the `close` that ends it on its way back.
Linked(s, i) ==
  /\ opener[s][i] = "none" => channels[s][i] = "none"
  /\ channels[s][i] = "placeholder" => opener[s][i] = "awaiting"
  /\ Has(toServer[s], OpenMsg(i)) =>
       /\ opener[s][i] = "none"
       /\ i \notin handles => Follows(toServer[s], OpenMsg(i), CloseMsg(i))
  /\ Once(toServer[s], OpenMsg(i))
  /\ channels[s][i] # "none" /\ i \notin handles => Has(toServer[s], CloseMsg(i))
  /\ i \in handles =>
       \/ Has(toServer[s], OpenMsg(i)) \/ channels[s][i] # "none" \/ Has(toClient[s], CloseMsg(i))
  /\ Has(toClient[s], CloseMsg(i)) => opener[s][i] # "none" /\ channels[s][i] = "none"
  /\ Has(toServer[s], CloseMsg(i)) => i \notin handles
  /\ Has(toServer[s], OpenMsg(i)) \/ Has(toServer[s], CloseMsg(i)) \/ opener[s][i] # "none" => i < nextId

\* Both ends hold the socket open.
Talking(s) == ws = s /\ socket[s] = "open" /\ readyState[s] = "OPEN"

\* What holds of an id and a socket in every state of that socket.
Link(s, i) ==
    /\ socket[s] \in {"unused", "connecting"} => Fresh(s, i)
    /\ readyState[s] = "NONE" => socket[s] # "open"
    /\ closed[s] => readyState[s] = "CLOSED"
    /\ Talking(s) => Linked(s, i)

LinkInv == \A s \in Sessions, i \in Ids : Link(s, i)

\* A step that is not about the id.
LEMMA Untouched ==
  ASSUME TypeOK, TypeOK', NEW s \in Sessions, NEW i \in Ids, Linked(s, i),
         opener'[s][i] = opener[s][i], channels'[s][i] = channels[s][i],
         i \in handles' <=> i \in handles, nextId' \in {nextId, nextId + 1},
         Has(toClient'[s], CloseMsg(i)) <=> Has(toClient[s], CloseMsg(i)),
         \/ toServer'[s] = toServer[s]
         \/ \E m \in ClientMessage \ {OpenMsg(i), CloseMsg(i)} : toServer'[s] = Append(toServer[s], m)
         \/ /\ toServer[s] # <<>> /\ toServer'[s] = Tail(toServer[s])
            /\ Head(toServer[s]) \notin {OpenMsg(i), CloseMsg(i)}
  PROVE  Linked(s, i)'
<1> DEFINE o == OpenMsg(i)  c == CloseMsg(i)  q == toServer[s]  u == toServer'[s]
<1>1. q \in Seq(ClientMessage)
  BY DEF TypeOK, ClientTypeOK
<1>2. /\ (Has(u, o) <=> Has(q, o)) /\ (Has(u, c) <=> Has(q, c))
      /\ Once(q, o) => Once(u, o)
      /\ Follows(q, o, c) => Follows(u, o, c)
  <2> HIDE DEF o, c, q, u
  <2>1. ASSUME NEW m \in ClientMessage \ {o, c}, u = Append(q, m)
        PROVE  /\ (Has(u, o) <=> Has(q, o)) /\ (Has(u, c) <=> Has(q, c))
               /\ Once(q, o) => Once(u, o)
               /\ Follows(q, o, c) => Follows(u, o, c)
    <3>1. m \in ClientMessage /\ m # o /\ m # c
      BY <2>1
    <3>2. Appended(u, q, m)
      BY <1>1, <2>1, <3>1, AppendAppends
    <3> QED BY <3>1, <3>2, AtTheEnd
  <2>2. CASE q # <<>> /\ u = Tail(q) /\ Head(q) \notin {o, c}
    BY <1>1, <2>2, AtTheHead
  <2> QED BY <2>1, <2>2 DEF o, c, q, u
<1>3. i < nextId => i < nextId'
  BY ConnectionAssumption DEF TypeOK, ClientTypeOK
<1> HIDE DEF o, c, q, u
<1>4. /\ o' = o /\ c' = c
  BY DEF o, c, OpenMsg, CloseMsg
<1> QED BY <1>2, <1>3, <1>4 DEF Linked, o, c, q, u

\* A frame leaves a session that is talking, and no other session's queue changes.
LEMMA SendAt ==
  ASSUME TypeOK, NEW s \in Sessions, NEW m \in ServerMessage, Send(s, m), NEW r \in Sessions
  PROVE  /\ r # s => toClient'[r] = toClient[r]
         /\ ~closed[s] /\ readyState[s] = "OPEN" => Has(toClient'[s], m)
         /\ \A x : x # m => (Has(toClient'[r], x) <=> Has(toClient[r], x))
         /\ \A x : Has(toClient[r], x) => Has(toClient'[r], x)
<1>1. toClient \in [Sessions -> Seq(ServerMessage)] /\ toClient[r] \in Seq(ServerMessage)
  BY DEF TypeOK, MuxTypeOK
<1>2. CASE ~closed[s] /\ readyState[s] = "OPEN"
  <2>1. toClient' = [toClient EXCEPT ![s] = Append(@, m)]
    BY <1>2 DEF Send
  <2>2. toClient'[r] = (IF r = s THEN Append(toClient[r], m) ELSE toClient[r])
         /\ toClient'[s] = Append(toClient[s], m) /\ toClient[s] \in Seq(ServerMessage)
    BY <1>1, <2>1
  <2>3. \A x : Has(toClient'[s], x) <=> Has(toClient[s], x) \/ x = m
    <3>1. Appended(toClient'[s], toClient[s], m)
      BY <2>2, AppendAppends
    <3> QED BY <3>1, AtTheEnd
  <2> QED BY <1>1, <1>2, <2>1, <2>2, <2>3
<1>3. CASE ~(~closed[s] /\ readyState[s] = "OPEN")
  BY <1>3 DEF Send
<1> QED BY <1>2, <1>3

\* What an entry's own handlers do to it.
LEMMA HandleOpenLink ==
  ASSUME TypeOK, NEW s \in Sessions, NEW i \in Ids, Linked(s, i), ~closed[s], Talking(s),
         toServer[s] # <<>>, Head(toServer[s]) = OpenMsg(i), toServer'[s] = Tail(toServer[s]),
         HandleOpen(s, i), UNCHANGED <<handles, nextId>>
  PROVE  Linked(s, i)'
<1> DEFINE o == OpenMsg(i)  c == CloseMsg(i)  q == toServer[s]  u == toServer'[s]
           k == toClient[s]  l == toClient'[s]
<1>1. q \in Seq(ClientMessage) /\ k \in Seq(ServerMessage) /\ c \in ServerMessage
  BY DEF TypeOK, ClientTypeOK, MuxTypeOK, CloseMsg, ServerMessage
<1>2. o # c
  BY DEF OpenMsg, CloseMsg
<1>3. /\ \A x, y : /\ Has(q, x) <=> Has(u, x) \/ x = o
                   /\ Once(q, x) => Once(u, x) /\ (o = x => ~Has(u, x))
                   /\ Follows(q, x, y) => Follows(u, x, y) /\ (o = x => Has(u, y))
  BY <1>1, AtTheHead
<1>4. opener \in Table(OpenerState) /\ channels \in Table(EntryState)
  BY DEF TypeOK, MuxTypeOK
<1>5. \/ /\ channels'[s][i] = "placeholder" /\ opener'[s][i] = "awaiting" /\ l = k
      \/ /\ channels'[s][i] = "none" /\ opener'[s][i] = "threw" /\ Has(l, c)
  <2>1. CASE UNCHANGED toClient /\ opener' = [opener EXCEPT ![s][i] = "awaiting"]
             /\ channels' = [channels EXCEPT ![s][i] = "placeholder"]
    BY <1>4, <2>1 DEF Table
  <2>2. CASE opener' = [opener EXCEPT ![s][i] = "threw"] /\ UNCHANGED channels /\ Send(s, CloseMsg(i))
    <3>1. channels[s][i] = "none"
      BY DEF HandleOpen, Linked
    <3>3. Has(l, c)
      BY <1>1, <2>2, SendAt DEF Talking
    <3> QED BY <1>4, <2>2, <3>1, <3>3 DEF Table
  <2> QED BY <2>1, <2>2 DEF HandleOpen, CloseMsg
<1>6. o' = o /\ c' = c
  BY DEF OpenMsg, CloseMsg
<1>7. Has(q, o) /\ opener[s][i] = "none" /\ ~Has(k, c)
  BY <1>3 DEF Linked
<1> HIDE DEF o, c, q, u, k, l
<1> QED BY <1>2, <1>3, <1>5, <1>6, <1>7 DEF Linked, o, c, q, u, k, l

\* An opener comes back: the entry becomes live, or is gone already.
LEMMA OpenerReturnsLink ==
  ASSUME TypeOK, NEW s \in Sessions, NEW i \in Ids, Linked(s, i), ~closed[s], Talking(s),
         OpenerReturns(s, i), UNCHANGED <<handles, nextId, toServer>>
  PROVE  Linked(s, i)'
<1>1. opener \in Table(OpenerState) /\ channels \in Table(EntryState)
  BY DEF TypeOK, MuxTypeOK
<1>2. opener[s][i] = "awaiting" /\ opener'[s][i] = "returned"
  BY <1>1 DEF OpenerReturns, Table
<1>3. \/ channels[s][i] = "placeholder" /\ channels'[s][i] = "live"
      \/ channels[s][i] # "placeholder" /\ channels'[s][i] = channels[s][i]
  BY <1>1 DEF OpenerReturns, Superseded, Table
<1>4. Has(toClient'[s], CloseMsg(i)) <=> Has(toClient[s], CloseMsg(i))
  <2>1. CASE Send(s, [t |-> "opened", id |-> i])
    <3>1. [t |-> "opened", id |-> i] \in ServerMessage /\ CloseMsg(i) # [t |-> "opened", id |-> i]
      BY DEF ServerMessage, CloseMsg
    <3> QED BY <2>1, <3>1, SendAt
  <2>2. CASE UNCHANGED toClient
    BY <2>2
  <2> QED BY <2>1, <2>2 DEF OpenerReturns
<1> QED BY <1>2, <1>3, <1>4 DEF Linked, OpenMsg, CloseMsg

\* The service closes the channel, or its opener has failed: the page will be
\* told.
LEMMA ClosesLink ==
  ASSUME TypeOK, NEW s \in Sessions, NEW i \in Ids, Linked(s, i), ~closed[s], Talking(s),
         UNCHANGED <<handles, nextId>>, opener[s][i] # "none",
         opener'[s][i] # "none", channels' = [channels EXCEPT ![s][i] = "none"],
         \/ Send(s, CloseMsg(i))
         \/ channels[s][i] = "none" /\ UNCHANGED toClient,
         toServer' = toServer
  PROVE  Linked(s, i)'
<1>1. channels'[s][i] = "none"
  BY DEF TypeOK, MuxTypeOK, Table
<1>2. toClient[s] \in Seq(ServerMessage) /\ CloseMsg(i) \in ServerMessage
  BY DEF TypeOK, MuxTypeOK, CloseMsg, ServerMessage
<1>3. channels[s][i] # "none" => Has(toClient'[s], CloseMsg(i))
  BY <1>2, SendAt DEF Talking
<1>4. Has(toClient[s], CloseMsg(i)) => Has(toClient'[s], CloseMsg(i))
  BY <1>2, SendAt DEF Talking
<1> QED BY <1>1, <1>3, <1>4 DEF Linked, OpenMsg, CloseMsg

\* The page's `close` is handled; whatever the session held is gone.
LEMMA HandleCloseLink ==
  ASSUME TypeOK, NEW s \in Sessions, NEW i \in Ids, Linked(s, i), ~closed[s], Talking(s),
         toServer[s] # <<>>, Head(toServer[s]) = CloseMsg(i), toServer'[s] = Tail(toServer[s]),
         HandleClose(s, i), UNCHANGED <<handles, nextId>>
  PROVE  Linked(s, i)'
<1> DEFINE o == OpenMsg(i)  c == CloseMsg(i)  q == toServer[s]  u == toServer'[s]
<1>1. q \in Seq(ClientMessage) /\ toClient[s] \in Seq(ServerMessage) /\ c \in ServerMessage /\ o # c
  BY DEF TypeOK, ClientTypeOK, MuxTypeOK, CloseMsg, OpenMsg, ServerMessage
<1>3. /\ \A x, y : /\ Has(q, x) <=> Has(u, x) \/ x = c
                   /\ Once(q, x) => Once(u, x) /\ (c = x => ~Has(u, x))
                   /\ Follows(q, x, y) => Follows(u, x, y) /\ (c = x => Has(u, y))
  BY <1>1, AtTheHead
<1>4. channels'[s][i] = "none" /\ UNCHANGED opener
  BY DEF HandleClose, CloseChannel, TypeOK, MuxTypeOK, Table
<1>5. i \notin handles
  BY <1>3 DEF Linked
<1>6. Has(toClient'[s], c) => Has(toClient[s], c) \/ channels[s][i] # "none"
  BY DEF HandleClose, CloseChannel
<1>7. o' = o /\ c' = c
  BY DEF OpenMsg, CloseMsg
<1> HIDE DEF o, c, q, u
<1> QED BY <1>1, <1>3, <1>4, <1>5, <1>6, <1>7 DEF Linked, o, c, q, u

\* The page opens a channel with an id it has not used.
LEMMA PageOpensLink ==
  ASSUME TypeOK, NEW s \in Sessions, NEW i \in Ids, Linked(s, i), i \notin handles,
         i = nextId, nextId' = nextId + 1, handles' = handles \cup {i},
         toServer'[s] = Append(toServer[s], OpenMsg(i)), UNCHANGED <<opener, channels, toClient>>
  PROVE  Linked(s, i)'
<1> DEFINE o == OpenMsg(i)  c == CloseMsg(i)  q == toServer[s]  u == toServer'[s]
<1>1. q \in Seq(ClientMessage) /\ o \in ClientMessage /\ o # c
  BY DEF TypeOK, ClientTypeOK, CloseMsg, OpenMsg, ClientMessage
<1>2. /\ \A x, y : /\ Has(u, x) <=> Has(q, x) \/ x = o
                   /\ Once(q, x) /\ (o # x \/ ~Has(q, x)) => Once(u, x)
                   /\ o # x /\ (o = y \/ Follows(q, x, y)) => Follows(u, x, y)
  BY <1>1, AppendAppends, AtTheEnd
<1>3. nextId \in Nat /\ ~(i < nextId) /\ i < nextId'
  BY DEF TypeOK, ClientTypeOK
<1>4. opener[s][i] = "none" /\ ~Has(q, o) /\ ~Has(q, c)
  BY <1>3 DEF Linked
<1>7. o' = o /\ c' = c
  BY DEF OpenMsg, CloseMsg
<1> HIDE DEF o, c, q, u
<1> QED BY <1>1, <1>2, <1>3, <1>4, <1>7 DEF Linked, o, c, q, u

\* The page lets a channel go and says so.
LEMMA PageClosesLink ==
  ASSUME TypeOK, NEW s \in Sessions, NEW i \in Ids, Linked(s, i), i \in handles, i < nextId,
         handles' = handles \ {i},
         toServer'[s] = Append(toServer[s], CloseMsg(i)), UNCHANGED <<opener, channels, toClient, nextId>>
  PROVE  Linked(s, i)'
<1> DEFINE o == OpenMsg(i)  c == CloseMsg(i)  q == toServer[s]  u == toServer'[s]
<1>1. q \in Seq(ClientMessage) /\ c \in ClientMessage /\ o # c
  BY DEF TypeOK, ClientTypeOK, CloseMsg, OpenMsg, ClientMessage
<1>2. /\ \A x, y : /\ Has(u, x) <=> Has(q, x) \/ x = c
                   /\ Once(q, x) /\ (c # x \/ ~Has(q, x)) => Once(u, x)
                   /\ c # x /\ (c = y \/ Follows(q, x, y)) => Follows(u, x, y)
  BY <1>1, AppendAppends, AtTheEnd
<1>7. o' = o /\ c' = c
  BY DEF OpenMsg, CloseMsg
<1> HIDE DEF o, c, q, u
<1> QED BY <1>1, <1>2, <1>7 DEF Linked, o, c, q, u

\* The page is told that a channel has ended.
LEMMA PageToldLink ==
  ASSUME TypeOK, NEW s \in Sessions, NEW i \in Ids, Linked(s, i),
         handles' = handles \ {i}, toClient[s] # <<>>, Head(toClient[s]) = CloseMsg(i),
         toClient'[s] = Tail(toClient[s]), UNCHANGED <<opener, channels, toServer, nextId>>
  PROVE  Linked(s, i)'
<1> DEFINE o == OpenMsg(i)  c == CloseMsg(i)  k == toClient[s]  l == toClient'[s]
<1>1. k \in Seq(ServerMessage)
  BY DEF TypeOK, MuxTypeOK
<1>2. /\ \A x : Has(k, x) <=> Has(l, x) \/ x = c
  BY <1>1, AtTheHead
<1>3. opener[s][i] # "none" /\ channels[s][i] = "none" /\ ~Has(toServer[s], o)
  BY <1>2 DEF Linked
<1>7. o' = o /\ c' = c
  BY DEF OpenMsg, CloseMsg
<1> HIDE DEF o, c, k, l
<1> QED BY <1>2, <1>3, <1>7 DEF Linked, o, c, k, l

\* A step that leaves the id, on this socket, as it was.
LEMMA LinkApart ==
  ASSUME TypeOK, TypeOK', NEW s \in Sessions, NEW i \in Ids, Link(s, i),
         opener'[s][i] = opener[s][i], channels'[s][i] = channels[s][i],
         closed'[s] = closed[s], readyState'[s] = readyState[s], socket'[s] = socket[s],
         ws' = s => ws = s, i \in handles' <=> i \in handles, nextId' \in {nextId, nextId + 1},
         Has(toClient'[s], CloseMsg(i)) <=> Has(toClient[s], CloseMsg(i)),
         \/ toServer'[s] = toServer[s]
         \/ /\ socket[s] = "open"
            /\ \E m \in ClientMessage \ {OpenMsg(i), CloseMsg(i)} :
                 toServer'[s] = Append(toServer[s], m)
         \/ /\ toServer[s] # <<>> /\ toServer'[s] = Tail(toServer[s])
            /\ Head(toServer[s]) \notin {OpenMsg(i), CloseMsg(i)}
  PROVE  Link(s, i)'
<1>1. Talking(s)' => Linked(s, i)'
  BY Untouched DEF Link, Talking
<1>2. (socket[s] \in {"unused", "connecting"} => Fresh(s, i))'
  BY DEF Link, Fresh, CloseMsg
<1> QED BY <1>1, <1>2 DEF Link

\* A step after which the socket no longer carries anything, or does not yet.
LEMMA LinkSilent ==
  ASSUME NEW s \in Sessions, NEW i \in Ids, Link(s, i), ~Talking(s)',
         socket'[s] \in {"unused", "connecting"} =>
           /\ socket[s] \in {"unused", "connecting"}
           /\ opener'[s][i] = opener[s][i] /\ channels'[s][i] \in {channels[s][i], "none"}
           /\ Has(toClient'[s], CloseMsg(i)) => Has(toClient[s], CloseMsg(i))
           /\ toServer'[s] = toServer[s],
         readyState'[s] = "NONE" => readyState[s] = "NONE" /\ (socket'[s] = "open" => socket[s] = "open"),
         closed'[s] => readyState'[s] = "CLOSED"
  PROVE  Link(s, i)'
<1>1. (socket[s] \in {"unused", "connecting"} => Fresh(s, i))'
  BY DEF Link, Fresh, CloseMsg
<1> QED BY <1>1 DEF Link

\* What the page does of itself.
LEMMA PageLink ==
  ASSUME TypeOK, TypeOK', ClientInv, NEW s \in Sessions, NEW i \in Ids, Link(s, i), PageStep
  PROVE  Link(s, i)'
<1> USE DEF TypeOK
<1>1. /\ UNCHANGED <<opener, channels, closed, readyState, toClient>>
      /\ nextId \in Nat /\ toServer \in [Sessions -> Seq(ClientMessage)]
      /\ socket \in [Sessions -> {"unused", "connecting", "open", "closing", "gone"}]
      /\ closed[s] => readyState[s] = "CLOSED"
      /\ readyState[s] = "NONE" => socket[s] # "open"
  BY DEF PageStep, muxVars, channelVars, ClientTypeOK, Link
<1>2. ASSUME NEW r \in Sessions, Start(r) \/ TimerFires(r) PROVE Link(s, i)'
  <2>1. /\ ws = None /\ socket[r] = "unused" /\ ws' = r
        /\ socket' = [socket EXCEPT ![r] = "connecting"] /\ UNCHANGED toServer
    BY <1>2 DEF Start, TimerFires, Connect, ClientInv
  <2>2. socket'[s] = IF s = r THEN "connecting" ELSE socket[s]
    BY <1>1, <2>1
  <2>3. ~Talking(s)'
    BY <2>1, <2>2 DEF Talking
  <2> QED BY <1>1, <2>1, <2>2, <2>3, LinkSilent
<1>3. ASSUME NEW m \in ClientMessage, SendMessage(m), UNCHANGED linkVars, m \notin {OpenMsg(i), CloseMsg(i)},
             i \in handles' <=> i \in handles, nextId' \in {nextId, nextId + 1}
      PROVE Link(s, i)'
  <2>1. \/ toServer'[s] = toServer[s]
        \/ socket[s] = "open" /\ toServer'[s] = Append(toServer[s], m)
    BY <1>1, <1>3 DEF SendMessage, IsOpen
  <2> QED BY <1>1, <1>3, <2>1, LinkApart DEF linkVars
<1>4. CASE Call
  <2>1. [t |-> "req", id |-> nextId] \in ClientMessage \ {OpenMsg(i), CloseMsg(i)}
    BY <1>4 DEF Call, ClientMessage, OpenMsg, CloseMsg
  <2> QED BY <1>3, <1>4, <2>1 DEF Call
<1>5. CASE OpenChannel
  <2>1. nextId \in Ids /\ nextId' = nextId + 1 /\ UNCHANGED linkVars
    BY <1>5 DEF OpenChannel
  <2>2. CASE IsOpen /\ handles' = handles \cup {nextId} /\ SendMessage([t |-> "open", id |-> nextId])
    <3>1. OpenMsg(nextId) \in ClientMessage /\ SendMessage(OpenMsg(nextId))
      BY <2>1, <2>2 DEF ClientMessage, OpenMsg
    <3>2. CASE i # nextId
      BY <1>3, <2>1, <2>2, <3>1, <3>2 DEF OpenMsg, CloseMsg
    <3>3. CASE i = nextId /\ Talking(s)
      <4>1. toServer'[s] = Append(toServer[s], OpenMsg(i))
        BY <1>1, <2>2, <3>1, <3>3 DEF SendMessage, IsOpen, Talking
      <4>2. i \notin handles
        BY <1>1, <3>3 DEF ClientInv
      <4>3. Linked(s, i)'
        BY <1>1, <2>1, <2>2, <3>3, <4>1, <4>2, PageOpensLink DEF Link
      <4> QED BY <1>1, <2>1, <3>3, <4>3 DEF Link, Talking, linkVars
    <3>4. CASE ~Talking(s)
      <4>1. s # ws \/ socket[s] = "open"
        BY <2>2 DEF IsOpen
      <4>2. s # ws => toServer'[s] = toServer[s]
        BY <1>1, <2>2, <3>1 DEF SendMessage
      <4> QED BY <1>1, <2>1, <3>4, <4>1, <4>2, LinkSilent DEF Talking, linkVars
    <3> QED BY <3>2, <3>3, <3>4
  <2>3. CASE UNCHANGED <<handles, toServer>>
    BY <1>1, <2>1, <2>3, LinkApart DEF linkVars
  <2> QED BY <1>5, <2>2, <2>3 DEF OpenChannel
<1>6. ASSUME NEW j \in Ids, CloseHandle(j) PROVE Link(s, i)'
  <2>1. /\ CloseMsg(j) \in ClientMessage /\ SendMessage(CloseMsg(j)) /\ UNCHANGED <<linkVars, nextId>>
        /\ j \in handles /\ handles' = handles \ {j}
    BY <1>6 DEF CloseHandle, ClientMessage, CloseMsg
  <2>2. CASE i # j
    BY <1>3, <2>1, <2>2 DEF OpenMsg, CloseMsg
  <2>3. CASE i = j /\ Talking(s)
    <3>0. toServer' = [toServer EXCEPT ![s] = Append(@, CloseMsg(i))]
      BY <2>1, <2>3, ConnectionAssumption DEF SendMessage, IsOpen, Talking
    <3>1. toServer'[s] = Append(toServer[s], CloseMsg(i))
      BY <1>1, <3>0
    <3>2. i < nextId
      BY <2>1, <2>3 DEF ClientInv
    <3>3. Linked(s, i)'
      BY <1>1, <2>1, <2>3, <3>1, <3>2, PageClosesLink DEF Link
    <3> QED BY <1>1, <2>1, <2>3, <3>3 DEF Link, Talking, linkVars
  <2>4. CASE ~Talking(s)
    <3>1. socket[s] # "open" => toServer'[s] = toServer[s]
      BY <1>1, <2>1 DEF SendMessage, IsOpen
    <3> QED BY <1>1, <2>1, <2>4, <3>1, LinkSilent DEF Talking, linkVars
  <2> QED BY <2>2, <2>3, <2>4
<1>7. ASSUME NEW j \in Ids, RefuseOffline(j) PROVE Link(s, i)'
  BY <1>1, <1>7, LinkApart DEF RefuseOffline, linkVars
<1>8. CASE HostRemoved \/ Revoke
  <2>1. /\ UNCHANGED ws /\ IF ws = None THEN UNCHANGED socket ELSE socket' = [socket EXCEPT ![ws] = "closing"]
        /\ SendMessage([t |-> "fin"])
    BY <1>8 DEF HostRemoved, Revoke, Disconnect
  <2>2. s = ws => socket'[s] = "closing"
    BY <1>1, <2>1, ConnectionAssumption
  <2>3. s # ws => socket'[s] = socket[s] /\ toServer'[s] = toServer[s]
    BY <1>1, <2>1 DEF SendMessage
  <2>4. ~Talking(s)'
    BY <2>1, <2>2 DEF Talking
  <2> QED BY <1>1, <2>2, <2>3, <2>4, LinkSilent
<1> QED BY <1>2, <1>4, <1>5, <1>6, <1>7, <1>8 DEF PageStep

\* The services of the session r: an opener comes back, a channel is closed,
\* a request is answered.
LEMMA ServiceLink ==
  ASSUME TypeOK, TypeOK', NEW s \in Sessions, NEW i \in Ids, Link(s, i),
         ChannelInv(s, i), NEW r \in Sessions, NEW j \in Ids, ServiceStep(r, j),
         UNCHANGED <<clientVars, toServer>>
  PROVE  Link(s, i)'
<1>1. /\ UNCHANGED <<ws, socket, handles, nextId, toServer, closed, readyState>>
      /\ opener \in Table(OpenerState) /\ channels \in Table(EntryState)
      /\ opener' \in Table(OpenerState) /\ channels' \in Table(EntryState)
  BY DEF ServiceStep, OpenerReturns, OpenerThrows, ServiceCloses, Answer, clientVars, linkVars,
         workVars, channelVars, TypeOK, MuxTypeOK
<1>2. CASE r # s \/ j # i \/ Answer(r, j)
  <2>1. opener'[s][i] = opener[s][i] /\ channels'[s][i] = channels[s][i]
    <3>1. CASE Answer(r, j)
      BY <3>1 DEF Answer, channelVars
    <3>2. CASE r # s \/ j # i
      <4>1. /\ UNCHANGED opener \/ \E v : opener' = [opener EXCEPT ![r][j] = v]
            /\ UNCHANGED channels \/ \E v : channels' = [channels EXCEPT ![r][j] = v]
        BY DEF ServiceStep, OpenerReturns, OpenerThrows, ServiceCloses, CloseChannel, Answer,
               channelVars
      <4> QED BY <1>1, <3>2, <4>1 DEF Table
    <3> QED BY <1>2, <3>1, <3>2
  <2>2. ASSUME NEW m \in ServerMessage, Send(r, m), r # s \/ m # CloseMsg(i)
        PROVE  Has(toClient'[s], CloseMsg(i)) <=> Has(toClient[s], CloseMsg(i))
    BY <2>2, SendAt
  <2>3. Has(toClient'[s], CloseMsg(i)) <=> Has(toClient[s], CloseMsg(i))
    <3>1. CASE Answer(r, j)
      <4>1. Res(j) \in ServerMessage /\ Res(j) # CloseMsg(i) /\ Send(r, Res(j))
        BY <3>1 DEF Answer, Res, ServerMessage, CloseMsg
      <4> QED BY <2>2, <4>1
    <3>2. CASE r # s \/ j # i
      <4>1. \/ UNCHANGED toClient
            \/ Send(r, [t |-> "opened", id |-> j])
            \/ Send(r, [t |-> "close", id |-> j])
            \/ Answer(r, j)
        BY DEF ServiceStep, OpenerReturns, OpenerThrows, ServiceCloses, CloseChannel
      <4>2. CASE Send(r, [t |-> "opened", id |-> j])
        <5>1. [t |-> "opened", id |-> j] \in ServerMessage /\ [t |-> "opened", id |-> j] # CloseMsg(i)
          BY DEF ServerMessage, CloseMsg
        <5> QED BY <2>2, <4>2, <5>1
      <4>3. CASE Send(r, [t |-> "close", id |-> j])
        <5>1. [t |-> "close", id |-> j] \in ServerMessage /\ (r # s \/ [t |-> "close", id |-> j] # CloseMsg(i))
          BY <3>2 DEF ServerMessage, CloseMsg
        <5> QED BY <2>2, <4>3, <5>1
      <4> QED BY <3>1, <4>1, <4>2, <4>3
    <3> QED BY <1>2, <3>1, <3>2
  <2> QED BY <1>1, <2>1, <2>3, LinkApart
<1>3. CASE r = s /\ j = i /\ Talking(s) /\ ~Answer(r, j)
  <2>1. ~closed[s] /\ Linked(s, i)
    BY <1>3 DEF Link, Talking
  <2>2. Linked(s, i)'
    <3>1. CASE OpenerReturns(s, i)
      BY <1>1, <1>3, <2>1, <3>1, OpenerReturnsLink
    <3>2. CASE OpenerThrows(s, i)
      <4>1. /\ opener[s][i] # "none" /\ opener'[s][i] # "none"
            /\ channels' = [channels EXCEPT ![s][i] = "none"] /\ Send(s, CloseMsg(i))
        BY <1>1, <3>2 DEF OpenerThrows, CloseMsg, Table
      <4> QED BY <1>1, <1>3, <2>1, <4>1, ClosesLink
    <3>3. CASE ServiceCloses(s, i)
      <4>1. /\ channels[s][i] # "none" /\ UNCHANGED opener
            /\ channels' = [channels EXCEPT ![s][i] = "none"] /\ Send(s, CloseMsg(i))
        BY <3>3 DEF ServiceCloses, CloseChannel, CloseMsg
      <4>2. opener[s][i] # "none" /\ opener'[s][i] # "none"
        BY <2>1, <4>1 DEF Linked
      <4> QED BY <1>1, <1>3, <2>1, <4>1, <4>2, ClosesLink
    <3> QED BY <1>3, <3>1, <3>2, <3>3 DEF ServiceStep
  <2> QED BY <1>1, <1>3, <2>2 DEF Link, Talking
<1>4. CASE r = s /\ j = i /\ ~Talking(s) /\ ~Answer(r, j)
  <2>1. socket[s] \notin {"unused", "connecting"}
    BY <1>4 DEF Link, Fresh, ServiceStep, OpenerReturns, OpenerThrows, ServiceCloses
  <2> QED BY <1>1, <1>4, <2>1, LinkSilent DEF Talking, Link
<1> QED BY <1>2, <1>3, <1>4

\* What else happens on the server, and to the link.
LEMMA ServerLink ==
  ASSUME TypeOK, TypeOK', MuxInv, ClientInv, NEW s \in Sessions, NEW i \in Ids, Link(s, i), NEW r \in Sessions,
         \/ ServerStep(r) \/ HeartbeatTerminates(r) \/ PongArrives(r) \/ UpgradeAccepted(r)
         \/ UpgradeAnswered(r) \/ TokenChanged(r) \/ LinkFails(r) \/ ServerNotices(r)
  PROVE  Link(s, i)'
<1> USE DEF TypeOK
<1>1. /\ nextId \in Nat /\ toServer \in [Sessions -> Seq(ClientMessage)]
      /\ toClient \in [Sessions -> Seq(ServerMessage)]
      /\ socket \in [Sessions -> {"unused", "connecting", "open", "closing", "gone"}]
      /\ readyState \in [Sessions -> {"NONE", "OPEN", "CLOSING", "CLOSED"}]
      /\ closed \in [Sessions -> BOOLEAN]
      /\ opener \in Table(OpenerState) /\ channels \in Table(EntryState)
      /\ closed[s] => readyState[s] = "CLOSED"
      /\ readyState[s] = "NONE" => socket[s] # "open"
  BY DEF ClientTypeOK, MuxTypeOK, Link
<1>2. CASE \E j \in Ids : ServiceStep(r, j) /\ UNCHANGED <<clientVars, toServer>>
  BY <1>2, ServiceLink DEF MuxInv
<1>3. CASE UNCHANGED <<ws, socket, handles, nextId, toServer, closed, readyState, toClient, opener, channels>>
  BY <1>3, LinkApart
<1>4. CASE (TickQuiet(r) /\ UNCHANGED <<clientVars, toServer>>) \/ PongArrives(r) \/ LinkFails(r)
  BY <1>3, <1>4 DEF TickQuiet, PongArrives, Pong, LinkFails, clientVars, linkVars, workVars, muxVars, channelVars
<1>5. CASE HeartbeatTerminates(r)
  <2>1. /\ UNCHANGED <<ws, socket, handles, nextId, toServer, closed, toClient, opener, channels>>
        /\ readyState[r] # "NONE" /\ ~closed[r] /\ readyState' = [readyState EXCEPT ![r] = "CLOSING"]
    BY <1>5 DEF HeartbeatTerminates, TickTerminates, Listening, clientVars, linkVars, workVars, muxVars, channelVars
  <2>2. CASE r = s
    BY <1>1, <2>1, <2>2, LinkSilent DEF Talking
  <2>3. CASE r # s
    BY <1>1, <2>1, <2>3, LinkApart
  <2> QED BY <2>2, <2>3
<1>6. ASSUME NEW m \in ServerMessage, m # CloseMsg(i), toClient' = [toClient EXCEPT ![r] = Append(@, m)]
      PROVE  Has(toClient'[s], CloseMsg(i)) <=> Has(toClient[s], CloseMsg(i))
  <2>1. CASE r = s
    <3>1. toClient[s] \in Seq(ServerMessage) /\ toClient'[s] = Append(toClient[s], m)
      BY <1>1, <1>6, <2>1
    <3>2. Appended(toClient'[s], toClient[s], m)
      BY <3>1, AppendAppends
    <3> QED BY <1>6, <3>2, AtTheEnd
  <2>2. CASE r # s
    BY <1>1, <1>6, <2>2
  <2> QED BY <2>1, <2>2
<1>7. [t |-> "hello"] \in ServerMessage /\ [t |-> "fin"] \in ServerMessage
      /\ [t |-> "hello"] # CloseMsg(i) /\ [t |-> "fin"] # CloseMsg(i)
  BY DEF ServerMessage, CloseMsg
<1>8. CASE UpgradeAccepted(r)
  <2>1. /\ UNCHANGED <<ws, socket, handles, nextId, toServer, closed, opener, channels>>
        /\ readyState[r] = "NONE" /\ readyState' = [readyState EXCEPT ![r] = "OPEN"]
        /\ socket[r] = "connecting" /\ toClient' = [toClient EXCEPT ![r] = Append(@, [t |-> "hello"])]
    BY <1>8 DEF UpgradeAccepted, Accept, clientVars, linkVars, workVars, muxVars, channelVars
  <2>2. Has(toClient'[s], CloseMsg(i)) <=> Has(toClient[s], CloseMsg(i))
    BY <1>6, <1>7, <2>1
  <2>3. CASE r = s
    BY <1>1, <2>1, <2>2, <2>3, LinkSilent DEF Talking
  <2>4. CASE r # s
    BY <1>1, <2>1, <2>2, <2>4, LinkApart
  <2> QED BY <2>3, <2>4
<1>9. CASE TokenChanged(r)
  <2>1. /\ UNCHANGED <<ws, socket, handles, nextId, toServer, closed, opener, channels>>
        /\ readyState[r] = "OPEN" /\ readyState' = [readyState EXCEPT ![r] = "CLOSING"]
        /\ ~closed[r] /\ toClient' = [toClient EXCEPT ![r] = Append(@, [t |-> "fin"])]
    BY <1>9 DEF TokenChanged, HangUp, clientVars, linkVars, workVars, muxVars, channelVars
  <2>2. Has(toClient'[s], CloseMsg(i)) <=> Has(toClient[s], CloseMsg(i))
    BY <1>6, <1>7, <2>1
  <2>3. CASE r = s
    BY <1>1, <2>1, <2>2, <2>3, LinkSilent DEF Talking
  <2>4. CASE r # s
    BY <1>1, <2>1, <2>2, <2>4, LinkApart
  <2> QED BY <2>3, <2>4
<1>10. CASE ServerNotices(r)
  <2>1. /\ UNCHANGED <<ws, socket, handles, nextId, toServer, toClient, opener>>
        /\ readyState' = [readyState EXCEPT ![r] = "CLOSED"] /\ closed' = [closed EXCEPT ![r] = TRUE]
        /\ channels' = [channels EXCEPT ![r] = [j \in Ids |-> "none"]]
    BY <1>10 DEF ServerNotices, SocketCloses, Dispose, clientVars, linkVars, workVars, muxVars, channelVars
  <2>2. CASE r = s
    BY <1>1, <2>1, <2>2, LinkSilent DEF Talking, Table
  <2>3. CASE r # s
    BY <1>1, <2>1, <2>3, LinkApart DEF Table
  <2> QED BY <2>2, <2>3
<1>11. CASE UpgradeAnswered(r)
  <2>1. /\ UNCHANGED <<ws, handles, nextId, toServer, closed, opener, channels, toClient, readyState>>
        /\ readyState[r] # "NONE" /\ socket[r] = "connecting" /\ socket' = [socket EXCEPT ![r] = "open"]
    BY <1>11 DEF UpgradeAnswered, SocketOpens, workVars, muxVars, channelVars
  <2>2. CASE r # s
    BY <1>1, <2>1, <2>2, LinkApart
  <2>3. CASE r = s
    <3>1. i \notin handles
      BY <1>1, <2>1, <2>3 DEF ClientInv
    <3>2. Fresh(s, i)
      BY <2>1, <2>3 DEF Link
    <3>3. Linked(s, i)'
      BY <2>1, <3>1, <3>2 DEF Fresh, Linked, Has, Once, CloseMsg
    <3> QED BY <1>1, <2>1, <2>3, <3>3 DEF Link
  <2> QED BY <2>2, <2>3
<1> QED BY <1>2, <1>4, <1>5, <1>8, <1>9, <1>10, <1>11 DEF ServerStep

\* onDisconnect() lets go of the socket.
LEMMA DisconnectsLink ==
  ASSUME TypeOK, ClientInv, NEW s \in Sessions, NEW i \in Ids, Link(s, i),
         NEW r \in Sessions, NEW revoked, ws = r, OnDisconnect(r, revoked),
         UNCHANGED <<opener, channels, closed, readyState>>,
         toClient'[s] = toClient[s] \/ r = s
  PROVE  Link(s, i)'
<1>1. /\ socket \in [Sessions -> {"unused", "connecting", "open", "closing", "gone"}]
      /\ closed[s] => readyState[s] = "CLOSED" /\ ws' = None
      /\ socket' = [socket EXCEPT ![r] = "gone"] /\ UNCHANGED toServer /\ None # s
  BY ConnectionAssumption DEF TypeOK, ClientTypeOK, Link, OnDisconnect
<1>2. socket'[s] = IF r = s THEN "gone" ELSE socket[s]
  BY <1>1
<1> QED BY <1>1, <1>2, LinkSilent DEF Talking, OnDisconnect, Link

\* The page reads a frame.
LEMMA ClientReceivesLink ==
  ASSUME TypeOK, TypeOK', ClientInv, NEW s \in Sessions, NEW i \in Ids, Link(s, i),
         NEW r \in Sessions, ClientReceives(r)
  PROVE  Link(s, i)'
<1> DEFINE m == Head(toClient[r])
<1>1. /\ toClient \in [Sessions -> Seq(ServerMessage)] /\ nextId \in Nat
      /\ toClient[r] # <<>> /\ socket[r] \in {"open", "closing"} /\ ws = r
      /\ toClient' = [toClient EXCEPT ![r] = Tail(@)]
      /\ UNCHANGED <<opener, channels, closed, readyState>>
  BY DEF ClientReceives, ClientInv, TypeOK, MuxTypeOK, ClientTypeOK, muxVars, channelVars
<1>2. m \in ServerMessage
  BY <1>1
<1>3. /\ r # s => toClient'[s] = toClient[s]
      /\ r = s => /\ toClient[s] \in Seq(ServerMessage) /\ toClient[s] # <<>>
                  /\ toClient'[s] = Tail(toClient[s])
  BY <1>1
<1>4. /\ Has(toClient'[s], CloseMsg(i)) => Has(toClient[s], CloseMsg(i))
      /\ m # CloseMsg(i) => (Has(toClient'[s], CloseMsg(i)) <=> Has(toClient[s], CloseMsg(i)))
  BY <1>3, AtTheHead
<1>5. CASE m.t = "fin"
  BY <1>1, <1>3, <1>5, DisconnectsLink DEF ClientReceives
<1>6. CASE m.t # "fin" /\ socket[r] # "open"
  <2>1. UNCHANGED <<clientVars, toServer>>
    BY <1>6 DEF ClientReceives, OnServerMessage
  <2>3. CASE r = s
    BY <1>1, <1>6, <2>1, <2>3, LinkSilent DEF Talking, Link, clientVars, linkVars
  <2>4. CASE r # s
    BY <1>1, <1>3, <2>1, <2>4, LinkApart DEF clientVars, linkVars, workVars
  <2> QED BY <2>3, <2>4
<1>7. CASE m.t # "fin" /\ socket[r] = "open"
  <2>1. \/ m.t = "hello" /\ OnHello
        \/ m.t = "res" /\ OnRes(m.id)
        \/ m.t = "close" /\ OnClose(m.id)
        \/ m.t = "opened" /\ UNCHANGED <<clientVars, toServer>>
    BY <1>7 DEF ClientReceives, OnServerMessage
  <2>2. UNCHANGED <<ws, socket, nextId, toServer>>
    BY <2>1 DEF OnHello, OnRes, OnClose, clientVars, linkVars, workVars
  <2>3. m.t = "close" => m = CloseMsg(m.id) /\ m.id \in Ids
    BY <1>2 DEF CloseMsg, ServerMessage
  <2>4. CASE m = CloseMsg(i) /\ r = s
    <3>1. handles' = handles \ {i}
      BY <2>1, <2>4 DEF CloseMsg, OnClose
    <3>2. Linked(s, i) => Linked(s, i)'
      BY <1>1, <1>3, <2>2, <2>4, <3>1, PageToldLink
    <3>3. socket[s] = "open"
      BY <1>7, <2>4
    <3> QED BY <1>1, <2>2, <3>2, <3>3 DEF Link, Talking
  <2>5. CASE m = CloseMsg(i) /\ r # s
    BY <1>1, <1>3, <2>2, <2>5, LinkSilent DEF Talking, Link
  <2>6. CASE m # CloseMsg(i)
    <3>1. i \in handles' <=> i \in handles
      BY <2>1, <2>3, <2>6 DEF OnHello, OnRes, OnClose, clientVars, workVars
    <3> QED BY <1>1, <1>4, <2>2, <2>6, <3>1, LinkApart
  <2> QED BY <2>4, <2>5, <2>6
<1> QED BY <1>5, <1>6, <1>7

\* The session reads a frame.
LEMMA ServerReceivesLink ==
  ASSUME TypeOK, TypeOK', NEW s \in Sessions, NEW i \in Ids, Link(s, i),
         NEW r \in Sessions, ServerReceives(r)
  PROVE  Link(s, i)'
<1> DEFINE m == Head(toServer[r])
<1>1. /\ toServer \in [Sessions -> Seq(ClientMessage)] /\ nextId \in Nat
      /\ toServer[r] # <<>> /\ toServer' = [toServer EXCEPT ![r] = Tail(@)]
      /\ UNCHANGED <<ws, socket, handles, nextId>>
      /\ opener \in Table(OpenerState) /\ channels \in Table(EntryState)
      /\ closed \in [Sessions -> BOOLEAN]
      /\ readyState \in [Sessions -> {"NONE", "OPEN", "CLOSING", "CLOSED"}]
      /\ closed[s] => readyState[s] = "CLOSED"
  BY DEF ServerReceives, TypeOK, MuxTypeOK, ClientTypeOK, clientVars, linkVars, workVars, Link
<1>2. m \in ClientMessage
  BY <1>1
<1>3. /\ r # s => toServer'[s] = toServer[s]
      /\ r = s => toServer[s] # <<>> /\ toServer'[s] = Tail(toServer[s])
  BY <1>1
<1>4. r = s => socket[s] \notin {"unused", "connecting"}
  BY <1>1 DEF Link, Fresh
<1>5. CASE m.t = "fin"
  <2>1. /\ readyState' = [readyState EXCEPT ![r] = "CLOSED"] /\ closed' = [closed EXCEPT ![r] = TRUE]
        /\ channels' = [channels EXCEPT ![r] = [j \in Ids |-> "none"]] /\ UNCHANGED <<opener, toClient>>
    BY <1>5 DEF ServerReceives, SocketCloses, Dispose
  <2>2. CASE r = s
    BY <1>1, <1>4, <2>1, <2>2, LinkSilent DEF Talking
  <2>3. CASE r # s
    BY <1>1, <1>3, <2>1, <2>3, LinkApart DEF Table
  <2> QED BY <2>2, <2>3
<1>6. CASE m.t # "fin"
  <2>1. m.id \in Ids /\ m = [t |-> m.t, id |-> m.id]
    BY <1>2, <1>6 DEF ClientMessage
  <2>2. \/ m.t = "req" /\ HandleRequest(r, m.id)
        \/ m.t = "open" /\ HandleOpen(r, m.id)
        \/ m.t = "close" /\ HandleClose(r, m.id)
    BY <1>6 DEF ServerReceives
  <2>3. UNCHANGED <<closed, readyState>> /\ ~closed[r]
    BY <2>2 DEF HandleRequest, HandleOpen, HandleClose, Listening
  <2>4. CASE r # s \/ m \notin {OpenMsg(i), CloseMsg(i)}
    <3>1. opener'[s][i] = opener[s][i] /\ channels'[s][i] = channels[s][i]
      <4>1. CASE m.t = "req"
        BY <2>2, <4>1 DEF HandleRequest, channelVars
      <4>2. CASE m.t # "req"
        <5>1. /\ UNCHANGED opener \/ \E v : opener' = [opener EXCEPT ![r][m.id] = v]
              /\ UNCHANGED channels \/ \E v : channels' = [channels EXCEPT ![r][m.id] = v]
          BY <2>2, <4>2 DEF HandleOpen, HandleClose, CloseChannel
        <5>2. r # s \/ m.id # i
          BY <2>1, <2>2, <2>4, <4>2 DEF OpenMsg, CloseMsg
        <5> QED BY <1>1, <2>1, <5>1, <5>2 DEF Table
      <4> QED BY <4>1, <4>2
    <3>2. Has(toClient'[s], CloseMsg(i)) <=> Has(toClient[s], CloseMsg(i))
      <4>1. \/ UNCHANGED toClient
            \/ m.t # "req" /\ Send(r, CloseMsg(m.id))
        BY <2>2 DEF HandleRequest, HandleOpen, HandleClose, CloseChannel, CloseMsg
      <4>2. CASE m.t # "req" /\ Send(r, CloseMsg(m.id))
        <5>1. r # s \/ m.id # i
          BY <2>1, <2>2, <2>4, <4>2 DEF OpenMsg, CloseMsg
        <5>2. CloseMsg(m.id) \in ServerMessage /\ (r # s \/ CloseMsg(m.id) # CloseMsg(i))
          BY <2>1, <5>1 DEF CloseMsg, ServerMessage
        <5> QED BY <4>2, <5>2, SendAt
      <4> QED BY <4>1, <4>2
    <3> QED BY <1>1, <1>3, <2>3, <2>4, <3>1, <3>2, LinkApart
  <2>5. CASE r = s /\ m \in {OpenMsg(i), CloseMsg(i)} /\ ~Talking(s)
    BY <1>1, <1>4, <2>3, <2>5, LinkSilent DEF Talking, Link
  <2>6. CASE r = s /\ m = OpenMsg(i) /\ Talking(s)
    <3>1. HandleOpen(s, i)
      BY <2>2, <2>6 DEF OpenMsg
    <3>2. Linked(s, i)'
      BY <1>1, <1>3, <2>3, <2>6, <3>1, HandleOpenLink DEF Link
    <3> QED BY <1>1, <2>3, <2>6, <3>2 DEF Link, Talking
  <2>7. CASE r = s /\ m = CloseMsg(i) /\ Talking(s)
    <3>1. HandleClose(s, i)
      BY <2>2, <2>7 DEF CloseMsg
    <3>2. Linked(s, i)'
      BY <1>1, <1>3, <2>3, <2>7, <3>1, HandleCloseLink DEF Link
    <3> QED BY <1>1, <2>3, <2>7, <3>2 DEF Link, Talking
  <2> QED BY <2>4, <2>5, <2>6, <2>7
<1> QED BY <1>5, <1>6

\* Every step, whoever takes it.
LEMMA LinkStep ==
  ASSUME TypeOK, TypeOK', MuxInv, ClientInv, LinkInv, Next
  PROVE  LinkInv'
<1> SUFFICES ASSUME NEW s \in Sessions, NEW i \in Ids PROVE Link(s, i)'
  BY DEF LinkInv
<1>1. Link(s, i)
  BY DEF LinkInv
<1>2. CASE PageStep
  BY <1>1, <1>2, PageLink
<1>3. ASSUME NEW r \in Sessions, UpgradeRefused(r) \/ ClientNotices(r) PROVE Link(s, i)'
  <2>1. /\ ws = r /\ OnDisconnect(r, FALSE)
        /\ UNCHANGED <<opener, channels, closed, readyState, toClient>>
    BY <1>3 DEF UpgradeRefused, ClientNotices, ClientInv, muxVars, channelVars
  <2> QED BY <1>1, <2>1, DisconnectsLink
<1> QED BY <1>1, <1>2, <1>3, ServerLink, ClientReceivesLink, ServerReceivesLink DEF Next

\* For every id of every socket, always.
THEOREM LinkCorrect == Spec => []LinkInv
<1>1. Init => LinkInv
  BY ConnectionAssumption DEF Init, MuxInit, ClientInit, LinkInv, Link, Fresh, Has, Talking
<1>2. TypeOK /\ TypeOK' /\ MuxInv /\ ClientInv /\ LinkInv /\ [Next]_vars => LinkInv'
  <2>1. CASE UNCHANGED vars
    <3> SUFFICES ASSUME TypeOK, TypeOK', LinkInv, NEW s \in Sessions, NEW i \in Ids PROVE Link(s, i)'
      BY DEF LinkInv
    <3>1. nextId \in {nextId, nextId + 1} /\ Link(s, i)
      BY DEF LinkInv
    <3> QED BY <2>1, <3>1, LinkApart DEF vars, muxVars, channelVars, clientVars, linkVars, workVars
  <2> QED BY <2>1, LinkStep
<1> QED BY <1>1, <1>2, TypeCorrect, MuxCorrect, ClientCorrect, PTL DEF Spec

\* With nothing on its way the page and the session hold the same channels,
\* and nothing waits on a socket that is gone, however many sockets came and
\* went and whatever crossed on the wire (rpc.ts 306-345, session.ts
\* 200-345).
THEOREM TablesSettle == Spec => []SettledWhenQuiet
<1>1. ClientInv => NothingWaitsOnADeadSocket
  BY DEF ClientInv, NothingWaitsOnADeadSocket
<1>2. TypeOK /\ MuxInv /\ LinkInv => TablesAgreeWhenQuiet
  <2> SUFFICES ASSUME TypeOK, MuxInv, LinkInv, NEW s \in Sessions, Talking(s),
                      toClient[s] = <<>>, toServer[s] = <<>>,
                      \A i \in Ids : opener[s][i] # "awaiting"
               PROVE  handles = {i \in Ids : channels[s][i] = "live"}
    BY DEF TablesAgreeWhenQuiet, Talking
  <2>1. handles \subseteq Ids
    BY DEF TypeOK, ClientTypeOK
  <2>2. ASSUME NEW i \in Ids PROVE i \in handles <=> channels[s][i] = "live"
    <3>1. Linked(s, i) /\ ChannelInv(s, i)
      BY DEF LinkInv, Link, MuxInv
    <3>2. ~Has(toServer[s], OpenMsg(i)) /\ ~Has(toServer[s], CloseMsg(i)) /\ ~Has(toClient[s], CloseMsg(i))
      BY DEF Has
    <3>3. channels[s][i] \in EntryState /\ opener[s][i] # "awaiting"
      BY DEF TypeOK, MuxTypeOK, Table
    <3> QED BY <3>1, <3>2, <3>3 DEF Linked, ChannelInv, EntryState
  <2> QED BY <2>1, <2>2
<1>3. ClientInv /\ TypeOK /\ MuxInv /\ LinkInv => SettledWhenQuiet
  BY <1>1, <1>2 DEF SettledWhenQuiet
<1> QED BY <1>3, TypeCorrect, MuxCorrect, ClientCorrect, LinkCorrect, PTL
=============================================================================
