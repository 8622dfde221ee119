---------------------------- MODULE SessionMux ----------------------------
(***************************************************************************)
(* One `Session` of the server (server/src/session.ts): the channels a     *)
(* browser opens over its WebSocket, the requests it makes, the heartbeat  *)
(* that decides it is gone, and the teardown that closes what it left.     *)
(*                                                                         *)
(* A channel is opened by a service's opener, which may take its time; the *)
(* id is reserved with a placeholder meanwhile, and every event that can   *)
(* overtake the opener is an action here: the browser closing the channel, *)
(* the service closing it, the socket going away.                          *)
(*                                                                         *)
(* What a payload says is left out: only the messages that change who      *)
(* holds a channel appear. Ids are used once, as RpcClient's counter       *)
(* guarantees, so the "already in use" answer never arises. Payload        *)
(* slicing and credit are the subject of SliceFlow.                        *)
(***************************************************************************)
EXTENDS Wire, Naturals, Sequences

VARIABLES
  readyState,   \* the server's end of the socket
  closed,       \* Session.closed: dispose() has run
  channels,     \* Session.channels: "none", "placeholder" or "live"
  opener,       \* the service's opener for the id
  onCloseRuns,  \* how often the opened channel's onClose has run
  onCloseLost,  \* the `lost` it was last told
  requests,     \* requests whose handler has not come back
  toClient,     \* frames accepted by the socket, oldest first
  quiet,        \* no sign of life since the last tick
  pinged,       \* Session.pinged
  asked,        \* the browser's own `close` for the id has been handled
  served        \* the service itself closed the channel

channelVars == <<channels, opener, onCloseRuns, onCloseLost, asked, served>>
beatVars    == <<quiet, pinged>>
muxVars     == <<readyState, closed, channelVars, requests, beatVars>>

EntryState  == {"none", "placeholder", "live"}
OpenerState == {"none", "awaiting", "returned", "threw"}

MuxTypeOK ==
  /\ readyState  \in [Sessions -> {"NONE", "OPEN", "CLOSING", "CLOSED"}]
  /\ closed      \in [Sessions -> BOOLEAN]
  /\ channels    \in Table(EntryState)
  /\ opener      \in Table(OpenerState)
  /\ onCloseRuns \in Table(Nat)
  /\ onCloseLost \in Table(BOOLEAN)
  /\ requests    \in [Sessions -> SUBSET Ids]
  /\ toClient    \in [Sessions -> Seq(ServerMessage)]
  /\ quiet       \in [Sessions -> BOOLEAN]
  /\ pinged      \in [Sessions -> BOOLEAN]
  /\ asked       \in Table(BOOLEAN)
  /\ served      \in Table(BOOLEAN)

MuxInit ==
  /\ readyState  = [s \in Sessions |-> "NONE"]
  /\ closed      = [s \in Sessions |-> FALSE]
  /\ channels    = [s \in Sessions |-> [i \in Ids |-> "none"]]
  /\ opener      = [s \in Sessions |-> [i \in Ids |-> "none"]]
  /\ onCloseRuns = [s \in Sessions |-> [i \in Ids |-> 0]]
  /\ onCloseLost = [s \in Sessions |-> [i \in Ids |-> FALSE]]
  /\ requests    = [s \in Sessions |-> {}]
  /\ toClient    = [s \in Sessions |-> <<>>]
  /\ quiet       = [s \in Sessions |-> FALSE]
  /\ pinged      = [s \in Sessions |-> FALSE]
  /\ asked       = [s \in Sessions |-> [i \in Ids |-> FALSE]]
  /\ served      = [s \in Sessions |-> [i \in Ids |-> FALSE]]

-----------------------------------------------------------------------------
\* send(): nothing leaves a closed session or a socket that is closing.
Send(s, m) ==
  toClient' = IF ~closed[s] /\ readyState[s] = "OPEN"
                THEN [toClient EXCEPT ![s] = Append(@, m)]
                ELSE toClient

\* The socket hands over messages until it is closed, CLOSING included.
Listening(s) == readyState[s] \in {"OPEN", "CLOSING"} /\ ~closed[s]

\* seen(): a message, a pong or bytes of ours that were taken.
Seen(s) ==
  /\ quiet'  = [quiet EXCEPT ![s] = FALSE]
  /\ pinged' = [pinged EXCEPT ![s] = FALSE]

\* The onClose of the channels in I of session s: it runs for the live ones,
\* a placeholder has none.
RunOnClose(s, I, lost) ==
  LET live == {i \in I : channels[s][i] = "live"} IN
  /\ onCloseRuns' = [onCloseRuns EXCEPT ![s] =
       [i \in Ids |-> IF i \in live THEN @[i] + 1 ELSE @[i]]]
  /\ onCloseLost' = [onCloseLost EXCEPT ![s] =
       [i \in Ids |-> IF i \in live THEN lost ELSE @[i]]]

\* Mutant of CloseChannel: the other side is not told.
CloseChannelSilently(s, i) ==
  /\ channels' = [channels EXCEPT ![s][i] = "none"]
  /\ RunOnClose(s, {i}, FALSE)
  /\ UNCHANGED toClient

\* closeChannel(): idempotent, so an id that is gone changes nothing.
CloseChannel(s, i) ==
  /\ channels' = [channels EXCEPT ![s][i] = "none"]
  /\ RunOnClose(s, {i}, FALSE)
  /\ IF channels[s][i] = "none"
       THEN UNCHANGED toClient
       ELSE Send(s, [t |-> "close", id |-> i])

\* dispose(): every channel is closed as lost; `closed` is set first, so no
\* `close` message goes out.
Dispose(s) ==
  /\ closed'   = [closed EXCEPT ![s] = TRUE]
  /\ channels' = [channels EXCEPT ![s] = [i \in Ids |-> "none"]]
  /\ RunOnClose(s, Ids, TRUE)

-----------------------------------------------------------------------------
\* constructor: the upgrade was accepted and the hello goes out first.
Accept(s) ==
  /\ readyState[s] = "NONE"
  /\ readyState' = [readyState EXCEPT ![s] = "OPEN"]
  /\ toClient' = [toClient EXCEPT ![s] = Append(@, [t |-> "hello"])]
  /\ UNCHANGED <<closed, channelVars, requests, beatVars>>

\* handleRequest(), up to the await of the handler.
HandleRequest(s, i) ==
  /\ Listening(s)
  /\ requests' = [requests EXCEPT ![s] = @ \cup {i}]
  /\ Seen(s)
  /\ UNCHANGED <<readyState, closed, channelVars, toClient>>

Res(i) == [t |-> "res", id |-> i]

\* The handler came back, with a result or an error: one `res` either way.
Answer(s, i) ==
  /\ i \in requests[s]
  /\ requests' = [requests EXCEPT ![s] = @ \ {i}]
  /\ Send(s, Res(i))
  /\ UNCHANGED <<readyState, closed, channelVars, beatVars>>

\* handleOpen(), up to the await: the id is reserved, or the service has no
\* such channel and the browser is told at once.
HandleOpen(s, i) ==
  /\ Listening(s)
  /\ opener[s][i] = "none"
  /\ \/ /\ channels' = [channels EXCEPT ![s][i] = "placeholder"]
        /\ opener' = [opener EXCEPT ![s][i] = "awaiting"]
        /\ UNCHANGED toClient
     \/ /\ opener' = [opener EXCEPT ![s][i] = "threw"]
        /\ Send(s, [t |-> "close", id |-> i])
        /\ UNCHANGED channels
  /\ Seen(s)
  /\ UNCHANGED <<readyState, closed, onCloseRuns, onCloseLost, requests, asked, served>>

\* Mutant of Superseded: no check at all.
NeverSuperseded(s, i) == FALSE

\* While the opener was at work its placeholder was closed, or everything was.
Superseded(s, i) == closed[s] \/ channels[s][i] # "placeholder"

\* Mutant of LateLost: closed on the spot, whatever the reason.
NeverLateLost(s) == FALSE

\* onClose(this.closed): what a superseded channel is told.
LateLost(s) == closed[s]

\* handleOpen() after the await. The channel becomes live only if its
\* placeholder is still there; otherwise it is closed on the spot, lost when
\* the session has been disposed of meanwhile.
OpenerReturns(s, i) ==
  /\ opener[s][i] = "awaiting"
  /\ opener' = [opener EXCEPT ![s][i] = "returned"]
  /\ \/ /\ ~Superseded(s, i)
        /\ channels' = [channels EXCEPT ![s][i] = "live"]
        /\ Send(s, [t |-> "opened", id |-> i])
        /\ UNCHANGED <<onCloseRuns, onCloseLost>>
     \/ /\ Superseded(s, i)
        /\ onCloseRuns' = [onCloseRuns EXCEPT ![s][i] = @ + 1]
        /\ onCloseLost' = [onCloseLost EXCEPT ![s][i] = LateLost(s)]
        /\ UNCHANGED <<channels, toClient>>
  /\ UNCHANGED <<readyState, closed, requests, asked, served, beatVars>>

\* handleOpen()'s catch: the opener rejected.
OpenerThrows(s, i) ==
  /\ opener[s][i] = "awaiting"
  /\ opener' = [opener EXCEPT ![s][i] = "threw"]
  /\ channels' = [channels EXCEPT ![s][i] = "none"]
  /\ Send(s, [t |-> "close", id |-> i])
  /\ UNCHANGED <<readyState, closed, onCloseRuns, onCloseLost, requests, asked, served, beatVars>>

\* The browser's `close` message.
HandleClose(s, i) ==
  /\ Listening(s)
  /\ CloseChannel(s, i)
  /\ asked' = [asked EXCEPT ![s][i] = TRUE]
  /\ Seen(s)
  /\ UNCHANGED <<readyState, closed, opener, requests, served>>

\* ctx.close(): the service ends the channel, perhaps before its opener has
\* returned (a program that died at once).
ServiceCloses(s, i) ==
  /\ channels[s][i] # "none"
  /\ CloseChannel(s, i)
  /\ served' = [served EXCEPT ![s][i] = TRUE]
  /\ UNCHANGED <<readyState, closed, opener, requests, asked, beatVars>>

-----------------------------------------------------------------------------
\* close(): another desktop changed the token. Only the frame goes out; the
\* socket's own close event does the rest.
HangUp(s) ==
  /\ ~closed[s] /\ readyState[s] = "OPEN"
  /\ readyState' = [readyState EXCEPT ![s] = "CLOSING"]
  /\ toClient' = [toClient EXCEPT ![s] = Append(@, [t |-> "fin"])]
  /\ UNCHANGED <<closed, channelVars, requests, beatVars>>

\* ws.on('pong').
Pong(s) ==
  /\ Listening(s) /\ pinged[s]
  /\ Seen(s)
  /\ UNCHANGED <<readyState, closed, channelVars, requests, toClient>>

\* Mutant of Unanswered: a ping is never held against the connection.
NeverUnanswered(s) == FALSE

\* The ping of the last tick, and nothing since.
Unanswered(s) == quiet[s] /\ pinged[s]

\* tick() of a connection that showed life since the last one, or is asked to.
TickQuiet(s) ==
  /\ Listening(s)
  /\ \/ ~quiet[s] /\ UNCHANGED pinged
     \/ quiet[s] /\ ~pinged[s] /\ pinged' = [pinged EXCEPT ![s] = TRUE]
  /\ quiet' = [quiet EXCEPT ![s] = TRUE]
  /\ UNCHANGED <<readyState, closed, channelVars, requests, toClient>>

\* tick() of one that was pinged and stayed silent: ws.terminate().
TickTerminates(s) ==
  /\ Listening(s) /\ Unanswered(s)
  /\ readyState' = [readyState EXCEPT ![s] = "CLOSING"]
  /\ UNCHANGED <<closed, channelVars, requests, toClient, beatVars>>

\* ws.on('close') and ws.on('error').
SocketCloses(s) ==
  /\ Listening(s)
  /\ readyState' = [readyState EXCEPT ![s] = "CLOSED"]
  /\ Dispose(s)
  /\ UNCHANGED <<opener, requests, toClient, asked, served, beatVars>>

-----------------------------------------------------------------------------
\* The openers and handlers of the services, and their own ctx.close().
ServiceStep(s, i) ==
  \/ OpenerReturns(s, i) \/ OpenerThrows(s, i)
  \/ ServiceCloses(s, i) \/ Answer(s, i)

-----------------------------------------------------------------------------
(* What services are promised (server/src/service.ts, OpenedChannel.onClose). *)

\* A channel an opener returned is either in the table of a living session
\* with its onClose yet to run, or its onClose has run once: "Always runs
\* exactly once". An opener that comes back after the socket has gone leaves
\* nothing in a table that nobody will ever empty.
OnCloseExactlyOnce ==
  \A s \in Sessions, i \in Ids :
    opener[s][i] = "returned" =>
      onCloseRuns[s][i] = IF channels[s][i] = "live" /\ ~closed[s] THEN 0 ELSE 1

\* A dropped connection is never mistaken for a closed window: a channel told
\* it was not lost was closed by its browser or by its own service. A terminal
\* hangs its shell up on that word.
DropIsNeverAHangUp ==
  \A s \in Sessions, i \in Ids :
    onCloseRuns[s][i] > 0 /\ ~onCloseLost[s][i] => asked[s][i] \/ served[s][i]

\* service.ts says `lost` means the connection vanished without the client
\* asking. A window closed while its opener was still at work, whose
\* connection then drops, is told lost although the client did ask.
LostMeansNobodyAsked ==
  \A s \in Sessions, i \in Ids :
    onCloseRuns[s][i] > 0 /\ onCloseLost[s][i] => ~asked[s][i]
=============================================================================
