----------------------------- MODULE RpcClient -----------------------------
(***************************************************************************)
(* The browser's end of a connection (client/src/core/rpc.ts): one         *)
(* RpcClient that owns the WebSocket, reconnects with backoff, and keeps   *)
(* the calls and channels that are waiting on it. Nothing is carried over  *)
(* a reconnect: what was waiting is settled when the socket closes.        *)
(*                                                                         *)
(* `boot` follows the promise of ready(), which Desktop.start() awaits     *)
(* before any window is restored. Desktop's reaction to a refused upgrade  *)
(* (revoke) and HostRegistry.remove (disconnect) are the only ways the     *)
(* shell stops a client, and neither connects it again.                    *)
(***************************************************************************)
EXTENDS Wire, Naturals, Sequences

CONSTANT None   \* `ws` is null

VARIABLES
  ws,             \* RpcClient.ws
  socket,         \* the browser's readyState of each WebSocket
  state,          \* RpcClient.state
  attempt,        \* failed attempts since the last hello
  reconnectTimer, \* a reconnect is scheduled
  stopped,        \* RpcClient.stopped
  boot,           \* the promise start() awaits
  nextId,         \* RpcClient.nextId
  pending,        \* calls waiting for their `res`
  handles,        \* RpcClient.channels
  offline,        \* channels opened offline, their microtask still to run
  over,           \* calls settled and channels told onClose
  bornOn,         \* the socket that carried the id's first message
  toServer        \* frames the page handed to each socket, oldest first

workVars   == <<nextId, pending, handles, offline, over, bornOn>>
linkVars   == <<ws, socket, state, attempt, reconnectTimer, stopped, boot>>
clientVars == <<linkVars, workVars>>

ClientTypeOK ==
  /\ ws \in Sessions \cup {None}
  /\ socket \in [Sessions -> {"unused", "connecting", "open", "closing", "gone"}]
  /\ state \in {"closed", "connecting", "open", "reconnecting"}
  /\ attempt \in Nat
  /\ reconnectTimer \in BOOLEAN
  /\ stopped \in BOOLEAN
  /\ boot \in {"idle", "waiting", "forgotten", "up"}
  /\ nextId \in Nat
  /\ pending \subseteq Ids
  /\ handles \subseteq Ids
  /\ offline \subseteq Ids
  /\ over \subseteq Ids
  /\ bornOn \in [Ids -> Sessions \cup {None}]
  /\ toServer \in [Sessions -> Seq(ClientMessage)]

ClientInit ==
  /\ ws = None
  /\ socket = [s \in Sessions |-> "unused"]
  /\ state = "closed"
  /\ attempt = 0
  /\ reconnectTimer = FALSE
  /\ stopped = FALSE
  /\ boot = "idle"
  /\ nextId = 1
  /\ pending = {} /\ handles = {} /\ offline = {} /\ over = {}
  /\ bornOn = [i \in Ids |-> None]
  /\ toServer = [s \in Sessions |-> <<>>]

-----------------------------------------------------------------------------
IsOpen == ws # None /\ socket[ws] = "open"

\* sendMessage(): dropped unless the socket is open.
SendMessage(m) ==
  toServer' = IF IsOpen THEN [toServer EXCEPT ![ws] = Append(@, m)] ELSE toServer

\* connect(), on a socket s the page has not used yet.
Connect(s) ==
  /\ socket[s] = "unused"
  /\ ws' = s
  /\ socket' = [socket EXCEPT ![s] = "connecting"]
  /\ state' = IF attempt = 0 THEN "connecting" ELSE "reconnecting"

\* Desktop.start(): connect, then wait for the first hello.
Start(s) ==
  /\ boot = "idle"
  /\ Connect(s)
  /\ boot' = "waiting"
  /\ UNCHANGED <<attempt, reconnectTimer, stopped, workVars, toServer>>

\* The reconnect timer: connect() also clears `stopped`.
TimerFires(s) ==
  /\ reconnectTimer
  /\ reconnectTimer' = FALSE
  /\ Connect(s)
  /\ stopped' = FALSE
  /\ UNCHANGED <<attempt, boot, workVars, toServer>>

\* The handshake answer reached the browser.
SocketOpens(s) ==
  /\ socket[s] = "connecting"
  /\ socket' = [socket EXCEPT ![s] = "open"]
  /\ UNCHANGED <<ws, state, attempt, reconnectTimer, stopped, boot, workVars, toServer>>

\* call() while the socket is open; offline it rejects at once and leaves
\* nothing behind.
Call ==
  /\ IsOpen /\ nextId \in Ids
  /\ nextId' = nextId + 1
  /\ pending' = pending \cup {nextId}
  /\ bornOn' = [bornOn EXCEPT ![nextId] = ws]
  /\ SendMessage([t |-> "req", id |-> nextId])
  /\ UNCHANGED <<linkVars, handles, offline, over>>

\* openChannel(): offline, the refusal waits for a microtask.
OpenChannel ==
  /\ boot # "idle" /\ nextId \in Ids
  /\ nextId' = nextId + 1
  /\ \/ /\ IsOpen
        /\ handles' = handles \cup {nextId}
        /\ bornOn' = [bornOn EXCEPT ![nextId] = ws]
        /\ SendMessage([t |-> "open", id |-> nextId])
        /\ UNCHANGED offline
     \/ /\ ~IsOpen
        /\ offline' = offline \cup {nextId}
        /\ UNCHANGED <<handles, bornOn, toServer>>
  /\ UNCHANGED <<linkVars, pending, over>>

\* queueMicrotask(() => channel.markClosed(...)).
RefuseOffline(i) ==
  /\ i \in offline
  /\ offline' = offline \ {i}
  /\ over' = over \cup {i}
  /\ UNCHANGED <<linkVars, nextId, pending, handles, bornOn, toServer>>

\* Channel.close(): the message, then markClosed().
CloseHandle(i) ==
  /\ i \in handles
  /\ handles' = handles \ {i}
  /\ over' = over \cup {i}
  /\ SendMessage([t |-> "close", id |-> i])
  /\ UNCHANGED <<linkVars, nextId, pending, offline, bornOn>>

-----------------------------------------------------------------------------
\* onMessage(), one action per message. A socket the page is closing
\* delivers nothing any more.
OnHello ==
  /\ attempt' = 0
  /\ state' = "open"
  /\ boot' = IF boot = "waiting" THEN "up" ELSE boot
  /\ UNCHANGED <<ws, socket, reconnectTimer, stopped, workVars, toServer>>

OnRes(i) ==
  /\ pending' = pending \ {i}
  /\ over' = IF i \in pending THEN over \cup {i} ELSE over
  /\ UNCHANGED <<linkVars, nextId, handles, offline, bornOn, toServer>>

OnClose(i) ==
  /\ handles' = handles \ {i}
  /\ over' = IF i \in handles THEN over \cup {i} ELSE over
  /\ UNCHANGED <<linkVars, nextId, pending, offline, bornOn, toServer>>

\* `opened` only runs the channel's onOpen, if it is still there.
OnServerMessage(s, m) ==
  IF socket[s] # "open"
    THEN UNCHANGED <<clientVars, toServer>>
    ELSE \/ m.t = "hello" /\ OnHello
         \/ m.t = "res" /\ OnRes(m.id)
         \/ m.t = "close" /\ OnClose(m.id)
         \/ m.t = "opened" /\ UNCHANGED <<clientVars, toServer>>

\* Mutant of Settled: the calls are left to their promises.
OnlyChannelsSettled == handles

\* What onDisconnect() settles: every call and every channel.
Settled == pending \cup handles

\* Mutant of ScheduleReconnect: counts the attempt and sets no timer.
CountAttemptOnly == attempt' = attempt + 1 /\ UNCHANGED reconnectTimer

ScheduleReconnect == attempt' = attempt + 1 /\ reconnectTimer' = TRUE

\* onDisconnect(): the socket is gone, everything waiting on it is settled,
\* and unless the client was stopped the next attempt is scheduled. The
\* promise of ready() is dropped, not resolved.
OnDisconnect(s, revoked) ==
  /\ ws' = None
  /\ socket' = [socket EXCEPT ![s] = "gone"]
  /\ pending' = pending \ Settled
  /\ handles' = handles \ Settled
  /\ over' = over \cup Settled
  /\ boot' = IF boot = "waiting" THEN "forgotten" ELSE boot
  /\ \/ /\ stopped \/ revoked
        /\ stopped' = TRUE
        /\ state' = "closed"
        /\ UNCHANGED <<attempt, reconnectTimer>>
     \/ /\ ~stopped /\ ~revoked
        /\ state' = "reconnecting"
        /\ ScheduleReconnect
        /\ UNCHANGED stopped
  /\ UNCHANGED <<nextId, offline, bornOn, toServer>>

\* Mutant of CancelReconnect: the timer is left to fire.
KeepReconnect == UNCHANGED reconnectTimer

CancelReconnect == reconnectTimer' = FALSE

\* disconnect(): what it does to the socket and the timer.
Disconnect ==
  /\ boot # "idle" /\ ~stopped
  /\ stopped' = TRUE
  /\ CancelReconnect
  /\ IF ws = None THEN UNCHANGED socket ELSE socket' = [socket EXCEPT ![ws] = "closing"]
  /\ SendMessage([t |-> "fin"])
  /\ UNCHANGED <<ws, attempt, boot, workVars>>

\* HostRegistry.remove().
HostRemoved == Disconnect /\ UNCHANGED state

\* revoke(): the desktop asked over HTTP after a drop and was refused; it
\* acts on the answer only while still reconnecting.
Revoke ==
  /\ state = "reconnecting"
  /\ Disconnect
  /\ state' = "closed"

-----------------------------------------------------------------------------
\* Nothing waits on a socket that is gone: a call or a channel in the tables
\* was sent over the socket the client holds now. Otherwise the application
\* behind it would wait for an answer no connection can bring.
NothingWaitsOnADeadSocket ==
  \A i \in pending \cup handles : bornOn[i] = ws /\ ws # None

\* A client that was stopped, because its server was removed or will not have
\* it back, never makes another socket: no timer survives disconnect().
StoppedNeverReturns == [][stopped => ws' \in {ws, None}]_<<ws, stopped>>

\* ready() "resolves once the server's `hello` has arrived" (rpc.ts). After a
\* drop before the first hello it never does, and Desktop.start() with it.
ReadyResolvesOnHello == state = "open" => boot = "up"
=============================================================================
