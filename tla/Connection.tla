----------------------------- MODULE Connection -----------------------------
(***************************************************************************)
(* A page and its server over the WebSockets the page makes one after the  *)
(* other: RpcClient and SessionMux joined by two ordered queues per        *)
(* socket. The old session outlives its socket on the server until the     *)
(* server notices, so two sessions of one page can be alive at once.       *)
(*                                                                         *)
(* A link is cut silently: nothing passes any more, and each side finds    *)
(* out on its own, the browser from its TCP stack, the server from there   *)
(* or from the heartbeat. MaxFaults bounds cuts and refused upgrades; the  *)
(* sockets are numbered and there is always one left for the next attempt. *)
(***************************************************************************)
EXTENDS SessionMux, RpcClient

CONSTANT MaxFaults   \* cuts, refused upgrades and hang-ups

VARIABLES
  cut,      \* the link passes nothing any more
  faults    \* how many of the MaxFaults have happened

vars == <<muxVars, toClient, clientVars, toServer, cut, faults>>

ASSUME ConnectionAssumption ==
  /\ MaxFaults \in Nat
  /\ Ids \subseteq Nat \ {0}
  /\ None \notin Sessions

TypeOK ==
  /\ MuxTypeOK
  /\ ClientTypeOK
  /\ cut \in [Sessions -> BOOLEAN]
  /\ faults \in Nat

Init ==
  /\ MuxInit
  /\ ClientInit
  /\ cut = [s \in Sessions |-> FALSE]
  /\ faults = 0

Fault == faults < MaxFaults /\ faults' = faults + 1

-----------------------------------------------------------------------------
\* The page: its own calls, and its timer.
PageStep ==
  /\ \/ \E s \in Sessions : Start(s) \/ TimerFires(s)
     \/ Call \/ OpenChannel
     \/ \E i \in Ids : RefuseOffline(i) \/ CloseHandle(i)
     \/ HostRemoved \/ Revoke
  /\ UNCHANGED <<muxVars, toClient, cut, faults>>

\* The services of the server, and the heartbeat.
ServerStep(s) ==
  /\ \/ \E i \in Ids : ServiceStep(s, i)
     \/ TickQuiet(s)
  /\ UNCHANGED <<clientVars, toServer, cut, faults>>

\* ws.terminate() destroys the socket, queued bytes included. On a link that
\* still passes it is a fault like any other: one too slow for its pong.
HeartbeatTerminates(s) ==
  /\ TickTerminates(s)
  /\ cut' = [cut EXCEPT ![s] = TRUE]
  /\ IF cut[s] THEN UNCHANGED faults ELSE Fault
  /\ UNCHANGED <<clientVars, toServer>>

\* A pong is answered by the browser itself, if the link still passes it.
PongArrives(s) ==
  /\ ~cut[s] /\ socket[s] = "open"
  /\ Pong(s)
  /\ UNCHANGED <<clientVars, toServer, cut, faults>>

\* The upgrade reaches the server, and its answer the browser.
UpgradeAccepted(s) ==
  /\ socket[s] = "connecting"
  /\ Accept(s)
  /\ UNCHANGED <<clientVars, toServer, cut, faults>>

UpgradeAnswered(s) ==
  /\ readyState[s] # "NONE" /\ ~cut[s]
  /\ SocketOpens(s)
  /\ UNCHANGED <<muxVars, toClient, cut, faults>>

UpgradeRefused(s) ==
  /\ socket[s] = "connecting" /\ readyState[s] = "NONE"
  /\ Fault
  /\ OnDisconnect(s, FALSE)
  /\ UNCHANGED <<muxVars, toClient, cut>>

\* Another desktop changed the token and hangs up on this one.
TokenChanged(s) ==
  /\ Fault
  /\ HangUp(s)
  /\ UNCHANGED <<clientVars, toServer, cut>>

LinkFails(s) ==
  /\ ~cut[s] /\ readyState[s] \in {"OPEN", "CLOSING"}
  /\ Fault
  /\ cut' = [cut EXCEPT ![s] = TRUE]
  /\ UNCHANGED <<muxVars, toClient, clientVars, toServer>>

\* The socket's close event on either side: the link failed, or the other
\* side went first and what it had sent has been read.
ClientNotices(s) ==
  /\ ws = s
  /\ \/ cut[s]
     \/ readyState[s] = "CLOSED" /\ (toClient[s] = <<>> \/ socket[s] = "closing")
     \/ readyState[s] = "NONE" /\ socket[s] = "closing"
  /\ OnDisconnect(s, FALSE)
  /\ UNCHANGED <<muxVars, toClient, cut, faults>>

ServerNotices(s) ==
  /\ cut[s] \/ socket[s] = "gone"
  /\ SocketCloses(s)
  /\ UNCHANGED <<clientVars, toServer, cut, faults>>

ClientReceives(s) ==
  /\ ~cut[s] /\ toClient[s] # <<>> /\ socket[s] \in {"open", "closing"}
  /\ toClient' = [toClient EXCEPT ![s] = Tail(@)]
  /\ LET m == Head(toClient[s]) IN
       IF m.t = "fin" THEN OnDisconnect(s, TRUE) ELSE OnServerMessage(s, m)
  /\ UNCHANGED <<muxVars, cut, faults>>

ServerReceives(s) ==
  /\ ~cut[s] /\ toServer[s] # <<>>
  /\ toServer' = [toServer EXCEPT ![s] = Tail(@)]
  /\ LET m == Head(toServer[s]) IN
       \/ m.t = "req"   /\ HandleRequest(s, m.id)
       \/ m.t = "open"  /\ HandleOpen(s, m.id)
       \/ m.t = "close" /\ HandleClose(s, m.id)
       \/ m.t = "fin"   /\ SocketCloses(s)
  /\ UNCHANGED <<clientVars, cut, faults>>

Next ==
  \/ PageStep
  \/ \E s \in Sessions :
       \/ ServerStep(s) \/ HeartbeatTerminates(s) \/ PongArrives(s)
       \/ UpgradeAccepted(s) \/ UpgradeAnswered(s) \/ UpgradeRefused(s)
       \/ TokenChanged(s) \/ LinkFails(s)
       \/ ClientNotices(s) \/ ServerNotices(s)
       \/ ClientReceives(s) \/ ServerReceives(s)

Spec == Init /\ [][Next]_vars

\* Timers fire, a live link delivers, openers and handlers come back, and
\* the heartbeat runs. The user owes nothing, the network owes no failure, and
\* the server's TCP stack need not report a link that went silent: that is
\* what the heartbeat is for.
Fairness ==
  /\ WF_vars(\E i \in Ids : RefuseOffline(i) /\ UNCHANGED <<muxVars, toClient, cut, faults>>)
  /\ WF_vars(\E s \in Sessions : TimerFires(s) /\ UNCHANGED <<muxVars, toClient, cut, faults>>)
  /\ \A s \in Sessions :
       /\ WF_vars(UpgradeAccepted(s)) /\ WF_vars(UpgradeAnswered(s))
       /\ WF_vars(ClientReceives(s)) /\ WF_vars(ServerReceives(s))
       /\ WF_vars(ClientNotices(s))
       /\ WF_vars(TickQuiet(s) /\ UNCHANGED <<clientVars, toServer, cut, faults>>)
       /\ WF_vars(HeartbeatTerminates(s))
       /\ WF_vars(~(cut[s] /\ readyState[s] = "OPEN") /\ ServerNotices(s))
       /\ \A i \in Ids :
            /\ WF_vars((OpenerReturns(s, i) \/ OpenerThrows(s, i))
                        /\ UNCHANGED <<clientVars, toServer, cut, faults>>)
            /\ WF_vars(Answer(s, i) /\ UNCHANGED <<clientVars, toServer, cut, faults>>)

FairSpec == Spec /\ Fairness

-----------------------------------------------------------------------------
\* The two tables agree whenever nothing is on its way: with both ends open,
\* both queues empty and no opener at work, the page holds exactly the
\* channels the session does. A channel on one side only would be a program
\* nobody can reach or a window nothing will ever answer.
TablesAgreeWhenQuiet ==
  \A s \in Sessions :
    (/\ ws = s /\ socket[s] = "open" /\ readyState[s] = "OPEN"
     /\ toClient[s] = <<>> /\ toServer[s] = <<>>
     /\ \A i \in Ids : opener[s][i] # "awaiting")
    => handles = {i \in Ids : channels[s][i] = "live"}

\* A request that was sent is settled in the end, by its answer or by the
\* end of its connection.
CallsSettle == \A i \in Ids : i \in pending ~> i \in over

\* A link that failed is noticed by the server in the end, whatever the
\* browser does: the heartbeat terminates it and dispose() runs.
LostSessionsAreDisposed ==
  \A s \in Sessions : (cut[s] /\ readyState[s] # "NONE") ~> closed[s]

\* A client that lost its server is connected again or has been stopped.
ComesBack == state = "reconnecting" ~> state \in {"open", "closed"} \/ stopped
\* What the two ends hold of each other once the dust has settled: nothing
\* waits on a socket that is gone (rpc.ts 306-345), and with nothing on its way
\* both hold the same channels (session.ts 200-345).
SettledWhenQuiet == NothingWaitsOnADeadSocket /\ TablesAgreeWhenQuiet

\* Nothing hangs: calls are settled, sessions whose link went silent are
\* disposed of by the heartbeat (index.ts), and a page that lost its server
\* comes back (rpc.ts 306-345).
NothingHangs == CallsSettle /\ LostSessionsAreDisposed /\ ComesBack
=============================================================================
