----------------------------- MODULE FilePortal -----------------------------
(***************************************************************************)
(* The file dialogs of a graphical application: the portal that answers    *)
(* its requests (server/src/portal.ts), the session that passes them on    *)
(* (services/wayland.ts) and the window that shows them (`choosers` of     *)
(* client/src/apps/wayland/index.ts). The portal is on the session's own   *)
(* bus, where it has to ask for the sender's pid first, or behind the      *)
(* proxy of a snap (BusProxy.tla), which tells it who has gone. What is    *)
(* chosen in a dialog is FileChooser's.                                    *)
(***************************************************************************)
EXTENDS Naturals, FiniteSets, Sequences

CONSTANTS
  Requests, Senders,
  MaxAttaches   \* bound: times a window picks the session up

\* What the constants have to be; where the module is instantiated it is assumed.
FilePortalAssumption == MaxAttaches \in Nat

VARIABLES
  proxied,      \* there is a BusProxy
  request,      \* per request: "unmade", "looking" for the sender, "pending" or "over"
  sender,       \* per request
  here,         \* the senders that are on the bus
  heard,        \* per request, the responses the application has had
  portalClosed,
  down, up,     \* what is under way to the window, and from it
  choosers,     \* the dialogs on the window
  attaches

portalVars ==
  <<proxied, request, sender, here, heard, portalClosed, down, up, choosers, attaches>>

Init ==
  /\ proxied \in BOOLEAN
  /\ request = [r \in Requests |-> "unmade"]
  /\ sender \in [Requests -> Senders] /\ here = Senders
  /\ heard = [r \in Requests |-> <<>>]
  /\ portalClosed = FALSE /\ down = <<>> /\ up = <<>> /\ choosers = {} /\ attaches = 1

Pending == {r \in Requests : request[r] = "pending"}
Deliver(r) == <<"portal", r>>
Dismiss(r) == <<"portal-close", r>>

\* send(): to the window there is. A window that is gone has nothing under way.
Attached == attaches % 2 = 1
Send(ms) == down' = IF Attached THEN down \o ms ELSE down

\* emitResponse(), for a set of requests.
Response(rs, code) ==
  heard' = [r \in Requests |->
              IF r \in rs /\ sender[r] \in here THEN Append(heard[r], code) ELSE heard[r]]

\* The members of a set one after another, in whichever order.
InTurn(rs) ==
  {q \in UNION {[1..n -> rs] : n \in 0..Cardinality(rs)} :
     \A r \in rs : \E k \in DOMAIN q : q[k] = r /\ \A j \in DOMAIN q : q[j] = r => j = k}

\* The dialogs of a set of requests are taken down.
DismissAll(rs) == \E q \in InTurn(rs) : Send([k \in 1..Len(q) |-> Dismiss(q[k])])

\* chooser(): without a proxy the bus is asked for the sender's pid first.
Asks(r) ==
  /\ request[r] = "unmade" /\ sender[r] \in here /\ ~portalClosed
  /\ IF proxied THEN request' = [request EXCEPT ![r] = "pending"] /\ Send(<<Deliver(r)>>)
     ELSE request' = [request EXCEPT ![r] = "looking"] /\ UNCHANGED down
  /\ UNCHANGED <<proxied, sender, here, heard, portalClosed, up, choosers, attaches>>

Looked(r) ==
  /\ request[r] = "looking"
  /\ request' = [request EXCEPT ![r] = "pending"]
  /\ Send(<<Deliver(r)>>)
  /\ UNCHANGED <<proxied, sender, here, heard, portalClosed, up, choosers, attaches>>

Ended(rs) == request' = [r \in Requests |-> IF r \in rs THEN "over" ELSE request[r]]

\* The application closes its own request.
Withdraws(r) ==
  /\ request[r] = "pending" /\ sender[r] \in here /\ ~portalClosed
  /\ Ended({r}) /\ Response({r}, "ended") /\ Send(<<Dismiss(r)>>)
  /\ UNCHANGED <<proxied, sender, here, portalClosed, up, choosers, attaches>>

\* Mutant of Forgotten: only the names are forgotten.
NoneForgotten(s) == {}

\* The requests forget() takes down.
Forgotten(s) == {r \in Pending : sender[r] = s}

\* An application's connection goes. Only a proxy hears of it.
Leaves(s) ==
  /\ s \in here /\ here' = here \ {s}
  /\ IF proxied THEN Ended(Forgotten(s)) /\ DismissAll(Forgotten(s))
     ELSE UNCHANGED <<request, down>>
  /\ UNCHANGED <<proxied, sender, heard, portalClosed, up, choosers, attaches>>

\* releasePortal(): a proxy drops its connections first, which then hear nothing.
Closes ==
  /\ ~portalClosed /\ portalClosed' = TRUE
  /\ Ended(Pending)
  /\ IF proxied THEN DismissAll(Pending) /\ here' = {} /\ UNCHANGED heard
     ELSE Response(Pending, "ended") /\ UNCHANGED <<down, here>>
  /\ UNCHANGED <<proxied, sender, up, choosers, attaches>>

\* Mutant of Responds: the request stays where it was.
RespondsAgain(r, code) == Response({r} \cap Pending, code) /\ UNCHANGED request

\* respond().
Responds(r, code) == Response({r} \cap Pending, code) /\ Ended({r} \cap Pending)

ServerReads ==
  /\ up # <<>> /\ up' = Tail(up)
  /\ Responds(Head(up)[1], Head(up)[2])
  /\ UNCHANGED <<proxied, sender, here, portalClosed, down, choosers, attaches>>

Detaches ==
  /\ Attached /\ attaches < 2 * MaxAttaches
  /\ attaches' = attaches + 1 /\ down' = <<>> /\ up' = <<>>
  /\ UNCHANGED <<proxied, request, sender, here, heard, portalClosed, choosers>>

\* Mutant of Redelivered: the window asks for nothing again.
NothingRedelivered == {}

\* redeliver().
Redelivered == Pending

\* A window picks the session up, one whose browser was lost or another one, with
\* no dialogs: reset().
Attaches ==
  /\ ~Attached
  /\ attaches' = attaches + 1 /\ choosers' = {}
  /\ \E q \in InTurn(Redelivered) : down' = [k \in 1..Len(q) |-> Deliver(q[k])]
  /\ UNCHANGED <<proxied, request, sender, here, heard, portalClosed, up>>

WindowReads ==
  /\ down # <<>> /\ down' = Tail(down)
  /\ choosers' = IF Head(down)[1] = "portal" THEN choosers \cup {Head(down)[2]}
                 ELSE choosers \ {Head(down)[2]}
  /\ UNCHANGED <<proxied, request, sender, here, heard, portalClosed, up, attaches>>

\* `channel?.ctl`: nothing is sent by a window that has lost its channel.
Answers(r, code) ==
  /\ r \in choosers /\ choosers' = choosers \ {r}
  /\ up' = IF Attached THEN Append(up, <<r, code>>) ELSE up
  /\ UNCHANGED <<proxied, request, sender, here, heard, portalClosed, down, attaches>>

Next ==
  \/ \E r \in Requests : \/ Asks(r) \/ Looked(r) \/ Withdraws(r)
                         \/ \E code \in {"success", "cancelled"} : Answers(r, code)
  \/ \E s \in Senders : Leaves(s)
  \/ Closes \/ ServerReads \/ Detaches \/ Attaches \/ WindowReads

Spec == Init /\ [][Next]_portalVars

Quiet == Attached /\ ~portalClosed /\ down = <<>> /\ up = <<>>

\* An application gets one answer for each request, and whenever nothing is under
\* way the dialogs on the window are those an application waits for, whoever left
\* and whichever window came back (portal.ts 291-309).
DialogsAreAnswered ==
  /\ \A r \in Requests : /\ Len(heard[r]) <= 1
                         /\ request[r] = "pending" => heard[r] = <<>>
                         /\ (request[r] = "over" /\ sender[r] \in here) => heard[r] # <<>>
  /\ Quiet => choosers = Pending
  /\ proxied => \A r \in Pending : sender[r] \in here
=============================================================================
