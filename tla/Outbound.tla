------------------------------ MODULE Outbound ------------------------------
(***************************************************************************)
(* Dialling a relay instead of listening (server/src/outbound.ts): the     *)
(* sockets a host has opened, the redials it has scheduled and stop().     *)
(* The delay of a redial is left out. A session on an open socket is       *)
(* SessionMux's. The events of a socket are those of the ws library: one   *)
(* that fails emits `error` and then `close`.                              *)
(***************************************************************************)
EXTENDS Naturals

CONSTANT Dials   \* the sockets dialled, in order: a bound
\* What the constants have to be; where the module is instantiated it is assumed.
OutboundAssumption == Dials \in Nat \ {0}

VARIABLES
  socket,        \* per dial: "unused", "connecting", "open", "failed" or "closed"
  redials,       \* redial timers that are set; `timer` holds the last of them
  dialStopped

outboundVars == <<socket, redials, dialStopped>>

InUse(i) == socket[i] \in {"connecting", "open", "failed"}
NextDial == CHOOSE i \in 1..Dials : socket[i] = "unused" /\ \A j \in 1..i - 1 : socket[j] # "unused"

Init ==
  /\ socket = [i \in 1..Dials |-> IF i = 1 THEN "connecting" ELSE "unused"]
  /\ redials = 0 /\ dialStopped = FALSE

\* Mutant of Redials: a relay that refuses is not tried again.
RedialsOnClose(was) == was = "open"

\* Which events schedule a redial: `close`, whatever was before, and `error`.
Redials(was) == TRUE

\* reconnect().
Reconnect(was) ==
  IF dialStopped \/ ~Redials(was) THEN UNCHANGED redials
  ELSE redials' = redials + 1

Opens(i) ==
  /\ socket[i] = "connecting"
  /\ socket' = [socket EXCEPT ![i] = "open"]
  /\ UNCHANGED <<redials, dialStopped>>

\* An `error`: the handshake is refused or times out, or the socket breaks.
Fails(i) ==
  /\ socket[i] \in {"connecting", "open"}
  /\ socket' = [socket EXCEPT ![i] = "failed"]
  /\ Reconnect("failed")
  /\ UNCHANGED dialStopped

Closes(i) ==
  /\ socket[i] \in {"open", "failed"}
  /\ socket' = [socket EXCEPT ![i] = "closed"]
  /\ Reconnect(socket[i])
  /\ UNCHANGED dialStopped

\* connect(), from a timer.
TimerFires ==
  /\ redials > 0
  /\ redials' = redials - 1
  /\ IF dialStopped THEN UNCHANGED socket
     ELSE /\ \E i \in 1..Dials : socket[i] = "unused"
          /\ socket' = [socket EXCEPT ![NextDial] = "connecting"]
  /\ UNCHANGED dialStopped

\* stop(): the last timer is cleared and the last socket closed.
Stop ==
  /\ ~dialStopped
  /\ dialStopped' = TRUE
  /\ redials' = IF redials > 0 THEN redials - 1 ELSE 0
  /\ UNCHANGED socket

Next ==
  \/ TimerFires \/ Stop
  \/ \E i \in 1..Dials : Opens(i) \/ Fails(i) \/ Closes(i)

Spec == Init /\ [][Next]_outboundVars

\* A host that has not been told to stop is connected, connecting or about to
\* dial: it does not disappear because a relay restarts or refuses it
\* (outbound.ts 79-87).
NeverAbandoned == dialStopped \/ redials > 0 \/ \E i \in 1..Dials : InUse(i)
=============================================================================
