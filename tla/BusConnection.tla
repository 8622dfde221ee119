---------------------------- MODULE BusConnection ----------------------------
(***************************************************************************)
(* A connection of our own to a message bus (the class DBus of             *)
(* server/src/dbus.ts): the handshake, the calls that wait for an answer,  *)
(* and the end of it. What frames look like is BusMarshal.tla's.           *)
(***************************************************************************)
EXTENDS Naturals, Sequences

CONSTANTS
  Serials,      \* bound: calls, the Hello among them
  Late          \* the bus may hang up before the Hello is answered, and calls be
                \* made of a connection that is gone

\* What the constants have to be; where the module is instantiated it is assumed.
BusConnectionAssumption == Serials \in Nat \ {0} /\ Late \in BOOLEAN

VARIABLES
  connect,      \* what has become of connect(): "waiting", "resolved" or "rejected"
  socketIs,     \* "connecting", "auth", "open", "broken" (an error, before the close) or "gone"
  serial,       \* the last one given out
  calls,        \* per serial: "unmade", "pending", "answered" or "refused"
  answeredWith, \* per serial, the serial of the reply it was given
  busHas,       \* calls at the bus
  replies,      \* under way, in the order of the bus
  closedTold    \* how often `close` was emitted

connVars == <<connect, socketIs, serial, calls, answeredWith, busHas, replies, closedTold>>

Init ==
  /\ connect = "waiting" /\ socketIs = "connecting" /\ serial = 0
  /\ calls = [s \in 1..Serials |-> "unmade"] /\ answeredWith = [s \in 1..Serials |-> 0]
  /\ busHas = {} /\ replies = <<>> /\ closedTold = 0

HelloSerial == 1
PendingCalls == {s \in 1..Serials : calls[s] = "pending"}

\* call(): what is written to a socket that is gone is lost.
Call ==
  /\ serial' = serial + 1
  /\ calls' = [calls EXCEPT ![serial + 1] = "pending"]
  /\ busHas' = IF socketIs \in {"auth", "open"} THEN busHas \cup {serial + 1} ELSE busHas

Connects ==
  /\ socketIs = "connecting" /\ socketIs' = "auth"
  /\ UNCHANGED <<connect, serial, calls, answeredWith, busHas, replies, closedTold>>

\* The bus says OK: the Hello goes out.
Accepted ==
  /\ socketIs = "auth" /\ socketIs' = "open" /\ Call
  /\ UNCHANGED <<connect, answeredWith, replies, closedTold>>

\* Before there is a connection, an error and a refusal fail it: `fail`. A bus that
\* hangs up without an error does not: nobody listens for that yet.
FailsEarly ==
  /\ connect = "waiting" /\ socketIs # "gone" /\ socketIs' = "gone" /\ replies' = <<>>
  /\ connect' \in {"rejected"} \cup (IF Late THEN {"waiting"} ELSE {})
  /\ UNCHANGED <<serial, calls, answeredWith, busHas, closedTold>>

CallsMore ==
  /\ connect = "resolved" /\ serial < Serials
  /\ socketIs # "open" => Late
  /\ Call
  /\ UNCHANGED <<connect, socketIs, answeredWith, replies, closedTold>>

BusReplies(s, how) ==
  /\ s \in busHas /\ busHas' = busHas \ {s}
  /\ replies' = Append(replies, [to |-> s, how |-> how])
  /\ UNCHANGED <<connect, socketIs, serial, calls, answeredWith, closedTold>>

\* Mutant of Answers: the calls are answered in the order they were made.
TheOldest(reply) == {s \in PendingCalls : \A t \in PendingCalls : s <= t}

\* dispatch(): the call a reply is for, if it still waits.
Answers(reply) == {reply.to} \cap PendingCalls

Dispatch ==
  /\ replies # <<>> /\ socketIs = "open" /\ replies' = Tail(replies)
  /\ LET reply == Head(replies)
     IN /\ calls' = [s \in 1..Serials |-> IF s \in Answers(reply) THEN reply.how ELSE calls[s]]
        /\ answeredWith' = [s \in 1..Serials |->
                              IF s \in Answers(reply) THEN reply.to ELSE answeredWith[s]]
        /\ connect' = IF HelloSerial \notin Answers(reply) THEN connect
                      ELSE IF reply.how = "answered" THEN "resolved" ELSE "rejected"
        /\ socketIs' = IF connect' = "rejected" THEN "gone" ELSE socketIs
  /\ UNCHANGED <<serial, busHas, closedTold>>

\* The socket breaks, a frame cannot be decoded, or we close it.
Breaks ==
  /\ connect = "resolved" /\ socketIs = "open" /\ socketIs' = "broken" /\ replies' = <<>>
  /\ UNCHANGED <<connect, serial, calls, answeredWith, busHas, closedTold>>

\* Mutant of Refused: what waits for an answer goes on waiting.
NoneRefused == {}

\* The calls that are refused when the socket has closed.
Refused == PendingCalls

Closed ==
  /\ socketIs = "broken" /\ socketIs' = "gone" /\ closedTold' = closedTold + 1
  /\ calls' = [s \in 1..Serials |-> IF s \in Refused THEN "refused" ELSE calls[s]]
  /\ UNCHANGED <<connect, serial, answeredWith, busHas, replies>>

Next ==
  \/ Connects \/ Accepted \/ FailsEarly \/ CallsMore \/ Dispatch \/ Breaks \/ Closed
  \/ \E s \in 1..Serials, how \in {"answered", "refused"} : BusReplies(s, how)

Spec == Init /\ [][Next]_connVars

\* Nobody is given the answer to another's call.
AnswersAreTheirOwn == \A s \in 1..Serials : answeredWith[s] \in {0, s}

\* Nobody waits for an answer of a bus that is gone, either: the services await these
\* calls, and answer nothing until they settle (dbus.ts 512-516).
CallsAreSettled ==
  /\ socketIs = "gone" => connect # "waiting" /\ (connect = "resolved" => PendingCalls = {})
  /\ AnswersAreTheirOwn
=============================================================================
