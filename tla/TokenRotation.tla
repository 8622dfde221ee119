---------------------------- MODULE TokenRotation ----------------------------
(***************************************************************************)
(* The access token while it is changed: the server that mints one         *)
(* (server/src/services/auth.ts, config.ts, the upgrade and /api/session   *)
(* of index.ts), the desktops that are open and the copy each of them has  *)
(* (client/src/core/access.ts, desktop.ts, apps/settings): a cookie that   *)
(* only the server can set, or, for a remote host, the token in its stored *)
(* address (hosts.ts). A socket delivers in order; requests over HTTP are  *)
(* served, and answered, in any.                                           *)
(***************************************************************************)
EXTENDS Naturals, Sequences, FiniteSets

CONSTANTS
  Desktops,
  Remotes,    \* the ones that show this server as a remote host
  MaxTokens,  \* bound: tokens minted
  MaxDrops,   \* bound: connections lost, and restarts
  InHaste     \* a page loses its connection, or hears of a token, while an answer is due to it

\* What the constants have to be; where the module is instantiated it is assumed.
TokenAssumption ==
  Remotes \subseteq Desktops /\ MaxTokens \in Nat /\ MaxDrops \in Nat /\ InHaste \in BOOLEAN

VARIABLES
  disk, token,   \* the file, and `config.token`
  copy,          \* the token each desktop would connect with
  state,         \* "open", "reconnecting", or "closed": revoked
  told,          \* on the way to each desktop: tokens, and SignedOut
  requests,      \* over HTTP
  drops

tokenVars == <<disk, token, copy, state, told, requests, drops>>

SignedOut == 0
Request(d, kind, t) == [from |-> d, kind |-> kind, token |-> t, answer |-> "due"]
Settled(d) == InHaste \/ {r \in requests : r.from = d} = {}

Init ==
  /\ disk = 1 /\ token = 1
  /\ copy = [d \in Desktops |-> 1] /\ state = [d \in Desktops |-> "open"]
  /\ told = [d \in Desktops |-> <<>>] /\ requests = {} /\ drops = 0

\* liveSessions but the one that asked, which has the token in the answer.
Live(d) == {e \in Desktops : state[e] = "open" /\ e # d}

\* rotate(): the file, the token that is checked, and then the other desktops. A desktop
\* that is hung up on is served until it is gone.
Rotate(d, keepOthers) ==
  /\ state[d] = "open" /\ d \notin Remotes /\ token < MaxTokens
  /\ disk' = token + 1 /\ token' = token + 1
  /\ LET others == Live(d)
     IN told' = [e \in Desktops |->
                   IF e = d THEN Append(told[e], token + 1)
                   ELSE IF e \notin others THEN told[e]
                   ELSE Append(told[e], IF keepOthers THEN token + 1 ELSE SignedOut)]
  /\ UNCHANGED <<copy, state, requests, drops>>

\* Mutant of Adopts: what a page is told is no news to it.
AdoptsNothing(d, t) == UNCHANGED <<copy, requests>>

\* adoptAccessToken(): a request with the token in it, which the server answers with the
\* cookie. The address of a remote host is changed where it is kept.
Adopts(d, t) ==
  IF d \in Remotes THEN copy' = [copy EXCEPT ![d] = t] /\ UNCHANGED requests
  ELSE requests' = requests \cup {Request(d, "adopt", t)} /\ UNCHANGED copy

Hears(d) ==
  /\ told[d] # <<>>
  /\ IF Head(told[d]) = SignedOut
     THEN /\ state' = [state EXCEPT ![d] = "closed"]
          /\ told' = [told EXCEPT ![d] = <<>>] /\ UNCHANGED <<copy, requests>>
     ELSE (d \in Remotes \/ Settled(d)) /\ Adopts(d, Head(told[d])) /\ told' = [told EXCEPT ![d] = Tail(@)] /\ UNCHANGED state
  /\ UNCHANGED <<disk, token, drops>>

\* /api/session: a probe is sent with the cookie of that moment.
Serves(r) ==
  /\ r \in requests /\ r.answer = "due"
  /\ requests' = (requests \ {r})
       \cup {[r EXCEPT !.answer = IF r.token = token THEN "ok" ELSE "refused"]}
  /\ UNCHANGED <<disk, token, copy, state, told, drops>>

\* A page that is refused, and is still trying, is told it was signed out.
Revokes(r) == r.kind = "probe" /\ r.answer = "refused" /\ state[r.from] = "reconnecting"

Answered(r) ==
  /\ r \in requests /\ r.answer # "due" /\ requests' = requests \ {r}
  /\ copy' = IF r.kind = "adopt" /\ r.answer = "ok" THEN [copy EXCEPT ![r.from] = r.token] ELSE copy
  /\ state' = IF Revokes(r) THEN [state EXCEPT ![r.from] = "closed"] ELSE state
  /\ UNCHANGED <<disk, token, told, drops>>

\* probeAccess(), on every drop. A remote host has nothing to ask over HTTP.
Probes(lost) == requests' = requests \cup {Request(d, "probe", copy[d]) : d \in lost \ Remotes}

Lost(lost) ==
  /\ drops < MaxDrops /\ drops' = drops + 1
  /\ state' = [d \in Desktops |-> IF d \in lost THEN "reconnecting" ELSE state[d]]
  /\ told' = [d \in Desktops |-> IF d \in lost THEN <<>> ELSE told[d]]
  /\ Probes(lost)

Open == {d \in Desktops : state[d] = "open"}

Drops(d) ==
  /\ state[d] = "open" /\ Settled(d)
  /\ Lost({d})
  /\ UNCHANGED <<disk, token, copy>>

\* The server starts again with what the file says.
Restarts ==
  /\ (\A d \in Open : Settled(d)) /\ Lost(Open) /\ token' = disk
  /\ UNCHANGED <<disk, copy>>

\* The upgrade: refused with another token, which the page sees as one more drop.
Reconnects(d) ==
  /\ state[d] = "reconnecting"
  /\ IF copy[d] = token THEN state' = [state EXCEPT ![d] = "open"] /\ UNCHANGED requests
     ELSE Probes({d}) /\ UNCHANGED state
  /\ UNCHANGED <<disk, token, copy, told, drops>>

Next ==
  \/ \E d \in Desktops : \/ Hears(d) \/ Drops(d) \/ Reconnects(d)
                         \/ \E keepOthers \in BOOLEAN : Rotate(d, keepOthers)
  \/ \E r \in requests : Serves(r) \/ Answered(r)
  \/ Restarts

Spec == Init /\ [][Next]_tokenVars

\* What the server checks is what a restart would check.
Persisted == disk = token

Waiting(d) == told[d] # <<>> \/ \E r \in requests : r.from = d

\* A desktop that is connected, with nothing on its way, has the token that is in force:
\* its next connection is let in (auth.ts 12-29).
KeptStaysIn == \A d \in Open : Waiting(d) \/ copy[d] = token

\* A desktop that is shown as signed out has no token that would let it in.
SignedOutIsRefused == \A d \in Desktops : state[d] = "closed" => copy[d] # token

TokenIsKnown == Persisted /\ KeptStaysIn /\ SignedOutIsRefused
=============================================================================
