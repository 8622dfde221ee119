----------------------- MODULE WaylandSessionProofs -----------------------
(***************************************************************************)
(* What holds of the sessions of an application for any number of          *)
(* launches and windows. SessionInv and ChannelInv tie the two ends of the *)
(* link between a session and its window, TimerInv counts the timers of a  *)
(* stop, and PoliteInv carries what the last property looks back on. At    *)
(* the end, of the window such an application has in the page  *)
(* (WaylandWindow): WindowInv follows each message on its way from what is *)
(* shown to what is up.                                                    *)
(***************************************************************************)
EXTENDS WaylandSession, WaylandWindow, SequenceTheorems, TLAPS

\* The window of a launch that is at an await.
Pending == {"waiting", "asked", "lost"}

\* A session is registered and has a window only while its child is up; until
\* it is stopped it can be attached, and is watched or on the clock.
SessionInv(w) ==
  /\ stage[w] = "up" <=> proc[w] # "none"
  /\ w \in running => Up(w)
  /\ alive[w] => Up(w)
  /\ out[w] # None => w \in running /\ chan[out[w]] = "live" /\ shows[out[w]] = w
  /\ graceTimer[w] => Up(w) /\ out[w] = None
  /\ Up(w) /\ ~stopping[w] =>
       /\ alive[w] /\ w \in running
       /\ out[w] # None \/ graceTimer[w] \/ windowGrace = "forever"

\* A live window is that of its session, and a waiting one of its launch.
ChannelInv(c) ==
  /\ chan[c] = "none" <=> shows[c] = None
  /\ chan[c] = "live" => shows[c] \in running /\ out[shows[c]] = c
  /\ chan[c] \in Pending =>
       /\ stage[shows[c]] \in {"gate", "proxy"}
       /\ \A d \in Chans : shows[d] = shows[c] => d = c

\* The timers that are set stay within the bound, and the variable holds an
\* ask only while there is one.
TimerInv(w) ==
  /\ asks[w] + kills[w] <= MaxTimers
  /\ killTimer[w] = "ask" => asks[w] > 0
  /\ proc[w] = "none" => asks[w] = 0 /\ kills[w] = 0

\* Whoever was asked was sent a close; an ask is part of a stop.
PoliteInv(w) ==
  /\ proc[w] # "exited" => (closeAsked[w] \/ asks[w] > 0 => told[w])
  /\ asks[w] > 0 => stopping[w]

Inv ==
  /\ TypeOK
  /\ \A w \in Sessions : SessionInv(w) /\ TimerInv(w) /\ PoliteInv(w)
  /\ \A c \in Chans : ChannelInv(c)
-----------------------------------------------------------------------------
(* What the helpers do, session by session.                                *)

\* escalate() keeps the types and disturbs no other session.
LEMMA EscalateFacts ==
  ASSUME TypeOK, NEW w \in Sessions, Escalate(w)
  PROVE  /\ alive' \in [Sessions -> BOOLEAN] /\ kills' \in [Sessions -> Nat]
         /\ killTimer' \in [Sessions -> {"none", "ask", "kill"}]
         /\ \A v \in Sessions : v # w =>
              alive'[v] = alive[v] /\ killTimer'[v] = killTimer[v] /\ kills'[v] = kills[v]
         /\ ~alive'[w] /\ kills'[w] = kills[w] + 1 /\ killTimer'[w] # "ask"
BY WaylandAssumption DEF Escalate, KillLater, TypeOK

\* stop() keeps the types and disturbs no other session; it takes the display
\* away only of an application that has no window or was asked.
LEMMA StopFacts ==
  ASSUME TypeOK, NEW w \in Sessions, Stop(w)
  PROVE  /\ alive' \in [Sessions -> BOOLEAN] /\ stopping' \in [Sessions -> BOOLEAN]
         /\ told' \in [Sessions -> BOOLEAN]
         /\ killTimer' \in [Sessions -> {"none", "ask", "kill"}]
         /\ asks' \in [Sessions -> Nat] /\ kills' \in [Sessions -> Nat]
         /\ \A v \in Sessions : v # w =>
              /\ alive'[v] = alive[v] /\ stopping'[v] = stopping[v] /\ told'[v] = told[v]
              /\ killTimer'[v] = killTimer[v] /\ asks'[v] = asks[v] /\ kills'[v] = kills[v]
         /\ alive'[w] => alive[w]
         /\ stopping[w] => stopping'[w]
         /\ alive[w] => stopping'[w]
         /\ told[w] => told'[w]
         /\ alive[w] /\ ~alive'[w] => ~mapped[w] \/ closeAsked[w]
         /\ \/ asks'[w] = asks[w] /\ kills'[w] = kills[w] /\ killTimer'[w] = killTimer[w]
            \/ /\ alive[w] /\ asks[w] + kills[w] < MaxTimers
               /\ asks'[w] = asks[w] + 1 /\ kills'[w] = kills[w]
               /\ killTimer'[w] = "ask" /\ told'[w]
            \/ /\ alive[w] /\ asks[w] + kills[w] < MaxTimers
               /\ asks'[w] = asks[w] /\ kills'[w] = kills[w] + 1
               /\ killTimer'[w] # "ask"
<1>0. /\ asks \in [Sessions -> Nat] /\ kills \in [Sessions -> Nat]
      /\ asks[w] \in Nat /\ kills[w] \in Nat
  BY WaylandAssumption DEF TypeOK
<1>1. CASE ~alive[w]
  BY <1>0, <1>1 DEF Stop, TypeOK, stopVars
<1>2. CASE alive[w] /\ AskFirst(w)
  <2>1. /\ asks[w] + kills[w] < MaxTimers
        /\ stopping' = [stopping EXCEPT ![w] = TRUE] /\ told' = [told EXCEPT ![w] = TRUE]
        /\ asks' = [asks EXCEPT ![w] = asks[w] + 1]
        /\ killTimer' = [killTimer EXCEPT ![w] = "ask"]
        /\ alive' = alive /\ kills' = kills
    BY <1>2 DEF Stop
  <2> QED BY <1>0, <1>2, <2>1 DEF TypeOK
<1>3. CASE alive[w] /\ ~AskFirst(w)
  <2>1. /\ asks[w] + kills[w] < MaxTimers
        /\ stopping' = [stopping EXCEPT ![w] = TRUE] /\ told' = told /\ asks' = asks
        /\ Escalate(w)
    BY <1>3 DEF Stop
  <2>2. ~mapped[w] \/ closeAsked[w]
    BY <1>3 DEF AskFirst
  <2> QED BY <1>0, <1>3, <2>1, <2>2, EscalateFacts DEF TypeOK
<1> QED BY <1>1, <1>2, <1>3

\* close() takes one channel out of both tables.
LEMMA CloseFacts ==
  ASSUME TypeOK, NEW c \in Chans, Close(c)
  PROVE  /\ chan' \in [Chans -> {"none", "waiting", "asked", "lost", "live"}]
         /\ shows' \in [Chans -> Sessions \cup {None}]
         /\ chan'[c] = "none" /\ shows'[c] = None
         /\ \A d \in Chans : d # c => chan'[d] = chan[d] /\ shows'[d] = shows[d]
BY DEF Close, TypeOK

\* finish() takes the session out, and its window if it has one.
LEMMA FinishFacts ==
  ASSUME TypeOK, NEW w \in Sessions, Finish(w)
  PROVE  /\ chan' \in [Chans -> {"none", "waiting", "asked", "lost", "live"}]
         /\ shows' \in [Chans -> Sessions \cup {None}]
         /\ out' \in [Sessions -> Chans \cup {None}]
         /\ graceTimer' \in [Sessions -> BOOLEAN]
         /\ running' = running \ {w} /\ out'[w] = None /\ ~graceTimer'[w]
         /\ \A v \in Sessions : v # w => out'[v] = out[v] /\ graceTimer'[v] = graceTimer[v]
         /\ \A d \in Chans : IF d = out[w]
              THEN chan'[d] = "none" /\ shows'[d] = None
              ELSE chan'[d] = chan[d] /\ shows'[d] = shows[d]
<1>1. CASE out[w] = None
  BY <1>1, WaylandAssumption DEF Finish, CloseSeat, TypeOK
<1>2. CASE out[w] # None
  <2>1. out[w] \in Chans /\ Close(out[w])
    BY <1>2 DEF Finish, CloseSeat, TypeOK
  <2> QED BY <2>1, CloseFacts DEF Finish, TypeOK
<1> QED BY <1>1, <1>2

\* onClose() of a live channel: its session loses it, and is on the clock,
\* waits for good, or is being stopped.
LEMMA OnCloseFacts ==
  ASSUME Inv, NEW c \in Chans, chan[c] = "live", NEW lost \in BOOLEAN, OnClose(c, lost)
  PROVE  /\ shows[c] \in running /\ shows[c] \in Sessions /\ out[shows[c]] = c
         /\ Close(c) /\ running' = running
         /\ out' = [out EXCEPT ![shows[c]] = None]
         /\ \/ /\ graceTimer' = [graceTimer EXCEPT ![shows[c]] = WaitsOnTimer]
               /\ windowGrace # "zero" /\ alive[shows[c]]
               /\ UNCHANGED <<stopVars, told>>
            \/ Stop(shows[c]) /\ UNCHANGED graceTimer
<1>1. shows[c] \in running /\ shows[c] \in Sessions /\ out[shows[c]] = c
  BY DEF Inv, ChannelInv, TypeOK
<1> QED BY <1>1 DEF OnClose
-----------------------------------------------------------------------------
(* The timers.                                                             *)

\* What TimerInv says of every session, with the types it needs.
TimersOK ==
  /\ asks \in [Sessions -> 0..MaxTimers] /\ kills \in [Sessions -> 0..MaxTimers]
  /\ killTimer \in [Sessions -> {"none", "ask", "kill"}]
  /\ \A w \in Sessions : TimerInv(w)

\* A step that changes the timers of one session, and keeps its bounds.
LEMMA TimersOfOne ==
  ASSUME Inv, NEW w \in Sessions,
         asks' \in [Sessions -> Nat], kills' \in [Sessions -> Nat],
         killTimer' \in [Sessions -> {"none", "ask", "kill"}],
         \A v \in Sessions : v # w =>
           killTimer'[v] = killTimer[v] /\ asks'[v] = asks[v] /\ kills'[v] = kills[v],
         \A v \in Sessions : v # w => proc'[v] = proc[v],
         TimerInv(w)'
  PROVE  TimersOK'
<1>1. \A v \in Sessions : TimerInv(v)'
  BY DEF TimerInv, Inv
<1>2. \A v \in Sessions : asks'[v] \in 0..MaxTimers /\ kills'[v] \in 0..MaxTimers
  BY <1>1, WaylandAssumption DEF TimerInv
<1> QED BY <1>1, <1>2 DEF TimersOK

\* stop() keeps them: an application that runs has been spawned.
LEMMA StopTimers ==
  ASSUME Inv, NEW w \in Sessions, Stop(w), proc' = proc
  PROVE  TimersOK'
<1>1. TypeOK /\ TimerInv(w) /\ SessionInv(w)
  BY DEF Inv
<1>2. asks[w] \in Nat /\ kills[w] \in Nat /\ MaxTimers \in Nat
  BY <1>1, WaylandAssumption DEF TypeOK
<1>3. alive[w] => proc[w] # "none"
  BY <1>1 DEF SessionInv, Up
<1>4. TimerInv(w)'
  <2>1. CASE asks'[w] = asks[w] /\ kills'[w] = kills[w] /\ killTimer'[w] = killTimer[w]
    BY <2>1, <1>1 DEF TimerInv
  <2>2. CASE /\ alive[w] /\ asks[w] + kills[w] < MaxTimers
             /\ asks'[w] = asks[w] + 1 /\ kills'[w] = kills[w]
    BY <2>2, <1>2, <1>3 DEF TimerInv
  <2>3. CASE /\ alive[w] /\ asks[w] + kills[w] < MaxTimers
             /\ asks'[w] = asks[w] /\ kills'[w] = kills[w] + 1
             /\ killTimer'[w] # "ask"
    BY <2>3, <1>2, <1>3 DEF TimerInv
  <2> QED BY <1>1, <2>1, <2>2, <2>3, StopFacts
<1> QED BY <1>1, <1>4, StopFacts, TimersOfOne

\* The step leaves them alone.
LEMMA NoTimers ==
  ASSUME Inv, UNCHANGED <<asks, kills, killTimer, proc>>
  PROVE  TimersOK'
BY DEF Inv, TypeOK, TimersOK, TimerInv

\* onClose() keeps them.
LEMMA OnCloseTimers ==
  ASSUME Inv, NEW c \in Chans, chan[c] = "live", NEW lost \in BOOLEAN, OnClose(c, lost),
         proc' = proc
  PROVE  TimersOK'
BY OnCloseFacts, StopTimers, NoTimers DEF stopVars

\* So does a spawn: no timer of the session was set before.
LEMMA SpawnTimers ==
  ASSUME Inv, NEW w \in Sessions, NEW c \in Chans, NEW how,
         Spawned(w, c, how), stage[w] # "up"
  PROVE  TimersOK'
<1>1. TypeOK /\ TimerInv(w) /\ SessionInv(w)
  BY DEF Inv
<1>2. proc[w] = "none" /\ asks[w] = 0 /\ kills[w] = 0 /\ killTimer[w] # "ask"
  BY <1>1 DEF TimerInv, SessionInv
<1>3. /\ asks' = asks /\ proc' = [proc EXCEPT ![w] = "running"]
      /\ \/ Escalate(w)
         \/ UNCHANGED <<kills, killTimer>>
  BY DEF Spawned
<1>4. MaxTimers \in Nat /\ MaxTimers > 0
  BY WaylandAssumption
<1>5. asks \in [Sessions -> Nat] /\ kills \in [Sessions -> Nat]
  BY <1>1, <1>4 DEF TypeOK
<1>6. \A v \in Sessions : v # w => proc'[v] = proc[v]
  BY <1>1, <1>3 DEF TypeOK
<1>7. CASE Escalate(w)
  <2>0. kills'[w] = 1 /\ asks'[w] = 0 /\ killTimer'[w] # "ask"
    BY <1>1, <1>2, <1>3, <1>7, EscalateFacts
  <2>00. proc'[w] # "none"
    BY <1>1, <1>3 DEF TypeOK
  <2>1. TimerInv(w)'
    BY <1>4, <2>0, <2>00 DEF TimerInv
  <2>2. /\ kills' \in [Sessions -> Nat]
        /\ killTimer' \in [Sessions -> {"none", "ask", "kill"}]
        /\ \A v \in Sessions : v # w =>
             killTimer'[v] = killTimer[v] /\ asks'[v] = asks[v] /\ kills'[v] = kills[v]
    BY <1>1, <1>3, <1>7, EscalateFacts
  <2> QED BY <1>3, <1>5, <1>6, <2>1, <2>2, TimersOfOne
<1>8. CASE UNCHANGED <<kills, killTimer>>
  <2>1. TimerInv(w)'
    BY <1>2, <1>3, <1>4, <1>8 DEF TimerInv
  <2>2. kills' = kills /\ killTimer' = killTimer
    BY <1>8
  <2>3. killTimer \in [Sessions -> {"none", "ask", "kill"}]
    BY <1>1 DEF TypeOK
  <2> QED BY <1>3, <1>5, <1>6, <2>1, <2>2, <2>3, TimersOfOne
<1> QED BY <1>3, <1>7, <1>8
\* Every step keeps the timers in order.
LEMMA TimerStep ==
  ASSUME Inv, Next
  PROVE  TimersOK'
<1>0. TypeOK /\ WaylandAssumption
  BY WaylandAssumption DEF Inv
<1>1. ASSUME NEW w \in Sessions, NEW c \in Chans, NEW how, PastTheGate(w, c, how),
             stage[w] # "up"
      PROVE  TimersOK'
  BY <1>1, SpawnTimers, NoTimers DEF PastTheGate, SpawnFails, stopVars
<1>2. ASSUME NEW w \in Sessions, NEW c \in Chans, Launch(w, c) PROVE TimersOK'
  <2>1. CASE PastTheGate(w, c, "waiting")
    BY <1>2, <2>1, <1>1 DEF Launch
  <2>2. CASE UNCHANGED <<running, out, graceTimer, stopVars, proc>>
    BY <2>2, NoTimers DEF stopVars
  <2> QED BY <1>2, <2>1, <2>2 DEF Launch
<1>3. ASSUME NEW w \in Sessions, NEW c \in Chans, GateOpens(w, c) PROVE TimersOK'
  BY <1>3, <1>1 DEF GateOpens
<1>4. ASSUME NEW w \in Sessions, NEW c \in Chans, ProxyOpens(w, c) PROVE TimersOK'
  BY <1>4, <1>1 DEF ProxyOpens, PastTheGate
<1>5. ASSUME NEW w \in Sessions, NEW c \in Chans, Attach(w, c) PROVE TimersOK'
  BY <1>5, NoTimers DEF Attach, stopVars
<1>6. ASSUME NEW c \in Chans, WindowCloses(c) PROVE TimersOK'
  <2>1. proc' = proc
    BY <1>6 DEF WindowCloses
  <2> QED BY <1>6, <2>1, OnCloseTimers, NoTimers DEF WindowCloses, stopVars
<1>7. ASSUME NEW c \in Chans, ConnectionDrops(c) PROVE TimersOK'
  <2>1. proc' = proc
    BY <1>7 DEF ConnectionDrops
  <2> QED BY <1>7, <2>1, OnCloseTimers, NoTimers DEF ConnectionDrops, stopVars
<1>8. ASSUME NEW c \in Chans, CloseWindow(c) PROVE TimersOK'
  BY <1>8, NoTimers DEF CloseWindow, stopVars
<1>9. ASSUME NEW w \in Sessions, MapsOrUnmaps(w) PROVE TimersOK'
  BY <1>9, NoTimers DEF MapsOrUnmaps, stopVars
<1>10. ASSUME NEW w \in Sessions, Malformed(w) PROVE TimersOK'
  BY <1>10, StopTimers DEF Malformed
<1>11. ASSUME NEW w \in Sessions, GraceFires(w) PROVE TimersOK'
  BY <1>11, StopTimers DEF GraceFires
<1> DEFINE Nums(w) == asks[w] \in Nat /\ kills[w] \in Nat /\ MaxTimers \in Nat
<1>12. /\ asks \in [Sessions -> Nat] /\ kills \in [Sessions -> Nat]
       /\ killTimer \in [Sessions -> {"none", "ask", "kill"}]
       /\ \A w \in Sessions : Nums(w) /\ TimerInv(w)
  BY <1>0 DEF TypeOK, WaylandAssumption, Inv
<1>13. ASSUME NEW w \in Sessions, AskFires(w) PROVE TimersOK'
  <2>1. /\ asks[w] > 0 /\ asks' = [asks EXCEPT ![w] = asks[w] - 1]
        /\ Escalate(w) /\ proc' = proc
    BY <1>13 DEF AskFires
  <2>2. asks' \in [Sessions -> Nat] /\ asks'[w] = asks[w] - 1
    BY <2>1, <1>12
  <2>3. kills'[w] = kills[w] + 1 /\ killTimer'[w] # "ask"
    BY <2>1, <1>0, EscalateFacts
  <2>4. proc[w] # "none"
    BY <2>1, <1>12 DEF TimerInv
  <2>5. TimerInv(w)'
    BY <2>1, <2>2, <2>3, <2>4, <1>12 DEF TimerInv
  <2> QED BY <2>1, <2>2, <2>5, <1>0, <1>12, EscalateFacts, TimersOfOne
<1>14. ASSUME NEW w \in Sessions, KillFires(w) PROVE TimersOK'
  <2>1. /\ kills[w] > 0 /\ kills' = [kills EXCEPT ![w] = kills[w] - 1]
        /\ asks' = asks /\ killTimer' = killTimer
        /\ \A v \in Sessions : v # w => proc'[v] = proc[v]
    BY <1>14, <1>0 DEF KillFires, TypeOK
  <2>2. kills' \in [Sessions -> Nat] /\ kills'[w] = kills[w] - 1
    BY <2>1, <1>12
  <2>3. proc'[w] # "none"
    BY <1>14, <1>0, <1>12 DEF KillFires, TypeOK, TimerInv
  <2>4. TimerInv(w)'
    BY <2>1, <2>2, <2>3, <1>12 DEF TimerInv
  <2> QED BY <2>1, <2>2, <2>4, <1>12, TimersOfOne
<1>15. ASSUME NEW w \in Sessions, Exits(w) PROVE TimersOK'
  <2>1. /\ asks' = [asks EXCEPT ![w] = IF killTimer[w] = "ask" THEN asks[w] - 1 ELSE asks[w]]
        /\ kills' = [kills EXCEPT ![w] = IF KillPending(w) THEN kills[w] - 1 ELSE kills[w]]
        /\ killTimer' = [killTimer EXCEPT ![w] = "none"]
        /\ proc' = [proc EXCEPT ![w] = "exited"]
    BY <1>15 DEF Exits
  <2>2. /\ asks' \in [Sessions -> Nat] /\ asks'[w] <= asks[w]
    BY <2>1, <1>12 DEF TimerInv
  <2>3. kills' \in [Sessions -> Nat] /\ kills'[w] <= kills[w]
    BY <2>1, <1>12 DEF KillPending
  <2>4. killTimer' \in [Sessions -> {"none", "ask", "kill"}] /\ killTimer'[w] = "none"
    BY <2>1, <1>12
  <2>5. \A v \in Sessions : v # w => proc'[v] = proc[v]
    BY <2>1, <1>0 DEF TypeOK
  <2>6. proc'[w] = "exited"
    BY <2>1, <1>0 DEF TypeOK
  <2>7. TimerInv(w)'
    BY <2>2, <2>3, <2>4, <2>6, <1>12 DEF TimerInv
  <2> QED BY <2>1, <2>2, <2>3, <2>4, <2>5, <2>7, <1>12, TimersOfOne
<1> QED
  BY <1>2, <1>3, <1>4, <1>5, <1>6, <1>7, <1>8, <1>9, <1>10, <1>11, <1>13, <1>14, <1>15
  DEF Next
-----------------------------------------------------------------------------
(* Sessions and windows.                                                   *)

SeatInv ==
  /\ \A w \in Sessions : SessionInv(w)
  /\ \A c \in Chans : ChannelInv(c)

\* A step about one session and the windows it has, gets or loses: the other
\* sessions and their windows stay as they are.
LEMMA SeatOfOne ==
  ASSUME Inv, NEW w \in Sessions, windowGrace' = windowGrace,
         \A v \in Sessions : v # w =>
           /\ stage'[v] = stage[v] /\ proc'[v] = proc[v] /\ alive'[v] = alive[v]
           /\ stopping'[v] = stopping[v] /\ out'[v] = out[v]
           /\ graceTimer'[v] = graceTimer[v] /\ (v \in running' <=> v \in running),
         \A d \in Chans :
           \/ chan'[d] = chan[d] /\ shows'[d] = shows[d]
           \/ shows[d] \in {w, None} /\ shows'[d] \in {w, None},
         \A d \in Chans : shows'[d] \in {w, None} => ChannelInv(d)',
         SessionInv(w)'
  PROVE  SeatInv'
<1>0. TypeOK /\ None \notin Sessions
  BY WaylandAssumption DEF Inv
<1>1. ASSUME NEW v \in Sessions, v # w PROVE SessionInv(v)'
  <2>1. SessionInv(v) /\ (Up(v)' <=> Up(v))
    BY <1>1 DEF Inv, Up
  <2>2. out[v] # None => chan'[out[v]] = chan[out[v]] /\ shows'[out[v]] = shows[out[v]]
    <3> SUFFICES ASSUME out[v] # None
                 PROVE  chan'[out[v]] = chan[out[v]] /\ shows'[out[v]] = shows[out[v]]
      OBVIOUS
    <3>1. out[v] \in Chans /\ shows[out[v]] = v
      BY <1>0, <2>1 DEF TypeOK, SessionInv
    <3> QED BY <3>1, <1>0, <1>1
  <2> QED BY <1>1, <2>1, <2>2 DEF SessionInv
<1>2. ASSUME NEW d \in Chans, shows'[d] \notin {w, None} PROVE ChannelInv(d)'
  <2>1. chan'[d] = chan[d] /\ shows'[d] = shows[d]
    BY <1>2
  <2>2. shows[d] \in Sessions /\ shows[d] # w
    BY <1>2, <2>1, <1>0 DEF TypeOK
  <2>3. \A e \in Chans : shows'[e] = shows[d] => shows[e] = shows[d]
    BY <2>1, <1>2
  <2> QED BY <2>1, <2>2, <2>3 DEF Inv, ChannelInv
<1> QED BY <1>1, <1>2 DEF SeatInv

\* The windows of a session: the one it speaks to, or the one that waits for
\* its launch.
LEMMA WindowsOf ==
  ASSUME Inv, NEW w \in Sessions, NEW d \in Chans, shows[d] = w
  PROVE  /\ proc[w] # "none" => out[w] = d /\ chan[d] = "live" /\ w \in running
         /\ proc[w] = "none" => chan[d] \in Pending /\ \A e \in Chans : shows[e] = w => e = d
<1>1. ChannelInv(d) /\ SessionInv(w) /\ TypeOK /\ None \notin Sessions
  BY WaylandAssumption DEF Inv
<1>2. chan[d] = "live" \/ chan[d] \in Pending
  BY <1>1 DEF ChannelInv, TypeOK, Pending
<1>3. CASE chan[d] = "live"
  BY <1>1, <1>3 DEF ChannelInv, SessionInv, Up
<1>4. CASE chan[d] \in Pending
  BY <1>1, <1>4 DEF ChannelInv, SessionInv
<1> QED BY <1>2, <1>3, <1>4

\* Nobody who shows no session has a window.
LEMMA ShowsNothing ==
  ASSUME Inv, NEW d \in Chans, shows[d] = None
  PROVE  chan[d] = "none"
BY DEF Inv, ChannelInv
\* A step of one session that moves no window.
LEMMA SameWindows ==
  ASSUME Inv, NEW w \in Sessions,
         UNCHANGED <<windowGrace, stage, chan, shows, running, out>>,
         \A v \in Sessions : v # w =>
           /\ proc'[v] = proc[v] /\ alive'[v] = alive[v]
           /\ stopping'[v] = stopping[v] /\ graceTimer'[v] = graceTimer[v],
         SessionInv(w)'
  PROVE  SeatInv'
<1>1. \A d \in Chans : ChannelInv(d)'
  BY DEF Inv, ChannelInv
<1>2. \A v \in Sessions : v # w => stage'[v] = stage[v] /\ out'[v] = out[v]
        /\ (v \in running' <=> v \in running)
  OBVIOUS
<1>3. windowGrace' = windowGrace
  OBVIOUS
<1>4. \A d \in Chans : chan'[d] = chan[d] /\ shows'[d] = shows[d]
  OBVIOUS
<1> QED BY <1>1, <1>2, <1>3, <1>4, SeatOfOne

\* A step that touches neither.
LEMMA NoSeats ==
  ASSUME Inv, UNCHANGED <<windowGrace, stage, proc, alive, stopping, chan, shows, running,
                          out, graceTimer>>
  PROVE  SeatInv'
BY DEF SeatInv, Inv, SessionInv, ChannelInv, Up

\* stop() and escalate() leave a session that is being stopped, and with
\* nothing left of its window if it had lost it.
LEMMA StopSession ==
  ASSUME Inv, NEW w \in Sessions, Stop(w), stage' = stage, proc' = proc,
         w \in running' => w \in running,
         out'[w] # None => out'[w] = out[w] /\ chan'[out[w]] = chan[out[w]]
                           /\ shows'[out[w]] = shows[out[w]] /\ w \in running',
         graceTimer'[w] => graceTimer[w]
  PROVE  SessionInv(w)'
<1>1. SessionInv(w) /\ TypeOK
  BY DEF Inv
<1>2. /\ alive'[w] => alive[w] /\ stopping'[w]
      /\ stopping[w] \/ alive[w] => stopping'[w]
  BY <1>1, StopFacts
<1>3. Up(w)' <=> Up(w)
  BY DEF Up
<1>4. Up(w)' => stopping'[w]
  BY <1>1, <1>2, <1>3 DEF SessionInv
<1>5. graceTimer'[w] => out'[w] = None
  BY <1>1 DEF SessionInv
<1> QED BY <1>1, <1>2, <1>3, <1>4, <1>5 DEF SessionInv

\* The window of a session that is up is closed, and there is no other.
LEMMA WindowGone ==
  ASSUME Inv, NEW w \in Sessions, proc[w] # "none",
         windowGrace' = windowGrace, stage' = stage,
         \A v \in Sessions : v # w =>
           /\ proc'[v] = proc[v] /\ alive'[v] = alive[v] /\ stopping'[v] = stopping[v]
           /\ out'[v] = out[v] /\ graceTimer'[v] = graceTimer[v]
           /\ (v \in running' <=> v \in running),
         \A d \in Chans : IF d = out[w]
           THEN chan'[d] = "none" /\ shows'[d] = None
           ELSE chan'[d] = chan[d] /\ shows'[d] = shows[d],
         SessionInv(w)'
  PROVE  SeatInv'
<1>0. TypeOK /\ None \notin Sessions /\ SessionInv(w)
  BY WaylandAssumption DEF Inv
<1>1. \A d \in Chans : d = out[w] => shows[d] = w
  BY <1>0, WaylandAssumption DEF SessionInv
<1>2. \A d \in Chans : \/ chan'[d] = chan[d] /\ shows'[d] = shows[d]
                       \/ shows[d] \in {w, None} /\ shows'[d] \in {w, None}
  BY <1>1
<1>3. ASSUME NEW d \in Chans, shows'[d] \in {w, None} PROVE ChannelInv(d)'
  <2>1. shows'[d] = None
    BY <1>0, <1>3, WindowsOf
  <2>2. chan'[d] = "none"
    BY <2>1, ShowsNothing
  <2> QED BY <2>1, <2>2 DEF ChannelInv, Pending
<1>4. \A v \in Sessions : v # w => stage'[v] = stage[v]
  OBVIOUS
<1> QED BY <1>2, <1>3, <1>4, SeatOfOne
\* onClose() of a live channel: the session is on the clock, waits for good,
\* or is being stopped.
LEMMA OnCloseSeat ==
  ASSUME Inv, NEW c \in Chans, chan[c] = "live", NEW lost \in BOOLEAN, OnClose(c, lost),
         UNCHANGED <<windowGrace, stage, proc>>
  PROVE  SeatInv'
<1>w. PICK w \in Sessions : w = shows[c]
  BY OnCloseFacts
<1>0. TypeOK /\ SessionInv(w) /\ out[w] = c /\ shows[c] = w /\ c # None
  BY <1>w, OnCloseFacts, WaylandAssumption DEF Inv
<1>1. /\ Close(c) /\ running' = running /\ out' = [out EXCEPT ![w] = None]
      /\ \/ /\ graceTimer' = [graceTimer EXCEPT ![w] = WaitsOnTimer]
            /\ windowGrace # "zero" /\ alive[w]
            /\ UNCHANGED <<stopVars, told>>
         \/ Stop(w) /\ UNCHANGED graceTimer
  BY <1>w, OnCloseFacts
<1>2. proc[w] # "none" /\ w \in running /\ Up(w) /\ ~graceTimer[w]
  BY <1>0, WindowsOf DEF SessionInv, Up
<1>3. /\ \A d \in Chans : IF d = out[w]
           THEN chan'[d] = "none" /\ shows'[d] = None
           ELSE chan'[d] = chan[d] /\ shows'[d] = shows[d]
      /\ out'[w] = None /\ \A v \in Sessions : v # w => out'[v] = out[v]
  BY <1>0, <1>1, CloseFacts DEF TypeOK
<1>4. \A v \in Sessions : v # w => graceTimer'[v] = graceTimer[v]
  BY <1>0, <1>1 DEF TypeOK
<1>5. \A v \in Sessions : v # w => alive'[v] = alive[v] /\ stopping'[v] = stopping[v]
  BY <1>0, <1>1, StopFacts DEF stopVars
<1>6. SessionInv(w)'
  <2>1. CASE Stop(w) /\ UNCHANGED graceTimer
    BY <1>0, <1>1, <1>3, <2>1, StopSession
  <2>2. CASE /\ graceTimer' = [graceTimer EXCEPT ![w] = WaitsOnTimer]
             /\ windowGrace # "zero" /\ alive[w] /\ UNCHANGED <<stopVars, told>>
    <3>1. graceTimer'[w] = WaitsOnTimer
      BY <1>0, <2>2 DEF TypeOK
    <3>2. WaitsOnTimer \/ windowGrace = "forever"
      BY <1>0, <2>2 DEF TypeOK, WaitsOnTimer
    <3>3. alive' = alive /\ stopping' = stopping /\ Up(w)'
      BY <1>2, <2>2 DEF stopVars, Up
    <3> QED BY <1>0, <1>1, <1>2, <1>3, <2>2, <3>1, <3>2, <3>3 DEF SessionInv
  <2> QED BY <1>1, <2>1, <2>2
<1>7. \A v \in Sessions : v # w => proc'[v] = proc[v] /\ (v \in running' <=> v \in running)
  BY <1>1
<1> QED BY <1>0, <1>2, <1>3, <1>4, <1>5, <1>6, <1>7, WindowGone

\* A window that waits for its launch and is closed or lost still does.
LEMMA StillWaits ==
  ASSUME Inv, NEW c \in Chans, chan[c] \in Pending, NEW how \in Pending,
         chan' = [chan EXCEPT ![c] = how],
         UNCHANGED <<windowGrace, stage, proc, alive, stopping, shows, running, out, graceTimer>>
  PROVE  SeatInv'
<1>0. TypeOK /\ ChannelInv(c) /\ None \notin Sessions
  BY WaylandAssumption DEF Inv
<1>1. chan'[c] = how /\ \A d \in Chans : d # c => chan'[d] = chan[d]
  BY <1>0 DEF TypeOK
<1>2. ASSUME NEW d \in Chans PROVE ChannelInv(d)'
  <2>1. CASE d = c
    BY <1>0, <1>1, <2>1 DEF ChannelInv, Pending
  <2>2. CASE d # c
    BY <1>1, <2>2 DEF Inv, ChannelInv
  <2> QED BY <2>1, <2>2
<1>3. ASSUME NEW v \in Sessions PROVE SessionInv(v)'
  <2>1. SessionInv(v)
    BY DEF Inv
  <2>2. out[v] # None => out[v] \in Chans /\ out[v] # c
    BY <1>0, <2>1 DEF SessionInv, TypeOK, Pending
  <2> QED BY <1>1, <2>1, <2>2 DEF SessionInv, Up
<1> QED BY <1>2, <1>3 DEF SeatInv

\* attach(): the window the session had is closed, the new one is its own.
LEMMA AttachSeat ==
  ASSUME Inv, NEW w \in Sessions, NEW c \in Chans, Attach(w, c)
  PROVE  SeatInv'
<1>0. TypeOK /\ SessionInv(w) /\ None \notin Sessions /\ None \notin Chans
  BY WaylandAssumption DEF Inv
<1>1. /\ chan[c] = "none" /\ w \in running /\ alive[w]
      /\ out' = [out EXCEPT ![w] = c] /\ graceTimer' = [graceTimer EXCEPT ![w] = FALSE]
      /\ UNCHANGED <<windowGrace, stage, running, alive, stopping, proc>>
  BY DEF Attach, ClaimTimer, stopVars
<1>2. \A d \in Chans :
        /\ chan'[d] = IF d = c THEN "live" ELSE IF d = out[w] THEN "none" ELSE chan[d]
        /\ shows'[d] = IF d = c THEN w ELSE IF d = out[w] THEN None ELSE shows[d]
  BY DEF Attach
<1>3. proc[w] # "none" /\ Up(w) /\ shows[c] = None
  BY <1>0, <1>1 DEF SessionInv, Up, Inv, ChannelInv
<1>4. /\ out'[w] = c /\ ~graceTimer'[w]
      /\ \A v \in Sessions : v # w => out'[v] = out[v] /\ graceTimer'[v] = graceTimer[v]
  BY <1>0, <1>1 DEF TypeOK
<1>5. SessionInv(w)'
  BY <1>0, <1>1, <1>2, <1>3, <1>4 DEF SessionInv, Up
<1>6. \A d \in Chans : d = out[w] => shows[d] = w
  BY <1>0 DEF SessionInv
<1>7. ASSUME NEW d \in Chans, shows'[d] \in {w, None} PROVE ChannelInv(d)'
  <2>1. CASE d = c
    <3>1. chan'[d] = "live" /\ shows'[d] = w
      BY <1>2, <2>1
    <3> QED BY <1>0, <1>1, <1>4, <2>1, <3>1 DEF ChannelInv, Pending
  <2>2. CASE d # c
    <3>1. shows'[d] = None /\ chan'[d] = "none"
      <4>1. CASE d = out[w]
        BY <1>2, <2>2, <4>1
      <4>2. CASE d # out[w]
        BY <1>2, <1>3, <1>7, <2>2, <4>2, WindowsOf, ShowsNothing
      <4> QED BY <4>1, <4>2
    <3> QED BY <3>1 DEF ChannelInv, Pending
  <2> QED BY <2>1, <2>2
<1>8. \A d \in Chans : \/ chan'[d] = chan[d] /\ shows'[d] = shows[d]
                       \/ shows[d] \in {w, None} /\ shows'[d] \in {w, None}
  BY <1>2, <1>3, <1>6
<1>9. \A v \in Sessions : v # w =>
        /\ stage'[v] = stage[v] /\ proc'[v] = proc[v] /\ alive'[v] = alive[v]
        /\ stopping'[v] = stopping[v] /\ (v \in running' <=> v \in running)
  BY <1>1
<1> QED BY <1>1, <1>4, <1>5, <1>7, <1>8, <1>9, SeatOfOne
\* A launch comes to an await.
WaitsAt(w, c, how, at) ==
  /\ stage' = [stage EXCEPT ![w] = at]
  /\ Awaits(w, c, how)
  /\ UNCHANGED <<running, out, graceTimer, stopVars, proc>>

\* A launch that goes on: its window becomes live, is closed, or waits again.
LEMMA LaunchSeat ==
  ASSUME Inv, NEW w \in Sessions, NEW c \in Chans, NEW how \in Pending,
         PastTheGate(w, c, how) \/ WaitsAt(w, c, how, "gate"),
         proc[w] = "none", windowGrace' = windowGrace,
         shows[c] \in {w, None}, \A d \in Chans : shows[d] = w => d = c
  PROVE  SeatInv'
<1>0. /\ TypeOK /\ SessionInv(w) /\ w # None /\ None \notin Sessions /\ None \notin Chans
      /\ ~Up(w) /\ w \notin running /\ out[w] = None /\ ~graceTimer[w] /\ ~alive[w]
  BY WaylandAssumption DEF Inv, SessionInv, Up
<1>1. /\ shows'[c] \in {w, None}
      /\ \A d \in Chans : d # c => chan'[d] = chan[d] /\ shows'[d] = shows[d]
      /\ \A v \in Sessions : v # w =>
           /\ stage'[v] = stage[v] /\ proc'[v] = proc[v] /\ alive'[v] = alive[v]
           /\ stopping'[v] = stopping[v] /\ out'[v] = out[v]
           /\ graceTimer'[v] = graceTimer[v] /\ (v \in running' <=> v \in running)
      /\ SessionInv(w)' /\ ChannelInv(c)'
  <2>1. CASE Spawned(w, c, how)
    <3>1. /\ stage' = [stage EXCEPT ![w] = "up"] /\ proc' = [proc EXCEPT ![w] = "running"]
          /\ running' = running \cup {w}
          /\ out' = [out EXCEPT ![w] = IF how = "waiting" THEN c ELSE None]
          /\ graceTimer' = [graceTimer EXCEPT ![w] =
                              how = "lost" /\ windowGrace # "zero" /\ WaitsOnTimer]
      BY <2>1 DEF Spawned
    <3>2. /\ stage'[w] = "up" /\ proc'[w] = "running" /\ w \in running'
          /\ out'[w] = IF how = "waiting" THEN c ELSE None
          /\ graceTimer'[w] = (how = "lost" /\ windowGrace # "zero" /\ WaitsOnTimer)
          /\ Up(w)'
          /\ \A v \in Sessions : v # w =>
               /\ stage'[v] = stage[v] /\ proc'[v] = proc[v] /\ out'[v] = out[v]
               /\ graceTimer'[v] = graceTimer[v] /\ (v \in running' <=> v \in running)
      BY <1>0, <3>1 DEF TypeOK, Up
    <3>3. CASE how = "waiting"
      <4>1. /\ chan' = [chan EXCEPT ![c] = "live"] /\ shows' = [shows EXCEPT ![c] = w]
            /\ alive' = [alive EXCEPT ![w] = TRUE] /\ stopping' = [stopping EXCEPT ![w] = FALSE]
        BY <2>1, <3>3 DEF Spawned
      <4>2. /\ chan'[c] = "live" /\ shows'[c] = w /\ alive'[w]
            /\ \A d \in Chans : d # c => chan'[d] = chan[d] /\ shows'[d] = shows[d]
            /\ \A v \in Sessions : v # w => alive'[v] = alive[v] /\ stopping'[v] = stopping[v]
        BY <1>0, <4>1 DEF TypeOK
      <4>3. SessionInv(w)'
        BY <1>0, <3>2, <3>3, <4>2 DEF SessionInv
      <4>4. ChannelInv(c)'
        BY <1>0, <3>2, <3>3, <4>2 DEF ChannelInv, Pending
      <4> QED BY <3>2, <4>2, <4>3, <4>4
    <3>4. CASE how = "lost" /\ windowGrace # "zero"
      <4>1. /\ Close(c)
            /\ alive' = [alive EXCEPT ![w] = TRUE] /\ stopping' = [stopping EXCEPT ![w] = FALSE]
        BY <2>1, <3>4 DEF Spawned
      <4>2. /\ alive'[w]
            /\ \A v \in Sessions : v # w => alive'[v] = alive[v] /\ stopping'[v] = stopping[v]
        BY <1>0, <4>1 DEF TypeOK
      <4>3. WaitsOnTimer \/ windowGrace = "forever"
        BY <1>0, <3>4 DEF TypeOK, WaitsOnTimer
      <4>4. SessionInv(w)'
        BY <3>2, <3>4, <4>2, <4>3 DEF SessionInv
      <4>5. /\ chan'[c] = "none" /\ shows'[c] = None
            /\ \A d \in Chans : d # c => chan'[d] = chan[d] /\ shows'[d] = shows[d]
        BY <1>0, <4>1, CloseFacts
      <4>6. ChannelInv(c)'
        BY <4>5 DEF ChannelInv, Pending
      <4> QED BY <3>2, <4>2, <4>4, <4>5, <4>6
    <3>5. CASE how # "waiting" /\ ~(how = "lost" /\ windowGrace # "zero")
      <4>1. Close(c) /\ Escalate(w) /\ stopping' = [stopping EXCEPT ![w] = TRUE]
        BY <2>1, <3>5 DEF Spawned
      <4>2. stopping'[w] /\ \A v \in Sessions : v # w => stopping'[v] = stopping[v]
        BY <1>0, <4>1 DEF TypeOK
      <4>3. ~alive'[w] /\ \A v \in Sessions : v # w => alive'[v] = alive[v]
        BY <1>0, <4>1, EscalateFacts
      <4>4. SessionInv(w)'
        BY <3>2, <3>5, <4>2, <4>3 DEF SessionInv
      <4>5. /\ chan'[c] = "none" /\ shows'[c] = None
            /\ \A d \in Chans : d # c => chan'[d] = chan[d] /\ shows'[d] = shows[d]
        BY <1>0, <4>1, CloseFacts
      <4>6. ChannelInv(c)'
        BY <4>5 DEF ChannelInv, Pending
      <4> QED BY <3>2, <4>2, <4>3, <4>4, <4>5, <4>6
    <3> QED BY <3>3, <3>4, <3>5
  <2>2. CASE SpawnFails(w, c)
    <3>1. /\ stage' = [stage EXCEPT ![w] = "failed"] /\ Close(c)
          /\ UNCHANGED <<running, out, graceTimer, alive, stopping, proc>>
      BY <2>2 DEF SpawnFails, stopVars
    <3>2. stage'[w] = "failed" /\ \A v \in Sessions : v # w => stage'[v] = stage[v]
      BY <1>0, <3>1 DEF TypeOK
    <3>3. /\ chan'[c] = "none" /\ shows'[c] = None
          /\ \A d \in Chans : d # c => chan'[d] = chan[d] /\ shows'[d] = shows[d]
      BY <1>0, <3>1, CloseFacts
    <3>4. SessionInv(w)'
      BY <1>0, <3>1, <3>2 DEF SessionInv, Up
    <3>5. ChannelInv(c)'
      BY <3>3 DEF ChannelInv, Pending
    <3> QED BY <3>1, <3>2, <3>3, <3>4, <3>5
  <2>3. ASSUME NEW at \in {"gate", "proxy"}, WaitsAt(w, c, how, at)
        PROVE  /\ shows'[c] \in {w, None}
               /\ \A d \in Chans : d # c => chan'[d] = chan[d] /\ shows'[d] = shows[d]
               /\ \A v \in Sessions : v # w =>
                    /\ stage'[v] = stage[v] /\ proc'[v] = proc[v] /\ alive'[v] = alive[v]
                    /\ stopping'[v] = stopping[v] /\ out'[v] = out[v]
                    /\ graceTimer'[v] = graceTimer[v] /\ (v \in running' <=> v \in running)
               /\ SessionInv(w)' /\ ChannelInv(c)'
    <3>1. /\ stage'[w] = at /\ \A v \in Sessions : v # w => stage'[v] = stage[v]
          /\ UNCHANGED <<running, out, graceTimer, alive, stopping, proc>>
      BY <1>0, <2>3 DEF TypeOK, stopVars, WaitsAt
    <3>2. /\ chan'[c] = how /\ shows'[c] = w
          /\ \A d \in Chans : d # c => chan'[d] = chan[d] /\ shows'[d] = shows[d]
      BY <1>0, <2>3 DEF TypeOK, Awaits, WaitsAt
    <3>3. SessionInv(w)'
      BY <1>0, <3>1 DEF SessionInv, Up
    <3>4. ChannelInv(c)'
      BY <1>0, <3>1, <3>2 DEF ChannelInv, Pending
    <3> QED BY <3>1, <3>2, <3>3, <3>4
  <2> QED BY <2>1, <2>2, <2>3 DEF PastTheGate, WaitsAt
<1>2. ASSUME NEW d \in Chans, shows'[d] \in {w, None} PROVE ChannelInv(d)'
  <2>1. CASE d = c
    BY <1>1, <2>1
  <2>2. CASE d # c
    <3>1. shows'[d] = None /\ chan'[d] = "none"
      BY <1>0, <1>1, <1>2, <2>2, ShowsNothing
    <3> QED BY <3>1 DEF ChannelInv, Pending
  <2> QED BY <2>1, <2>2
<1>3. \A d \in Chans : \/ chan'[d] = chan[d] /\ shows'[d] = shows[d]
                       \/ shows[d] \in {w, None} /\ shows'[d] \in {w, None}
  BY <1>1
<1> QED BY <1>1, <1>2, <1>3, SeatOfOne
\* A launch that has not spawned has no window but the one it was opened for.
LEMMA LaunchWindow ==
  ASSUME Inv, NEW w \in Sessions, NEW c \in Chans, stage[w] # "up",
         shows[c] = w
  PROVE  chan[c] \in Pending /\ proc[w] = "none" /\ \A d \in Chans : shows[d] = w => d = c
BY WindowsOf DEF Inv, SessionInv

\* Every step keeps sessions and windows together.
LEMMA SeatStep ==
  ASSUME Inv, Next
  PROVE  SeatInv'
<1>0. TypeOK /\ WaylandAssumption /\ \A w \in Sessions : SessionInv(w) /\ PoliteInv(w)
  BY WaylandAssumption DEF Inv
<1>1. ASSUME NEW w \in Sessions, NEW c \in Chans, Launch(w, c) PROVE SeatInv'
  <2>1. /\ stage[w] = "none" /\ proc[w] = "none" /\ chan[c] = "none" /\ windowGrace' = windowGrace
        /\ PastTheGate(w, c, "waiting") \/ WaitsAt(w, c, "waiting", "gate")
    BY <1>0, <1>1 DEF Launch, WaitsAt, SessionInv
  <2>2. shows[c] = None
    BY <2>1 DEF Inv, ChannelInv
  <2>3. \A d \in Chans : shows[d] # w
    BY <2>1, WindowsOf DEF Inv, ChannelInv
  <2>4. "waiting" \in Pending
    BY DEF Pending
  <2> QED BY <2>1, <2>2, <2>3, <2>4, LaunchSeat
<1>2. ASSUME NEW w \in Sessions, NEW c \in Chans, GateOpens(w, c) PROVE SeatInv'
  <2>1. stage[w] # "up" /\ shows[c] = w /\ PastTheGate(w, c, chan[c]) /\ windowGrace' = windowGrace
    BY <1>2 DEF GateOpens
  <2> QED BY <2>1, LaunchWindow, LaunchSeat
<1>3. ASSUME NEW w \in Sessions, NEW c \in Chans, ProxyOpens(w, c) PROVE SeatInv'
  <2>1. stage[w] # "up" /\ shows[c] = w /\ PastTheGate(w, c, chan[c]) /\ windowGrace' = windowGrace
    BY <1>3 DEF ProxyOpens, PastTheGate
  <2> QED BY <2>1, LaunchWindow, LaunchSeat
<1>4. ASSUME NEW w \in Sessions, NEW c \in Chans, Attach(w, c) PROVE SeatInv'
  BY <1>4, AttachSeat
<1>5. ASSUME NEW c \in Chans, WindowCloses(c) PROVE SeatInv'
  <2>1. UNCHANGED <<windowGrace, stage, proc>>
    BY <1>5 DEF WindowCloses
  <2>2. CASE chan[c] = "live" /\ OnClose(c, FALSE)
    BY <2>1, <2>2, OnCloseSeat
  <2>3. CASE /\ chan[c] = "waiting" /\ chan' = [chan EXCEPT ![c] = "asked"]
             /\ UNCHANGED <<shows, running, out, graceTimer, stopVars, told>>
    BY <2>1, <2>3, StillWaits DEF Pending, stopVars
  <2> QED BY <1>5, <2>2, <2>3 DEF WindowCloses
<1>6. ASSUME NEW c \in Chans, ConnectionDrops(c) PROVE SeatInv'
  <2>1. UNCHANGED <<windowGrace, stage, proc>>
    BY <1>6 DEF ConnectionDrops
  <2>2. CASE chan[c] = "live" /\ OnClose(c, TRUE)
    BY <2>1, <2>2, OnCloseSeat
  <2>3. CASE /\ chan[c] \in {"waiting", "asked"} /\ chan' = [chan EXCEPT ![c] = "lost"]
             /\ UNCHANGED <<shows, running, out, graceTimer, stopVars, told>>
    BY <2>1, <2>3, StillWaits DEF Pending, stopVars
  <2> QED BY <1>6, <2>2, <2>3 DEF ConnectionDrops
<1>7. ASSUME NEW c \in Chans, CloseWindow(c) PROVE SeatInv'
  BY <1>7, NoSeats DEF CloseWindow, seatVars, stopVars
<1>8. ASSUME NEW w \in Sessions, MapsOrUnmaps(w) PROVE SeatInv'
  BY <1>8, NoSeats DEF MapsOrUnmaps, seatVars, stopVars
<1>9. ASSUME NEW w \in Sessions, Malformed(w) PROVE SeatInv'
  <2>1. /\ Finish(w) /\ Stop(w) /\ proc[w] # "none"
        /\ UNCHANGED <<windowGrace, stage, proc>>
    BY <1>9 DEF Malformed
  <2>2. running' = running \ {w} /\ out'[w] = None /\ ~graceTimer'[w]
    BY <1>0, <2>1, FinishFacts
  <2>3. SessionInv(w)'
    BY <2>1, <2>2, StopSession
  <2> QED BY <1>0, <2>1, <2>3, FinishFacts, StopFacts, WindowGone
<1>10. ASSUME NEW w \in Sessions, Exits(w) PROVE SeatInv'
  <2>1. /\ Finish(w) /\ Up(w) /\ proc' = [proc EXCEPT ![w] = "exited"]
        /\ alive' = [alive EXCEPT ![w] = FALSE] /\ stopping' = stopping
        /\ UNCHANGED <<windowGrace, stage>>
    BY <1>10 DEF Exits
  <2>2. /\ proc'[w] = "exited" /\ ~alive'[w]
        /\ \A v \in Sessions : v # w => proc'[v] = proc[v] /\ alive'[v] = alive[v]
    BY <1>0, <2>1 DEF TypeOK
  <2>3. proc[w] # "none"
    BY <2>1 DEF Up
  <2>4. running' = running \ {w} /\ out'[w] = None /\ ~graceTimer'[w]
    BY <1>0, <2>1, FinishFacts
  <2>5. SessionInv(w)'
    BY <1>0, <2>1, <2>2, <2>3, <2>4 DEF SessionInv, Up
  <2>6. /\ \A v \in Sessions : v # w => out'[v] = out[v] /\ graceTimer'[v] = graceTimer[v]
        /\ \A d \in Chans : IF d = out[w]
             THEN chan'[d] = "none" /\ shows'[d] = None
             ELSE chan'[d] = chan[d] /\ shows'[d] = shows[d]
    BY <1>0, <2>1, FinishFacts
  <2>7. \A v \in Sessions : v # w => stopping'[v] = stopping[v] /\ (v \in running' <=> v \in running)
    BY <2>1, <2>4
  <2> QED BY <2>1, <2>2, <2>3, <2>5, <2>6, <2>7, WindowGone
<1>11. ASSUME NEW w \in Sessions, GraceFires(w) PROVE SeatInv'
  <2>1. /\ Stop(w) /\ graceTimer' = [graceTimer EXCEPT ![w] = FALSE]
        /\ UNCHANGED <<windowGrace, stage, chan, shows, running, out, proc>>
    BY <1>11 DEF GraceFires
  <2>2. ~graceTimer'[w] /\ \A v \in Sessions : v # w => graceTimer'[v] = graceTimer[v]
    BY <1>0, <2>1 DEF TypeOK
  <2>3. out'[w] # None => w \in running'
    BY <1>0, <2>1 DEF SessionInv
  <2>4. SessionInv(w)'
    BY <2>1, <2>2, <2>3, StopSession
  <2>5. \A v \in Sessions : v # w =>
          proc'[v] = proc[v] /\ alive'[v] = alive[v] /\ stopping'[v] = stopping[v]
    BY <1>0, <2>1, StopFacts
  <2> QED BY <2>1, <2>2, <2>4, <2>5, SameWindows
<1>12. ASSUME NEW w \in Sessions, AskFires(w) PROVE SeatInv'
  <2>1. /\ Escalate(w) /\ asks[w] > 0
        /\ UNCHANGED <<windowGrace, stage, chan, shows, running, out, graceTimer, stopping, proc>>
    BY <1>12 DEF AskFires, seatVars
  <2>2. ~alive'[w] /\ \A v \in Sessions : v # w => alive'[v] = alive[v]
    BY <1>0, <2>1, EscalateFacts
  <2>3. stopping[w] /\ SessionInv(w)
    BY <1>0, <2>1 DEF PoliteInv
  <2>4. SessionInv(w)'
    BY <2>1, <2>2, <2>3 DEF SessionInv, Up
  <2> QED BY <2>1, <2>2, <2>4, SameWindows
<1>13. ASSUME NEW w \in Sessions, KillFires(w) PROVE SeatInv'
  <2>1. /\ proc' = [proc EXCEPT ![w] = IF proc[w] = "running" THEN "killed" ELSE proc[w]]
        /\ UNCHANGED <<windowGrace, stage, chan, shows, running, out, graceTimer, alive, stopping>>
    BY <1>13 DEF KillFires, seatVars
  <2>2. /\ proc'[w] = IF proc[w] = "running" THEN "killed" ELSE proc[w]
        /\ \A v \in Sessions : v # w => proc'[v] = proc[v]
    BY <1>0, <2>1 DEF TypeOK
  <2>3. SessionInv(w)'
    BY <1>0, <2>1, <2>2 DEF SessionInv, Up
  <2> QED BY <2>1, <2>2, <2>3, SameWindows
<1> QED
  BY <1>1, <1>2, <1>3, <1>4, <1>5, <1>6, <1>7, <1>8, <1>9, <1>10, <1>11, <1>12, <1>13
  DEF Next
-----------------------------------------------------------------------------
(* Asking first.                                                           *)

\* stop() sends the close it counts on.
LEMMA StopPolite ==
  ASSUME Inv, NEW w \in Sessions, Stop(w), proc' = proc, closeAsked' = closeAsked
  PROVE  \A v \in Sessions : PoliteInv(v)'
<1>0. TypeOK /\ \A v \in Sessions : PoliteInv(v)
  BY DEF Inv
<1>1. \A v \in Sessions : v # w => PoliteInv(v)'
  BY <1>0, StopFacts DEF PoliteInv
<1>2. /\ told[w] => told'[w]
      /\ stopping[w] => stopping'[w]
      /\ asks'[w] = asks[w] \/ told'[w]
      /\ asks'[w] = asks[w] \/ stopping'[w]
  BY <1>0, StopFacts
<1>3. PoliteInv(w)'
  BY <1>0, <1>2 DEF PoliteInv
<1> QED BY <1>1, <1>3

\* Every step keeps to it.
LEMMA PoliteStep ==
  ASSUME Inv, Next
  PROVE  \A v \in Sessions : PoliteInv(v)'
<1>0. TypeOK /\ \A v \in Sessions : PoliteInv(v) /\ SessionInv(v) /\ TimerInv(v)
  BY DEF Inv
<1>1. CASE UNCHANGED <<proc, closeAsked, told, asks, stopping>>
  BY <1>0, <1>1 DEF PoliteInv
<1>2. ASSUME NEW w \in Sessions, NEW c \in Chans, NEW how,
             PastTheGate(w, c, how), stage[w] # "up", UNCHANGED politeVars
      PROVE  \A v \in Sessions : PoliteInv(v)'
  <2>1. /\ asks' = asks /\ closeAsked' = closeAsked /\ told' = told
        /\ \/ /\ stopping' = [stopping EXCEPT ![w] =
                   how # "waiting" /\ ~(how = "lost" /\ windowGrace # "zero")]
              /\ proc' = [proc EXCEPT ![w] = "running"]
           \/ stopping' = stopping /\ proc' = proc
    BY <1>2 DEF PastTheGate, Spawned, SpawnFails, politeVars, stopVars
  <2>2. \A v \in Sessions : v # w => stopping'[v] = stopping[v] /\ proc'[v] = proc[v]
    BY <1>0, <2>1 DEF TypeOK
  <2>3. proc[w] = "none" /\ asks[w] = 0
    BY <1>0, <1>2 DEF SessionInv, TimerInv
  <2>4. PoliteInv(w)'
    BY <1>0, <2>1, <2>3 DEF PoliteInv
  <2> QED BY <1>0, <2>1, <2>2, <2>4 DEF PoliteInv
<1>3. ASSUME NEW w \in Sessions, NEW c \in Chans,
             Launch(w, c) \/ GateOpens(w, c) \/ ProxyOpens(w, c)
      PROVE  \A v \in Sessions : PoliteInv(v)'
  <2>1. stage[w] # "up" /\ UNCHANGED politeVars
    BY <1>3 DEF Launch, GateOpens, ProxyOpens, politeVars
  <2>2. \/ \E how : PastTheGate(w, c, how)
        \/ UNCHANGED <<asks, stopping, proc>>
    BY <1>3 DEF Launch, GateOpens, ProxyOpens, PastTheGate, stopVars
  <2> QED BY <1>1, <1>2, <2>1, <2>2 DEF politeVars
<1>4. ASSUME NEW c \in Chans, NEW lost \in BOOLEAN, chan[c] = "live", OnClose(c, lost),
             proc' = proc, closeAsked' = closeAsked
      PROVE  \A v \in Sessions : PoliteInv(v)'
  <2>1. shows[c] \in Sessions
    BY <1>4, OnCloseFacts
  <2>2. Stop(shows[c]) \/ UNCHANGED <<stopVars, told>>
    BY <1>4, OnCloseFacts
  <2> QED BY <1>1, <1>4, <2>1, <2>2, StopPolite DEF stopVars
<1>5. ASSUME NEW c \in Chans, WindowCloses(c) \/ ConnectionDrops(c)
      PROVE  \A v \in Sessions : PoliteInv(v)'
  <2>1. proc' = proc /\ closeAsked' = closeAsked
    BY <1>5 DEF WindowCloses, ConnectionDrops
  <2>2. \/ chan[c] = "live" /\ (OnClose(c, TRUE) \/ OnClose(c, FALSE))
        \/ UNCHANGED <<stopVars, told>>
    BY <1>5 DEF WindowCloses, ConnectionDrops
  <2> QED BY <1>1, <1>4, <2>1, <2>2 DEF stopVars
<1>6. ASSUME NEW c \in Chans, CloseWindow(c) PROVE \A v \in Sessions : PoliteInv(v)'
  <2>1. PICK w \in Sessions : w = shows[c]
    BY <1>6, OnCloseFacts DEF CloseWindow, Inv, ChannelInv, TypeOK
  <2>2. /\ told' = [told EXCEPT ![w] = TRUE] /\ closeAsked' = [closeAsked EXCEPT ![w] = TRUE]
        /\ UNCHANGED <<proc, asks, stopping>>
    BY <1>6, <2>1 DEF CloseWindow, stopVars
  <2> QED BY <1>0, <2>2 DEF PoliteInv, TypeOK
<1>7. ASSUME NEW w \in Sessions, Malformed(w) \/ GraceFires(w)
      PROVE  \A v \in Sessions : PoliteInv(v)'
  BY <1>7, StopPolite DEF Malformed, GraceFires
<1>8. ASSUME NEW w \in Sessions, AskFires(w) PROVE \A v \in Sessions : PoliteInv(v)'
  <2>1. asks' = [asks EXCEPT ![w] = asks[w] - 1] /\ asks[w] > 0
        /\ UNCHANGED <<proc, closeAsked, told, stopping>>
    BY <1>8 DEF AskFires, politeVars
  <2> QED BY <1>0, <2>1 DEF PoliteInv, TypeOK
<1>9. ASSUME NEW w \in Sessions, KillFires(w) PROVE \A v \in Sessions : PoliteInv(v)'
  BY <1>0, <1>9 DEF KillFires, politeVars, PoliteInv, TypeOK
<1>10. ASSUME NEW w \in Sessions, Exits(w) PROVE \A v \in Sessions : PoliteInv(v)'
  <2>1. /\ asks' = [asks EXCEPT ![w] = IF killTimer[w] = "ask" THEN asks[w] - 1 ELSE asks[w]]
        /\ proc' = [proc EXCEPT ![w] = "exited"] /\ told' = [told EXCEPT ![w] = FALSE]
        /\ closeAsked' = [closeAsked EXCEPT ![w] = FALSE] /\ stopping' = stopping
    BY <1>10 DEF Exits
  <2>2. asks[w] \in Nat
    BY <1>0, WaylandAssumption DEF TypeOK
  <2>3. asks'[w] > 0 => asks[w] > 0
    BY <1>0, <2>1, <2>2 DEF TypeOK, TimerInv
  <2>4. /\ proc'[w] = "exited"
        /\ \A v \in Sessions : v # w =>
             /\ proc'[v] = proc[v] /\ told'[v] = told[v]
             /\ closeAsked'[v] = closeAsked[v] /\ asks'[v] = asks[v]
    BY <1>0, <2>1 DEF TypeOK
  <2> QED BY <1>0, <2>1, <2>3, <2>4 DEF PoliteInv
<1> QED
  <2>1. ASSUME NEW w \in Sessions, NEW c \in Chans, Attach(w, c)
        PROVE  \A v \in Sessions : PoliteInv(v)'
    BY <1>1, <2>1 DEF Attach, politeVars, stopVars
  <2>2. ASSUME NEW w \in Sessions, MapsOrUnmaps(w) PROVE \A v \in Sessions : PoliteInv(v)'
    BY <1>1, <2>2 DEF MapsOrUnmaps, politeVars, stopVars
  <2> QED BY <1>3, <1>5, <1>6, <1>7, <1>8, <1>9, <1>10, <2>1, <2>2 DEF Next
-----------------------------------------------------------------------------
(* Types.                                                                  *)

\* What TypeOK says of all but the timers, part by part.
LaunchTypes ==
  /\ windowGrace \in {"zero", "finite", "forever"}
  /\ stage \in [Sessions -> {"none", "gate", "proxy", "up", "failed"}]

SeatTypes ==
  /\ chan \in [Chans -> {"none", "waiting", "asked", "lost", "live"}]
  /\ shows \in [Chans -> Sessions \cup {None}]
  /\ running \subseteq Sessions
  /\ out \in [Sessions -> Chans \cup {None}]
  /\ graceTimer \in [Sessions -> BOOLEAN]

ProcTypes ==
  /\ proc \in [Sessions -> {"none", "running", "killed", "exited"}]
  /\ mapped \in [Sessions -> BOOLEAN] /\ alive \in [Sessions -> BOOLEAN]
  /\ stopping \in [Sessions -> BOOLEAN] /\ closeAsked \in [Sessions -> BOOLEAN]
  /\ told \in [Sessions -> BOOLEAN] /\ expired \in [Sessions -> BOOLEAN]

\* A launch keeps them.
LEMMA LaunchTypeStep ==
  ASSUME Inv, NEW w \in Sessions, NEW c \in Chans, NEW how \in Pending,
         PastTheGate(w, c, how) \/ WaitsAt(w, c, how, "gate"),
         UNCHANGED <<politeVars, mapped, expired>>
  PROVE  /\ SeatTypes' /\ ProcTypes'
         /\ stage' \in [Sessions -> {"none", "gate", "proxy", "up", "failed"}]
<1>0. TypeOK /\ w # None
  BY WaylandAssumption DEF Inv
<1>1. CASE Spawned(w, c, how)
  <2>1. chan' \in [Chans -> {"none", "waiting", "asked", "lost", "live"}]
    BY <1>0, <1>1, CloseFacts DEF Spawned, TypeOK
  <2>2. shows' \in [Chans -> Sessions \cup {None}]
    BY <1>0, <1>1, CloseFacts DEF Spawned, TypeOK
  <2>3. running' \subseteq Sessions /\ out' \in [Sessions -> Chans \cup {None}]
    BY <1>0, <1>1 DEF Spawned, TypeOK
  <2>4. graceTimer' \in [Sessions -> BOOLEAN] /\ stopping' \in [Sessions -> BOOLEAN]
    BY <1>0, <1>1, Zenon DEF Spawned, TypeOK
  <2>5. alive' \in [Sessions -> BOOLEAN]
    BY <1>0, <1>1, EscalateFacts DEF Spawned, TypeOK
  <2>6. /\ stage' \in [Sessions -> {"none", "gate", "proxy", "up", "failed"}]
        /\ proc' \in [Sessions -> {"none", "running", "killed", "exited"}]
    BY <1>0, <1>1 DEF Spawned, TypeOK
  <2> QED BY <1>0, <2>1, <2>2, <2>3, <2>4, <2>5, <2>6 DEF SeatTypes, ProcTypes, TypeOK, politeVars
<1>2. CASE SpawnFails(w, c)
  BY <1>0, <1>2, CloseFacts DEF SpawnFails, TypeOK, SeatTypes, ProcTypes, politeVars, stopVars
<1>3. ASSUME NEW at \in {"gate", "proxy"}, WaitsAt(w, c, how, at)
      PROVE  /\ SeatTypes' /\ ProcTypes'
             /\ stage' \in [Sessions -> {"none", "gate", "proxy", "up", "failed"}]
  BY <1>0, <1>3
  DEF WaitsAt, Awaits, Pending, TypeOK, SeatTypes, ProcTypes, politeVars, stopVars
<1> QED BY <1>1, <1>2, <1>3 DEF PastTheGate, WaitsAt

\* onClose() keeps them.
LEMMA OnCloseTypes ==
  ASSUME Inv, NEW c \in Chans, chan[c] = "live", NEW lost \in BOOLEAN, OnClose(c, lost),
         UNCHANGED <<closeAsked, proc, mapped, expired>>
  PROVE  SeatTypes' /\ ProcTypes'
<1>1. PICK w \in Sessions : w = shows[c]
  BY OnCloseFacts
<1>2. /\ TypeOK /\ Close(c) /\ running' = running /\ out' = [out EXCEPT ![w] = None]
      /\ \/ /\ graceTimer' = [graceTimer EXCEPT ![w] = WaitsOnTimer]
            /\ UNCHANGED <<stopVars, told>>
         \/ Stop(w) /\ UNCHANGED graceTimer
  BY <1>1, OnCloseFacts DEF Inv
<1>3. SeatTypes'
  BY <1>2, CloseFacts DEF SeatTypes, TypeOK, WaitsOnTimer
<1>4. ProcTypes'
  BY <1>2, StopFacts DEF ProcTypes, TypeOK, stopVars
<1> QED BY <1>3, <1>4

\* Every step keeps the types.
LEMMA TypeStep ==
  ASSUME Inv, Next
  PROVE  TypeOK'
<1>0. /\ TypeOK /\ \A v \in Sessions : SessionInv(v)
      /\ LaunchTypes /\ SeatTypes /\ ProcTypes
  BY DEF Inv, TypeOK, LaunchTypes, SeatTypes, ProcTypes
<1>1. TimersOK'
  BY TimerStep
<1> SUFFICES LaunchTypes' /\ SeatTypes' /\ ProcTypes'
  BY <1>1 DEF LaunchTypes, SeatTypes, ProcTypes, TimersOK, TypeOK
<1>2. ASSUME NEW w \in Sessions, NEW c \in Chans, Launch(w, c)
      PROVE  LaunchTypes' /\ SeatTypes' /\ ProcTypes'
  <2>1. /\ "waiting" \in Pending /\ UNCHANGED <<windowGrace, politeVars, mapped, expired>>
        /\ PastTheGate(w, c, "waiting") \/ WaitsAt(w, c, "waiting", "gate")
    BY <1>2 DEF Launch, WaitsAt, Pending
  <2> QED BY <1>0, <2>1, LaunchTypeStep DEF LaunchTypes
<1>3. ASSUME NEW w \in Sessions, NEW c \in Chans, GateOpens(w, c) \/ ProxyOpens(w, c)
      PROVE  LaunchTypes' /\ SeatTypes' /\ ProcTypes'
  <2>1. /\ stage[w] # "up" /\ shows[c] = w /\ PastTheGate(w, c, chan[c])
        /\ UNCHANGED <<windowGrace, politeVars, mapped, expired>>
    BY <1>3 DEF GateOpens, ProxyOpens, PastTheGate
  <2>2. chan[c] \in Pending
    BY <2>1, LaunchWindow
  <2> QED BY <1>0, <2>1, <2>2, LaunchTypeStep DEF LaunchTypes
<1>4. ASSUME UNCHANGED <<windowGrace, stage>> PROVE LaunchTypes'
  BY <1>0, <1>4 DEF LaunchTypes
<1>5. ASSUME NEW w \in Sessions, NEW c \in Chans, Attach(w, c)
      PROVE  LaunchTypes' /\ SeatTypes' /\ ProcTypes'
  <2>1. LaunchTypes' /\ ProcTypes'
    BY <1>0, <1>4, <1>5 DEF Attach, ProcTypes, stopVars, politeVars
  <2>2. /\ chan' \in [Chans -> {"none", "waiting", "asked", "lost", "live"}]
        /\ shows' \in [Chans -> Sessions \cup {None}]
    BY <1>0, <1>5 DEF Attach, SeatTypes
  <2>3. SeatTypes'
    BY <1>0, <1>5, <2>2 DEF Attach, ClaimTimer, SeatTypes
  <2> QED BY <2>1, <2>3
<1>6. ASSUME NEW c \in Chans, WindowCloses(c) \/ ConnectionDrops(c)
      PROVE  LaunchTypes' /\ SeatTypes' /\ ProcTypes'
  <2>1. UNCHANGED <<windowGrace, stage, closeAsked, proc, mapped, expired>>
    BY <1>6 DEF WindowCloses, ConnectionDrops
  <2>2. CASE chan[c] = "live" /\ (OnClose(c, TRUE) \/ OnClose(c, FALSE))
    BY <1>4, <2>1, <2>2, OnCloseTypes
  <2>3. CASE /\ chan' = [chan EXCEPT ![c] = "asked"] \/ chan' = [chan EXCEPT ![c] = "lost"]
             /\ UNCHANGED <<shows, running, out, graceTimer, stopVars, told>>
    BY <1>0, <1>4, <2>1, <2>3 DEF SeatTypes, ProcTypes, stopVars
  <2> QED BY <1>6, <2>2, <2>3 DEF WindowCloses, ConnectionDrops
<1>7. ASSUME NEW c \in Chans, CloseWindow(c) PROVE LaunchTypes' /\ SeatTypes' /\ ProcTypes'
  BY <1>0, <1>4, <1>7 DEF CloseWindow, SeatTypes, ProcTypes, seatVars, stopVars
<1>8. ASSUME NEW w \in Sessions, MapsOrUnmaps(w)
      PROVE  LaunchTypes' /\ SeatTypes' /\ ProcTypes'
  BY <1>0, <1>4, <1>8 DEF MapsOrUnmaps, SeatTypes, ProcTypes, seatVars, stopVars, politeVars
<1>9. ASSUME NEW w \in Sessions, Malformed(w)
      PROVE  LaunchTypes' /\ SeatTypes' /\ ProcTypes'
  <2>1. /\ Finish(w) /\ Stop(w)
        /\ UNCHANGED <<windowGrace, stage, closeAsked, proc, mapped, expired>>
    BY <1>9 DEF Malformed
  <2> QED BY <1>0, <1>4, <2>1, FinishFacts, StopFacts DEF SeatTypes, ProcTypes
<1>10. ASSUME NEW w \in Sessions, Exits(w) PROVE LaunchTypes' /\ SeatTypes' /\ ProcTypes'
  <2>1. SeatTypes'
    BY <1>0, <1>10, FinishFacts DEF Exits, SeatTypes
  <2>2. LaunchTypes' /\ ProcTypes'
    BY <1>0, <1>4, <1>10 DEF Exits, ProcTypes
  <2> QED BY <2>1, <2>2
<1>11. ASSUME NEW w \in Sessions, GraceFires(w)
       PROVE  LaunchTypes' /\ SeatTypes' /\ ProcTypes'
  <2>1. SeatTypes'
    BY <1>0, <1>11 DEF GraceFires, SeatTypes
  <2>2. LaunchTypes' /\ ProcTypes'
    BY <1>0, <1>4, <1>11, StopFacts DEF GraceFires, ProcTypes
  <2> QED BY <2>1, <2>2
<1>12. ASSUME NEW w \in Sessions, AskFires(w) PROVE LaunchTypes' /\ SeatTypes' /\ ProcTypes'
  BY <1>0, <1>4, <1>12, EscalateFacts DEF AskFires, SeatTypes, ProcTypes, seatVars, politeVars
<1>13. ASSUME NEW w \in Sessions, KillFires(w) PROVE LaunchTypes' /\ SeatTypes' /\ ProcTypes'
  <2>1. SeatTypes' /\ LaunchTypes'
    BY <1>0, <1>4, <1>13 DEF KillFires, SeatTypes, seatVars
  <2>2. ProcTypes'
    BY <1>0, <1>13 DEF KillFires, ProcTypes, politeVars
  <2> QED BY <2>1, <2>2
<1> QED
  BY <1>2, <1>3, <1>5, <1>6, <1>7, <1>8, <1>9, <1>10, <1>11, <1>12, <1>13 DEF Next
-----------------------------------------------------------------------------
(* The invariant and what follows from it.                                 *)

LEMMA InvInit == Init => Inv
<1> SUFFICES ASSUME Init PROVE Inv
  OBVIOUS
<1>1. TypeOK
  BY WaylandAssumption DEF Init, TypeOK, Nowhere
<1>2. ASSUME NEW w \in Sessions
      PROVE  SessionInv(w) /\ TimerInv(w) /\ PoliteInv(w)
  <2>1. /\ stage[w] = "none" /\ proc[w] = "none" /\ w \notin running /\ ~alive[w]
        /\ out[w] = None /\ ~graceTimer[w] /\ ~closeAsked[w]
        /\ asks[w] = 0 /\ kills[w] = 0 /\ killTimer[w] = "none"
    BY DEF Init, Nowhere
  <2>2. SessionInv(w) /\ PoliteInv(w)
    BY <2>1 DEF SessionInv, PoliteInv, Up
  <2>3. TimerInv(w)
    BY <2>1, WaylandAssumption DEF TimerInv
  <2> QED BY <2>2, <2>3
<1>3. \A c \in Chans : ChannelInv(c)
  BY DEF Init, ChannelInv, Pending
<1> QED BY <1>1, <1>2, <1>3 DEF Inv

LEMMA InvStep == Inv /\ [Next]_vars => Inv'
<1> SUFFICES ASSUME Inv, [Next]_vars PROVE Inv'
  OBVIOUS
<1>1. CASE Next
  BY <1>1, TypeStep, TimerStep, SeatStep, PoliteStep DEF Inv, TimersOK, SeatInv
<1>2. CASE UNCHANGED vars
  BY <1>2
  DEF vars, seatVars, stopVars, politeVars, Inv, TypeOK, SessionInv, ChannelInv,
      TimerInv, PoliteInv, Up
<1> QED BY <1>1, <1>2

\* Sessions, windows and timers stay consistent, however many there are.
THEOREM Consistent == Spec => []Inv
BY InvInit, InvStep, PTL DEF Spec

\* Every variable keeps its type.
THEOREM TypeCorrect == Spec => []TypeOK
<1>1. Inv => TypeOK
  BY DEF Inv
<1> QED BY <1>1, Consistent, PTL

\* A live window and its session belong to each other (attach, onClose,
\* finish): none is left drawing nothing, none is shown twice.
THEOREM WindowsHoldTheirSessions == Spec => []WindowsAndSessionsAgree
<1>1. Inv => WindowsAndSessionsAgree
  <2> SUFFICES ASSUME Inv, NEW c \in Chans
               PROVE  chan[c] = "live" <=> \E w \in running : shows[c] = w /\ out[w] = c
    BY DEF WindowsAndSessionsAgree
  <2>1. chan[c] = "live" => \E w \in running : shows[c] = w /\ out[w] = c
    BY DEF Inv, ChannelInv
  <2>2. ASSUME NEW w \in running, shows[c] = w, out[w] = c PROVE chan[c] = "live"
    BY <2>2, WaylandAssumption DEF Inv, TypeOK, SessionInv
  <2> QED BY <2>1, <2>2
<1> QED BY <1>1, Consistent, PTL

\* No application runs on unseen (onClose, finish, stop), and no clock runs
\* under a window (attach).
THEOREM NobodyIsForgotten == Spec => []NobodyForgotten
<1>1. Inv => NobodyForgotten
  BY DEF Inv, SessionInv, NobodyForgotten
<1> QED BY <1>1, Consistent, PTL

\* stop() asks before it takes the display away.
THEOREM AskedFirst == Spec => AskedBeforeTheDisplayGoes
<1> DEFINE Asked == \A w \in Sessions :
                      alive[w] /\ ~alive'[w] /\ Up(w)' /\ mapped[w] => told[w]
<1>1. Inv /\ [Next]_vars => [Asked]_vars
  <2> SUFFICES ASSUME Inv, Next, NEW w \in Sessions,
                      alive[w], ~alive'[w], Up(w)', mapped[w]
               PROVE  told[w]
    OBVIOUS
  <2>0. /\ TypeOK /\ proc[w] # "exited" /\ stage[w] = "up"
        /\ closeAsked[w] \/ asks[w] > 0 => told[w]
    BY DEF Inv, SessionInv, PoliteInv, Up
  <2>1. ASSUME NEW v \in Sessions, Stop(v) PROVE told[w]
    BY <2>0, <2>1, StopFacts
  <2>2. ASSUME NEW v \in Sessions, AskFires(v) PROVE told[w]
    <3>1. v = w
      BY <2>0, <2>2, EscalateFacts DEF AskFires
    <3> QED BY <2>0, <2>2, <3>1 DEF AskFires
  <2>3. ASSUME NEW v \in Sessions, Exits(v) PROVE told[w]
    BY <2>0, <2>3 DEF Exits, TypeOK, Up
  <2>4. ASSUME NEW v \in Sessions, NEW c \in Chans, NEW how, PastTheGate(v, c, how),
               stage[v] # "up"
        PROVE  told[w]
    BY <2>0, <2>4, EscalateFacts DEF PastTheGate, Spawned, SpawnFails, TypeOK, stopVars
  <2>5. ASSUME NEW c \in Chans, NEW lost \in BOOLEAN, chan[c] = "live", OnClose(c, lost)
        PROVE  told[w]
    BY <2>1, <2>5, OnCloseFacts DEF stopVars
  <2>6. ASSUME NEW v \in Sessions, NEW c \in Chans,
               Launch(v, c) \/ GateOpens(v, c) \/ ProxyOpens(v, c)
        PROVE  told[w]
    BY <2>4, <2>6 DEF Launch, GateOpens, ProxyOpens, PastTheGate, stopVars
  <2>7. ASSUME NEW c \in Chans, WindowCloses(c) \/ ConnectionDrops(c) PROVE told[w]
    BY <2>5, <2>7 DEF WindowCloses, ConnectionDrops, stopVars
  <2>8. \/ \E v \in Sessions : Stop(v) \/ AskFires(v) \/ Exits(v)
        \/ \E v \in Sessions, c \in Chans : Launch(v, c) \/ GateOpens(v, c) \/ ProxyOpens(v, c)
        \/ \E c \in Chans : WindowCloses(c) \/ ConnectionDrops(c)
        \/ alive' = alive
    BY DEF Next, Attach, CloseWindow, MapsOrUnmaps, Malformed, GraceFires, KillFires, stopVars
  <2> QED BY <2>1, <2>2, <2>3, <2>6, <2>7, <2>8
<1>2. AskedBeforeTheDisplayGoes <=> [][Asked]_vars
  BY DEF AskedBeforeTheDisplayGoes
<1> QED BY <1>1, <1>2, Consistent, PTL DEF Spec
-----------------------------------------------------------------------------
(* The window in the page (WaylandWindow): what it shows is what is up.     *)

\* Views of what is up: the parent of each surface, unless it is down. A menu hangs from a
\* window.
Views == {v \in [Ids -> Tops \cup {No, Down}] : \A i \in Popups : v[i] # No}

\* The view the page has.
View == [i \in Ids |-> IF kind[i] = "none" THEN Down ELSE parent[i]]

\* What a window hangs from is up, and nothing hangs from itself, however indirectly.
WellFormed(v) ==
  /\ \A i \in Ids : v[i] \in Tops => v[v[i]] # Down
  /\ \A S \in SUBSET Ids :
       S # {} /\ (\A i \in S : v[i] # Down) => \E j \in S : v[j] \notin S

\* The channel picks a session up, whatever is shown of it.
Anew(r) == r = TRUE

\* How a message turns one view into the next; r is whether the channel picks a session up.
Turns(r, m, v, w) ==
  \/ m.t = "opened" /\ w = NothingUp /\ (Anew(r) \/ v = w)
  \/ m.t = "end" /\ w = v
  \/ /\ (m.t = "window" /\ m.id \in Tops) \/ (m.t = "popup" /\ m.id \in Popups)
     /\ m.up # Down /\ v[m.id] = Down /\ w = [v EXCEPT ![m.id] = m.up]
  \/ m.t \in {"hidden", "closed"} /\ m.id \in Ids /\ w = [v EXCEPT ![m.id] = Down]

\* The messages q lead from the view v to the view w, the latter while a window has the session.
Traced(r, q, v, w, a) ==
  \E W \in [0..Len(q) -> Views] :
    /\ W[0] = v /\ (a = TRUE => W[Len(q)] = w)
    /\ \A k \in 1..Len(q) : Turns(r, q[k], W[k - 1], W[k])
    /\ Anew(r) \/ \A k \in 0..Len(q) : WellFormed(W[k])

Messages ==
  [t : {"opened", "end", "window", "popup", "hidden", "closed"}, id : Ids \cup {No},
   up : Ids \cup {No}, error : BOOLEAN]

\* Nothing is on its way.
LEMMA NothingToTrace ==
  ASSUME NEW r, NEW v \in Views, NEW w, NEW a, a = TRUE => v = w, Anew(r) \/ WellFormed(v)
  PROVE  Traced(r, <<>>, v, w, a)
<1> DEFINE W == [k \in 0..0 |-> v]
<1>1. Len(<<>>) = 0
  BY EmptySeq
<1>2. W \in [0..0 -> Views] /\ W[0] = v
  OBVIOUS
<1>3. \A k \in 0..0 : W[k] = v
  OBVIOUS
<1> HIDE DEF W
<1>4. Anew(r) \/ \A k \in 0..0 : WellFormed(W[k])
  BY <1>3
<1>5. \A k \in 1..0 : Turns(r, <<>>[k], W[k - 1], W[k])
  OBVIOUS
<1> QED BY <1>1, <1>2, <1>4, <1>5 DEF Traced

\* Where a trace begins, and what it says when nobody has the session.
LEMMA TraceBegins ==
  ASSUME NEW r, NEW q \in Seq(Messages), NEW v, NEW w, NEW a, Traced(r, q, v, w, a)
  PROVE  /\ v \in Views /\ (Anew(r) \/ WellFormed(v)) /\ \A u, b : b # TRUE => Traced(r, q, v, u, b)
         /\ q = <<>> /\ a = TRUE => v = w
         /\ a = TRUE => w \in Views /\ (Anew(r) \/ WellFormed(w))
<1>1. Len(q) \in Nat /\ (q = <<>> => Len(q) = 0)
  BY LenProperties, EmptySeq
<1>2. PICK W \in [0..Len(q) -> Views] :
        /\ W[0] = v /\ (a = TRUE => W[Len(q)] = w)
        /\ \A k \in 1..Len(q) : Turns(r, q[k], W[k - 1], W[k])
        /\ Anew(r) \/ \A k \in 0..Len(q) : WellFormed(W[k])
  BY DEF Traced
<1>3. 0 \in 0..Len(q)
  BY <1>1
<1>4. v \in Views /\ (Anew(r) \/ WellFormed(v))
  BY <1>2, <1>3
<1>5. \A u, b : b # TRUE => Traced(r, q, v, u, b)
  BY <1>2 DEF Traced
<1>6. a = TRUE => w \in Views /\ (Anew(r) \/ WellFormed(w))
  <2>1. Len(q) \in 0..Len(q)
    BY <1>1
  <2> QED BY <1>2, <2>1
<1> QED BY <1>1, <1>2, <1>4, <1>5, <1>6

\* The first message is read.
LEMMA TraceRead ==
  ASSUME NEW r, NEW q \in Seq(Messages), q # <<>>, NEW v, NEW w, NEW a, Traced(r, q, v, w, a)
  PROVE  \E u \in Views : /\ Turns(r, Head(q), v, u) /\ Traced(r, Tail(q), u, w, a)
                          /\ Anew(r) \/ (WellFormed(v) /\ WellFormed(u))
<1> DEFINE n == Len(q)
<1>1. /\ n \in Nat /\ n # 0 /\ Head(q) = q[1] /\ Len(Tail(q)) = n - 1
      /\ \A i \in 1..(n - 1) : Tail(q)[i] = q[i + 1]
  <2>1. Len(q) \in Nat /\ Len(q) # 0
    BY LenProperties, EmptySeq
  <2>2. Len(Tail(q)) = Len(q) - 1 /\ \A i \in 1..Len(Tail(q)) : Tail(q)[i] = q[i + 1]
    BY HeadTailProperties
  <2> QED BY <2>1, <2>2
<1>2. PICK W \in [0..n -> Views] :
        /\ W[0] = v /\ (a = TRUE => W[n] = w)
        /\ \A k \in 1..n : Turns(r, q[k], W[k - 1], W[k])
        /\ Anew(r) \/ \A k \in 0..n : WellFormed(W[k])
  BY DEF Traced
<1> DEFINE X == [k \in 0..(n - 1) |-> W[k + 1]]
<1> HIDE DEF n
<1>3. \A k \in 0..(n - 1) : k + 1 \in 0..n /\ X[k] = W[k + 1]
  BY <1>1
<1>4. X \in [0..(n - 1) -> Views] /\ X[0] = W[1] /\ (a => X[n - 1] = w)
  <2>1. X \in [0..(n - 1) -> Views]
    BY <1>1, <1>2
  <2>2. 0 \in 0..(n - 1) /\ n - 1 \in 0..(n - 1) /\ 0 + 1 = 1 /\ (n - 1) + 1 = n
    BY <1>1
  <2> HIDE DEF X
  <2> QED BY <1>2, <1>3, <2>1, <2>2
<1>5. Turns(r, Head(q), v, W[1]) /\ W[1] \in Views
  <2>1. 1 \in 1..n /\ 1 - 1 = 0 /\ 1 \in 0..n
    BY <1>1
  <2> QED BY <1>1, <1>2, <2>1
<1>6. \A k \in 1..(n - 1) : Turns(r, Tail(q)[k], X[k - 1], X[k])
  <2> TAKE k \in 1..(n - 1)
  <2>1. /\ k \in 0..(n - 1) /\ k - 1 \in 0..(n - 1) /\ k + 1 \in 1..n
        /\ (k + 1) - 1 = k /\ (k - 1) + 1 = k
    BY <1>1
  <2>2. X[k] = W[k + 1] /\ X[k - 1] = W[k] /\ Tail(q)[k] = q[k + 1]
    BY <1>1, <1>3, <2>1
  <2>3. Turns(r, q[k + 1], W[(k + 1) - 1], W[k + 1])
    BY <1>2, <2>1
  <2> QED BY <2>1, <2>2, <2>3
<1> HIDE DEF X
<1>7. Anew(r) \/ \A k \in 0..(n - 1) : WellFormed(X[k])
  BY <1>2, <1>3
<1>8. Anew(r) \/ (WellFormed(v) /\ WellFormed(W[1]))
  <2>1. 0 \in 0..n /\ 1 \in 0..n
    BY <1>1
  <2> QED BY <1>2, <2>1
<1>9. Traced(r, Tail(q), W[1], w, a)
  BY <1>1, <1>4, <1>6, <1>7 DEF Traced
<1> QED BY <1>5, <1>8, <1>9

\* A message is sent.
LEMMA TraceSent ==
  ASSUME NEW r, NEW q \in Seq(Messages), NEW v, NEW w, NEW a, a = TRUE,
         Traced(r, q, v, w, a), NEW m, NEW u \in Views, Turns(r, m, w, u), Anew(r) \/ WellFormed(u)
  PROVE  Traced(r, Append(q, m), v, u, a)
<1> DEFINE n == Len(q)  p == Append(q, m)
<1>1. n \in Nat /\ Len(p) = n + 1 /\ p[n + 1] = m /\ \A k \in 1..n : p[k] = q[k]
  BY AppendProperties, LenProperties
<1>2. PICK W \in [0..n -> Views] :
        /\ W[0] = v /\ W[n] = w
        /\ \A k \in 1..n : Turns(r, q[k], W[k - 1], W[k])
        /\ Anew(r) \/ \A k \in 0..n : WellFormed(W[k])
  BY DEF Traced
<1> DEFINE X == [k \in 0..(n + 1) |-> IF k = n + 1 THEN u ELSE W[k]]
<1> HIDE DEF n, p
<1>3. X[n + 1] = u /\ \A k \in 0..n : X[k] = W[k]
  BY <1>1
<1>4. X \in [0..(n + 1) -> Views]
  BY <1>1, <1>2
<1> HIDE DEF X
<1>5. X[0] = v
  BY <1>1, <1>2, <1>3
<1>6. ASSUME NEW k \in 1..(n + 1) PROVE Turns(r, p[k], X[k - 1], X[k])
  <2>1. CASE k = n + 1
    <3>1. X[k - 1] = w
      BY <1>1, <1>2, <1>3, <2>1
    <3> QED BY <1>1, <1>3, <2>1, <3>1
  <2>2. CASE k \in 1..n
    <3>1. k \in 0..n /\ k - 1 \in 0..n
      BY <1>1, <2>2
    <3> QED BY <1>1, <1>2, <1>3, <2>2, <3>1
  <2> QED BY <1>1, <2>1, <2>2
<1>7. Anew(r) \/ \A k \in 0..(n + 1) : WellFormed(X[k])
  <2>1. \A k \in 0..(n + 1) : k = n + 1 \/ k \in 0..n
    BY <1>1
  <2> QED BY <1>2, <1>3, <2>1
<1>8. Traced(r, p, v, u, a)
  <2>1. X[Len(p)] = u
    BY <1>1, <1>3
  <2>2. X \in [0..Len(p) -> Views] /\ \A k \in 1..Len(p) : Turns(r, p[k], X[k - 1], X[k])
    BY <1>1, <1>4, <1>6
  <2>3. Anew(r) \/ \A k \in 0..Len(p) : WellFormed(X[k])
    BY <1>1, <1>7
  <2> QED BY <1>5, <2>1, <2>2, <2>3 DEF Traced
<1> QED BY <1>8 DEF p

\* What makes a trace.
LEMMA TraceIs ==
  ASSUME NEW r, NEW a, NEW q, NEW n \in Nat, Len(q) = n, NEW W \in [0..n -> Views],
         \A k \in 1..n : Turns(r, q[k], W[k - 1], W[k]), Anew(r) \/ \A k \in 0..n : WellFormed(W[k])
  PROVE  Traced(r, q, W[0], W[n], a)
BY DEF Traced

-----------------------------------------------------------------------------
(* What the page has of surfaces.                                           *)

\* One of them is the window, whenever there is one that could be, and it alone; and nothing is
\* about to close it.
PageInv ==
  /\ kind \in [Ids -> {"none", "window", "dialog", "popup"}]
  /\ parent \in [Ids -> Ids \cup {No}]
  /\ layer \in [Ids -> Ids \cup {No, Off, Root}]
  /\ mainId \in Tops \cup {No} /\ goneTimer \in BOOLEAN
  /\ View \in Views
  /\ \A i \in Ids : /\ kind[i] = "popup" => i \in Popups
                    /\ kind[i] \in {"window", "dialog"} => i \in Tops
                    /\ kind[i] = "window" <=> i = mainId
  /\ mainId # No => parent[mainId] = No
  /\ mainId = No => \A i \in Tops : kind[i] = "none" \/ parent[i] # No
  /\ goneTimer => mainId = No

\* Which numbers are ids, and which are not.
IdsApart ==
  /\ Tops \cap Popups = {} /\ Ids = Tops \cup Popups
  /\ No \notin Ids /\ Off \notin Ids
  /\ Root \notin Ids /\ Down \notin Ids
  /\ No # Off /\ No # Root /\ No # Down
  /\ Off # Root

\* The assumption on the ids says so.
LEMMA IdsAre == IdsApart
<1>1. Ids \subseteq 1..999
  BY WaylandWindowAssumption DEF Ids
<1>2. No = 0 /\ Off = 1000 /\ Root = 1001 /\ Down = 1002
  BY DEF No, Off, Root, Down
<1>3. \A i \in 1..999 : i # 0 /\ i # 1000 /\ i # 1001 /\ i # 1002
  OBVIOUS
<1>4. Tops \cap Popups = {} /\ Ids = Tops \cup Popups
  BY WaylandWindowAssumption DEF Ids
<1>5. \A i \in Ids : i # 0 /\ i # 1000 /\ i # 1001 /\ i # 1002
  BY <1>1, <1>3
<1>6. 0 # 1000 /\ 0 # 1001 /\ 0 # 1002 /\ 1000 # 1001
  OBVIOUS
<1>7. /\ No \notin Ids /\ Off \notin Ids
      /\ Root \notin Ids /\ Down \notin Ids
  BY <1>2, <1>5
<1>8. /\ No # Off /\ No # Root /\ No # Down
      /\ Off # Root
  BY <1>2, <1>6
<1> QED BY <1>4, <1>7, <1>8 DEF IdsApart

\* A value of the view, by what the page keeps.
LEMMA ViewOf ==
  /\ \A i \in Ids : View[i] = IF kind[i] = "none" THEN Down ELSE parent[i]
  /\ \A i \in Ids : View'[i] = IF kind'[i] = "none" THEN Down ELSE parent'[i]
  /\ DOMAIN View = Ids /\ DOMAIN View' = Ids
BY DEF View

\* What changes in one place.
LEMMA ViewWith ==
  ASSUME NEW i \in Ids, NEW u, View'[i] = u,
         \A j \in Ids \ {i} : View'[j] = View[j]
  PROVE  View' = [View EXCEPT ![i] = u]
<1> DEFINE w == [j \in Ids |-> IF j = i THEN u ELSE View[j]]
<1>1. [View EXCEPT ![i] = u] = w
  BY DEF View
<1>2. View' = [j \in Ids |-> View'[j]]
  BY DEF View
<1>3. \A j \in Ids : View'[j] = IF j = i THEN u ELSE View[j]
  OBVIOUS
<1>4. [j \in Ids |-> View'[j]] = w
  BY <1>3
<1> QED BY <1>1, <1>2, <1>4

\* Nothing is up, and that is a view.
LEMMA NothingIsUp ==
  ASSUME IdsApart
  PROVE  /\ NothingUp \in Views /\ WellFormed(NothingUp)
         /\ \A i \in Ids : NothingUp[i] = Down
<1>1. \A i \in Ids : NothingUp[i] = Down
  BY DEF NothingUp
<1>2. NothingUp \in Views
  <2>1. No # Down
    BY DEF No, Down
  <2>2. Popups \subseteq Ids
    BY DEF Ids
  <2>3. NothingUp \in [Ids -> Tops \cup {No, Down}]
    BY DEF NothingUp
  <2> QED BY <1>1, <2>1, <2>2, <2>3 DEF Views
<1>3. WellFormed(NothingUp)
  <2>1. Down \notin Tops
    BY DEF IdsApart
  <2>2. ASSUME NEW S \in SUBSET Ids, S # {}, \A i \in S : NothingUp[i] # Down
        PROVE  FALSE
    BY <1>1, <2>2
  <2> QED BY <1>1, <2>1, <2>2 DEF WellFormed
<1> QED BY <1>1, <1>2, <1>3

\* reset(): nothing is shown.
LEMMA PageReset ==
  ASSUME IdsApart, Reset
  PROVE  PageInv' /\ View' = NothingUp /\ AllIsSeen'
<1>1. /\ kind' = [i \in Ids |-> "none"] /\ parent' = [i \in Ids |-> No]
      /\ layer' = [i \in Ids |-> Off] /\ mainId' = No /\ goneTimer' = FALSE
  BY DEF Reset
<1>2. \A i \in Ids : kind'[i] = "none"
  BY <1>1
<1>3. View' = NothingUp
  BY <1>2 DEF View, NothingUp
<1>4. AllIsSeen'
  BY <1>2 DEF AllIsSeen
<1>5. PageInv'
  <2>1. View' \in Views
    BY <1>3, NothingIsUp
  <2>2. No \notin Ids /\ Ids = Tops \cup Popups
    BY DEF IdsApart
  <2>3. /\ kind' \in [Ids -> {"none", "window", "dialog", "popup"}]
        /\ parent' \in [Ids -> Ids \cup {No}]
        /\ layer' \in [Ids -> Ids \cup {No, Off, Root}]
    BY <1>1
  <2>4. \A i \in Ids : kind'[i] = "none" /\ i # mainId'
    BY <1>1, <1>2, <2>2
  <2>5. mainId' = No /\ goneTimer' = FALSE
    BY <1>1
  <2>6. \A i \in Ids : /\ kind'[i] = "popup" => i \in Popups
                       /\ kind'[i] \in {"window", "dialog"} => i \in Tops
                       /\ kind'[i] = "window" <=> i = mainId'
    BY <2>4
  <2>7. mainId' # No => parent'[mainId'] = No
    BY <2>5
  <2>8. mainId' = No => \A i \in Tops : kind'[i] = "none" \/ parent'[i] # No
    BY <2>2, <2>4
  <2>9. mainId' \in Tops \cup {No} /\ goneTimer' \in BOOLEAN
    BY <2>5
  <2> QED BY <2>1, <2>3, <2>5, <2>6, <2>7, <2>8, <2>9 DEF PageInv
<1> QED BY <1>3, <1>4, <1>5

\* A window is announced that is not shown.
LEMMA WindowShown ==
  ASSUME IdsApart, PageInv, NEW id \in Tops, NEW up \in Tops \cup {No},
         kind[id] = "none", ShowsWindow(id, up)
  PROVE  PageInv' /\ View' = [View EXCEPT ![id] = up]
<1> DEFINE isMain == mainId = No /\ up = No
<1>1. /\ Tops \cap Popups = {} /\ Ids = Tops \cup Popups /\ No \notin Ids
      /\ Down \notin Ids /\ No # Down
  BY DEF IdsApart
<1>2. /\ parent' = [parent EXCEPT ![id] = up]
      /\ kind' = [kind EXCEPT ![id] = IF isMain THEN "window" ELSE "dialog"]
      /\ IF isMain THEN mainId' = id /\ layer' = RootCleared /\ goneTimer' = FALSE
                   ELSE /\ layer' = [layer EXCEPT ![id] = Root]
                        /\ UNCHANGED <<mainId, goneTimer>>
  BY DEF ShowsWindow
<1> HIDE DEF isMain
<1>3. /\ kind'[id] = (IF isMain THEN "window" ELSE "dialog") /\ parent'[id] = up
      /\ \A i \in Ids \ {id} : kind'[i] = kind[i] /\ parent'[i] = parent[i]
  BY <1>1, <1>2 DEF PageInv
<1>4. View' = [View EXCEPT ![id] = up]
  <2>1. View'[id] = up /\ \A i \in Ids \ {id} : View'[i] = View[i]
    BY <1>1, <1>3, ViewOf
  <2> QED BY <1>1, <2>1, ViewWith
<1>5. View' \in Views
  BY <1>1, <1>4 DEF Views, PageInv
<1>6. layer' \in [Ids -> Ids \cup {No, Off, Root}]
  BY <1>1, <1>2 DEF PageInv, RootCleared
<1>7. /\ kind' \in [Ids -> {"none", "window", "dialog", "popup"}]
      /\ parent' \in [Ids -> Ids \cup {No}]
  <2>1. (IF isMain THEN "window" ELSE "dialog") \in {"none", "window", "dialog", "popup"}
    OBVIOUS
  <2> QED BY <1>1, <1>2, <2>1 DEF PageInv
<1>8. ASSUME isMain PROVE PageInv'
  <2>1. mainId = No /\ up = No /\ mainId' = id /\ goneTimer' = FALSE
    BY <1>2, <1>8 DEF isMain
  <2>2. \A i \in Tops \ {id} : kind[i] = "none" \/ parent[i] # No
    BY <2>1 DEF PageInv
  <2>3. \A i \in Ids \ {id} : kind'[i] = kind[i] /\ kind[i] # "window"
    BY <1>1, <1>3, <2>1 DEF PageInv
  <2>4. kind'[id] = "window" /\ parent'[id] = No
    BY <1>3, <1>8, <2>1
  <2>5. \A i \in Ids : /\ kind'[i] = "popup" => i \in Popups
                       /\ kind'[i] \in {"window", "dialog"} => i \in Tops
                       /\ kind'[i] = "window" <=> i = mainId'
    <3> TAKE i \in Ids
    <3>1. CASE i = id
      BY <2>1, <2>4, <3>1
    <3>2. CASE i # id
      BY <2>1, <2>3, <3>2 DEF PageInv
    <3> QED BY <3>1, <3>2
  <2>6. mainId' \in Tops /\ mainId' # No
    BY <1>1, <2>1
  <2> QED BY <1>5, <1>6, <1>7, <2>1, <2>4, <2>5, <2>6 DEF PageInv
<1>9. ASSUME ~isMain PROVE PageInv'
  <2>1. ~(mainId = No /\ up = No) /\ mainId' = mainId /\ goneTimer' = goneTimer
    BY <1>2, <1>9 DEF isMain
  <2>2. mainId # id
    BY <1>1 DEF PageInv
  <2> QED BY <1>1, <1>3, <1>5, <1>6, <1>7, <1>9, <2>1, <2>2 DEF PageInv
<1> QED BY <1>4, <1>8, <1>9

\* A menu is announced that is not shown.
LEMMA PopupShown ==
  ASSUME IdsApart, PageInv, NEW id \in Popups, NEW up \in Tops,
         kind[id] = "none", ShowsPopup(id, up)
  PROVE  PageInv' /\ View' = [View EXCEPT ![id] = up]
<1>1. /\ Tops \cap Popups = {} /\ Ids = Tops \cup Popups /\ No \notin Ids
      /\ Down \notin Ids /\ No # Down
  BY DEF IdsApart
<1>2. /\ parent' = [parent EXCEPT ![id] = up] /\ kind' = [kind EXCEPT ![id] = "popup"]
      /\ layer' = [layer EXCEPT ![id] = PopupLayer(up)]
      /\ UNCHANGED <<mainId, goneTimer>>
  BY DEF ShowsPopup, closeVars
<1>3. /\ kind'[id] = "popup" /\ parent'[id] = up
      /\ \A i \in Ids \ {id} : kind'[i] = kind[i] /\ parent'[i] = parent[i]
  BY <1>1, <1>2 DEF PageInv
<1>4. View' = [View EXCEPT ![id] = up]
  <2>1. View'[id] = up /\ \A i \in Ids \ {id} : View'[i] = View[i]
    BY <1>1, <1>3, ViewOf
  <2> QED BY <1>1, <2>1, ViewWith
<1>5. View' \in Views
  BY <1>1, <1>4 DEF Views, PageInv
<1>6. PopupLayer(up) \in Ids \cup {No}
  BY <1>1 DEF PopupLayer
<1>7. /\ kind' \in [Ids -> {"none", "window", "dialog", "popup"}]
      /\ parent' \in [Ids -> Ids \cup {No}]
      /\ layer' \in [Ids -> Ids \cup {No, Off, Root}]
      /\ mainId' = mainId /\ goneTimer' = goneTimer
  BY <1>1, <1>2, <1>6 DEF PageInv
<1>8. mainId # id
  BY <1>1 DEF PageInv
<1> QED BY <1>1, <1>3, <1>4, <1>5, <1>7, <1>8 DEF PageInv

\* A surface is hidden or destroyed.
LEMMA PageLoses ==
  ASSUME IdsApart, PageInv, NEW id \in Ids, NEW destroyed \in BOOLEAN,
         SurfaceGone(id, destroyed)
  PROVE  PageInv' /\ View' = [View EXCEPT ![id] = Down]
<1>1. /\ Tops \cap Popups = {} /\ Ids = Tops \cup Popups /\ No \notin Ids
      /\ Down \notin Ids /\ No # Down
  BY DEF IdsApart
<1>2. parent' = parent
  BY DEF SurfaceGone, Promote
<1>3. ASSUME \A i \in Ids \ {id} : (kind'[i] = "none" <=> kind[i] = "none"), kind'[id] = "none"
      PROVE  View' = [View EXCEPT ![id] = Down] /\ View' \in Views
  <2>1. View'[id] = Down /\ \A i \in Ids \ {id} : View'[i] = View[i]
    BY <1>2, <1>3, ViewOf
  <2>2. View' = [View EXCEPT ![id] = Down]
    BY <2>1, ViewWith
  <2> QED BY <1>1, <2>2 DEF PageInv, Views
<1>4. CASE id = mainId /\ TakesOver # {}
  <2>1. PICK next \in TakesOver : Promote(next, id)
    BY <1>4 DEF SurfaceGone
  <2>2. next \in Tops /\ kind[next] = "dialog" /\ parent[next] = No /\ next # id
    BY <1>4 DEF PageInv, TakesOver
  <2>3. /\ kind' = [kind EXCEPT ![id] = "none", ![next] = "window"]
        /\ layer' = [i \in Ids |-> IF parent[i] = next /\ kind[i] = "popup" THEN No
                                   ELSE IF i = next THEN Off ELSE StageCleared[i]]
        /\ mainId' = next /\ goneTimer' = goneTimer
    BY <2>1 DEF Promote
  <2>4. /\ kind'[id] = "none" /\ kind'[next] = "window"
        /\ \A i \in Ids \ {id, next} : kind'[i] = kind[i]
    BY <1>1, <2>2, <2>3 DEF PageInv
  <2>5. View' = [View EXCEPT ![id] = Down] /\ View' \in Views
    BY <1>3, <2>2, <2>4
  <2>6. \A i \in Ids : StageCleared[i] \in {layer[i], Off}
    BY DEF StageCleared
  <2>7. /\ kind' \in [Ids -> {"none", "window", "dialog", "popup"}]
        /\ layer' \in [Ids -> Ids \cup {No, Off, Root}]
    BY <1>1, <2>2, <2>3, <2>6 DEF PageInv
  <2>8. goneTimer' = FALSE /\ mainId' \in Tops /\ mainId' # No
    BY <1>1, <1>4, <2>2, <2>3 DEF PageInv
  <2>9. \A i \in Ids : /\ kind'[i] = "popup" => i \in Popups
                       /\ kind'[i] \in {"window", "dialog"} => i \in Tops
                       /\ kind'[i] = "window" <=> i = mainId'
    <3> TAKE i \in Ids
    <3>1. CASE i = id
      BY <2>2, <2>3, <2>4, <3>1
    <3>2. CASE i = next
      BY <2>2, <2>3, <2>4, <3>2
    <3>3. CASE i # id /\ i # next
      <4>1. kind'[i] = kind[i] /\ i # mainId /\ i # mainId'
        <5>1. kind'[i] = kind[i]
          BY <2>4, <3>3
        <5>2. mainId = id /\ mainId' = next
          BY <1>4, <2>3
        <5> QED BY <3>3, <5>1, <5>2
      <4> QED BY <4>1 DEF PageInv
    <3> QED BY <3>1, <3>2, <3>3
  <2>10. parent' \in [Ids -> Ids \cup {No}] /\ parent'[mainId'] = No
    BY <1>2, <2>2, <2>3 DEF PageInv
  <2>11. PageInv'
    BY <2>5, <2>7, <2>8, <2>9, <2>10 DEF PageInv
  <2> QED BY <2>5, <2>11
<1>5. CASE ~(id = mainId /\ TakesOver # {})
  <2>1. /\ kind' = [kind EXCEPT ![id] = "none"] /\ layer' = [layer EXCEPT ![id] = Off]
        /\ mainId' = IF id = mainId THEN No ELSE mainId
        /\ goneTimer' = (goneTimer \/ (destroyed /\ (mainId = id \/ (mainId = No /\ hiddenMain = id))))
    BY <1>5 DEF SurfaceGone
  <2>2. kind'[id] = "none" /\ \A i \in Ids \ {id} : kind'[i] = kind[i]
    BY <2>1 DEF PageInv
  <2>3. View' = [View EXCEPT ![id] = Down] /\ View' \in Views
    BY <1>3, <2>2
  <2>4. /\ kind' \in [Ids -> {"none", "window", "dialog", "popup"}]
        /\ layer' \in [Ids -> Ids \cup {No, Off, Root}]
        /\ parent' \in [Ids -> Ids \cup {No}]
    BY <1>2, <2>1 DEF PageInv
  <2>5. mainId' \in Tops \cup {No} /\ goneTimer' \in BOOLEAN
    BY <2>1 DEF PageInv
  <2>6. goneTimer' => mainId' = No
    BY <1>1, <2>1 DEF PageInv
  <2>7. \A i \in Ids : /\ kind'[i] = "popup" => i \in Popups
                       /\ kind'[i] \in {"window", "dialog"} => i \in Tops
                       /\ kind'[i] = "window" <=> i = mainId'
    <3> TAKE i \in Ids
    <3>1. CASE i = id
      BY <1>1, <2>1, <2>2, <3>1
    <3>2. CASE i # id
      <4>1. kind'[i] = kind[i] /\ (i = mainId' <=> i = mainId)
        BY <1>1, <2>1, <2>2, <3>2
      <4> QED BY <4>1 DEF PageInv
    <3> QED BY <3>1, <3>2
  <2>8. mainId' # No => parent'[mainId'] = No
    BY <1>2, <2>1 DEF PageInv
  <2>9. ASSUME mainId' = No, NEW i \in Tops PROVE kind'[i] = "none" \/ parent'[i] # No
    <3>1. CASE i = id
      BY <2>2, <3>1
    <3>2. CASE i # id /\ mainId = No
      <4>1. kind[i] = "none" \/ parent[i] # No
        BY <3>2 DEF PageInv
      <4> QED BY <1>1, <1>2, <2>2, <3>2, <4>1
    <3>3. CASE i # id /\ mainId = id
      <4>1. kind[i] # "window" /\ kind[i] \in {"none", "window", "dialog", "popup"}
        BY <1>1, <3>3 DEF PageInv
      <4>2. kind[i] # "popup"
        BY <1>1 DEF PageInv
      <4>3. kind[i] = "dialog" => parent[i] # No
        BY <1>5, <3>3 DEF TakesOver
      <4> QED BY <1>1, <1>2, <2>2, <3>3, <4>1, <4>2, <4>3
    <3> QED BY <2>1, <2>9, <3>1, <3>2, <3>3
  <2>10. PageInv'
    BY <2>3, <2>4, <2>5, <2>6, <2>7, <2>8, <2>9 DEF PageInv
  <2> QED BY <2>3, <2>10
<1> QED BY <1>4, <1>5

\* Menus are where their window is, and dialogs are drawn.
Seen ==
  \A i \in Ids :
    /\ kind[i] = "popup" =>
         layer[i] = IF kind[parent[i]] = "dialog" THEN parent[i] ELSE No
    /\ kind[i] = "dialog" => layer[i] = Root

\* A menu hangs from a window.
LEMMA MenusHang ==
  ASSUME IdsApart
  PROVE  /\ PageInv => \A i \in Ids : kind[i] = "popup" =>
              i \in Popups /\ i \notin Tops /\ parent[i] \in Tops /\ RootOf(i) = parent[i]
         /\ PageInv' => \A i \in Ids : kind'[i] = "popup" =>
              i \in Popups /\ i \notin Tops /\ parent'[i] \in Tops /\ RootOf(i)' = parent'[i]
<1>1. /\ Tops \cap Popups = {} /\ Ids = Tops \cup Popups /\ No \notin Ids
      /\ Down \notin Ids /\ No # Down
  BY DEF IdsApart
<1>2. ASSUME PageInv, NEW i \in Ids, kind[i] = "popup"
      PROVE  i \in Popups /\ i \notin Tops /\ parent[i] \in Tops /\ RootOf(i) = parent[i]
  <2>1. i \in Popups /\ View \in Views /\ parent[i] \in Ids \cup {No}
    BY <1>2 DEF PageInv
  <2>2. View[i] = parent[i]
    BY <1>2, ViewOf
  <2>3. parent[i] \in Tops
    BY <1>1, <2>1, <2>2 DEF Views
  <2> QED BY <1>1, <2>1, <2>3 DEF RootOf
<1>3. ASSUME PageInv', NEW i \in Ids, kind'[i] = "popup"
      PROVE  i \in Popups /\ i \notin Tops /\ parent'[i] \in Tops /\ RootOf(i)' = parent'[i]
  <2>1. i \in Popups /\ View' \in Views /\ parent'[i] \in Ids \cup {No}
    BY <1>3 DEF PageInv
  <2>2. View'[i] = parent'[i]
    BY <1>3, ViewOf
  <2>3. parent'[i] \in Tops
    BY <1>1, <2>1, <2>2 DEF Views
  <2> QED BY <1>1, <2>1, <2>3 DEF RootOf
<1> QED BY <1>2, <1>3

\* That is what is to be seen.
LEMMA SeenIsAll ==
  ASSUME IdsApart, PageInv, Seen
  PROVE  AllIsSeen
BY MenusHang DEF Seen, AllIsSeen

\* Where nothing is shown as the window nothing is shown.
LEMMA NothingWithoutMain ==
  ASSUME IdsApart, PageInv, WellFormed(View), mainId = No
  PROVE  \A i \in Ids : kind[i] = "none"
<1>1. /\ Tops \cap Popups = {} /\ Ids = Tops \cup Popups /\ No \notin Ids
      /\ Down \notin Ids /\ No # Down
  BY DEF IdsApart
<1> DEFINE S == {i \in Ids : View[i] # Down}
<1>2. S = {}
  <2> SUFFICES ASSUME S # {} PROVE FALSE
    OBVIOUS
  <2>0. S \in SUBSET Ids /\ \A i \in S : View[i] # Down
    OBVIOUS
  <2>1. PICK j \in S : View[j] \notin S
    <3> HIDE DEF S
    <3> QED BY <2>0 DEF WellFormed
  <2>2. View[j] \in Tops \cup {No, Down} /\ (j \in Popups => View[j] # No)
    BY DEF PageInv, Views
  <2>3. View[j] \notin Tops
    BY <1>1, <2>1 DEF WellFormed
  <2>4. View[j] = No /\ j \in Tops
    BY <1>1, <2>1, <2>2, <2>3
  <2>5. kind[j] # "none" /\ parent[j] = No
    BY <2>1, <2>4, <1>1, ViewOf
  <2> QED BY <2>4, <2>5 DEF PageInv
<1>3. \A i \in Ids : parent[i] # Down
  BY <1>1 DEF PageInv
<1> QED BY <1>2, <1>3, ViewOf

\* What hangs from a window that is shown no more is not shown.
LEMMA ShownHangs ==
  ASSUME IdsApart, PageInv, WellFormed(View), NEW i \in Ids,
         kind[i] # "none", parent[i] \in Tops
  PROVE  kind[parent[i]] # "none"
<1>1. Ids = Tops \cup Popups
  BY DEF IdsApart
<1>2. View[i] = parent[i]
  BY ViewOf
<1>3. View[parent[i]] # Down
  BY <1>2 DEF WellFormed
<1> QED BY <1>1, <1>3, ViewOf

\* A window that is announced is seen, and so is all else.
LEMMA SeenWithWindow ==
  ASSUME IdsApart, PageInv, NEW id \in Tops, NEW up \in Tops \cup {No},
         kind[id] = "none", ShowsWindow(id, up), WellFormed(View), Seen
  PROVE  Seen'
<1>1. Tops \cap Popups = {} /\ Ids = Tops \cup Popups
  BY DEF IdsApart
<1>2. CASE mainId = No /\ up = No
  <2>1. \A i \in Ids : kind[i] = "none"
    BY <1>2, NothingWithoutMain
  <2>2. kind' = [kind EXCEPT ![id] = "window"]
    BY <1>2 DEF ShowsWindow
  <2>3. \A i \in Ids : kind'[i] \in {"none", "window"}
    BY <1>1, <2>1, <2>2 DEF PageInv
  <2> QED BY <2>3 DEF Seen
<1>3. CASE ~(mainId = No /\ up = No)
  <2>1. /\ kind' = [kind EXCEPT ![id] = "dialog"] /\ parent' = [parent EXCEPT ![id] = up]
        /\ layer' = [layer EXCEPT ![id] = Root]
    BY <1>3 DEF ShowsWindow
  <2>2. /\ kind'[id] = "dialog" /\ layer'[id] = Root
        /\ \A i \in Ids \ {id} :
             kind'[i] = kind[i] /\ parent'[i] = parent[i] /\ layer'[i] = layer[i]
    BY <1>1, <2>1 DEF PageInv
  <2>3. ASSUME NEW i \in Ids \ {id}, kind[i] = "popup"
        PROVE  layer'[i] = IF kind'[parent'[i]] = "dialog" THEN parent'[i] ELSE No
    <3>1. parent[i] \in Tops
      BY <2>3, MenusHang
    <3>2. kind[parent[i]] # "none"
      BY <2>3, <3>1, ShownHangs
    <3>3. parent[i] \in Ids \ {id}
      BY <1>1, <3>1, <3>2
    <3>4. kind'[parent'[i]] = kind[parent[i]]
      BY <2>2, <3>3
    <3> QED BY <2>2, <2>3, <3>4 DEF Seen
  <2> QED BY <2>2, <2>3 DEF Seen
<1> QED BY <1>2, <1>3

\* So is a menu.
LEMMA SeenWithPopup ==
  ASSUME IdsApart, PageInv, NEW id \in Popups, NEW up \in Tops,
         kind[id] = "none", ShowsPopup(id, up), Seen
  PROVE  Seen'
<1>1. Tops \cap Popups = {} /\ Ids = Tops \cup Popups
  BY DEF IdsApart
<1>2. /\ parent' = [parent EXCEPT ![id] = up] /\ kind' = [kind EXCEPT ![id] = "popup"]
      /\ layer' = [layer EXCEPT ![id] = PopupLayer(up)]
  BY DEF ShowsPopup
<1>3. /\ kind'[id] = "popup" /\ parent'[id] = up /\ layer'[id] = PopupLayer(up)
      /\ \A i \in Ids \ {id} :
           kind'[i] = kind[i] /\ parent'[i] = parent[i] /\ layer'[i] = layer[i]
  BY <1>1, <1>2 DEF PageInv
<1>4. layer'[id] = IF kind'[parent'[id]] = "dialog" THEN parent'[id] ELSE No
  BY <1>1, <1>3 DEF PopupLayer
<1>5. ASSUME NEW i \in Ids \ {id}, kind[i] = "popup"
      PROVE  layer'[i] = IF kind'[parent'[i]] = "dialog" THEN parent'[i] ELSE No
  <2>1. parent[i] \in Ids \ {id}
    BY <1>1, <1>5, MenusHang
  <2>2. kind'[parent'[i]] = kind[parent[i]]
    BY <1>3, <2>1
  <2> QED BY <1>3, <1>5, <2>2 DEF Seen
<1> QED BY <1>3, <1>4, <1>5 DEF Seen

\* What stays when a surface goes is seen.
LEMMA SeenWithout ==
  ASSUME IdsApart, PageInv, NEW id \in Ids, NEW destroyed \in BOOLEAN,
         SurfaceGone(id, destroyed), WellFormed(View), WellFormed(View)', Seen
  PROVE  Seen'
<1>1. /\ Tops \cap Popups = {} /\ Ids = Tops \cup Popups /\ No \notin Ids
      /\ No # Root
  BY DEF IdsApart
<1>2. parent' = parent
  BY DEF SurfaceGone, Promote
<1>3. PageInv' /\ View'[id] = Down
  BY PageLoses, ViewOf
<1>4. ASSUME NEW i \in Ids, kind'[i] = "popup"
      PROVE  parent[i] \in Tops \ {id} /\ i \in Popups
  <2>1. parent'[i] \in Tops /\ i \in Popups
    BY <1>3, <1>4, MenusHang
  <2>2. View'[i] = parent[i]
    BY <1>2, <1>4, ViewOf
  <2>3. View'[parent[i]] # Down
    BY <1>2, <2>1, <2>2 DEF WellFormed
  <2> QED BY <1>2, <1>3, <2>1, <2>3
<1>5. CASE id = mainId /\ TakesOver # {}
  <2>1. PICK next \in TakesOver : Promote(next, id)
    BY <1>5 DEF SurfaceGone
  <2>2. next \in Tops /\ kind[next] = "dialog" /\ next # id
    BY <1>5 DEF PageInv, TakesOver
  <2>3. /\ kind' = [kind EXCEPT ![id] = "none", ![next] = "window"]
        /\ layer' = [i \in Ids |-> IF parent[i] = next /\ kind[i] = "popup" THEN No
                                   ELSE IF i = next THEN Off ELSE StageCleared[i]]
    BY <2>1 DEF Promote
  <2>4. /\ kind'[id] = "none" /\ kind'[next] = "window"
        /\ \A i \in Ids \ {id, next} : kind'[i] = kind[i]
    BY <1>1, <2>2, <2>3 DEF PageInv
  <2>5. \A i \in Ids :
          layer'[i] = IF parent[i] = next /\ kind[i] = "popup" THEN No
                      ELSE IF i = next THEN Off
                      ELSE IF layer[i] = No THEN Off ELSE layer[i]
    BY <2>3 DEF StageCleared
  <2>6. ASSUME NEW i \in Ids, kind'[i] = "popup"
        PROVE  layer'[i] = IF kind'[parent'[i]] = "dialog" THEN parent'[i] ELSE No
    <3>1. parent[i] \in Tops \ {id} /\ i \in Popups
      BY <1>4, <2>6
    <3>2. i # id /\ i # next /\ kind[i] = "popup"
      BY <1>1, <2>2, <2>4, <2>6, <3>1
    <3>3. CASE parent[i] = next
      BY <1>2, <2>4, <2>5, <3>2, <3>3
    <3>4. CASE parent[i] # next
      <4>1. kind[parent[i]] # "none"
        BY <3>1, <3>2, ShownHangs
      <4>2. kind[parent[i]] = "dialog"
        <5>1. kind[parent[i]] # "popup" /\ kind[parent[i]] # "window"
          BY <1>1, <1>5, <3>1 DEF PageInv
        <5> QED BY <1>1, <3>1, <4>1, <5>1 DEF PageInv
      <4>3. kind'[parent'[i]] = "dialog"
        BY <1>1, <1>2, <2>4, <3>1, <3>4, <4>2
      <4>4. layer[i] = parent[i] /\ layer[i] # No
        BY <1>1, <3>1, <3>2, <4>2 DEF Seen
      <4> QED BY <1>2, <2>5, <3>2, <3>4, <4>3, <4>4
    <3> QED BY <3>3, <3>4
  <2>7. ASSUME NEW i \in Ids, kind'[i] = "dialog" PROVE layer'[i] = Root
    <3>1. i # id /\ i # next /\ kind[i] = "dialog"
      BY <2>4, <2>7
    <3>2. layer[i] = Root
      BY <3>1 DEF Seen
    <3> QED BY <1>1, <2>5, <3>1, <3>2
  <2> QED BY <2>6, <2>7 DEF Seen
<1>6. CASE ~(id = mainId /\ TakesOver # {})
  <2>1. kind' = [kind EXCEPT ![id] = "none"] /\ layer' = [layer EXCEPT ![id] = Off]
    BY <1>6 DEF SurfaceGone
  <2>2. kind'[id] = "none" /\ \A i \in Ids \ {id} : kind'[i] = kind[i] /\ layer'[i] = layer[i]
    BY <2>1 DEF PageInv
  <2>3. ASSUME NEW i \in Ids, kind'[i] = "popup"
        PROVE  layer'[i] = IF kind'[parent'[i]] = "dialog" THEN parent'[i] ELSE No
    <3>1. parent[i] \in Tops \ {id} /\ i # id
      BY <1>4, <2>2, <2>3
    <3>2. kind'[parent'[i]] = kind[parent[i]]
      BY <1>1, <1>2, <2>2, <3>1
    <3> QED BY <1>2, <2>2, <2>3, <3>1, <3>2 DEF Seen
  <2> QED BY <2>2, <2>3 DEF Seen
<1> QED BY <1>5, <1>6

-----------------------------------------------------------------------------
(* What the server has up.                                                  *)

\* A surface that comes up hangs from one that is, or from none.
LEMMA UpIsWellFormed ==
  ASSUME IdsApart, NEW w \in Views, WellFormed(w), NEW i \in Ids,
         w[i] = Down, NEW up \in Tops \cup {No}, up \in Tops => w[up] # Down
  PROVE  WellFormed([w EXCEPT ![i] = up])
<1>1. /\ Ids = Tops \cup Popups /\ No \notin Ids
      /\ Down \notin Ids /\ No # Down
  BY DEF IdsApart
<1> DEFINE u == [w EXCEPT ![i] = up]
<1>2. u[i] = up /\ \A k \in Ids \ {i} : u[k] = w[k]
  BY DEF Views
<1>3. \A k \in Ids : w[k] # i
  <2>1. \A k \in Ids : w[k] \in Tops \cup {No, Down}
    BY DEF Views
  <2> QED BY <1>1, <2>1 DEF WellFormed
<1> HIDE DEF u
<1>4. up # i
  BY <1>1
<1>5. ASSUME NEW k \in Ids, u[k] \in Tops PROVE u[u[k]] # Down
  <2>1. CASE k = i
    BY <1>1, <1>2, <1>4, <1>5, <2>1
  <2>2. CASE k # i
    <3>1. w[k] \in Tops /\ w[k] # i /\ u[k] = w[k]
      BY <1>2, <1>3, <1>5, <2>2
    <3>2. w[w[k]] # Down
      BY <3>1 DEF WellFormed
    <3> QED BY <1>1, <1>2, <3>1, <3>2
  <2> QED BY <2>1, <2>2
<1>6. ASSUME NEW S \in SUBSET Ids, S # {}, \A k \in S : u[k] # Down
      PROVE  \E j \in S : u[j] \notin S
  <2>1. CASE S = {i}
    BY <1>2, <1>4, <2>1
  <2>2. CASE S # {i}
    <3> DEFINE T == S \ {i}
    <3>1. T \in SUBSET Ids /\ T # {} /\ \A k \in T : w[k] # Down
      BY <1>2, <1>6, <2>2
    <3>2. PICK j \in T : w[j] \notin T
      <4> HIDE DEF T
      <4> QED BY <3>1 DEF WellFormed
    <3>3. u[j] = w[j] /\ w[j] # i
      BY <1>2, <1>3, <3>2
    <3> QED BY <3>2, <3>3
  <2> QED BY <2>1, <2>2
<1>7. WellFormed(u)
  BY <1>5, <1>6 DEF WellFormed
<1> QED BY <1>7 DEF u

\* A surface goes from which none hangs.
LEMMA DownIsWellFormed ==
  ASSUME IdsApart, NEW w \in Views, WellFormed(w), NEW i \in Ids,
         \A k \in Ids : w[k] # i
  PROVE  WellFormed([w EXCEPT ![i] = Down])
<1>1. Ids = Tops \cup Popups /\ Down \notin Ids
  BY DEF IdsApart
<1> DEFINE u == [w EXCEPT ![i] = Down]
<1>2. u[i] = Down /\ \A k \in Ids \ {i} : u[k] = w[k]
  BY DEF Views
<1> HIDE DEF u
<1>3. ASSUME NEW k \in Ids, u[k] \in Tops PROVE u[u[k]] # Down
  <2>1. k # i
    BY <1>1, <1>2, <1>3
  <2>2. u[k] = w[k] /\ w[k] \in Tops /\ w[k] # i
    BY <1>2, <1>3, <2>1
  <2>3. w[w[k]] # Down
    BY <2>2 DEF WellFormed
  <2> QED BY <1>1, <1>2, <2>2, <2>3
<1>4. ASSUME NEW S \in SUBSET Ids, S # {}, \A k \in S : u[k] # Down
      PROVE  \E j \in S : u[j] \notin S
  <2>1. i \notin S
    BY <1>2, <1>4
  <2>2. \A k \in S : u[k] = w[k]
    BY <1>2, <2>1
  <2>3. PICK j \in S : w[j] \notin S
    BY <1>4, <2>2 DEF WellFormed
  <2> QED BY <2>2, <2>3
<1>5. WellFormed(u)
  BY <1>3, <1>4 DEF WellFormed
<1> QED BY <1>5 DEF u

\* The answer to a session picked up, of which s is up, leads from the view v to what is up.
Answers(r, a, v, n, s) ==
  \E q \in Seq(Messages) :
    /\ q = <<Note("opened", FALSE)>> \o Resync(s)
    /\ Len(q) = n + 1 /\ q[1].t = "opened"
    /\ \A k \in 2..(n + 1) : q[k].t \in {"window", "popup"}
    /\ Traced(r, q, v, hangsFrom, a)

\* What is announced anew, in whatever order, leads from any view to what is up.
LEMMA ResyncLeads ==
  ASSUME IdsApart, NEW r, Anew(r), NEW a, NEW v \in Views, hangsFrom \in Views, NEW n \in Nat,
         NEW s \in [1..n -> UpIds], InListOrder(s)
  PROVE  Answers(r, a, v, n, s)
<1>1. /\ Tops \cap Popups = {} /\ Ids = Tops \cup Popups /\ No \notin Ids
      /\ Down \notin Ids /\ No # Down
  BY DEF IdsApart
<1> DEFINE o == Note("opened", FALSE)  p == Resync(s)
<1>2. o \in Messages /\ o.t = "opened"
  BY DEF Note, Messages
<1>3. \A i \in UpIds : /\ i \in Ids /\ hangsFrom[i] # Down
                       /\ hangsFrom[i] \in Tops \cup {No}
  BY DEF UpIds, Views
<1>4. ASSUME NEW k \in 1..n
      PROVE  /\ p[k] \in Messages /\ p[k].id = s[k] /\ p[k].up = hangsFrom[s[k]]
             /\ (p[k].t = "window" /\ s[k] \in Tops) \/ (p[k].t = "popup" /\ s[k] \in Popups)
  <2>1. s[k] \in UpIds /\ DOMAIN s = 1..n
    OBVIOUS
  <2>2. p[k] = Announce(s[k])
    BY <2>1 DEF Resync
  <2> QED BY <1>1, <1>3, <2>1, <2>2 DEF Announce, Message, Messages
<1>5. p \in Seq(Messages) /\ Len(p) = n
  <2>1. p = [k \in 1..n |-> p[k]]
    BY DEF Resync
  <2> HIDE DEF p
  <2> QED BY <1>4, <2>1, SeqDef, LenProperties
<1>6. PICK q \in Seq(Messages) : /\ q = <<o>> \o p /\ Len(q) = n + 1 /\ q[1] = o
                                 /\ \A k \in 2..(n + 1) : q[k] = p[k - 1]
  <2>1. <<o>> \in Seq(Messages) /\ Len(<<o>>) = 1 /\ <<o>>[1] = o
    <3> HIDE DEF o
    <3>1. <<o>> \in Seq(Messages)
      BY <1>2
    <3>2. Len(<<o>>) = 1 /\ <<o>>[1] = o
      OBVIOUS
    <3> QED BY <3>1, <3>2
  <2> HIDE DEF o, p
  <2>2. <<o>> \o p \in Seq(Messages)
    BY <1>5, <2>1, ConcatProperties
  <2>3. Len(<<o>> \o p) = 1 + n /\ \A k \in 1..(1 + n) :
          (<<o>> \o p)[k] = IF k <= 1 THEN <<o>>[k] ELSE p[k - 1]
    BY <1>5, <2>1, ConcatProperties
  <2>4. (<<o>> \o p)[1] = o
    BY <2>1, <2>3
  <2>5. \A k \in 2..(n + 1) : (<<o>> \o p)[k] = p[k - 1]
    BY <2>3
  <2>6. Len(<<o>> \o p) = n + 1
    BY <2>3
  <2> WITNESS <<o>> \o p \in Seq(Messages)
  <2> QED BY <2>2, <2>4, <2>5, <2>6
<1> HIDE DEF o, p
<1>7. \A i \in UpIds : \E k \in 1..n : s[k] = i
  BY DEF InListOrder
<1>8. \A j, k \in 1..n : j < k => s[j] # s[k]
  BY DEF InListOrder
<1> DEFINE A(k) == [i \in Ids |-> IF \E j \in 1..(k - 1) : s[j] = i THEN hangsFrom[i] ELSE Down]
<1>9. \A k \in 1..(n + 1) : A(k) \in Views
  <2> TAKE k \in 1..(n + 1)
  <2>1. \A i \in Ids : A(k)[i] \in {hangsFrom[i], Down}
    OBVIOUS
  <2>2. A(k) = [i \in Ids |-> A(k)[i]]
    OBVIOUS
  <2>3. \A i \in Ids : /\ hangsFrom[i] \in Tops \cup {No, Down}
                       /\ i \in Popups => hangsFrom[i] # No
    BY <1>1 DEF Views
  <2> HIDE DEF A
  <2>4. \A i \in Ids : /\ A(k)[i] \in Tops \cup {No, Down}
                       /\ i \in Popups => A(k)[i] # No
    BY <1>1, <2>1, <2>3
  <2>5. A(k) \in [Ids -> Tops \cup {No, Down}]
    BY <2>2, <2>4
  <2> QED BY <1>1, <2>4, <2>5 DEF Views
<1>10. \A k \in 1..(n + 1), i \in Ids :
         A(k)[i] = IF \E j \in 1..(k - 1) : s[j] = i THEN hangsFrom[i] ELSE Down
  OBVIOUS
<1>11. \A k \in 1..(n + 1) : A(k) = [i \in Ids |-> A(k)[i]]
  OBVIOUS
<1> HIDE DEF A
<1>12. PICK W \in [0..(n + 1) -> Views] : W[0] = v /\ \A k \in 1..(n + 1) : W[k] = A(k)
  <2> DEFINE X == [k \in 0..(n + 1) |-> IF k = 0 THEN v ELSE A(k)]
  <2>1. X \in [0..(n + 1) -> Views] /\ X[0] = v /\ \A k \in 1..(n + 1) : X[k] = A(k)
    BY <1>9
  <2> HIDE DEF X
  <2> QED BY <2>1
<1>13. W[n + 1] = hangsFrom
  <2>1. hangsFrom = [i \in Ids |-> hangsFrom[i]]
    BY DEF Views
  <2>2. \A i \in Ids : A(n + 1)[i] = hangsFrom[i]
    <3> TAKE i \in Ids
    <3>1. (n + 1) - 1 = n /\ n + 1 \in 1..(n + 1)
      OBVIOUS
    <3>2. CASE i \in UpIds
      BY <1>7, <1>10, <3>1, <3>2
    <3>3. CASE i \notin UpIds
      <4>1. \A j \in 1..n : s[j] # i
        BY <3>3
      <4> QED BY <1>10, <3>1, <3>3, <4>1 DEF UpIds
    <3> QED BY <3>2, <3>3
  <2>3. n + 1 \in 1..(n + 1)
    OBVIOUS
  <2> QED BY <1>11, <1>12, <2>1, <2>2, <2>3
<1>14. \A k \in 1..(n + 1) : Turns(r, q[k], W[k - 1], W[k])
  <2> TAKE k \in 1..(n + 1)
  <2>1. CASE k = 1
    <3>1. \A i \in Ids : A(1)[i] = Down
      BY <1>10
    <3>2. A(1) = NothingUp
      BY <1>11, <2>1, <3>1 DEF NothingUp
    <3> QED BY <1>2, <1>6, <1>12, <2>1, <3>2 DEF Turns
  <2>2. CASE k # 1
    <3> DEFINE m == k - 1
    <3>1. m \in 1..n /\ k \in 2..(n + 1) /\ m \in 1..(n + 1) /\ q[k] = p[m]
      <4>1. m \in 1..n /\ k \in 2..(n + 1) /\ m \in 1..(n + 1)
        BY <2>2
      <4> QED BY <1>6, <4>1
    <3>2. W[k - 1] = A(m) /\ W[k] = A(k) /\ A(m) \in Views
      BY <1>9, <1>12, <3>1
    <3>3. s[m] \in UpIds
      BY <3>1
    <3>4. A(m)[s[m]] = Down
      <4>1. \A j \in 1..(m - 1) : s[j] # s[m]
        <5> TAKE j \in 1..(m - 1)
        <5>1. j \in 1..n /\ j < m
          BY <3>1
        <5> QED BY <1>8, <3>1, <5>1
      <4> QED BY <1>3, <1>10, <3>1, <3>3, <4>1
    <3>5. \A i \in Ids : A(k)[i] = IF i = s[m] THEN hangsFrom[i] ELSE A(m)[i]
      <4> TAKE i \in Ids
      <4>1. \A j : j \in 1..(k - 1) <=> j = m \/ j \in 1..(m - 1)
        BY <3>1
      <4> QED BY <1>10, <3>1, <4>1
    <3>6. A(k) = [A(m) EXCEPT ![s[m]] = hangsFrom[s[m]]]
      <4>1. A(k) = [i \in Ids |-> IF i = s[m] THEN hangsFrom[i] ELSE A(m)[i]]
        BY <1>11, <3>5
      <4>2. A(m) = [i \in Ids |-> A(m)[i]]
        BY <1>11, <3>1
      <4> HIDE DEF m
      <4> QED BY <1>3, <3>3, <4>1, <4>2
    <3>7. q[k].id = s[m] /\ q[k].up = hangsFrom[s[m]] /\ hangsFrom[s[m]] # Down
      BY <1>3, <1>4, <3>1, <3>3
    <3>8. (q[k].t = "window" /\ s[m] \in Tops) \/ (q[k].t = "popup" /\ s[m] \in Popups)
      BY <1>4, <3>1
    <3> QED BY <3>2, <3>4, <3>6, <3>7, <3>8 DEF Turns
  <2> QED BY <2>1, <2>2
<1>15. Traced(r, q, v, hangsFrom, a)
  <2>1. Len(q) = n + 1 /\ n + 1 \in Nat
    BY <1>6
  <2>2. \A k \in 1..(n + 1) : Turns(r, q[k], W[k - 1], W[k])
    BY <1>14
  <2>3. W \in [0..(n + 1) -> Views] /\ W[0] = v /\ W[n + 1] = hangsFrom
    BY <1>12, <1>13
  <2>4. Traced(r, q, W[0], W[n + 1], a)
    <3> DEFINE N == n + 1
    <3>1. Len(q) = N /\ N \in Nat /\ W \in [0..N -> Views]
      BY <2>1, <2>3
    <3>2. \A k \in 1..N : Turns(r, q[k], W[k - 1], W[k])
      BY <2>2
    <3>3. Anew(r) \/ \A k \in 0..N : WellFormed(W[k])
      OBVIOUS
    <3> HIDE DEF N
    <3>4. Traced(r, q, W[0], W[N], a)
      BY <3>1, <3>2, <3>3, TraceIs
    <3> QED BY <3>4 DEF N
  <2> QED BY <2>3, <2>4
<1>16. q[1].t = "opened" /\ \A k \in 2..(n + 1) : q[k].t \in {"window", "popup"}
  <2>1. \A k \in 2..(n + 1) : k - 1 \in 1..n
    OBVIOUS
  <2>2. ASSUME NEW k \in 2..(n + 1) PROVE q[k].t \in {"window", "popup"}
    <3>1. k - 1 \in 1..n /\ q[k] = p[k - 1]
      BY <1>6, <2>1
    <3> QED BY <1>4, <3>1
  <2>3. q[1].t = "opened"
    BY <1>2, <1>6
  <2> QED BY <2>2, <2>3
<1> QED BY <1>6, <1>15, <1>16 DEF Answers, o, p


-----------------------------------------------------------------------------
(* The channel, and the invariant.                                          *)

WindowTypes ==
  /\ rpcOpen \in BOOLEAN /\ resuming \in BOOLEAN /\ sessionId \in BOOLEAN /\ disposed \in BOOLEAN
  /\ attached \in BOOLEAN /\ channel \in {"none", "opening", "open"}
  /\ req \in {"none", "session", "attach"}
  /\ toPage \in Seq(Messages) /\ hangsFrom \in Views /\ list \in Seq(Ids)

\* A channel begins with its answer and ends with its end, after which nobody has the session.
OnTheChannel ==
  /\ astray = FALSE
  /\ channel # "none" => rpcOpen = TRUE /\ disposed = FALSE
  /\ channel = "none" \/ req # "none" => toPage = <<>> /\ attached = FALSE
  /\ req # "none" => channel = "opening" /\ (req = "attach" <=> Anew(resuming))
  /\ channel = "opening" => Anew(resuming) \/ View = NothingUp
  /\ channel = "opening" /\ req = "none" => toPage # <<>> /\ toPage[1].t \in {"opened", "end"}
  /\ channel = "open" => sessionId = TRUE
  /\ \A k \in 1..Len(toPage) : /\ toPage[k].t = "opened" => k = 1 /\ channel = "opening"
                               /\ toPage[k].t = "end" => k = Len(toPage) /\ attached = FALSE
  /\ channel # "none" /\ req = "none" /\ attached = FALSE =>
       toPage # <<>> /\ toPage[Len(toPage)].t = "end"

\* What is shown and what is on its way lead to what is up.
Leads == Traced(resuming, toPage, View, hangsFrom, attached)

WindowInv == WindowTypes /\ PageInv /\ OnTheChannel /\ Leads /\ (Anew(resuming) \/ Seen)

\* A surface may hang from a window only, and outlives what hangs from it; nobody chooses in haste.
Plain == Nested = FALSE /\ Disorderly = FALSE /\ InHaste = FALSE

\* The page keeps its surfaces.
LEMMA PageKept ==
  ASSUME UNCHANGED <<kind, parent, layer, mainId, goneTimer>>
  PROVE  View' = View /\ (PageInv => PageInv') /\ (Seen => Seen')
<1>1. View' = View
  BY DEF View
<1>2. PageInv => PageInv'
  BY <1>1 DEF PageInv
<1>3. Seen => Seen'
  BY DEF Seen
<1> QED BY <1>1, <1>2, <1>3

\* Leads, after a step.
LEMMA LeadsNext ==
  Leads' <=> Traced(resuming', toPage', View', hangsFrom', attached')
BY DEF Leads

\* What is shown is well formed, unless the session is picked up.
LEMMA ShownIsWellFormed ==
  ASSUME WindowInv
  PROVE  Anew(resuming) \/ WellFormed(View)
<1>1. toPage \in Seq(Messages) /\ Traced(resuming, toPage, View, hangsFrom, attached)
  BY DEF WindowInv, WindowTypes, Leads
<1> QED BY <1>1, TraceBegins

\* A reset leaves nothing to be seen.
LEMMA ResetSeen ==
  ASSUME IdsApart, Reset
  PROVE  PageInv' /\ View' = NothingUp /\ WellFormed(View') /\ Seen'
<1>1. PageInv' /\ View' = NothingUp
  BY PageReset
<1>2. WellFormed(View')
  BY <1>1, NothingIsUp
<1>3. \A i \in Ids : kind'[i] = "none"
  BY DEF Reset
<1> QED BY <1>1, <1>2, <1>3 DEF Seen

\* A channel on which nothing is said: there is none, or it is being opened.
LEMMA NothingIsSaid ==
  ASSUME IdsApart, WindowTypes', PageInv', toPage' = <<>>, attached' = FALSE, astray' = FALSE,
         \/ channel' = "none" /\ req' = "none"
         \/ /\ channel' = "opening" /\ req' # "none" /\ rpcOpen' = TRUE /\ disposed' = FALSE
            /\ req' = "attach" <=> Anew(resuming')
            /\ Anew(resuming') \/ View' = NothingUp,
         Anew(resuming') \/ (WellFormed(View') /\ Seen')
  PROVE  WindowInv'
<1>1. Len(toPage') = 0
  BY EmptySeq
<1>2. OnTheChannel'
  BY <1>1 DEF OnTheChannel, Anew
<1>3. Leads'
  <2>1. View' \in Views
    BY DEF PageInv
  <2>2. Traced(resuming', <<>>, View', hangsFrom', attached')
    BY <2>1, NothingToTrace
  <2> QED BY <2>2, LeadsNext
<1> QED BY <1>2, <1>3 DEF WindowInv, Anew

\* It holds of a window that was just opened.
LEMMA BeginsWindow == ASSUME IdsApart, WindowInit PROVE WindowInv
<1> USE DEF WindowInit
<1>1. \A i \in Ids : kind[i] = "none"
  OBVIOUS
<1>2. View = NothingUp
  BY <1>1 DEF View, NothingUp
<1>3. View \in Views /\ WellFormed(View) /\ hangsFrom = View
  BY <1>2, NothingIsUp
<1>4. WindowTypes
  <2>1. toPage \in Seq(Messages) /\ list \in Seq(Ids)
    BY EmptySeq
  <2> QED BY <1>3, <2>1 DEF WindowTypes
<1>5. PageInv
  <2>1. No \notin Ids /\ Ids = Tops \cup Popups
    BY DEF IdsApart
  <2> QED BY <1>1, <1>3, <2>1 DEF PageInv
<1>6. OnTheChannel
  <2>1. Len(toPage) = 0
    BY EmptySeq
  <2> QED BY <2>1 DEF OnTheChannel
<1>7. Leads
  BY <1>3, NothingToTrace DEF Leads
<1>8. Seen
  BY <1>1 DEF Seen
<1> QED BY <1>4, <1>5, <1>6, <1>7, <1>8 DEF WindowInv

\* start(): whatever came before, nothing is shown of it.
LEMMA StartsAnew ==
  ASSUME IdsApart, WindowInv, NEW p, Start(p), toPage' = <<>>, attached' = FALSE,
         astray' = FALSE, disposed' = FALSE, hangsFrom' \in Views, list' = list, rpcOpen' \in BOOLEAN
  PROVE  WindowInv'
<1>1. /\ sessionId' = FALSE /\ resuming' = FALSE /\ Reset
      /\ IF rpcOpen' THEN channel' = "opening" /\ req' = "session"
                     ELSE channel' = "none" /\ req' = "none"
  BY DEF Start
<1>2. PageInv' /\ View' = NothingUp /\ WellFormed(View') /\ Seen'
  BY <1>1, ResetSeen
<1>3. WindowTypes'
  <2>1. toPage' \in Seq(Messages) /\ list' \in Seq(Ids)
    BY EmptySeq DEF WindowInv, WindowTypes
  <2> QED BY <1>1, <2>1 DEF WindowTypes
<1>4. ~Anew(resuming')
  BY <1>1 DEF Anew
<1>5. CASE rpcOpen' = TRUE
  <2>1. channel' = "opening" /\ req' = "session"
    BY <1>1, <1>5
  <2> QED BY <1>2, <1>3, <1>4, <1>5, <2>1, NothingIsSaid
<1>6. CASE rpcOpen' = FALSE
  <2>1. channel' = "none" /\ req' = "none"
    BY <1>1, <1>6
  <2> QED BY <1>2, <1>3, <2>1, NothingIsSaid
<1> QED BY <1>5, <1>6

\* The channel is gone, and everything that was shown.
LEMMA LeavesNothing ==
  ASSUME IdsApart, WindowInv, Reset, channel' = "none", req' = "none", toPage' = <<>>,
         attached' = FALSE, astray' = FALSE, rpcOpen' \in BOOLEAN, resuming' \in BOOLEAN,
         sessionId' \in BOOLEAN, disposed' \in BOOLEAN, hangsFrom' \in Views, list' = list
  PROVE  WindowInv'
<1>1. PageInv' /\ WellFormed(View') /\ Seen'
  BY ResetSeen
<1>2. WindowTypes'
  <2>1. toPage' \in Seq(Messages) /\ list' \in Seq(Ids)
    BY EmptySeq DEF WindowInv, WindowTypes
  <2> QED BY <2>1 DEF WindowTypes
<1> QED BY <1>1, <1>2, NothingIsSaid

\* The channel is gone, and what was shown stays.
LEMMA LeavesTheRest ==
  ASSUME IdsApart, WindowInv, UNCHANGED <<kind, parent, layer, mainId, goneTimer>>,
         channel' = "none", req' = "none", toPage' = <<>>, attached' = FALSE, astray' = FALSE,
         rpcOpen' \in BOOLEAN, resuming' = resuming,
         sessionId' \in BOOLEAN, disposed' \in BOOLEAN, hangsFrom' \in Views, list' = list
  PROVE  WindowInv'
<1>1. PageInv' /\ View' = View /\ (Anew(resuming) \/ Seen')
  BY PageKept DEF WindowInv
<1>2. Anew(resuming') \/ (WellFormed(View') /\ Seen')
  BY <1>1, ShownIsWellFormed
<1>3. WindowTypes'
  <2>1. toPage' \in Seq(Messages) /\ list' \in Seq(Ids) /\ resuming' \in BOOLEAN
    BY EmptySeq DEF WindowInv, WindowTypes
  <2> QED BY <2>1 DEF WindowTypes
<1> QED BY <1>1, <1>2, <1>3, NothingIsSaid

\* onClose, the channel having said all it had to say.
LEMMA ClosesChannel ==
  ASSUME IdsApart, WindowInv, NEW error \in BOOLEAN, ChannelCloses(error), channel # "none",
         toPage' = <<>>, attached' = FALSE, rpcOpen' \in BOOLEAN, hangsFrom' = hangsFrom, list' = list
  PROVE  WindowInv'
<1>1. /\ astray = FALSE /\ disposed = FALSE /\ resuming \in BOOLEAN /\ sessionId \in BOOLEAN
      /\ hangsFrom \in Views
  BY DEF WindowInv, OnTheChannel, WindowTypes
<1>2. CASE StillThere /\ astray' = FALSE /\ channel' = "none" /\ req' = "none"
             /\ UNCHANGED <<resuming, sessionId, surfaceVars, closeVars, disposed>>
  <2>1. UNCHANGED <<resuming, sessionId, kind, parent, layer, mainId, goneTimer, disposed>>
    BY <1>2 DEF surfaceVars, closeVars
  <2> QED BY <1>1, <1>2, <2>1, LeavesTheRest
<1>3. CASE Start("message") /\ UNCHANGED <<astray, disposed>>
  BY <1>1, <1>3, StartsAnew
<1>4. CASE /\ channel' = "none" /\ sessionId' = FALSE /\ astray' = FALSE /\ req' = "none"
           /\ Reset /\ disposed' = (goneTimer /\ ~error) /\ resuming' = resuming
  BY <1>1, <1>4, LeavesNothing
<1> QED BY <1>2, <1>3, <1>4 DEF ChannelCloses

\* The connection is lost.
LEMMA DropsWindow == ASSUME IdsApart, WindowInv, Drop PROVE WindowInv'
<1>1. rpcOpen' = FALSE /\ toPage' = <<>> /\ attached' = FALSE /\ UNCHANGED <<hangsFrom, list>>
  BY DEF Drop
<1>2. CASE channel = "none" \/ disposed
  <2>1. UNCHANGED pageVars /\ req' = "none"
    BY <1>2 DEF Drop
  <2>2. /\ UNCHANGED <<channel, astray, resuming, sessionId, disposed>>
        /\ UNCHANGED <<kind, parent, layer, mainId, goneTimer>>
    BY <2>1 DEF pageVars, surfaceVars, closeVars
  <2>3. /\ channel = "none" /\ astray = FALSE /\ resuming \in BOOLEAN /\ sessionId \in BOOLEAN
        /\ disposed \in BOOLEAN /\ hangsFrom \in Views
    BY <1>2 DEF WindowInv, OnTheChannel, WindowTypes
  <2> QED BY <1>1, <2>1, <2>2, <2>3, LeavesTheRest
<1>3. CASE channel # "none" /\ ~disposed
  <2>1. ChannelCloses(FALSE)
    BY <1>3 DEF Drop
  <2> QED BY <1>1, <1>3, <2>1, ClosesChannel
<1> QED BY <1>2, <1>3

\* It is back.
LEMMA ReconnectsWindow == ASSUME IdsApart, WindowInv, Reconnect PROVE WindowInv'
<1>1. /\ rpcOpen = FALSE /\ channel = "none" /\ toPage = <<>> /\ attached = FALSE /\ astray = FALSE
      /\ req = "none"
  BY DEF WindowInv, OnTheChannel, WindowTypes, Reconnect
<1>2. rpcOpen' = TRUE /\ UNCHANGED <<toPage, attached, hangsFrom, list>>
  BY DEF Reconnect
<1>3. CASE PicksUp
  <2>1. /\ channel' = "opening" /\ resuming' = TRUE /\ req' = "attach"
        /\ UNCHANGED <<astray, sessionId, surfaceVars, closeVars, disposed>>
    BY <1>3 DEF Reconnect
  <2>2. UNCHANGED <<kind, parent, layer, mainId, goneTimer>>
    BY <2>1 DEF surfaceVars, closeVars
  <2>3. PageInv'
    BY <2>2, PageKept DEF WindowInv
  <2>4. disposed' = FALSE
    BY <1>3, <2>1 DEF PicksUp, WindowInv, WindowTypes
  <2>5. WindowTypes'
    BY <1>2, <2>1, <2>4 DEF WindowInv, WindowTypes
  <2> QED BY <1>1, <1>2, <2>1, <2>3, <2>4, <2>5, NothingIsSaid DEF Anew
<1>4. CASE ~PicksUp
  <2>1. UNCHANGED pageVars /\ req' = req
    BY <1>4 DEF Reconnect
  <2>2. /\ UNCHANGED <<channel, astray, resuming, sessionId, disposed>>
        /\ UNCHANGED <<kind, parent, layer, mainId, goneTimer>>
    BY <2>1 DEF pageVars, surfaceVars, closeVars
  <2>3. /\ resuming \in BOOLEAN /\ sessionId \in BOOLEAN /\ disposed \in BOOLEAN
        /\ hangsFrom \in Views
    BY DEF WindowInv, WindowTypes
  <2> QED BY <1>1, <1>2, <2>1, <2>2, <2>3, LeavesTheRest
<1> QED BY <1>3, <1>4

\* An application is picked.
LEMMA PicksWindow == ASSUME IdsApart, WindowInv, Picks PROVE WindowInv'
<1>1. /\ channel = "none" /\ Start("message") /\ disposed = FALSE
      /\ UNCHANGED <<rpcOpen, astray, disposed, toPage, attached, hangsFrom, list>>
  BY DEF Picks, WindowInv, WindowTypes
<1>2. /\ astray = FALSE /\ toPage = <<>> /\ attached = FALSE /\ rpcOpen \in BOOLEAN
      /\ hangsFrom \in Views
  BY <1>1 DEF WindowInv, OnTheChannel, WindowTypes
<1> QED BY <1>1, <1>2, StartsAnew

\* channel?.close(): the application goes with the channel.
LEMMA HangsUp ==
  ASSUME IdsApart, WindowInv, Hangs, Reset, UNCHANGED <<astray, rpcOpen, resuming>>,
         list' = list, sessionId' \in BOOLEAN, disposed' \in BOOLEAN
  PROVE  WindowInv'
<1>1. /\ channel' = "none" /\ req' = "none" /\ toPage' = <<>> /\ attached' = FALSE
      /\ hangsFrom' = IF attached THEN NothingUp ELSE hangsFrom
  BY DEF Hangs
<1>2. astray = FALSE /\ rpcOpen \in BOOLEAN /\ resuming \in BOOLEAN /\ hangsFrom \in Views
  BY DEF WindowInv, OnTheChannel, WindowTypes
<1>3. hangsFrom' \in Views
  BY <1>1, <1>2, NothingIsUp
<1> QED BY <1>1, <1>2, <1>3, LeavesNothing

\* 'Choose another'.
LEMMA ChoosesWindow == ASSUME IdsApart, Plain, WindowInv, ChoosesAnother PROVE WindowInv'
<1>1. sessionId \in BOOLEAN /\ goneTimer \in BOOLEAN
  BY DEF WindowInv, WindowTypes, PageInv
<1>2. /\ Hangs /\ Reset /\ UNCHANGED <<astray, resuming, rpcOpen, list>>
      /\ sessionId' = (sessionId /\ channel = "none") /\ disposed' = (goneTimer /\ channel # "none")
  BY DEF ChoosesAnother, Plain
<1>3. sessionId' \in BOOLEAN /\ disposed' \in BOOLEAN
  BY <1>2
<1> QED BY <1>2, <1>3, HangsUp

\* destroy().
LEMMA DestroysWindow == ASSUME IdsApart, WindowInv, Destroy PROVE WindowInv'
<1>1. astray = FALSE /\ sessionId \in BOOLEAN
  BY DEF WindowInv, OnTheChannel, WindowTypes
<1>2. /\ Hangs /\ Reset /\ disposed' = TRUE
      /\ UNCHANGED <<astray, resuming, rpcOpen, sessionId, list>>
  BY <1>1 DEF Destroy
<1> QED BY <1>1, <1>2, HangsUp

\* The window is told something about itself only.
LEMMA NothingMoves ==
  ASSUME WindowInv, UNCHANGED <<rpcOpen, channel, astray, resuming, sessionId, disposed, req, toPage,
                                attached, hangsFrom, list, kind, parent, layer, mainId, goneTimer>>
  PROVE  WindowInv'
<1>1. PageInv' /\ View' = View /\ (Anew(resuming') \/ Seen')
  BY PageKept DEF WindowInv
<1>2. WindowTypes'
  BY DEF WindowInv, WindowTypes
<1>3. OnTheChannel'
  BY <1>1 DEF WindowInv, OnTheChannel
<1>4. Leads'
  BY <1>1, LeadsNext DEF WindowInv, Leads
<1> QED BY <1>1, <1>2, <1>3, <1>4 DEF WindowInv

\* The close button, and the timers.
LEMMA PressesWindow ==
  ASSUME IdsApart, WindowInv,
         PressesClose \/ EightSeconds \/ GoneTimerFires \/ UNCHANGED windowVars
  PROVE  WindowInv'
<1>1. CASE Destroy
  BY <1>1, DestroysWindow
<1>2. CASE UNCHANGED <<rpcOpen, channel, astray, resuming, sessionId, awaitingReconnect, surfaceVars,
                       goneTimer, disposed, panel, serverVars, bounds>>
  <2>1. UNCHANGED <<rpcOpen, channel, astray, resuming, sessionId, disposed, req, toPage,
                    attached, hangsFrom, list, kind, parent, layer, mainId, goneTimer>>
    BY <1>2 DEF surfaceVars, serverVars
  <2> QED BY <2>1, NothingMoves
<1>3. CASE UNCHANGED windowVars
  <2>1. UNCHANGED <<rpcOpen, channel, astray, resuming, sessionId, disposed, req, toPage,
                    attached, hangsFrom, list, kind, parent, layer, mainId, goneTimer>>
    BY <1>3 DEF windowVars, pageVars, surfaceVars, closeVars, serverVars
  <2> QED BY <2>1, NothingMoves
<1> QED
  BY <1>1, <1>2, <1>3 DEF PressesClose, EightSeconds, GoneTimerFires

\* What is left of the messages when the first is read.
LEMMA LeavesMessages ==
  ASSUME WindowInv, toPage # <<>>
  PROVE  /\ Head(toPage) \in Messages /\ Tail(toPage) \in Seq(Messages)
         /\ channel # "none" /\ req = "none" /\ rpcOpen = TRUE /\ disposed = FALSE
         /\ \A k \in 1..Len(Tail(toPage)) :
              /\ Tail(toPage)[k].t # "opened"
              /\ Tail(toPage)[k].t = "end" => k = Len(Tail(toPage)) /\ attached = FALSE
         /\ Head(toPage).t = "end" => Tail(toPage) = <<>> /\ attached = FALSE
         /\ Head(toPage).t # "end" /\ attached = FALSE =>
              Tail(toPage) # <<>> /\ Tail(toPage)[Len(Tail(toPage))].t = "end"
         /\ channel = "opening" => Head(toPage).t \in {"opened", "end"}
<1> DEFINE n == Len(toPage)  p == Tail(toPage)
<1>1. /\ n \in Nat /\ n # 0 /\ Head(toPage) = toPage[1] /\ Head(toPage) \in Messages
      /\ p \in Seq(Messages) /\ Len(p) = n - 1 /\ \A k \in 1..(n - 1) : p[k] = toPage[k + 1]
  <2>1. toPage \in Seq(Messages)
    BY DEF WindowInv, WindowTypes
  <2>2. Len(toPage) \in Nat /\ Len(toPage) # 0
    BY <2>1, LenProperties, EmptySeq
  <2>3. /\ Head(toPage) \in Messages /\ Head(toPage) = toPage[1] /\ Tail(toPage) \in Seq(Messages)
        /\ Len(Tail(toPage)) = Len(toPage) - 1
        /\ \A k \in 1..Len(Tail(toPage)) : Tail(toPage)[k] = toPage[k + 1]
    BY <2>1, HeadTailProperties
  <2> QED BY <2>2, <2>3
<1>2. channel # "none" /\ req = "none" /\ rpcOpen = TRUE /\ disposed = FALSE
  BY DEF WindowInv, OnTheChannel
<1>3. \A k \in 1..n : /\ toPage[k].t = "opened" => k = 1
                      /\ toPage[k].t = "end" => k = n /\ attached = FALSE
  BY DEF WindowInv, OnTheChannel
<1>4. attached = FALSE => toPage[n].t = "end"
  BY <1>2 DEF WindowInv, OnTheChannel
<1>5. channel = "opening" => toPage[1].t \in {"opened", "end"}
  BY <1>2 DEF WindowInv, OnTheChannel
<1>6. n = 1 => p = <<>>
  <2> HIDE DEF n, p
  <2>1. n = 1 => Len(p) = 0
    BY <1>1
  <2> QED BY <1>1, <2>1, EmptySeq
<1>7. n # 1 => p # <<>>
  BY <1>1, EmptySeq
<1> HIDE DEF n, p
<1>8. ASSUME NEW k \in 1..Len(p)
      PROVE  p[k].t # "opened" /\ (p[k].t = "end" => k = Len(p) /\ attached = FALSE)
  <2>1. k \in 1..(n - 1) /\ k + 1 \in 1..n /\ k + 1 # 1 /\ (k + 1 = n => k = n - 1)
    BY <1>1
  <2>2. p[k] = toPage[k + 1]
    BY <1>1, <2>1
  <2> QED BY <1>1, <1>3, <2>1, <2>2
<1>9. 1 \in 1..n
  BY <1>1
<1>10. Head(toPage).t = "end" => p = <<>> /\ attached = FALSE
  BY <1>1, <1>3, <1>6, <1>9
<1>11. ASSUME Head(toPage).t # "end", attached = FALSE PROVE p # <<>> /\ p[Len(p)].t = "end"
  <2>1. n # 1
    BY <1>1, <1>4, <1>11
  <2>2. Len(p) \in 1..(n - 1) /\ Len(p) + 1 = n
    BY <1>1, <2>1
  <2>3. p[Len(p)] = toPage[n]
    BY <1>1, <2>2
  <2> QED BY <1>4, <1>7, <1>11, <2>1, <2>3
<1> QED BY <1>1, <1>2, <1>5, <1>8, <1>10, <1>11 DEF n, p

\* A message is read that is not the last of its channel.
LEMMA ReadsOn ==
  ASSUME IdsApart, WindowInv, toPage # <<>>, toPage' = Tail(toPage), Head(toPage).t # "end",
         UNCHANGED <<rpcOpen, astray, resuming, disposed, req, attached, hangsFrom, list>>,
         channel' = "open", sessionId' = TRUE, PageInv', Anew(resuming) \/ Seen',
         Traced(resuming, Tail(toPage), View', hangsFrom, attached)
  PROVE  WindowInv'
<1>1. /\ Tail(toPage) \in Seq(Messages) /\ req = "none" /\ rpcOpen = TRUE /\ disposed = FALSE
      /\ \A k \in 1..Len(Tail(toPage)) :
           /\ Tail(toPage)[k].t # "opened"
           /\ Tail(toPage)[k].t = "end" => k = Len(Tail(toPage)) /\ attached = FALSE
      /\ attached = FALSE => Tail(toPage) # <<>> /\ Tail(toPage)[Len(Tail(toPage))].t = "end"
  BY LeavesMessages
<1>2. WindowTypes'
  BY <1>1 DEF WindowInv, WindowTypes
<1>3. OnTheChannel'
  BY <1>1 DEF WindowInv, OnTheChannel
<1>4. Leads'
  BY LeadsNext
<1> QED BY <1>2, <1>3, <1>4 DEF WindowInv

\* The page reads a message.
LEMMA ReadsMessage == ASSUME IdsApart, WindowInv, PageReads PROVE WindowInv'
<1> DEFINE m == Head(toPage)
<1>1. toPage # <<>> /\ toPage' = Tail(toPage) /\ UNCHANGED <<attached, hangsFrom, list>>
  BY DEF PageReads
<1>2. /\ m \in Messages /\ channel # "none" /\ rpcOpen = TRUE /\ disposed = FALSE
      /\ m.t = "end" => Tail(toPage) = <<>> /\ attached = FALSE
      /\ channel = "opening" => m.t \in {"opened", "end"}
  BY <1>1, LeavesMessages
<1>3. PICK u \in Views : /\ Turns(resuming, m, View, u)
                         /\ Traced(resuming, Tail(toPage), u, hangsFrom, attached)
                         /\ Anew(resuming) \/ (WellFormed(View) /\ WellFormed(u))
  <2>1. toPage \in Seq(Messages) /\ Traced(resuming, toPage, View, hangsFrom, attached)
    BY DEF WindowInv, WindowTypes, Leads
  <2> QED BY <1>1, <2>1, TraceRead
<1>4. PageInv /\ (Anew(resuming) \/ Seen) /\ Ids = Tops \cup Popups
  BY DEF WindowInv, IdsApart
<1>5. CASE m.t = "opened"
  <2>1. /\ channel' = "open" /\ sessionId' = TRUE
        /\ IF resuming THEN Reset ELSE UNCHANGED <<surfaceVars, closeVars, panel>>
        /\ UNCHANGED <<rpcOpen, astray, resuming, disposed, req>>
    BY <1>5 DEF PageReads
  <2>2. u = NothingUp /\ (Anew(resuming) \/ View = u)
    BY <1>3, <1>5 DEF Turns
  <2>3. PageInv' /\ View' = u /\ (Anew(resuming) \/ Seen')
    <3>1. CASE resuming = TRUE
      <4>1. Reset
        BY <2>1, <3>1
      <4> QED BY <2>2, <4>1, ResetSeen
    <3>2. CASE resuming = FALSE
      <4>1. UNCHANGED <<kind, parent, layer, mainId, goneTimer>>
        BY <2>1, <3>2 DEF surfaceVars, closeVars
      <4> QED BY <1>4, <2>2, <3>2, <4>1, PageKept DEF Anew
    <3>3. resuming \in BOOLEAN
      BY DEF WindowInv, WindowTypes
    <3> QED BY <3>1, <3>2, <3>3
  <2>4. Traced(resuming, Tail(toPage), View', hangsFrom, attached)
    BY <1>3, <2>3
  <2> QED BY <1>1, <1>5, <2>1, <2>3, <2>4, ReadsOn
<1>6. CASE m.t = "end"
  <2>1. ChannelCloses(m.error) /\ rpcOpen' = rpcOpen
    BY <1>6 DEF PageReads, HearsClose
  <2>2. m.error \in BOOLEAN
    BY <1>2 DEF Messages
  <2> HIDE DEF m
  <2> QED BY <1>1, <1>2, <1>6, <2>1, <2>2, ClosesChannel
<1>7. CASE m.t \in {"window", "popup", "hidden", "closed"}
  <2>1. /\ CASE m.t = "window" -> ShowsWindow(m.id, m.up)
             [] m.t = "popup" -> ShowsPopup(m.id, m.up)
             [] OTHER -> SurfaceGone(m.id, m.t = "closed")
        /\ UNCHANGED <<rpcOpen, channel, astray, resuming, sessionId, disposed, req>>
    BY <1>7 DEF PageReads
  <2>2. channel' = "open" /\ sessionId' = TRUE
    BY <1>2, <1>7, <2>1 DEF WindowInv, WindowTypes, OnTheChannel
  <2>3. PageInv' /\ View' = u /\ (Anew(resuming) \/ Seen')
    <3>1. CASE m.t = "window"
      <4>1. /\ m.id \in Tops /\ View[m.id] = Down /\ u = [View EXCEPT ![m.id] = m.up]
            /\ m.up # Down
        BY <1>3, <3>1 DEF Turns
      <4>2. u[m.id] = m.up
        BY <1>4, <4>1 DEF PageInv, Views
      <4>3. m.up \in Tops \cup {No}
        BY <1>4, <4>1, <4>2 DEF Views
      <4>4. kind[m.id] = "none"
        BY <1>4, <4>1, ViewOf DEF PageInv, IdsApart
      <4>5. ShowsWindow(m.id, m.up)
        BY <2>1, <3>1
      <4> HIDE DEF m
      <4>6. PageInv' /\ View' = u
        BY <1>4, <4>1, <4>3, <4>4, <4>5, WindowShown
      <4>7. Anew(resuming) \/ Seen'
        BY <1>3, <1>4, <4>1, <4>3, <4>4, <4>5, SeenWithWindow
      <4> QED BY <4>6, <4>7
    <3>2. CASE m.t = "popup"
      <4>1. /\ m.id \in Popups /\ View[m.id] = Down /\ u = [View EXCEPT ![m.id] = m.up]
            /\ m.up # Down
        BY <1>3, <3>2 DEF Turns
      <4>2. u[m.id] = m.up
        BY <1>4, <4>1 DEF PageInv, Views
      <4>3. m.up \in Tops
        BY <1>4, <4>1, <4>2 DEF Views
      <4>4. kind[m.id] = "none"
        BY <1>4, <4>1, ViewOf DEF PageInv, IdsApart
      <4>5. ShowsPopup(m.id, m.up)
        BY <2>1, <3>2
      <4> HIDE DEF m
      <4>6. PageInv' /\ View' = u
        BY <1>4, <4>1, <4>3, <4>4, <4>5, PopupShown
      <4>7. Anew(resuming) \/ Seen'
        BY <1>3, <1>4, <4>1, <4>3, <4>4, <4>5, SeenWithPopup
      <4> QED BY <4>6, <4>7
    <3>3. CASE m.t \in {"hidden", "closed"}
      <4>1. m.id \in Ids /\ u = [View EXCEPT ![m.id] = Down]
        BY <1>3, <3>3 DEF Turns
      <4>2. SurfaceGone(m.id, m.t = "closed")
        BY <2>1, <3>3
      <4> DEFINE destroyed == m.t = "closed"
      <4>3. destroyed \in BOOLEAN /\ SurfaceGone(m.id, destroyed)
        BY <4>2
      <4> HIDE DEF m, destroyed
      <4>4. PageInv' /\ View' = u
        BY <1>4, <4>1, <4>3, PageLoses
      <4>5. Anew(resuming) \/ Seen'
        <5>1. Anew(resuming) \/ (WellFormed(View) /\ WellFormed(View)')
          BY <1>3, <4>4 DEF WellFormed
        <5> QED BY <1>4, <4>1, <4>3, <5>1, SeenWithout
      <4> QED BY <4>4, <4>5
    <3> QED BY <1>7, <3>1, <3>2, <3>3
  <2>4. Traced(resuming, Tail(toPage), View', hangsFrom, attached)
    BY <1>3, <2>3
  <2>5. m.t # "end" /\ UNCHANGED <<rpcOpen, astray, resuming, disposed, req>>
    BY <1>7, <2>1
  <2> QED BY <1>1, <2>2, <2>3, <2>4, <2>5, ReadsOn
<1> QED
  <2>1. m.t \in {"opened", "end", "window", "popup", "hidden", "closed"}
    BY <1>2 DEF Messages
  <2> QED BY <1>5, <1>6, <1>7, <2>1

\* A message is sent to the window that has the session.
LEMMA MessageSent ==
  ASSUME WindowInv, attached = TRUE, NEW m \in Messages, toPage' = Append(toPage, m),
         m.t # "opened", NEW w \in Views, Turns(resuming, m, hangsFrom, w),
         WellFormed(hangsFrom) => WellFormed(w),
         UNCHANGED <<rpcOpen, channel, astray, resuming, sessionId, disposed, req,
                     kind, parent, layer, mainId, goneTimer>>,
         m.t = "end" => attached' = FALSE,
         m.t # "end" => attached' = TRUE /\ hangsFrom' = w,
         attached' \in BOOLEAN, hangsFrom' \in Views, list' \in Seq(Ids)
  PROVE  WindowInv'
<1> DEFINE n == Len(toPage)  p == Append(toPage, m)
<1>1. toPage \in Seq(Messages) /\ Leads
  BY DEF WindowInv, WindowTypes
<1>2. /\ n \in Nat /\ p \in Seq(Messages) /\ Len(p) = n + 1 /\ p[n + 1] = m /\ p # <<>>
      /\ \A k \in 1..n : p[k] = toPage[k]
  <2>1. /\ p \in Seq(Messages) /\ Len(p) = n + 1 /\ p[n + 1] = m /\ n \in Nat
        /\ \A k \in 1..n : p[k] = toPage[k]
    BY <1>1, AppendProperties, LenProperties
  <2>2. p # <<>>
    BY <2>1, EmptySeq
  <2> QED BY <2>1, <2>2
<1>3. PageInv' /\ View' = View /\ (Anew(resuming') \/ Seen')
  BY PageKept DEF WindowInv
<1>4. WindowTypes'
  BY <1>2 DEF WindowInv, WindowTypes
<1>5. channel # "none" /\ req = "none"
  BY DEF WindowInv, OnTheChannel
<1>6. \A k \in 1..n : /\ toPage[k].t = "opened" => k = 1 /\ channel = "opening"
                      /\ toPage[k].t # "end"
  BY DEF WindowInv, OnTheChannel
<1>7. channel = "opening" => toPage[1].t \in {"opened", "end"} /\ n # 0
  BY <1>1, <1>5, EmptySeq DEF WindowInv, OnTheChannel
<1>8. Leads'
  <2>1. Traced(resuming, toPage, View, hangsFrom, attached)
    BY <1>1 DEF Leads
  <2>2. Anew(resuming) \/ WellFormed(w)
    BY <1>1, <2>1, TraceBegins
  <2>3. Traced(resuming, p, View, w, attached)
    BY <1>1, <2>1, <2>2, TraceSent
  <2>4. Traced(resuming, p, View, hangsFrom', attached')
    <3>1. CASE m.t = "end"
      <4>1. attached' # TRUE
        BY <3>1
      <4> QED BY <1>2, <2>3, <4>1, TraceBegins
    <3>2. CASE m.t # "end"
      BY <2>3, <3>2
    <3> QED BY <3>1, <3>2
  <2> QED BY <1>3, <2>4, LeadsNext
<1> HIDE DEF n, p
<1>9. OnTheChannel'
  <2>1. toPage' = p
    BY DEF p
  <2>2. channel = "opening" => p[1].t \in {"opened", "end"}
    <3>1. n # 0 => 1 \in 1..n
      BY <1>2
    <3> QED BY <1>2, <1>7, <3>1
  <2>3. ASSUME NEW k \in 1..Len(p)
        PROVE  /\ p[k].t = "opened" => k = 1 /\ channel = "opening"
               /\ p[k].t = "end" => k = Len(p) /\ attached' = FALSE
    <3>1. CASE k \in 1..n
      BY <1>2, <1>6, <3>1
    <3>2. CASE k = n + 1
      BY <1>2, <3>2
    <3>3. k \in 1..n \/ k = n + 1
      BY <1>2
    <3> QED BY <3>1, <3>2, <3>3
  <2>4. attached' = FALSE => p[Len(p)].t = "end"
    BY <1>2
  <2>5. /\ astray' = FALSE /\ (channel # "none" => rpcOpen = TRUE /\ disposed = FALSE)
        /\ (channel = "open" => sessionId = TRUE)
        /\ (channel = "opening" => Anew(resuming) \/ View = NothingUp)
    BY DEF WindowInv, OnTheChannel
  <2> QED BY <1>2, <1>3, <1>5, <2>1, <2>2, <2>3, <2>4, <2>5 DEF OnTheChannel
<1> QED BY <1>3, <1>4, <1>8, <1>9 DEF WindowInv

\* Nobody has the session: what becomes of it is not told.
LEMMA NobodyTold ==
  ASSUME WindowInv, attached = FALSE, attached' = FALSE,
         UNCHANGED <<rpcOpen, channel, astray, resuming, sessionId, disposed, req, toPage,
                     kind, parent, layer, mainId, goneTimer>>,
         hangsFrom' \in Views, list' \in Seq(Ids)
  PROVE  WindowInv'
<1>1. PageInv' /\ View' = View /\ (Anew(resuming') \/ Seen')
  BY PageKept DEF WindowInv
<1>2. WindowTypes'
  BY DEF WindowInv, WindowTypes
<1>3. OnTheChannel'
  BY <1>1 DEF WindowInv, OnTheChannel
<1>4. Leads'
  <2>1. toPage \in Seq(Messages) /\ Traced(resuming, toPage, View, hangsFrom, attached)
    BY DEF WindowInv, WindowTypes, Leads
  <2>2. Traced(resuming, toPage, View, hangsFrom', attached')
    BY <2>1, TraceBegins
  <2> QED BY <1>1, <2>2, LeadsNext
<1> QED BY <1>1, <1>2, <1>3, <1>4 DEF WindowInv

\* What a step of the server leaves of the page.
LEMMA PageStays ==
  ASSUME UNCHANGED <<rpcOpen, pageVars>>
  PROVE  UNCHANGED <<rpcOpen, channel, astray, resuming, sessionId, disposed, kind, parent, layer,
                     mainId, goneTimer>>
BY DEF pageVars, surfaceVars, closeVars

\* A window or a menu comes up.
LEMMA MapsWindow ==
  ASSUME IdsApart, Plain, WindowInv, NEW i \in Ids, NEW up \in Ids \cup {No},
         Maps(i, up)
  PROVE  WindowInv'
<1> DEFINE m == Message(IF i \in Tops THEN "window" ELSE "popup", i, up)
           w == [hangsFrom EXCEPT ![i] = up]
<1>1. /\ Tops \cap Popups = {} /\ Ids = Tops \cup Popups /\ No \notin Ids
      /\ Down \notin Ids /\ No # Down
  BY DEF IdsApart
<1>2. hangsFrom \in Views /\ list \in Seq(Ids) /\ attached \in BOOLEAN
  BY DEF WindowInv, WindowTypes
<1>3. /\ hangsFrom[i] = Down /\ hangsFrom' = w
      /\ list' = IF Contains(list, i) THEN list ELSE <<i>> \o list
      /\ toPage' = IF attached THEN Append(toPage, m) ELSE toPage
      /\ UNCHANGED <<rpcOpen, pageVars>> /\ UNCHANGED <<req, attached>>
  BY DEF Maps, Says, AppStep, UpIds
<1>4. up \in Tops \cup {No} /\ (up \in Tops => hangsFrom[up] # Down)
      /\ (i \in Popups => up \in Tops)
  <2>1. CASE i \in Tops
    BY <1>1, <2>1 DEF Maps, UpIds
  <2>2. CASE i \in Popups
    <3>1. up \in UpIds /\ up \notin Popups
      BY <1>1, <2>2 DEF Maps, Plain
    <3> QED BY <1>1, <3>1 DEF UpIds
  <2> QED BY <1>1, <2>1, <2>2
<1>5. w \in Views
  BY <1>1, <1>2, <1>4 DEF Views
<1>6. list' \in Seq(Ids)
  <2>1. <<i>> \in Seq(Ids)
    OBVIOUS
  <2>2. <<i>> \o list \in Seq(Ids)
    BY <1>2, <2>1, ConcatProperties
  <2> QED BY <1>2, <1>3, <2>2
<1>7. m \in Messages /\ m.t # "opened" /\ m.t # "end"
  <2>1. (IF i \in Tops THEN "window" ELSE "popup") \in {"window", "popup"}
    OBVIOUS
  <2> QED BY <2>1 DEF Message, Messages
<1>8. Turns(resuming, m, hangsFrom, w)
  BY <1>1, <1>3, <1>4 DEF Turns, Message
<1>9. WellFormed(hangsFrom) => WellFormed(w)
  BY <1>2, <1>3, <1>4, UpIsWellFormed
<1> HIDE DEF m, w
<1>10. UNCHANGED <<rpcOpen, channel, astray, resuming, sessionId, disposed, req, kind, parent, layer,
                   mainId, goneTimer>>
  BY <1>3, PageStays
<1>11. CASE attached = TRUE
  <2>1. toPage' = Append(toPage, m)
    BY <1>3, <1>11
  <2> QED BY <1>3, <1>5, <1>6, <1>7, <1>8, <1>9, <1>10, <1>11, <2>1, MessageSent
<1>12. CASE attached = FALSE
  BY <1>3, <1>5, <1>6, <1>10, <1>12, NobodyTold
<1> QED BY <1>2, <1>11, <1>12

\* It goes again.
LEMMA GoesWindow ==
  ASSUME IdsApart, Plain, WindowInv, NEW i \in Ids, NEW t \in {"hidden", "closed"},
         Goes(i, t)
  PROVE  WindowInv'
<1> DEFINE m == Message(t, i, No)
           w == [hangsFrom EXCEPT ![i] = Down]
<1>1. /\ Ids = Tops \cup Popups /\ Down \notin Ids /\ No # Down
  BY DEF IdsApart
<1>2. hangsFrom \in Views /\ list \in Seq(Ids) /\ attached \in BOOLEAN
  BY DEF WindowInv, WindowTypes
<1>3. \A k \in Ids : hangsFrom[k] # i
  BY <1>1 DEF Goes, UpIds, Plain
<1>4. hangsFrom' = w
  <2>1. hangsFrom' = [k \in Ids |-> IF k = i THEN Down ELSE
          IF t = "closed" /\ hangsFrom[k] = i THEN No ELSE hangsFrom[k]]
    BY DEF Goes
  <2>2. hangsFrom' = [k \in Ids |-> IF k = i THEN Down ELSE hangsFrom[k]]
    BY <1>3, <2>1
  <2> QED BY <1>2, <2>2 DEF Views
<1>5. w \in Views
  BY <1>1, <1>2 DEF Views
<1>6. /\ list' = IF t = "closed" THEN Unlisted(i) ELSE list
      /\ toPage' = IF attached THEN Append(toPage, m) ELSE toPage
      /\ UNCHANGED <<rpcOpen, pageVars>> /\ UNCHANGED <<req, attached>>
  BY DEF Goes, Says, AppStep
<1>7. list' \in Seq(Ids)
  <2>1. Unlisted(i) \in Seq(Ids)
    <3> DEFINE at == CHOOSE k \in DOMAIN list : list[k] = i
               l == [k \in 1..(Len(list) - 1) |-> list[IF k < at THEN k ELSE k + 1]]
    <3>1. Len(list) \in Nat /\ \A k \in 1..Len(list) : list[k] \in Ids
      BY <1>2, LenProperties, ElementOfSeq
    <3>2. \A k \in 1..(Len(list) - 1) : k \in 1..Len(list) /\ k + 1 \in 1..Len(list)
      BY <3>1
    <3> HIDE DEF at
    <3>3. \A k \in 1..(Len(list) - 1) : list[IF k < at THEN k ELSE k + 1] \in Ids
      BY <3>1, <3>2
    <3>4. l \in Seq(Ids)
      <4>1. CASE Len(list) = 0
        <5>1. 1..(Len(list) - 1) = 1..0
          BY <4>1
        <5>2. l \in [1..0 -> Ids] /\ 0 \in Nat
          BY <3>3, <5>1
        <5> HIDE DEF l
        <5> QED BY <5>2, SeqDef
      <4>2. CASE Len(list) # 0
        <5> DEFINE n == Len(list) - 1
        <5>1. n \in Nat
          BY <3>1, <4>2
        <5>2. l \in [1..n -> Ids]
          BY <3>3
        <5> HIDE DEF n, l
        <5> QED BY <5>1, <5>2, SeqDef
      <4> QED BY <4>1, <4>2
    <3> QED BY <3>4 DEF at, Unlisted
  <2> QED BY <1>2, <1>6, <2>1
<1>8. m \in Messages /\ m.t = t /\ m.id = i
  BY DEF Message, Messages
<1>9. Turns(resuming, m, hangsFrom, w) /\ m.t # "opened" /\ m.t # "end"
  <2> HIDE DEF m
  <2> QED BY <1>8 DEF Turns
<1>10. WellFormed(hangsFrom) => WellFormed(w)
  BY <1>2, <1>3, DownIsWellFormed
<1> HIDE DEF m, w
<1>11. UNCHANGED <<rpcOpen, channel, astray, resuming, sessionId, disposed, req, kind, parent, layer,
                   mainId, goneTimer>>
  BY <1>6, PageStays
<1>12. CASE attached = TRUE
  <2>1. toPage' = Append(toPage, m)
    BY <1>6, <1>12
  <2> QED BY <1>4, <1>5, <1>6, <1>7, <1>8, <1>9, <1>10, <1>11, <1>12, <2>1, MessageSent
<1>13. CASE attached = FALSE
  BY <1>4, <1>5, <1>6, <1>7, <1>11, <1>13, NobodyTold
<1> QED BY <1>2, <1>12, <1>13

\* The application exits.
LEMMA ExitsWindow ==
  ASSUME IdsApart, WindowInv, NEW error \in BOOLEAN, AppExits(error)
  PROVE  WindowInv'
<1> DEFINE m == Note("end", error)
<1>1. hangsFrom \in Views /\ list \in Seq(Ids) /\ attached \in BOOLEAN
  BY DEF WindowInv, WindowTypes
<1>2. /\ attached' = FALSE /\ hangsFrom' = NothingUp /\ list' = list /\ req' = req
      /\ toPage' = IF attached THEN Append(toPage, m) ELSE toPage
      /\ UNCHANGED <<rpcOpen, pageVars>>
  BY DEF AppExits, Says
<1>3. hangsFrom' \in Views
  BY <1>2, NothingIsUp
<1>4. m \in Messages /\ m.t = "end"
  BY DEF Note, Messages
<1>5. Turns(resuming, m, hangsFrom, hangsFrom)
  <2> HIDE DEF m
  <2> QED BY <1>4 DEF Turns
<1> HIDE DEF m
<1>6. UNCHANGED <<rpcOpen, channel, astray, resuming, sessionId, disposed, req, kind, parent, layer,
                  mainId, goneTimer>>
  BY <1>2, PageStays
<1>7. CASE attached = TRUE
  <2>1. toPage' = Append(toPage, m) /\ m.t # "opened"
    BY <1>2, <1>4, <1>7
  <2> QED BY <1>1, <1>2, <1>3, <1>4, <1>5, <1>6, <1>7, <2>1, MessageSent
<1>8. CASE attached = FALSE
  BY <1>1, <1>2, <1>3, <1>6, <1>8, NobodyTold
<1> QED BY <1>1, <1>7, <1>8

\* The server answers with messages that lead to what is up.
LEMMA AnswersWith ==
  ASSUME WindowInv, req # "none", req' = "none", NEW q \in Seq(Messages), toPage' = q, q # <<>>,
         q[1].t \in {"opened", "end"},
         \A k \in 2..Len(q) : q[k].t \notin {"opened", "end"},
         UNCHANGED <<rpcOpen, channel, astray, resuming, sessionId, disposed,
                     kind, parent, layer, mainId, goneTimer>>,
         \/ attached' = TRUE /\ q[1].t = "opened"
         \/ attached' = FALSE /\ Len(q) = 1 /\ q[1].t = "end",
         hangsFrom' \in Views, list' \in Seq(Ids),
         Traced(resuming, q, View, hangsFrom', attached')
  PROVE  WindowInv'
<1>1. PageInv' /\ View' = View /\ (Anew(resuming') \/ Seen')
  BY PageKept DEF WindowInv
<1>2. WindowTypes'
  BY DEF WindowInv, WindowTypes
<1>3. Leads'
  BY <1>1, LeadsNext
<1>4. channel = "opening" /\ Len(q) \in Nat
  BY LenProperties DEF WindowInv, OnTheChannel
<1>5. OnTheChannel'
  <2>1. ASSUME NEW k \in 1..Len(q)
        PROVE  /\ q[k].t = "opened" => k = 1
               /\ q[k].t = "end" => k = Len(q) /\ attached' = FALSE
    <3>1. k = 1 \/ k \in 2..Len(q)
      BY <1>4
    <3> QED BY <3>1
  <2>2. attached' = FALSE => q[Len(q)].t = "end"
    OBVIOUS
  <2>3. /\ astray' = FALSE /\ rpcOpen = TRUE /\ disposed = FALSE
        /\ Anew(resuming) \/ View = NothingUp
    BY <1>4 DEF WindowInv, OnTheChannel
  <2> QED BY <1>1, <1>4, <2>1, <2>2, <2>3 DEF OnTheChannel
<1> QED BY <1>1, <1>2, <1>3, <1>5 DEF WindowInv

\* A single message is the answer.
LEMMA AnswersOnce ==
  ASSUME IdsApart, WindowInv, req # "none", NEW m \in Messages, NEW w \in Views,
         Turns(resuming, m, View, w), Anew(resuming) \/ WellFormed(w), NEW a
  PROVE  /\ <<m>> \in Seq(Messages) /\ <<m>> # <<>> /\ Len(<<m>>) = 1 /\ <<m>>[1] = m
         /\ Traced(resuming, <<m>>, View, w, TRUE)
         /\ \A u : Traced(resuming, <<m>>, View, u, FALSE)
<1>1. <<m>> \in Seq(Messages) /\ <<m>> # <<>> /\ Len(<<m>>) = 1 /\ <<m>>[1] = m
  OBVIOUS
<1>2. View \in Views /\ (Anew(resuming) \/ WellFormed(View))
  BY ShownIsWellFormed DEF WindowInv, PageInv
<1>3. Traced(resuming, <<>>, View, View, TRUE)
  BY <1>2, NothingToTrace
<1>4. <<>> \in Seq(Messages) /\ Append(<<>>, m) = <<m>>
  OBVIOUS
<1>5. Traced(resuming, <<m>>, View, w, TRUE)
  <2> DEFINE a1 == TRUE
  <2>1. Traced(resuming, <<>>, View, View, a1) /\ a1 = TRUE
    BY <1>3
  <2> HIDE DEF a1
  <2>2. Traced(resuming, Append(<<>>, m), View, w, a1)
    BY <1>4, <2>1, TraceSent
  <2> QED BY <1>4, <2>2 DEF a1
<1>6. \A u : Traced(resuming, <<m>>, View, u, FALSE)
  <2> DEFINE a1 == TRUE  b1 == FALSE
  <2>1. Traced(resuming, <<m>>, View, w, a1) /\ b1 # TRUE
    BY <1>5
  <2> HIDE DEF a1, b1
  <2>2. \A u : Traced(resuming, <<m>>, View, u, b1)
    BY <1>1, <2>1, TraceBegins
  <2> QED BY <2>2 DEF b1
<1> QED BY <1>1, <1>5, <1>6

\* The server opens the channel, or refuses it.
LEMMA OpensWindow == ASSUME IdsApart, WindowInv, ServerOpens PROVE WindowInv'
<1>1. /\ req # "none" /\ req' = "none" /\ UNCHANGED <<rpcOpen, pageVars>>
      /\ UNCHANGED <<rpcOpen, channel, astray, resuming, sessionId, disposed,
                     kind, parent, layer, mainId, goneTimer>>
  <2>1. req # "none" /\ req' = "none" /\ UNCHANGED <<rpcOpen, pageVars>>
    BY DEF ServerOpens
  <2> QED BY <2>1, PageStays
<1>2. /\ channel = "opening" /\ (req = "attach" <=> Anew(resuming)) /\ attached = FALSE
      /\ Anew(resuming) \/ View = NothingUp
      /\ req \in {"session", "attach"}
  BY <1>1 DEF WindowInv, OnTheChannel, WindowTypes
<1>3. hangsFrom \in Views /\ list \in Seq(Ids) /\ View \in Views
  BY DEF WindowInv, WindowTypes, PageInv
<1>4. CASE /\ req = "session" /\ attached' = TRUE /\ toPage' = <<Note("opened", FALSE)>>
           /\ hangsFrom' = NothingUp /\ list' = <<>>
  <2> DEFINE m == Note("opened", FALSE)
  <2>1. m \in Messages /\ m.t = "opened"
    BY DEF Note, Messages
  <2> HIDE DEF m
  <2>2. NothingUp \in Views /\ WellFormed(NothingUp)
    BY NothingIsUp
  <2>3. Turns(resuming, m, View, NothingUp)
    BY <1>2, <2>1 DEF Turns
  <2>4. /\ <<m>> \in Seq(Messages) /\ <<m>> # <<>> /\ Len(<<m>>) = 1 /\ <<m>>[1] = m
        /\ Traced(resuming, <<m>>, View, NothingUp, TRUE)
    BY <1>1, <2>1, <2>2, <2>3, AnswersOnce
  <2>5. <<>> \in Seq(Ids)
    OBVIOUS
  <2> DEFINE q == <<m>>
  <2>6. toPage' = q /\ q \in Seq(Messages) /\ q # <<>> /\ Len(q) = 1 /\ q[1].t = "opened"
    BY <1>4, <2>1, <2>4 DEF m
  <2>7. Traced(resuming, q, View, hangsFrom', attached')
    BY <1>4, <2>4
  <2>8. \A k \in 2..Len(q) : q[k].t \notin {"opened", "end"}
    BY <2>6
  <2> HIDE DEF q
  <2> QED BY <1>1, <1>4, <2>2, <2>5, <2>6, <2>7, <2>8, AnswersWith
<1>5. CASE /\ req = "attach" /\ attached' = TRUE /\ UNCHANGED <<hangsFrom, list>>
           /\ \E up \in SeqOf(UpIds, Len(list)) :
                InListOrder(up) /\ toPage' = <<Note("opened", FALSE)>> \o Resync(up)
  <2>1. PICK up \in SeqOf(UpIds, Len(list)) :
               InListOrder(up) /\ toPage' = <<Note("opened", FALSE)>> \o Resync(up)
    BY <1>5
  <2>2. Len(list) \in Nat
    BY <1>3, LenProperties
  <2>3. PICK n \in 0..Len(list) : up \in [1..n -> UpIds]
    BY <2>1 DEF SeqOf
  <2>4. n \in Nat /\ Anew(resuming)
    BY <1>2, <1>5, <2>2
  <2>5. PICK q \in Seq(Messages) :
           /\ q = <<Note("opened", FALSE)>> \o Resync(up)
           /\ Len(q) = n + 1 /\ q[1].t = "opened"
           /\ \A k \in 2..(n + 1) : q[k].t \in {"window", "popup"}
           /\ Traced(resuming, q, View, hangsFrom, attached')
    <3> DEFINE b == attached'
    <3>1. hangsFrom \in Views /\ View \in Views /\ InListOrder(up)
      BY <1>3, <2>1
    <3> HIDE DEF b
    <3>2. Answers(resuming, b, View, n, up)
      BY <2>3, <2>4, <3>1, ResyncLeads
    <3> QED BY <3>2 DEF b, Answers
  <2>6. toPage' = q /\ q # <<>>
    <3>1. Len(q) # 0
      BY <2>4, <2>5
    <3> QED BY <2>1, <2>5, <3>1, EmptySeq
  <2>7. \A k \in 2..Len(q) : q[k].t \notin {"opened", "end"}
    BY <2>5
  <2>8. Traced(resuming, q, View, hangsFrom', attached') /\ q[1].t = "opened"
    BY <1>5, <2>5
  <2>9. hangsFrom' \in Views /\ list' \in Seq(Ids) /\ attached' = TRUE
    BY <1>3, <1>5
  <2> QED BY <1>1, <2>6, <2>7, <2>8, <2>9, AnswersWith
<1>6. CASE toPage' = <<Note("end", TRUE)>> /\ UNCHANGED <<attached, hangsFrom, list>>
  <2> DEFINE m == Note("end", TRUE)
  <2>1. m \in Messages /\ m.t = "end"
    BY DEF Note, Messages
  <2> HIDE DEF m
  <2>2. Turns(resuming, m, View, View) /\ (Anew(resuming) \/ WellFormed(View))
    BY <2>1, ShownIsWellFormed DEF Turns
  <2>3. /\ <<m>> \in Seq(Messages) /\ <<m>> # <<>> /\ Len(<<m>>) = 1 /\ <<m>>[1] = m
        /\ \A u : Traced(resuming, <<m>>, View, u, FALSE)
    BY <1>1, <1>3, <2>1, <2>2, AnswersOnce
  <2> DEFINE q == <<m>>
  <2>4. toPage' = q /\ q \in Seq(Messages) /\ q # <<>> /\ Len(q) = 1 /\ q[1].t = "end"
    BY <1>6, <2>1, <2>3 DEF m
  <2>5. attached' = FALSE /\ hangsFrom' \in Views /\ list' \in Seq(Ids)
    BY <1>2, <1>3, <1>6
  <2>6. Traced(resuming, q, View, hangsFrom', attached')
    BY <2>3, <2>5
  <2>7. \A k \in 2..Len(q) : q[k].t \notin {"opened", "end"}
    BY <2>4
  <2> HIDE DEF q
  <2> QED BY <1>1, <2>4, <2>5, <2>6, <2>7, AnswersWith
<1> QED BY <1>1, <1>4, <1>5, <1>6 DEF ServerOpens

\* Every step keeps the invariant.
LEMMA WindowSteps ==
  ASSUME IdsApart, Plain, WindowInv, [WindowNext]_windowVars
  PROVE  WindowInv'
<1>1. CASE PageReads
  BY <1>1, ReadsMessage
<1>2. CASE Drop
  BY <1>2, DropsWindow
<1>3. CASE Reconnect
  BY <1>3, ReconnectsWindow
<1>4. CASE Picks
  BY <1>4, PicksWindow
<1>5. CASE ChoosesAnother
  BY <1>5, ChoosesWindow
<1>6. CASE \/ PressesClose \/ EightSeconds \/ GoneTimerFires
           \/ UNCHANGED windowVars
  BY <1>6, PressesWindow
<1>7. CASE ServerOpens
  BY <1>7, OpensWindow
<1>8. CASE \E i \in Ids, up \in Ids \cup {No} : Maps(i, up)
  BY <1>8, MapsWindow
<1>9. CASE \E i \in Ids, t \in {"hidden", "closed"} : Goes(i, t)
  BY <1>9, GoesWindow
<1>10. CASE \E error \in BOOLEAN : AppExits(error)
  BY <1>10, ExitsWindow
<1> QED
  BY <1>1, <1>2, <1>3, <1>4, <1>5, <1>6, <1>7, <1>8, <1>9, <1>10 DEF WindowNext

\* Once all is read what is shown is what is up.
LEMMA AllRead ==
  ASSUME WindowInv, channel = "open", toPage = <<>>
  PROVE  attached = TRUE /\ View = hangsFrom
<1>1. attached = TRUE
  BY DEF WindowInv, OnTheChannel, WindowTypes
<1>2. toPage \in Seq(Messages) /\ Traced(resuming, toPage, View, hangsFrom, attached)
  BY DEF WindowInv, WindowTypes, Leads
<1> QED BY <1>1, <1>2, TraceBegins

\* The window is then one of those the application has up.
LEMMA ShowsOne ==
  ASSUME IdsApart, WindowInv, channel = "open", toPage = <<>>
  PROVE  LET windows == {i \in UpIds \cap Tops : hangsFrom[i] = No}
         IN  IF windows = {} THEN mainId = No ELSE mainId \in windows
<1> DEFINE windows == {i \in UpIds \cap Tops : hangsFrom[i] = No}
<1>1. /\ Ids = Tops \cup Popups /\ No # Down /\ No \notin Ids
      /\ Down \notin Ids
  BY DEF IdsApart
<1>2. \A i \in Ids : hangsFrom[i] = IF kind[i] = "none" THEN Down ELSE parent[i]
  BY AllRead, ViewOf
<1>3. windows = {i \in Tops : hangsFrom[i] = No}
  BY <1>1 DEF UpIds
<1>4. CASE mainId = No
  <2>1. \A i \in Tops : kind[i] = "none" \/ parent[i] # No
    BY <1>4 DEF WindowInv, PageInv
  <2>2. \A i \in Tops : hangsFrom[i] # No
    BY <1>1, <1>2, <2>1
  <2> QED BY <1>3, <1>4, <2>2
<1>5. CASE mainId # No
  <2>1. mainId \in Tops /\ parent[mainId] = No /\ kind[mainId] = "window"
    BY <1>1, <1>5 DEF WindowInv, PageInv
  <2>2. hangsFrom[mainId] = No
    BY <1>1, <1>2, <2>1
  <2> QED BY <1>3, <2>1, <2>2
<1> QED BY <1>4, <1>5

\* The invariant says what is seen.
LEMMA WindowsSeen == ASSUME IdsApart, WindowInv PROVE WindowsAreSeen
<1>1. ShowsTheApplication
  BY ShowsOne DEF ShowsTheApplication, Quiet
<1>2. DialogsAndMenusAreSeen
  BY SeenIsAll DEF DialogsAndMenusAreSeen, WindowInv, Anew
<1>3. NothingRunsUnseen
  BY DEF NothingRunsUnseen, WindowInv, OnTheChannel, WindowTypes
<1> QED BY <1>1, <1>2, <1>3 DEF WindowsAreSeen

\* WaylandWindow: once everything was read, the window shows one the application has up whenever
\* there is one, and nothing runs for a window that is gone, through any drops, hidings, takeovers
\* and sessions picked up. On a session's first connection dialogs and menus are also drawn where
\* they belong; of a session picked up nothing is claimed of them. All this where no menu hangs
\* from a menu (Nested), a window outlives the dialogs that hang from it (Disorderly), and nobody
\* chooses another while a session is being picked up (InHaste) (wayland/index.ts).
THEOREM WindowsStaySeen ==
  ASSUME Plain
  PROVE  WindowSpec => []WindowsAreSeen
<1>0. IdsApart
  BY IdsAre
<1>1. WindowInit => WindowInv
  BY <1>0, BeginsWindow
<1>2. WindowInv /\ [WindowNext]_windowVars => WindowInv'
  BY <1>0, WindowSteps
<1>3. WindowInv => WindowsAreSeen
  BY <1>0, WindowsSeen
<1> QED BY <1>1, <1>2, <1>3, PTL DEF WindowSpec

\* A step that closes the window of a running application was asked for.
LEMMA ClosesWhenAsked ==
  ASSUME IdsApart, Plain, WindowInv, WindowNext
  PROVE  ClosesUnasked => closeAskedAt = "recently"
<1> SUFFICES ASSUME ClosesUnasked PROVE closeAskedAt = "recently"
  OBVIOUS
<1>1. /\ ~disposed /\ disposed' /\ panel' # "picker" /\ attached /\ toPage = <<>>
      /\ \E i \in UpIds \cap Tops : hangsFrom[i] = No
  BY DEF ClosesUnasked
<1>2. /\ channel = "open" /\ sessionId = TRUE /\ astray = FALSE
      /\ goneTimer => mainId = No
  BY <1>1 DEF WindowInv, OnTheChannel, WindowTypes, PageInv
<1>3. mainId # No
  <2>1. No \notin Tops
    BY DEF IdsApart
  <2> QED BY <1>1, <1>2, <2>1, ShowsOne
<1>4. CASE PageReads
  BY <1>1, <1>4 DEF PageReads
<1>5. CASE Drop
  <2>1. ChannelCloses(FALSE) /\ StillThere
    BY <1>1, <1>2, <1>5 DEF Drop, StillThere
  <2> QED BY <1>1, <2>1 DEF ChannelCloses
<1>6. CASE Reconnect
  BY <1>1, <1>6 DEF Reconnect, pageVars
<1>7. CASE Picks
  BY <1>1, <1>7 DEF Picks
<1>8. CASE ChoosesAnother
  BY <1>1, <1>2, <1>8 DEF ChoosesAnother
<1>9. CASE PressesClose
  BY <1>1, <1>2, <1>3, <1>9 DEF PressesClose, MayClose
<1>10. CASE EightSeconds
  BY <1>1, <1>10 DEF EightSeconds
<1>11. CASE GoneTimerFires
  BY <1>2, <1>3, <1>11 DEF GoneTimerFires
<1>12. ASSUME UNCHANGED pageVars PROVE FALSE
  BY <1>1, <1>12 DEF pageVars
<1> QED
  BY <1>4, <1>5, <1>6, <1>7, <1>8, <1>9, <1>10, <1>11, <1>12
  DEF WindowNext, ServerOpens, Maps, Goes, AppExits, AppStep

\* WaylandWindow: a window that shows a running application closes only within eight seconds of the
\* application's being asked to, under the same three conditions (wayland/index.ts 944-961).
THEOREM WindowClosesWhenAsked ==
  ASSUME Plain
  PROVE  WindowSpec => NeverClosesUnasked
<1>0. IdsApart
  BY IdsAre
<1>1. WindowInit => WindowInv
  BY <1>0, BeginsWindow
<1>2. WindowInv /\ [WindowNext]_windowVars => WindowInv'
  BY <1>0, WindowSteps
<1>3. WindowInv /\ [WindowNext]_windowVars =>
        [ClosesUnasked => closeAskedAt = "recently"]_windowVars
  BY <1>0, ClosesWhenAsked
<1> QED BY <1>1, <1>2, <1>3, PTL DEF WindowSpec, NeverClosesUnasked
=============================================================================
