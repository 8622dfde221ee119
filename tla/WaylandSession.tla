--------------------------- MODULE WaylandSession ---------------------------
(***************************************************************************)
(* One native application on a server: the sessions that run it, each a    *)
(* compositor with the application under it, and the windows that show     *)
(* them (server/src/services/wayland.ts). A session outlives its window    *)
(* when the connection drops. It is stopped in three steps when its window *)
(* is closed or its grace period is over: the application is asked, then   *)
(* its display is taken away, then the process group is killed.            *)
(*                                                                         *)
(* A channel is one window on a connection of its own; once it is closed   *)
(* the name stands for a new one. An opener that has                       *)
(* spawned carries on in a microtask, so a launch becomes live, or is      *)
(* closed, in the step that spawns it; what the awaits let in between is   *)
(* here. A child is gone when its `exit` has been handled. Timers fire in  *)
(* any order. Frames, input, the clipboard and the portal are left out.    *)
(***************************************************************************)
EXTENDS Naturals

CONSTANTS
  Sessions,    \* launches of the application
  Chans,       \* windows that may be open at once
  None,
  MaxTimers    \* bound: asks and kills a session has pending at once

ASSUME WaylandAssumption == None \notin Chans \cup Sessions /\ MaxTimers \in Nat \ {0}

VARIABLES
  windowGrace,  \* Config.windowGrace: zero, some seconds, or Infinity
  chan,         \* the channel; "asked" and "lost" were closed under their opener
  shows,        \* the session a channel was opened for
  stage,        \* the await a launch is at
  proc,         \* the child
  running,      \* the sessions that can be attached
  mapped,       \* liveWindows is not empty
  alive, stopping, closeAsked, out,
  graceTimer,   \* set, and has not fired
  asks,         \* 2 s timers that have not fired: escalate
  kills,        \* 6 s timers that have not fired: SIGKILL
  killTimer,    \* what the variable holds: the last of those
  \* what the properties look back on
  told,         \* the application has been sent a close
  expired       \* the grace period has run out

seatVars   == <<chan, shows, running, out, graceTimer>>
stopVars   == <<alive, stopping, asks, kills, killTimer>>
politeVars == <<closeAsked, told>>
vars == <<windowGrace, stage, seatVars, stopVars, politeVars,
          proc, mapped, expired>>

TypeOK ==
  /\ windowGrace \in {"zero", "finite", "forever"}
  /\ chan \in [Chans -> {"none", "waiting", "asked", "lost", "live"}]
  /\ shows \in [Chans -> Sessions \cup {None}]
  /\ stage \in [Sessions -> {"none", "gate", "proxy", "up", "failed"}]
  /\ proc \in [Sessions -> {"none", "running", "killed", "exited"}]
  /\ running \subseteq Sessions
  /\ mapped \in [Sessions -> BOOLEAN] /\ alive \in [Sessions -> BOOLEAN]
  /\ stopping \in [Sessions -> BOOLEAN] /\ closeAsked \in [Sessions -> BOOLEAN]
  /\ out \in [Sessions -> Chans \cup {None}]
  /\ graceTimer \in [Sessions -> BOOLEAN]
  /\ asks \in [Sessions -> 0..MaxTimers] /\ kills \in [Sessions -> 0..MaxTimers]
  /\ killTimer \in [Sessions -> {"none", "ask", "kill"}]
  /\ told \in [Sessions -> BOOLEAN]
  /\ expired \in [Sessions -> BOOLEAN]

Nowhere == [w \in Sessions |-> FALSE]

Init ==
  /\ windowGrace \in {"zero", "finite", "forever"}
  /\ chan = [c \in Chans |-> "none"] /\ shows = [c \in Chans |-> None]
  /\ stage = [w \in Sessions |-> "none"]
  /\ proc = [w \in Sessions |-> "none"] /\ running = {}
  /\ mapped = Nowhere /\ alive = Nowhere /\ stopping = Nowhere /\ closeAsked = Nowhere
  /\ out = [w \in Sessions |-> None] /\ graceTimer = Nowhere
  /\ asks = [w \in Sessions |-> 0] /\ kills = [w \in Sessions |-> 0]
  /\ killTimer = [w \in Sessions |-> "none"]
  /\ told = Nowhere /\ expired = Nowhere

\* The child has been spawned and its exit has not been handled.
Up(w) == proc[w] \in {"running", "killed"}

-----------------------------------------------------------------------------
(* Stopping.                                                               *)

\* Mutant of KillLater: nothing stands behind the compositor's own teardown.
KillNever(w) == UNCHANGED <<kills, killTimer>>

\* The backstop: SIGKILL for the group, six seconds on. Nobody reads killTimer
\* after the exit.
KillLater(w) ==
  /\ kills' = [kills EXCEPT ![w] = @ + 1]
  /\ killTimer' = [killTimer EXCEPT ![w] = IF proc[w] = "exited" THEN "none" ELSE "kill"]

\* escalate(): the frame channel is closed, whether it still stands or not.
Escalate(w) ==
  /\ alive' = [alive EXCEPT ![w] = FALSE]
  /\ KillLater(w)

\* Mutant of AskFirst: straight to the display.
NeverAskFirst(w) == FALSE

AskFirst(w) == mapped[w] /\ ~closeAsked[w]

\* stop(): asked if there is a window to ask and nobody has, else escalated.
Stop(w) ==
  IF ~alive[w] THEN UNCHANGED <<stopVars, told>>
  ELSE
    /\ asks[w] + kills[w] < MaxTimers
    /\ stopping' = [stopping EXCEPT ![w] = TRUE]
    /\ \/ /\ AskFirst(w)
          /\ told' = [told EXCEPT ![w] = TRUE]
          /\ asks' = [asks EXCEPT ![w] = @ + 1]
          /\ killTimer' = [killTimer EXCEPT ![w] = "ask"]
          /\ UNCHANGED <<alive, kills>>
       \/ /\ ~AskFirst(w)
          /\ Escalate(w)
          /\ UNCHANGED <<told, asks>>

\* The ask has gone unanswered for two seconds.
AskFires(w) ==
  /\ asks[w] > 0
  /\ asks' = [asks EXCEPT ![w] = @ - 1]
  /\ Escalate(w)
  /\ UNCHANGED <<windowGrace, stage, seatVars, stopping, politeVars,
                 proc, mapped, expired>>

\* process.kill of the group; a group that is gone is no error.
KillFires(w) ==
  /\ kills[w] > 0
  /\ kills' = [kills EXCEPT ![w] = @ - 1]
  /\ proc' = [proc EXCEPT ![w] = IF @ = "running" THEN "killed" ELSE @]
  /\ UNCHANGED <<windowGrace, stage, seatVars, alive, stopping, asks,
                 killTimer, politeVars, mapped, expired>>

\* The grace period is over.
GraceFires(w) ==
  /\ graceTimer[w]
  /\ graceTimer' = [graceTimer EXCEPT ![w] = FALSE]
  /\ expired' = [expired EXCEPT ![w] = TRUE]
  /\ Stop(w)
  /\ UNCHANGED <<windowGrace, stage, chan, shows, running, out,
                 closeAsked, proc, mapped>>

\* Mutant of CloseSeat: the window stays open on nothing.
LeaveSeat(w) == UNCHANGED <<chan, shows>>

\* The channel is closed, and its window with it.
Close(c) ==
  /\ chan' = [chan EXCEPT ![c] = "none"]
  /\ shows' = [shows EXCEPT ![c] = None]

\* target?.close().
CloseSeat(w) == IF out[w] = None THEN UNCHANGED <<chan, shows>> ELSE Close(out[w])

\* finish(): the session is over for whoever watches it.
Finish(w) ==
  /\ running' = running \ {w}
  /\ graceTimer' = [graceTimer EXCEPT ![w] = FALSE]
  /\ CloseSeat(w)
  /\ out' = [out EXCEPT ![w] = None]

\* The last timer is a kill that is still to come.
KillPending(w) == killTimer[w] = "kill" /\ kills[w] > 0

\* The child's `exit`. Of the timers only the last one set is cleared. What
\* nobody reads of a session that has exited is forgotten.
Exits(w) ==
  /\ Up(w)
  /\ proc' = [proc EXCEPT ![w] = "exited"]
  /\ alive' = [alive EXCEPT ![w] = FALSE]
  /\ asks' = [asks EXCEPT ![w] = IF killTimer[w] = "ask" THEN @ - 1 ELSE @]
  /\ kills' = [kills EXCEPT ![w] = IF KillPending(w) THEN @ - 1 ELSE @]
  /\ killTimer' = [killTimer EXCEPT ![w] = "none"]
  /\ Finish(w)
  /\ mapped' = [mapped EXCEPT ![w] = FALSE]
  /\ closeAsked' = [closeAsked EXCEPT ![w] = FALSE]
  /\ told' = [told EXCEPT ![w] = FALSE]
  /\ expired' = [expired EXCEPT ![w] = FALSE]
  /\ UNCHANGED <<windowGrace, stage, stopping>>

\* A frame channel that sends nonsense; every further chunk does it again.
Malformed(w) ==
  /\ proc[w] = "running" /\ alive[w]
  /\ Finish(w) /\ Stop(w)
  /\ UNCHANGED <<windowGrace, stage, closeAsked, proc, mapped, expired>>

-----------------------------------------------------------------------------
(* Windows.                                                                *)

\* A session with nobody to watch it waits on the clock, or for good.
WaitsOnTimer == windowGrace = "finite"

\* onClose(lost) of channel c. A displaced window has no say; a lost one
\* leaves the session for another; a closed one ends it.
OnClose(c, lost) ==
  LET w == shows[c] IN
  /\ Close(c)
  /\ IF out[w] # c THEN UNCHANGED <<out, graceTimer, stopVars, told>>
     ELSE
       /\ out' = [out EXCEPT ![w] = None]
       /\ IF alive[w] /\ lost /\ windowGrace # "zero"
            THEN /\ graceTimer' = [graceTimer EXCEPT ![w] = WaitsOnTimer]
                 /\ UNCHANGED <<stopVars, told>>
            ELSE Stop(w) /\ UNCHANGED graceTimer
  /\ UNCHANGED running

\* The browser closes the window: a live one, or one whose launch still waits.
WindowCloses(c) ==
  /\ \/ chan[c] = "live" /\ OnClose(c, FALSE)
     \/ /\ chan[c] = "waiting"
        /\ chan' = [chan EXCEPT ![c] = "asked"]
        /\ UNCHANGED <<shows, running, out, graceTimer, stopVars, told>>
  /\ UNCHANGED <<windowGrace, stage, closeAsked, proc, mapped, expired>>

\* Its connection drops; a launch that waits will be told so when it returns.
ConnectionDrops(c) ==
  /\ \/ chan[c] = "live" /\ OnClose(c, TRUE)
     \/ /\ chan[c] \in {"waiting", "asked"}
        /\ chan' = [chan EXCEPT ![c] = "lost"]
        /\ UNCHANGED <<shows, running, out, graceTimer, stopVars, told>>
  /\ UNCHANGED <<windowGrace, stage, closeAsked, proc, mapped, expired>>

\* The client's own polite ask.
CloseWindow(c) ==
  LET w == shows[c] IN
  /\ chan[c] = "live" /\ alive[w] /\ ~closeAsked[w]
  /\ closeAsked' = [closeAsked EXCEPT ![w] = TRUE]
  /\ told' = [told EXCEPT ![w] = TRUE]
  /\ UNCHANGED <<windowGrace, stage, seatVars, stopVars, proc, mapped, expired>>

\* MSG_WINDOW, and MSG_CLOSED or MSG_HIDDEN of the last window.
MapsOrUnmaps(w) ==
  /\ proc[w] = "running" /\ alive[w]
  /\ mapped' = [mapped EXCEPT ![w] = ~@]
  /\ UNCHANGED <<windowGrace, stage, seatVars, stopVars, politeVars, proc, expired>>

\* Mutant of ClaimTimer: the clock runs on under the new window.
LeaveTimer(w) == UNCHANGED graceTimer

ClaimTimer(w) == graceTimer' = [graceTimer EXCEPT ![w] = FALSE]

\* The newest window wins. A stop that is under way is not called off. An
\* attach that is refused (ENOSESSION) changes nothing here.
Attach(w, c) ==
  /\ chan[c] = "none"
  /\ w \in running /\ alive[w]
  /\ chan' = [d \in Chans |->
       IF d = c THEN "live" ELSE IF d = out[w] THEN "none" ELSE chan[d]]
  /\ shows' = [d \in Chans |->
       IF d = c THEN w ELSE IF d = out[w] THEN None ELSE shows[d]]
  /\ ClaimTimer(w)
  /\ out' = [out EXCEPT ![w] = c]
  /\ UNCHANGED <<windowGrace, stage, running, stopVars, politeVars,
                 proc, mapped, expired>>

-----------------------------------------------------------------------------
(* Launching.                                                              *)

\* liveApps: the instances a new launch has to wait for.
LiveApps == {w \in Sessions : Up(w)}

\* spawn(), and the onClose of a channel that was closed while it waited.
\* Nothing is mapped yet, so a stop takes the display away at once.
Spawned(w, c, how) ==
  LET left == how = "lost" /\ windowGrace # "zero"
      over == how # "waiting" /\ ~left IN
  /\ stage' = [stage EXCEPT ![w] = "up"]
  /\ proc' = [proc EXCEPT ![w] = "running"]
  /\ running' = running \cup {w}
  /\ IF how = "waiting"
       THEN chan' = [chan EXCEPT ![c] = "live"] /\ shows' = [shows EXCEPT ![c] = w]
       ELSE Close(c)
  /\ out' = [out EXCEPT ![w] = IF how = "waiting" THEN c ELSE None]
  /\ graceTimer' = [graceTimer EXCEPT ![w] = left /\ WaitsOnTimer]
  /\ stopping' = [stopping EXCEPT ![w] = over]
  /\ IF over
       THEN Escalate(w)
       ELSE alive' = [alive EXCEPT ![w] = TRUE] /\ UNCHANGED <<kills, killTimer>>
  /\ UNCHANGED asks

\* The opener throws, or the child never starts.
SpawnFails(w, c) ==
  /\ stage' = [stage EXCEPT ![w] = "failed"]
  /\ Close(c)
  /\ UNCHANGED <<running, out, graceTimer, stopVars, proc>>

\* The channel of a launch that is at an await.
Awaits(w, c, how) ==
  /\ chan' = [chan EXCEPT ![c] = how]
  /\ shows' = [shows EXCEPT ![c] = w]

\* What follows the wait for twins: the launch of a snap awaits its proxy.
PastTheGate(w, c, how) ==
  \/ Spawned(w, c, how) \/ SpawnFails(w, c)
  \/ /\ stage' = [stage EXCEPT ![w] = "proxy"]
     /\ Awaits(w, c, how)
     /\ UNCHANGED <<running, out, graceTimer, stopVars, proc>>

\* The `session` channel is opened; with no twin up it does not wait.
Launch(w, c) ==
  /\ stage[w] = "none" /\ chan[c] = "none"
  /\ \/ LiveApps = {} /\ PastTheGate(w, c, "waiting")
     \/ /\ LiveApps # {}
        /\ stage' = [stage EXCEPT ![w] = "gate"]
        /\ Awaits(w, c, "waiting")
        /\ UNCHANGED <<running, out, graceTimer, stopVars, proc>>
  /\ UNCHANGED <<windowGrace, politeVars, mapped, expired>>

\* Mutant of WaitIsOver: a launch waits its twins out, however long they run.
TwinsAreGone == LiveApps = {}

\* Every twin has exited, or five seconds have passed, which may be at once.
WaitIsOver == TRUE

GateOpens(w, c) ==
  /\ stage[w] = "gate" /\ shows[c] = w
  /\ WaitIsOver
  /\ PastTheGate(w, c, chan[c])
  /\ UNCHANGED <<windowGrace, politeVars, mapped, expired>>

\* BusProxy.open() came back, with a proxy or an error that is only logged.
ProxyOpens(w, c) ==
  /\ stage[w] = "proxy" /\ shows[c] = w
  /\ Spawned(w, c, chan[c]) \/ SpawnFails(w, c)
  /\ UNCHANGED <<windowGrace, politeVars, mapped, expired>>

Next ==
  \/ \E w \in Sessions, c \in Chans :
       \/ Launch(w, c) \/ GateOpens(w, c) \/ ProxyOpens(w, c)
       \/ Attach(w, c)
  \/ \E c \in Chans : WindowCloses(c) \/ ConnectionDrops(c) \/ CloseWindow(c)
  \/ \E w \in Sessions :
       \/ MapsOrUnmaps(w) \/ Malformed(w) \/ Exits(w)
       \/ AskFires(w) \/ KillFires(w) \/ GraceFires(w)

Spec == Init /\ [][Next]_vars

\* The child's exit after SIGKILL.
Reaped(w) == proc[w] = "killed" /\ Exits(w)

\* A launch gets past its awaits: the cap of five seconds is a timer, and the
\* machine's bus, which the proxy of a snap asks, answers or hangs up.
Proceeds(w) == \E c \in Chans : GateOpens(w, c) \/ ProxyOpens(w, c)

\* Timers fire, launches proceed and a killed process dies. No application
\* exits, and no user comes back, because it ought to.
Fairness ==
  \A w \in Sessions :
    /\ WF_vars(AskFires(w)) /\ WF_vars(KillFires(w))
    /\ WF_vars(GraceFires(w)) /\ WF_vars(Reaped(w))
    /\ WF_vars(Proceeds(w))

FairSpec == Spec /\ Fairness

-----------------------------------------------------------------------------
\* A live window and the session it was opened for belong to each other: the
\* session can be attached, speaks to that window and to no other. A window
\* that was displaced, or whose session is over, has been closed.
WindowsAndSessionsAgree ==
  \A c \in Chans : chan[c] = "live" <=>
    \E w \in running : shows[c] = w /\ out[w] = c

\* An application nobody watches is on its way out, or can still be attached
\* with its grace period running or unlimited; the clock runs for no other.
\* Otherwise it would run on unseen, or be stopped under its user's hands.
NobodyForgotten ==
  \A w \in Sessions :
    /\ Up(w) /\ out[w] = None =>
         \/ stopping[w]
         \/ w \in running /\ alive[w] /\ (graceTimer[w] \/ windowGrace = "forever")
    /\ graceTimer[w] => Up(w) /\ out[w] = None

\* An application that has a window loses its display only once it has been
\* sent a close: "Ask before anything".
AskedBeforeTheDisplayGoes ==
  [][\A w \in Sessions :
       alive[w] /\ ~alive'[w] /\ Up(w)' /\ mapped[w] => told[w]]_vars

\* A session that is being stopped exits, whatever its application and its
\* compositor make of it, and whoever attaches to it meanwhile.
StopEndsInExit == \A w \in Sessions : stopping[w] ~> proc[w] = "exited"

\* A launch that has lost its window while it waited, for an instance that may
\* run for ever or for the proxy of a snap, comes to an end: it fails, what it
\* started exits, or another window takes that over. With a grace period that
\* never ends it may run on.
Orphaned(w) ==
  /\ stage[w] \in {"gate", "proxy"} /\ windowGrace # "forever"
  /\ \E c \in Chans : shows[c] = w /\ chan[c] \in {"asked", "lost"}

OrphansEnd ==
  \A w \in Sessions :
    Orphaned(w) ~> stage[w] = "failed" \/ proc[w] = "exited" \/ out[w] # None

\* "Refused once the application has exited or the grace period has run out"
\* (wayland.ts on attach): a session whose grace period is over has no window.
\* The two seconds of the polite ask let one in.
RefusedOnceExpired == \A w \in Sessions : expired[w] => out[w] = None

\* "The group SIGKILL here is the backstop for a compositor that has itself
\* stopped listening": once it has exited none is pending. A second stop
\* overwrites the only handle on the timer of the first.
KillHasATarget == \A w \in Sessions : proc[w] = "exited" => kills[w] = 0
=============================================================================
