--------------------------- MODULE PtyTerminals ---------------------------
(***************************************************************************)
(* The shells of a server and the windows that draw them                   *)
(* (server/src/services/pty.ts). A shell outlives the channel that shows   *)
(* it: when the socket drops it waits, for the grace period or for good,   *)
(* and a window anywhere may pick it up, taking it from the one that had   *)
(* it. A window that is closed takes its shell with it.                    *)
(*                                                                         *)
(* A channel is a pair of a session and an id. The openers here are        *)
(* synchronous, so Session.handleOpen() carries on in a microtask, and     *)
(* only messages read from the same socket in the same chunk come between; *)
(* timers, exits and drops wait (Quiet). A hung up child gets SIGHUP and   *)
(* may take its time or ignore it. What the shell prints is TerminalReplay.*)
(***************************************************************************)
EXTENDS Naturals

CONSTANTS Terms, Sessions, Ids, None

Chans == Sessions \X Ids

ASSUME PtyAssumption == None \notin Chans /\ None \notin Sessions /\ None \notin Terms

VARIABLES
  terminalGrace,  \* Config.terminalGrace: zero, some seconds, or Infinity
  gone,           \* sessions that were disposed of
  chan,           \* the entry of Session.channels
  term,           \* the shell a channel was opened for
  proc,           \* the child, as the OS has it; in `terminals` while "running"
  alive,          \* Term.alive
  ctx,            \* Term.ctx
  owner,          \* Term.owner
  grace,          \* Term.grace is set and has not fired
  keep            \* Term.keep

chanVars == <<gone, chan, term>>
termVars == <<proc, alive, ctx, owner, grace, keep>>
vars == <<terminalGrace, chanVars, termVars>>

TypeOK ==
  /\ terminalGrace \in {"zero", "finite", "forever"}
  /\ gone \subseteq Sessions
  /\ chan \in [Chans -> {"none", "placeholder", "overtaken", "live", "closed"}]
  /\ term \in [Chans -> Terms \cup {None}]
  /\ proc \in [Terms -> {"unborn", "running", "exited"}]
  /\ alive \in [Terms -> BOOLEAN]
  /\ ctx \in [Terms -> Chans \cup {None}]
  /\ owner \in [Terms -> Sessions \cup {None}]
  /\ grace \in [Terms -> BOOLEAN]
  /\ keep \in [Terms -> BOOLEAN]

Init ==
  /\ terminalGrace \in {"zero", "finite", "forever"}
  /\ gone = {}
  /\ chan = [c \in Chans |-> "none"]
  /\ term = [c \in Chans |-> None]
  /\ proc = [t \in Terms |-> "unborn"]
  /\ alive = [t \in Terms |-> FALSE]
  /\ ctx = [t \in Terms |-> None]
  /\ owner = [t \in Terms |-> None]
  /\ grace = [t \in Terms |-> FALSE]
  /\ keep = [t \in Terms |-> FALSE]

-----------------------------------------------------------------------------
Resuming == {c \in Chans : chan[c] \in {"placeholder", "overtaken"}}

\* No opener waits for its microtask.
Quiet == Resuming = {}

\* A message of session s may be handled: its socket is up, and openers still
\* to resume are its own.
Reads(s) == s \notin gone /\ \A c \in Resuming : c[1] = s

\* closeChannel() on an entry: a placeholder has no onClose to run, and one
\* that was closed already is no longer in the table.
Closed(state) == IF state = "live" THEN "closed" ELSE "overtaken"

\* The shell is left running: its connection was lost and it may wait.
Spared(t, lost) == lost /\ (keep[t] \/ terminalGrace # "zero")

\* Mutant of WaitsOnTimer: an unmarked shell waits for good.
NeverOnTimer(t) == FALSE

\* A shell that waits is hung up after the grace period.
WaitsOnTimer(t) == ~keep[t] /\ terminalGrace = "finite"

\* The shells the channels C hold. The others were claimed by a newer window
\* and are left alone.
Held(C) == {t \in Terms : ctx[t] \in C}

Disown(H) == owner' = [t \in Terms |-> IF t \in H THEN None ELSE owner[t]]

\* onClose(lost) of the channels C, hangUp() included.
OnClose(C, lost) ==
  LET H == {t \in Held(C) : alive[t]} IN
  /\ ctx' = [t \in Terms |-> IF t \in Held(C) THEN None ELSE ctx[t]]
  /\ Disown(Held(C))
  /\ alive' = [t \in Terms |-> alive[t] /\ (t \in H => Spared(t, lost))]
  /\ grace' = [t \in Terms |-> grace[t] \/ (t \in H /\ Spared(t, lost) /\ WaitsOnTimer(t))]
  /\ UNCHANGED <<proc, keep>>

-----------------------------------------------------------------------------
\* Mutant of ClaimTimer: the grace period keeps running.
LeaveTimer(t) == UNCHANGED grace

\* attach() stops the grace period.
ClaimTimer(t) == grace' = [grace EXCEPT ![t] = FALSE]

\* Mutant of Displace: the window that had the shell is not told.
DisplaceQuietly(t, c) == chan' = [chan EXCEPT ![c] = "placeholder"]

\* attach() closes the channel that had the shell; c is reserved.
Displace(t, c) ==
  chan' = [d \in Chans |->
             IF d = c THEN "placeholder"
             ELSE IF d = ctx[t] THEN Closed(chan[d])
             ELSE chan[d]]

\* ctx.sessionId.
OwnerOf(c) == c[1]

\* attach(): the newest window wins. The channel it displaces finds that it
\* no longer holds the shell.
Claim(t, c) ==
  /\ Displace(t, c)
  /\ term' = [term EXCEPT ![c] = t]
  /\ ClaimTimer(t)
  /\ ctx' = [ctx EXCEPT ![t] = c]
  /\ owner' = [owner EXCEPT ![t] = OwnerOf(c)]
  /\ UNCHANGED <<terminalGrace, gone>>

\* The `spawn` channel.
Spawn(t, c) ==
  /\ Reads(c[1]) /\ chan[c] = "none"
  /\ proc[t] = "unborn"
  /\ proc' = [proc EXCEPT ![t] = "running"]
  /\ alive' = [alive EXCEPT ![t] = TRUE]
  /\ Claim(t, c)
  /\ UNCHANGED keep

\* The `attach` channel, for a shell that is running and was not hung up.
Attach(t, c) ==
  /\ Reads(c[1]) /\ chan[c] = "none"
  /\ proc[t] = "running" /\ alive[t]
  /\ Claim(t, c)
  /\ UNCHANGED <<proc, alive, keep>>

\* The `attach` channel, for any other: the opener throws.
AttachFails(t, c) ==
  /\ Reads(c[1]) /\ chan[c] = "none"
  /\ ~(proc[t] = "running" /\ alive[t])
  /\ chan' = [chan EXCEPT ![c] = "closed"]
  /\ UNCHANGED <<terminalGrace, gone, term, termVars>>

\* The microtask of handleOpen(): the channel is live, or was closed while it
\* waited and is told so now.
Resume(c) ==
  \/ /\ chan[c] = "placeholder"
     /\ chan' = [chan EXCEPT ![c] = "live"]
     /\ UNCHANGED <<terminalGrace, gone, term, termVars>>
  \/ /\ chan[c] = "overtaken"
     /\ chan' = [chan EXCEPT ![c] = "closed"]
     /\ OnClose({c}, FALSE)
     /\ UNCHANGED <<terminalGrace, gone, term>>

\* The user closed the window.
WindowCloses(c) ==
  /\ Reads(c[1])
  /\ \/ /\ chan[c] = "placeholder"
        /\ chan' = [chan EXCEPT ![c] = "overtaken"]
        /\ UNCHANGED termVars
     \/ /\ chan[c] = "live"
        /\ chan' = [chan EXCEPT ![c] = "closed"]
        /\ OnClose({c}, FALSE)
  /\ UNCHANGED <<terminalGrace, gone, term>>

\* Mutant of MayKeep: any connection that knows the id.
AnyoneMayKeep(t, s) == proc[t] = "running" /\ alive[t]

\* keep() is for the connection whose window shows the shell.
MayKeep(t, s) == proc[t] = "running" /\ alive[t] /\ owner[t] = s

\* keep().
Keep(t, s) ==
  /\ Reads(s) /\ MayKeep(t, s)
  /\ keep' = [keep EXCEPT ![t] = ~@]
  /\ UNCHANGED <<terminalGrace, chanVars, proc, alive, ctx, owner, grace>>

\* Session.dispose(): all its channels, as lost.
SessionDrops(s) ==
  /\ s \notin gone /\ Quiet
  /\ gone' = gone \cup {s}
  /\ LET C == {c \in Chans : c[1] = s /\ chan[c] = "live"} IN
     /\ chan' = [c \in Chans |-> IF c \in C THEN "closed" ELSE chan[c]]
     /\ OnClose(C, TRUE)
  /\ UNCHANGED <<terminalGrace, term>>

\* The grace period is over: hangUp().
GraceElapses(t) ==
  /\ grace[t] /\ Quiet
  /\ grace' = [grace EXCEPT ![t] = FALSE]
  /\ alive' = [alive EXCEPT ![t] = FALSE]
  /\ UNCHANGED <<terminalGrace, chanVars, proc, ctx, owner, keep>>

\* onExit(): the window that shows the shell is closed.
Exits(t) ==
  /\ proc[t] = "running" /\ Quiet
  /\ proc' = [proc EXCEPT ![t] = "exited"]
  /\ alive' = [alive EXCEPT ![t] = FALSE]
  /\ grace' = [grace EXCEPT ![t] = FALSE]
  /\ chan' = [c \in Chans |-> IF c = ctx[t] THEN "closed" ELSE chan[c]]
  /\ ctx' = [ctx EXCEPT ![t] = None]
  /\ owner' = [owner EXCEPT ![t] = None]
  /\ UNCHANGED <<terminalGrace, gone, term, keep>>

Next ==
  \/ \E t \in Terms, c \in Chans : Spawn(t, c) \/ Attach(t, c) \/ AttachFails(t, c)
  \/ \E c \in Chans : Resume(c) \/ WindowCloses(c)
  \/ \E t \in Terms, s \in Sessions : Keep(t, s)
  \/ \E s \in Sessions : SessionDrops(s)
  \/ \E t \in Terms : GraceElapses(t) \/ Exits(t)

Spec == Init /\ [][Next]_vars

\* Microtasks run and timers fire. No shell exits, and no user comes back,
\* because it ought to.
Fairness ==
  /\ \A c \in Chans : WF_vars(Resume(c))
  /\ \A t \in Terms : WF_vars(GraceElapses(t))

FairSpec == Spec /\ Fairness

-----------------------------------------------------------------------------
\* A shell without a window is waiting to be picked up with a clock running,
\* or is meant to wait for good. Otherwise it would run on unseen.
NobodyWaitsForgotten ==
  \A t \in Terms : alive[t] /\ ctx[t] = None =>
    grace[t] \/ keep[t] \/ terminalGrace = "forever"

\* The clock of a shell that is shown, or marked to be kept, is not running:
\* its end would hang the shell up under the user's hands.
NoClockUnderAWindow == \A t \in Terms : grace[t] => ctx[t] = None /\ ~keep[t]

\* A window that is up shows a living shell and is the only one that does: a
\* window that was displaced has been closed, not left drawing nothing.
LiveWindowHoldsItsShell ==
  \A c \in Chans : chan[c] \in {"placeholder", "live"} =>
    alive[term[c]] /\ ctx[term[c]] = c

\* `owner` is the connection of the window that shows the shell, so cwd() and
\* status() answer nobody else, and nobody once it waits.
OwnerHoldsTheShell ==
  \A t \in Terms : owner[t] = IF ctx[t] = None THEN None ELSE ctx[t][1]

\* "A shell whose window was closed should die, and a shell whose window
\* merely lost its socket should wait" (service.ts): ShellLife says it for
\* every way a shell can go.
life == [t \in Terms |->
  CASE proc[t] = "unborn" -> "unborn"
    [] proc[t] = "exited" -> "dead"
    [] proc[t] = "running" /\ ~alive[t] -> "hungup"
    [] proc[t] = "running" /\ alive[t] /\ ctx[t] = None -> "alone"
    [] proc[t] = "running" /\ alive[t] /\ ctx[t] # None -> "shown"]

Shells == INSTANCE ShellLife WITH kept <- keep
ImplementsShellLife == Shells!Spec

\* A shell that its window has let go is hung up, and one that waits on the
\* grace period is picked up or hung up in the end.
NobodyWaitsForEver ==
  \A t \in Terms :
    terminalGrace = "finite" /\ alive[t] /\ ctx[t] = None /\ ~keep[t]
      ~> ~alive[t] \/ ctx[t] # None
\* Clocks run exactly where they should: none is missing on a shell nobody
\* would look after, and none runs under a window (pty.ts 130-190, 395-425).
ClocksAreRight == NobodyWaitsForgotten /\ NoClockUnderAWindow
=============================================================================
