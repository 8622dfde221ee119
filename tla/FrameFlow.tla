----------------------------- MODULE FrameFlow -----------------------------
(***************************************************************************)
(* The picture of one surface, from the application that draws it to the   *)
(* page that shows it: the compositor's kept copy and its pacing           *)
(* (compositor/src/wdcomp.c), the relay in the node server                 *)
(* (server/src/services/wayland.ts) and the chain in which the page        *)
(* inflates and draws frames (client/src/apps/wayland/index.ts).           *)
(*                                                                         *)
(* A picture is a row of cells, each holding the number of the commit that *)
(* drew it; a rectangle is an interval of cells. Buffers, formats and      *)
(* compression are left out, and so is the scale, which no size here       *)
(* depends on. The two pipes between compositor and node survive a dropped *)
(* connection; what is on the connection does not. Timers fire at any time.*)
(***************************************************************************)
EXTENDS Naturals, Sequences, FiniteSets

CONSTANTS
  Widths,       \* sizes the application may draw at
  MaxCommits,   \* bound: commits of the application
  MaxDrops,     \* bound: connections lost
  MaxInPipe     \* bound: messages in the compositor's pipe when a timer or a hide adds one

ASSUME FrameFlowAssumption ==
  /\ Widths \subseteq Nat \ {0}
  /\ MaxCommits \in Nat /\ MaxDrops \in Nat /\ MaxInPipe \in Nat

VARIABLES
  drawn,        \* the application's own picture; <<>> while it shows none
  commits,      \* how often it has committed
  waiting,      \* it has a frame callback it waits for
  redrawn,      \* it has drawn all of its window since it last changed the size of it
  canvas,       \* the kept copy; <<>> when there is none
  sentWidth,    \* width of the last frame sent
  awaitingAck, inFlight,
  pending,      \* cells drawn and not sent: an interval, or None
  announced,
  pipe,         \* compositor to node
  back,         \* node to compositor
  link,         \* the connection: "down", "opening" (attach not seen yet), "up"
  wire,         \* node to page
  acks,         \* acknowledgements, page to node
  known,        \* the page has the surface
  shown,        \* its canvas
  applying,     \* frames in the page's chain
  drops,        \* connections lost so far
  excused       \* resyncs and frames given up on: each may put one more frame on its way

appVars  == <<drawn, commits, waiting, redrawn>>
compVars == <<canvas, sentWidth, awaitingAck, inFlight, pending, announced>>
pageVars == <<known, shown, applying>>
netVars  == <<pipe, back, wire, acks>>
vars == <<appVars, compVars, pageVars, netVars, link, drops, excused>>

None == <<0, 0>>
Blank == 0
Whole(p) == <<1, Len(p)>>
Blanked(n) == [i \in 1..n |-> Blank]

Frame(d, p) == [kind |-> "frame", d |-> d, cells |-> p]
Note(k) == [kind |-> k, d |-> None, cells |-> <<>>]

\* The cells of d in p come from q.
Landed(p, d, q) == [i \in 1..Len(p) |-> IF i \in d[1]..d[2] THEN q[i] ELSE p[i]]

Lower(a, b) == IF a < b THEN a ELSE b
Upper(a, b) == IF a < b THEN b ELSE a
Union(d, e) == <<Lower(d[1], e[1]), Upper(d[2], e[2])>>

Interval == Nat \X Nat
Picture == Seq(Nat)
Message == [kind : {"frame", "window", "hidden", "opened"}, d : Interval, cells : Picture]

TypeOK ==
  /\ drawn \in Picture /\ canvas \in Picture /\ shown \in Picture
  /\ commits \in 0..MaxCommits /\ sentWidth \in Widths \cup {0}
  /\ waiting \in BOOLEAN /\ awaitingAck \in BOOLEAN /\ inFlight \in BOOLEAN
  /\ announced \in BOOLEAN /\ known \in BOOLEAN /\ redrawn \in BOOLEAN
  /\ pending \in Interval
  /\ pipe \in Seq(Message) /\ wire \in Seq(Message) /\ applying \in Seq(Message)
  /\ back \in Seq({"ack", "resync"}) /\ acks \in Nat
  /\ link \in {"down", "opening", "up"} /\ drops \in 0..MaxDrops /\ excused \in Nat

Init ==
  /\ drawn = <<>> /\ commits = 0 /\ waiting = FALSE /\ redrawn = TRUE
  /\ canvas = <<>> /\ sentWidth = 0 /\ awaitingAck = FALSE /\ inFlight = FALSE
  /\ pending = None /\ announced = FALSE
  /\ pipe = <<>> /\ back = <<>> /\ wire = <<>> /\ acks = 0
  /\ link = "up" /\ known = FALSE /\ shown = <<>> /\ applying = <<>>
  /\ drops = 0 /\ excused = 0

-----------------------------------------------------------------------------
(* Sending. `said` is what the step has already put in the pipe.           *)

\* What emit_canvas_rect makes of a rectangle that may date from before a resize.
Clamped(p, d) == <<Upper(d[1], 1), Lower(d[2], Len(p))>>
Sendable(p, d) == p # <<>> /\ Clamped(p, d)[1] <= Clamped(p, d)[2]

\* send_frame.
Emit(p, d, said) ==
  /\ pipe' = Append(said, Frame(Clamped(p, d), p))
  /\ sentWidth' = Len(p)
  /\ awaitingAck' = TRUE /\ inFlight' = TRUE
  /\ pending' = None

\* Mutant of Held: a frame on its way holds nothing back.
NeverHeld == FALSE

Held == inFlight

\* Mutant of Widened: what was pending is forgotten.
OnlyTheNewest(d) == d

Widened(d) == IF pending = None THEN d ELSE Union(pending, d)

\* surface_announce, ahead of the first frame.
Announced == IF announced THEN pipe ELSE Append(pipe, Note("window"))

\* damage_bounds: all of it if nothing was damaged or the size is not the one
\* last sent.
DamageBounds(w, damage) ==
  IF sentWidth # w \/ damage = None THEN <<1, w>> ELSE damage

\* canvas_update: a canvas of another size starts out blank.
CanvasUpdate(w, d, p) ==
  Landed(IF Len(canvas) = w THEN canvas ELSE Blanked(w), d, p)

-----------------------------------------------------------------------------
(* The application.                                                        *)

\* What it may say it drew: nothing, which stands for all, or an interval; in a
\* window that has grown, one with the new cells in it.
Damages(w) ==
  {None} \cup {d \in (1..w) \X (1..w) :
    d[1] <= d[2] /\ (w > Len(drawn) => d[1] <= Len(drawn) + 1 /\ d[2] = w)}

\* Its picture after a commit numbered n.
Drawing(w, damage, n) ==
  [i \in 1..w |-> IF damage # None /\ i \notin damage[1]..damage[2] THEN drawn[i] ELSE n]

\* A commit with a buffer, which asks for a frame callback; the application may
\* or may not wait for the one before. Callbacks wait for the acknowledgement of
\* the last frame, if there is one to wait for.
Commit(w, damage) ==
  LET p == Drawing(w, damage, commits + 1)
      d == DamageBounds(w, damage)
      after == CanvasUpdate(w, d, p)
  IN /\ commits < MaxCommits
     /\ commits' = commits + 1 /\ drawn' = p
     /\ redrawn' = (damage \in {None, <<1, w>>} \/ (redrawn /\ w = Len(drawn)))
     /\ canvas' = after /\ announced' = TRUE
     /\ IF Held
        THEN /\ pending' = Widened(d)
             /\ pipe' = Announced
             /\ UNCHANGED <<sentWidth, awaitingAck, inFlight>>
        ELSE Emit(after, d, Announced)
     /\ waiting' = awaitingAck'
     /\ UNCHANGED <<pageVars, back, wire, acks, link, drops, excused>>

\* A commit without a buffer takes the window off the screen.
Hide ==
  /\ announced /\ Len(pipe) < MaxInPipe
  /\ drawn' = <<>> /\ canvas' = <<>> /\ sentWidth' = 0 /\ pending' = None
  /\ announced' = FALSE
  /\ pipe' = Append(pipe, Note("hidden"))
  /\ waiting' = (waiting /\ awaitingAck)
  /\ UNCHANGED <<commits, redrawn, awaitingAck, inFlight, pageVars, back, wire, acks,
                 link, drops, excused>>

-----------------------------------------------------------------------------
(* The compositor's other steps.                                           *)

\* surface_acknowledged: the callbacks go, and then what was pending.
Acknowledged ==
  /\ waiting' = FALSE
  /\ IF pending # None /\ Sendable(canvas, pending)
     THEN Emit(canvas, pending, pipe)
     ELSE /\ inFlight' = FALSE /\ awaitingAck' = FALSE
          /\ UNCHANGED <<pipe, sentWidth, pending>>
  /\ UNCHANGED <<canvas, announced>>

\* IPC_RESYNC: announced again and drawn whole, whatever is on its way.
Resync ==
  /\ IF announced
     THEN Emit(canvas, Whole(canvas), Append(pipe, Note("window")))
     ELSE UNCHANGED <<pipe, sentWidth, awaitingAck, inFlight, pending>>
  /\ UNCHANGED <<canvas, announced, waiting>>

CompositorReads ==
  /\ back # <<>>
  /\ back' = Tail(back)
  /\ IF Head(back) = "ack"
     THEN Acknowledged /\ UNCHANGED excused
     ELSE Resync /\ excused' = excused + 1
  /\ UNCHANGED <<drawn, commits, redrawn, pageVars, wire, acks, link, drops>>

\* Mutant of StaleAt: nobody gives up waiting.
NeverStale == FALSE

StaleAt == awaitingAck

\* surface_check_stale at two seconds: the application may draw again.
ReleasesStale ==
  /\ StaleAt
  /\ waiting' = FALSE /\ awaitingAck' = FALSE
  /\ UNCHANGED <<drawn, commits, redrawn, canvas, sentWidth, inFlight, pending, announced,
                 pageVars, netVars, link, drops, excused>>

\* surface_check_stale at thirty: the frame is given up on.
GivesUp ==
  /\ inFlight /\ Len(pipe) < MaxInPipe /\ excused < MaxDrops
  /\ Acknowledged
  /\ excused' = excused + 1
  /\ UNCHANGED <<drawn, commits, redrawn, pageVars, back, wire, acks, link, drops>>

-----------------------------------------------------------------------------
(* The node server.                                                        *)

\* What the compositor says goes to the window there is, or nowhere.
NodeRelays ==
  /\ pipe # <<>>
  /\ pipe' = Tail(pipe)
  /\ wire' = IF link = "down" THEN wire ELSE Append(wire, Head(pipe))
  /\ UNCHANGED <<appVars, compVars, pageVars, back, acks, link, drops, excused>>

NodeRelaysAck ==
  /\ acks > 0
  /\ acks' = acks - 1
  /\ back' = Append(back, "ack")
  /\ UNCHANGED <<appVars, compVars, pageVars, pipe, wire, link, drops, excused>>

\* attach: the window has the session, and the compositor is asked for all of
\* it. The page hears "opened" ahead of whatever follows.
Attach ==
  /\ link = "down"
  /\ link' = "opening"
  /\ wire' = <<Note("opened")>>
  /\ back' = Append(back, "resync")
  /\ UNCHANGED <<appVars, compVars, pageVars, pipe, acks, drops, excused>>

Drop ==
  /\ link # "down" /\ drops < MaxDrops
  /\ drops' = drops + 1
  /\ link' = "down" /\ wire' = <<>> /\ acks' = 0
  /\ UNCHANGED <<appVars, compVars, pageVars, pipe, back, excused>>

-----------------------------------------------------------------------------
(* The page.                                                               *)

Chained(f) == Append(applying, f)

\* handleMessage and onOpen: `opened` throws away what an earlier connection
\* left; a surface is made once, and dropped when it is hidden.
PageReads ==
  /\ wire # <<>>
  /\ wire' = Tail(wire)
  /\ LET m == Head(wire) IN
     /\ link' = IF m.kind = "opened" THEN "up" ELSE link
     /\ applying' = IF m.kind = "frame" THEN Chained(m) ELSE applying
     /\ known' = CASE m.kind = "window" -> TRUE
                   [] m.kind \in {"hidden", "opened"} -> FALSE
                   [] OTHER -> known
     /\ shown' = IF m.kind = "frame" \/ (m.kind = "window" /\ known) THEN shown ELSE <<>>
  /\ UNCHANGED <<appVars, compVars, pipe, back, acks, drops, excused>>

\* applyFrame: a canvas of another size is cleared; the frame is acknowledged
\* on whatever channel there is, whether it could be drawn or not.
PageApplies ==
  /\ applying # <<>>
  /\ applying' = Tail(applying)
  /\ LET f == Head(applying)
         under == IF Len(shown) = Len(f.cells) THEN shown ELSE Blanked(Len(f.cells))
     IN shown' = IF known THEN Landed(under, f.d, f.cells) ELSE shown
  /\ acks' = IF link = "down" THEN acks ELSE acks + 1
  /\ UNCHANGED <<appVars, compVars, pipe, back, wire, link, known, drops, excused>>

Next ==
  \/ \E w \in Widths : \E damage \in Damages(w) : Commit(w, damage)
  \/ Hide \/ CompositorReads \/ ReleasesStale \/ GivesUp
  \/ NodeRelays \/ NodeRelaysAck \/ Attach \/ Drop
  \/ PageReads \/ PageApplies

Spec == Init /\ [][Next]_vars

\* The loops of the three programs run; the window of a dropped connection may
\* never come back, and the application draws when it likes.
FairSpec ==
  Spec /\ WF_vars(CompositorReads) /\ WF_vars(ReleasesStale) /\ WF_vars(NodeRelays)
       /\ WF_vars(NodeRelaysAck) /\ WF_vars(PageReads) /\ WF_vars(PageApplies)

-----------------------------------------------------------------------------
(* Properties.                                                             *)

Quiet == link = "up" /\ pipe = <<>> /\ back = <<>> /\ wire = <<>> /\ applying = <<>> /\ acks = 0

\* Once every message has been read, the page shows what the compositor has kept, or nothing
\* if the window is hidden: damage that was held, clamped and merged behind a frame on its way,
\* resizes meanwhile, resyncs, stale acknowledgements and frames given up on lose nothing for
\* good. And that is the application's last picture, if it has drawn all of it since its size
\* last changed: of one that came back to the size of the frame on its way and damaged
\* only a part, the kept copy has been cleared in between (wdcomp.c 636-641 and 656).
PictureCatchesUp ==
  Quiet /\ ~inFlight =>
    IF drawn = <<>> THEN ~known
    ELSE known /\ shown = canvas /\ (redrawn => shown = drawn)

\* One frame of the surface is on its way at a time, but for those a resync or
\* a frame given up on lets out (wdcomp.c, frame_in_flight). An acknowledgement
\* of an earlier connection that reaches the compositor after a resync lets out
\* no more than that.
FramesIn(s) == {i \in DOMAIN s : s[i].kind = "frame"}
FramesOut(s) == Cardinality(FramesIn(s))
AcksIn(s) == {i \in DOMAIN s : s[i] = "ack"}
AcksBack == acks + Cardinality(AcksIn(back))
OneFrameOut ==
  FramesOut(pipe) + FramesOut(wire) + Len(applying) + AcksBack <= 1 + excused

\* An application that waits for its frame callback gets it, whatever becomes
\* of the page (wdcomp.c 3797-3801).
NeverFrozen == waiting ~> ~waiting
=============================================================================
