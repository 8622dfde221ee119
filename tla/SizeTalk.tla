------------------------------ MODULE SizeTalk ------------------------------
(***************************************************************************)
(* How the page, the compositor and an application agree on the size of a  *)
(* window (client/src/apps/wayland/index.ts and compositor/src/wdcomp.c).  *)
(* Each of them may change it at any time: the person resizes, maximizes,  *)
(* minimizes or zooms the window of the desktop, the application chooses   *)
(* another size, and word of it is on its way while the next change is     *)
(* made. The window follows the application until the person has sized it; *)
(* from then on the application follows the window.                        *)
(*                                                                         *)
(* One dimension. A unit is several pixels, so what is rounded, and the    *)
(* pixel that is tolerated, are left out; what the window costs on top of  *)
(* the box the application draws into is no unit at all.                   *)
(***************************************************************************)
EXTENDS Integers, SequencesExt

CONSTANTS
  Least, Area,    \* of a window of the desktop
  Default,        \* DEFAULT_WINDOW
  Sizes,          \* logical ones an application may choose
  Limits,         \* pairs of a smallest and a largest size it gives, 0 for none
  Zooms,
  Early,          \* an application may choose another before its first is answered
  Crossing,       \* a configure for an X window reaches the compositor before what the X
                  \* server tells of the one before
  MaxActs,        \* bound: what the person does
  MaxChoices      \* bound: sizes the application chooses

\* What the constants have to be; where the module is instantiated it is assumed.
SizeTalkAssumption ==
  /\ Least \in 1..Area /\ Area \in Nat /\ Default \in Least..Area
  /\ Sizes \subseteq Nat \ {0} /\ Limits \subseteq Nat \X Nat /\ Zooms \subseteq Nat \ {0} /\ 1 \in Zooms
  /\ \A z \in Zooms : z <= 2 * Least
  /\ \A l \in Limits : l[2] = 0 \/ l[1] <= l[2]
  /\ {Early, Crossing} \subseteq BOOLEAN /\ MaxActs \in Nat /\ MaxChoices \in Nat

VARIABLES
  \* the page
  winState, outer, restoreOuter, zoom,
  unclaimed,      \* the size the window was opened at, or last took from the application
  asked,          \* the logical size last asked for, 0 before there is one
  canvas,         \* the logical size of the picture it shows
  minKnown,
  scrollable,
  resizeTimer,
  \* what is on its way
  toComp, toPage,
  toApp,          \* configures, to a Wayland client
  wish,           \* the size an X client has asked its window to be, 0 for none
  notices,        \* what the X server tells the compositor of its window
  \* the compositor and the application
  isX, limits, cfg,
  drawn,          \* what the application has drawn, or an X window is
  pendingFrame,   \* it has drawn what has not been sent
  wanted,         \* the size it last chose
  acts, choices   \* bounds

pageSide == <<winState, outer, restoreOuter, zoom, unclaimed, asked, canvas, minKnown, scrollable,
              resizeTimer>>
appSide == <<toApp, wish, notices, isX, limits, cfg, drawn, pendingFrame, wanted>>
vars == <<pageSide, toComp, toPage, appSide, acts, choices>>

Larger(a, b) == IF a > b THEN a ELSE b
Smaller(a, b) == IF a < b THEN a ELSE b

\* What a window of the desktop may measure.
Clamped(w) == Larger(Least, Smaller(w, Area))

\* What the application takes of what it is asked.
Within(w) ==
  LET atLeast == Larger(w, limits[1]) IN IF limits[2] = 0 THEN atLeast ELSE Smaller(atLeast, limits[2])

\* An application that has just drawn its first picture, announced with its limits.
Init ==
  /\ isX \in BOOLEAN /\ limits \in Limits
  /\ wanted \in Sizes /\ Within(wanted) = wanted
  /\ drawn = wanted /\ cfg = wanted /\ pendingFrame = FALSE
  /\ toPage = <<<<"window", wanted>>, <<"bounds", limits[1]>>, <<"frame", wanted>>>>
  /\ toComp = <<>> /\ toApp = <<>> /\ wish = 0 /\ notices = <<>>
  /\ winState = "normal" /\ outer = Default /\ restoreOuter = Default /\ unclaimed = Default
  /\ zoom = 1 /\ asked = 0 /\ canvas = 0 /\ minKnown = 0
  /\ scrollable = FALSE /\ resizeTimer = FALSE
  /\ acts = 0 /\ choices = 0

-----------------------------------------------------------------------------
(* The page.                                                               *)

\* frameSize, 0 while the window is minimized.
FrameSize(state, width, z) == IF state = "minimized" THEN 0 ELSE (2 * width + z) \div (2 * z)

\* updateScrolling.
Scrolls(size, picture) == size # 0 /\ picture > size

Unclaimed(state, width, own) == state = "normal" /\ width = own

\* Mutant of IsEcho: no configure is marked.
NeverEcho(size, picture, mine) == FALSE

\* An echo: nobody has sized the window, and it is what the application has drawn.
IsEcho(size, picture, mine) == mine /\ picture # 0 /\ picture = size

\* pushSize, for a window of this state, width and zoom.
PushesSize(state, width, own, z) ==
  LET size == FrameSize(state, width, z)
      ask == Larger(size, minKnown)
  IN IF size = 0 THEN UNCHANGED <<asked, scrollable, toComp>>
     ELSE /\ scrollable' = Scrolls(size, canvas')
          /\ asked' = ask
          /\ toComp' = Append(toComp, [size |-> ask,
                                       echo |-> IsEcho(ask, canvas', Unclaimed(state, width, own))])

\* Mutant of Adopts: the size that is taken is not marked as one nobody has chosen.
AdoptsUnmarked(size) ==
  IF ~Unclaimed(winState, outer, unclaimed)
  THEN PushesSize(winState, outer, unclaimed, zoom) /\ UNCHANGED <<outer, unclaimed, resizeTimer>>
  ELSE LET width == Clamped(size * zoom)
       IN /\ outer' = width /\ UNCHANGED unclaimed
          /\ resizeTimer' = (resizeTimer \/ width # outer)
          /\ PushesSize(winState, width, unclaimed, zoom)

\* adoptSize.
Adopts(size) ==
  IF ~Unclaimed(winState, outer, unclaimed)
  THEN PushesSize(winState, outer, unclaimed, zoom) /\ UNCHANGED <<outer, unclaimed, resizeTimer>>
  ELSE LET width == Clamped(size * zoom)
       IN /\ outer' = width /\ unclaimed' = width
          /\ resizeTimer' = (resizeTimer \/ width # outer)
          /\ PushesSize(winState, width, width, zoom)

Takes(kind) ==
  /\ toPage # <<>> /\ Head(toPage)[1] = kind /\ toPage' = Tail(toPage)
  /\ UNCHANGED <<winState, restoreOuter, zoom, appSide, acts, choices>>

\* 'window'.
HandleWindow ==
  /\ Takes("window") /\ UNCHANGED <<canvas, minKnown>>
  /\ Adopts(Head(toPage)[2])

\* 'bounds'.
HandleBounds ==
  /\ Takes("bounds") /\ minKnown' = Head(toPage)[2]
  /\ UNCHANGED <<outer, unclaimed, asked, canvas, scrollable, resizeTimer, toComp>>

\* The application has decided: it has not drawn what it was asked for.
AppChose(size) == size # asked

\* applyFrame.
HandleFrame ==
  /\ Takes("frame") /\ UNCHANGED minKnown
  /\ LET size == Head(toPage)[2]
         box == FrameSize(winState, outer, 1)
     IN /\ canvas' = size
        /\ IF size # canvas /\ asked # 0 /\ AppChose(size) /\ box # 0 /\ box # size * zoom
           THEN Adopts(size)
           ELSE /\ scrollable' = Scrolls(FrameSize(winState, outer, zoom), size)
                /\ UNCHANGED <<outer, unclaimed, asked, resizeTimer, toComp>>

\* onResize, after its delay.
ResizeSettles ==
  /\ resizeTimer /\ resizeTimer' = FALSE
  /\ UNCHANGED canvas
  /\ PushesSize(winState, outer, unclaimed, zoom)
  /\ UNCHANGED <<winState, outer, restoreOuter, zoom, unclaimed, minKnown, toPage, appSide, acts, choices>>

-----------------------------------------------------------------------------
(* The person.                                                             *)

Acts ==
  /\ acts < MaxActs /\ acts' = acts + 1
  /\ UNCHANGED <<unclaimed, canvas, minKnown, toPage, appSide, choices>>

\* The window is dragged by its edge, or, when `toldAtOnce`, by one the application drew.
Resize(toldAtOnce) ==
  /\ Acts /\ winState = "normal"
  /\ \E w \in Least..Area :
       /\ w # outer /\ outer' = w /\ resizeTimer' = TRUE
       /\ IF toldAtOnce THEN PushesSize(winState, w, unclaimed, zoom)
          ELSE UNCHANGED <<asked, scrollable, toComp>>
  /\ UNCHANGED <<winState, restoreOuter, zoom>>

Maximize ==
  /\ Acts /\ winState = "normal"
  /\ winState' = "maximized" /\ restoreOuter' = outer /\ outer' = Area
  /\ resizeTimer' = (resizeTimer \/ outer # Area)
  /\ UNCHANGED <<zoom, asked, scrollable, toComp>>

Minimize ==
  /\ Acts /\ winState = "normal"
  /\ winState' = "minimized" /\ restoreOuter' = outer /\ resizeTimer' = TRUE
  /\ UNCHANGED <<outer, zoom, asked, scrollable, toComp>>

\* A minimized window is given the focus, which asks for its size at once.
Restore ==
  /\ Acts /\ winState # "normal"
  /\ winState' = "normal" /\ outer' = Clamped(restoreOuter) /\ resizeTimer' = TRUE
  /\ IF winState = "minimized" THEN PushesSize("normal", outer', unclaimed, zoom)
     ELSE UNCHANGED <<asked, scrollable, toComp>>
  /\ UNCHANGED <<restoreOuter, zoom>>

\* setZoom.
SetZoom ==
  /\ Acts
  /\ \E z \in Zooms \ {zoom} : zoom' = z /\ PushesSize(winState, outer, unclaimed, z)
  /\ UNCHANGED <<winState, outer, restoreOuter, resizeTimer>>

-----------------------------------------------------------------------------
(* The compositor and the application.                                     *)

\* Mutant of Forces: an X window is resized to an echo, too.
ForcesAny(c) == TRUE

\* An X window is not forced to an echo.
Forces(c) == ~(isX /\ c.echo)

\* IPC_CONFIGURE. The window of an X client is that size from then on; a Wayland client is told.
HandleConfigure ==
  /\ toComp # <<>> /\ toComp' = Tail(toComp)
  /\ Crossing \/ notices = <<>>
  /\ LET c == Head(toComp)
         w == Within(c.size)
     IN IF w = cfg \/ ~Forces(c) THEN UNCHANGED <<cfg, toApp, notices, drawn, pendingFrame>>
        ELSE /\ cfg' = w
             /\ IF isX
                THEN /\ drawn' = w /\ pendingFrame' = (pendingFrame \/ w # drawn) /\ UNCHANGED toApp
                     /\ notices' = IF w # drawn THEN Append(notices, w) ELSE notices
                ELSE toApp' = Append(toApp, w) /\ UNCHANGED <<notices, drawn, pendingFrame>>
  /\ UNCHANGED <<pageSide, toPage, wish, isX, limits, wanted, acts, choices>>

\* XCB_CONFIGURE_REQUEST: an X client is given what it asks for.
GrantWish ==
  /\ wish # 0 /\ wish' = 0
  /\ drawn' = wish /\ pendingFrame' = (pendingFrame \/ wish # drawn)
  /\ notices' = IF wish # drawn THEN Append(notices, wish) ELSE notices
  /\ UNCHANGED <<pageSide, toComp, toPage, toApp, isX, limits, cfg, wanted, acts, choices>>

\* xwm_on_geometry.
HandleNotice ==
  /\ notices # <<>> /\ notices' = Tail(notices)
  /\ cfg' = Head(notices)
  /\ UNCHANGED <<pageSide, toComp, toPage, toApp, wish, isX, limits, drawn, pendingFrame, wanted, acts,
                 choices>>

\* A Wayland client draws what it is configured to.
AppHears ==
  /\ toApp # <<>> /\ toApp' = Tail(toApp)
  /\ drawn' = Head(toApp) /\ pendingFrame' = (pendingFrame \/ drawn # Head(toApp))
  /\ UNCHANGED <<pageSide, toComp, toPage, wish, notices, isX, limits, cfg, wanted, acts, choices>>

\* The application changes its mind: a Wayland client draws, an X client asks for it first.
AppChooses ==
  /\ choices < MaxChoices /\ choices' = choices + 1 /\ wish = 0
  /\ Early \/ choices > 0 \/ (canvas # 0 /\ toComp = <<>>)
  /\ \E s \in Sizes :
       /\ s # drawn /\ Within(s) = s /\ wanted' = s
       /\ IF isX THEN wish' = s /\ UNCHANGED <<drawn, pendingFrame>>
          ELSE drawn' = s /\ pendingFrame' = TRUE /\ UNCHANGED wish
  /\ UNCHANGED <<pageSide, toComp, toPage, toApp, notices, isX, limits, cfg, acts>>

\* One picture is on its way at a time.
SendFrame ==
  /\ pendingFrame /\ ~\E i \in DOMAIN toPage : toPage[i][1] = "frame"
  /\ pendingFrame' = FALSE /\ toPage' = Append(toPage, <<"frame", drawn>>)
  /\ UNCHANGED <<pageSide, toComp, toApp, wish, notices, isX, limits, cfg, drawn, wanted, acts, choices>>

Next ==
  \/ HandleWindow \/ HandleBounds \/ HandleFrame \/ ResizeSettles
  \/ Resize(FALSE) \/ Resize(TRUE) \/ Maximize \/ Minimize \/ Restore \/ SetZoom
  \/ HandleConfigure \/ GrantWish \/ HandleNotice \/ AppHears \/ AppChooses \/ SendFrame

Spec == Init /\ [][Next]_vars

-----------------------------------------------------------------------------
(* What has to hold.                                                       *)

Quiet ==
  /\ toComp = <<>> /\ toPage = <<>> /\ toApp = <<>> /\ wish = 0 /\ notices = <<>>
  /\ ~pendingFrame /\ ~resizeTimer

\* When nothing is on its way any more, the page shows what the application has drawn, asked
\* for the box it has, and scrolls exactly when the picture is the larger.
PictureFits ==
  Quiet /\ winState # "minimized" =>
    /\ canvas = drawn
    /\ scrollable = (drawn > FrameSize(winState, outer, zoom))

\* When nothing is on its way and the person has not touched the window, an X client is the size
\* it last chose, if there is room for it, and the window is of that size: a client is never
\* resized for having been followed.
LastChoiceStands ==
  Quiet /\ isX /\ acts = 0 /\ wanted \in Least..Area => drawn = wanted /\ outer = wanted

\* When nothing is on its way, an application that has not changed its mind is the size the
\* person has made its window, within what it allows.
PersonsSizeStands ==
  Quiet /\ choices = 0 /\ winState # "minimized" /\ ~Unclaimed(winState, outer, unclaimed) =>
    drawn = Within(FrameSize(winState, outer, zoom))

SizesAgree == PictureFits /\ LastChoiceStands /\ PersonsSizeStands
=============================================================================
