--------------------------- MODULE TerminalReplay ---------------------------
(***************************************************************************)
(* What a terminal window shows of its shell across lost connections       *)
(* (server/src/services/pty.ts, client/src/apps/terminal/index.ts). The    *)
(* server banks the newest Limit bytes; a window that comes back says how  *)
(* much of the stream it has drawn and is sent the rest, or all there is   *)
(* if the rest has been dropped. Its size follows it on the same channel.  *)
(*                                                                         *)
(* One shell that stays alive, one window, the channels it opens one after *)
(* the other. A byte is its position in the stream, so one that is drawn   *)
(* twice, missed or misplaced shows. Frames arrive whole and in order, as  *)
(* ChannelFifo promises; a drop loses them.                                *)
(***************************************************************************)
EXTENDS Integers, Sequences, FiniteSetsExt

-----------------------------------------------------------------------------
(* The scrollback: class Ring, a circular buffer that doubles until it has   *)
(* reached its limit and then lets its oldest bytes go, addressed by the     *)
(* offset in the stream. MaxOut bounds the stream. The buffer holds 0 where  *)
(* nothing was ever written, as Buffer.alloc leaves it. No write is longer   *)
(* than the ring: a pty is read at most 64 KiB at a time, and the ring holds *)
(* a megabyte.                                                               *)

CONSTANTS
  First,      \* the size a Ring starts with
  Limit,      \* SCROLLBACK_BYTES, the size it stops growing at
  Newlines,   \* positions of the stream that hold a line feed
  MaxOut      \* bytes the shell prints in all

ASSUME RingAssumption == {First, Limit, MaxOut} \subseteq Nat \ {0} /\ First <= Limit

VARIABLES
  capacity,        \* buf.length
  buf,         \* by index, from 0
  head, len,
  end

ringVars == <<capacity, buf, head, len, end>>

start == end - len

RingTypeOK ==
  /\ capacity \in First..Limit
  /\ buf \in [0..capacity - 1 -> 0..MaxOut]
  /\ head \in 0..capacity - 1
  /\ len \in 0..capacity
  /\ end \in 0..MaxOut

RingInit ==
  /\ capacity = First
  /\ buf = [i \in 0..First - 1 |-> 0]
  /\ head = 0 /\ len = 0 /\ end = 0

\* Mutant of contents: the wrap is forgotten.
unwrapped == [k \in 1..len |-> IF head + k - 1 < capacity THEN buf[head + k - 1] ELSE 0]

\* contents(): what is held, oldest first.
contents == [k \in 1..len |-> buf[(head + k - 1) % capacity]]

\* The capacity after as many doublings as n more bytes need.
Grown(n) ==
  LET double[s \in 1..Limit] ==
        IF len + n > s /\ s < Limit THEN double[Min({Limit, 2 * s})] ELSE s
  IN double[capacity]

\* The buffer as grow() leaves it: copied to the front when it grew.
Moved(to) ==
  IF to = capacity THEN buf
  ELSE [i \in 0..to - 1 |-> IF i < len THEN contents[i + 1] ELSE 0]

\* Mutant of Overflow: one byte too few makes room.
OverflowLessOne(n, to) == Max({0, len + n - to - 1})

Overflow(n, to) == Max({0, len + n - to})

\* push() of the next n bytes of the stream.
Push(n) ==
  LET to   == Grown(n)
      lost == Overflow(n, to)
      from == ((IF to = capacity THEN head ELSE 0) + lost) % to
      tail == (from + len - lost) % to
  IN /\ capacity' = to
     /\ head' = from
     /\ len' = len - lost + n
     /\ buf' = [i \in 0..to - 1 |->
          LET k == ((i - tail) % to) + 1
          IN IF k <= n THEN end + k ELSE Moved(to)[i]]
     /\ end' = end + n

\* since() is not null: everything after this offset is still held.
StillHeld(from) == from >= start

\* What since() returns then.
After(from) == IF from >= end THEN <<>> ELSE SubSeq(contents, from - start + 1, len)

\* all().offset: past the first line feed, once anything has gone.
LineStart ==
  LET feeds == {k \in 1..len : contents[k] \in Newlines} IN
  IF start = 0 \/ feeds = {} THEN start ELSE start + Min(feeds)

\* The ring holds the newest bytes of the stream, as many as fit, oldest
\* first, through every growth, wrap and overflow.
HoldsTheTail ==
  /\ len = Min({Limit, end})
  /\ contents = [k \in 1..len |-> end - len + k]

-----------------------------------------------------------------------------
(* The window, and what is on its way to it.                                 *)

CONSTANTS
  Sizes,      \* rows the window may have
  MaxChans,   \* channels the window opens in all
  MaxAsked    \* messages on their way to the server when the window resizes

ASSUME ReplayAssumption ==
  /\ {MaxChans, MaxAsked} \subseteq Nat \ {0}
  /\ Sizes \subseteq Nat \ {0} /\ Sizes # {}

VARIABLES
  \* the server, besides the ring
  ctx,          \* Term.ctx: the newest channel of the window, or 0
  replay,       \* replays whose setImmediate has not run
  repaint,      \* the channel's `repaint`
  timers,       \* sizes whose 50 ms are not over
  rows,         \* the size of the pty
  owed,         \* a full replay, and the pty has not changed size since
  \* between them
  toClient, toServer,
  \* the window
  link,         \* the channel it has, or 0
  chans,        \* channels it has opened
  opened,       \* `opened` has been handled
  received,
  screen,       \* the bytes drawn, oldest first
  height,       \* its own size in rows
  \* what a property needs to look back on
  overtaken,    \* live output went out before a replay, in the window's life
  resized       \* a resize came within the 50 ms of another, on this channel

serverVars == <<ringVars, ctx, replay, repaint, timers, rows, owed>>
windowVars == <<link, chans, opened, received, screen, height>>
vars == <<serverVars, windowVars, toClient, toServer, overtaken, resized>>

Bytes(from, to) == [k \in 1..(to - from) |-> from + k]

Replays == [chan : Nat, bytes : Seq(Nat)]

TypeOK ==
  /\ RingTypeOK
  /\ ctx \in 0..MaxChans /\ link \in 0..MaxChans /\ chans \in 0..MaxChans
  /\ replay \in Seq(Replays)
  /\ {repaint, owed, opened, overtaken, resized} \subseteq BOOLEAN
  /\ timers \subseteq [chan : 1..MaxChans, size : Sizes]
  /\ rows \in Nat \ {0} /\ height \in Sizes
  /\ received \in Nat
  /\ screen \in Seq(1..MaxOut)
  /\ toClient \in Seq([t : {"opened"}, mode : {"partial", "full"}, offset : Nat]
                        \cup [t : {"data"}, bytes : Seq(1..MaxOut)])
  /\ toServer \in Seq([t : {"attach"}, since : Nat] \cup [t : {"resize"}, size : Sizes])

\* The window has spawned the shell and waits for `opened`.
Init ==
  /\ RingInit
  /\ ctx = 1 /\ link = 1 /\ chans = 1
  /\ replay = <<>> /\ repaint = FALSE /\ timers = {}
  /\ height \in Sizes /\ rows = height /\ owed = FALSE
  /\ toClient = <<[t |-> "opened", mode |-> "partial", offset |-> 0]>>
  /\ toServer = <<>>
  /\ opened = FALSE /\ received = 0 /\ screen = <<>>
  /\ overtaken = FALSE /\ resized = FALSE

-----------------------------------------------------------------------------
\* ctx.sendBinary() and the `opened` message: lost with the connection.
Sent(c, m) == IF c = link THEN Append(toClient, m) ELSE toClient

\* child.onData(): banked, and sent to the window that shows the shell.
Prints(n) ==
  /\ end + n <= MaxOut
  /\ Push(n)
  /\ toClient' = IF ctx # 0
                   THEN Sent(ctx, [t |-> "data", bytes |-> Bytes(end, end')])
                   ELSE toClient
  /\ overtaken' = (overtaken \/ \E k \in DOMAIN replay : replay[k].chan = ctx)
  /\ UNCHANGED <<ctx, replay, repaint, timers, rows, owed, toServer, windowVars, resized>>

\* attach() and the `opened` the session sends for it. The replay follows
\* from setImmediate; the channel that had the shell before is let go.
Attach ==
  /\ toServer # <<>> /\ Head(toServer).t = "attach"
  /\ toServer' = Tail(toServer)
  /\ ctx' = link
  /\ LET since == Head(toServer).since
         offset == IF StillHeld(since) THEN since ELSE LineStart
         mode == IF StillHeld(since) THEN "partial" ELSE "full"
     IN /\ replay' = IF After(offset) = <<>> THEN replay
                       ELSE Append(replay, [chan |-> link, bytes |-> After(offset)])
        /\ repaint' = (mode = "full")
        /\ toClient' = Append(toClient, [t |-> "opened", mode |-> mode, offset |-> offset])
        /\ owed' = (mode = "full")
  /\ resized' = FALSE
  /\ UNCHANGED <<ringVars, timers, rows, windowVars, overtaken>>

\* Mutant of Replayed: `opened` says where it starts, and nothing follows.
NotReplayed(r) == toClient

\* Only the channel that still has the shell is sent its replay.
Replayed(r) == IF r.chan = ctx THEN Sent(ctx, [t |-> "data", bytes |-> r.bytes]) ELSE toClient

\* The setImmediate of an attach.
SendsReplay ==
  /\ replay # <<>>
  /\ toClient' = Replayed(Head(replay))
  /\ replay' = Tail(replay)
  /\ UNCHANGED <<ringVars, ctx, repaint, timers, rows, owed, toServer, windowVars,
                 overtaken, resized>>

\* Mutant of WrongSize: the wrong size is the right one.
SameSize(size) == size

WrongSize(size) == IF size = 1 THEN 2 ELSE size - 1

ResizesTo(size) ==
  /\ rows' = size
  /\ owed' = (owed /\ size = rows)

\* onCtl('resize').
HandlesResize(size) ==
  \/ /\ repaint
     /\ repaint' = FALSE
     /\ ResizesTo(WrongSize(size))
     /\ timers' = timers \cup {[chan |-> ctx, size |-> size]}
     /\ UNCHANGED resized
  \/ /\ ~repaint
     /\ ResizesTo(size)
     /\ resized' = (resized \/ \E x \in timers : x.chan = ctx)
     /\ UNCHANGED <<repaint, timers>>

\* A resize read together with the attach it follows finds the placeholder,
\* which has no onCtl, and is dropped.
ServerReceives ==
  /\ toServer # <<>> /\ Head(toServer).t = "resize"
  /\ toServer' = Tail(toServer)
  /\ \/ HandlesResize(Head(toServer).size)
     \/ /\ \E k \in DOMAIN toClient : toClient[k].t = "opened"
        /\ UNCHANGED <<repaint, timers, rows, owed, resized>>
  /\ UNCHANGED <<ringVars, ctx, replay, toClient, windowVars, overtaken>>

\* Mutant of RepaintsFor: whatever channel has the shell by now.
RepaintsForAny(x) == TRUE

RepaintsFor(x) == x.chan = ctx

\* The 50 ms of a repaint are over. Immediates come before timers.
Repaints ==
  /\ replay = <<>>
  /\ \E x \in timers :
       /\ timers' = timers \ {x}
       /\ IF RepaintsFor(x) THEN ResizesTo(x.size) ELSE UNCHANGED <<rows, owed>>
  /\ UNCHANGED <<ringVars, ctx, replay, repaint, toClient, toServer, windowVars,
                 overtaken, resized>>

\* onClose(lost): the server has noticed that the connection went.
ServerNotices ==
  /\ ctx # 0 /\ ctx # link
  /\ ctx' = 0
  /\ UNCHANGED <<ringVars, replay, repaint, timers, rows, owed, toClient, toServer,
                 windowVars, overtaken, resized>>

-----------------------------------------------------------------------------
\* onClose of the window's channel, with the socket gone.
Drops ==
  /\ link # 0
  /\ link' = 0
  /\ opened' = FALSE
  /\ toClient' = <<>> /\ toServer' = <<>>
  /\ UNCHANGED <<serverVars, chans, received, screen, height, overtaken, resized>>

\* A new channel over a new socket, for what came after the bytes `seen`.
OpensFor(seen) ==
  /\ chans < MaxChans
  /\ chans' = chans + 1
  /\ link' = chans + 1
  /\ opened' = FALSE
  /\ toServer' = <<[t |-> "attach", since |-> seen]>>
  /\ toClient' = <<>>
  /\ UNCHANGED <<serverVars, height, resized>>

\* connect(), once the client is back.
Reconnects ==
  /\ link = 0
  /\ OpensFor(received)
  /\ UNCHANGED <<received, screen, overtaken>>

\* The page is reloaded: a fresh window with the id of its shell.
Reloads ==
  /\ OpensFor(0)
  /\ received' = 0 /\ screen' = <<>> /\ overtaken' = FALSE

\* Mutant of Cleared: a full replay is drawn under what is there.
NotCleared(mode) == screen

\* term.reset() before a full replay.
Cleared(mode) == IF mode = "full" THEN <<>> ELSE screen

\* onOpen: the offset the replay starts at, and the size once more.
OnOpen(m) ==
  /\ opened' = TRUE
  /\ screen' = Cleared(m.mode)
  /\ received' = m.offset
  /\ toServer' = Append(toServer, [t |-> "resize", size |-> height])

\* onBinary.
OnBinary(m) ==
  /\ received' = received + Len(m.bytes)
  /\ screen' = screen \o m.bytes
  /\ UNCHANGED <<opened, toServer>>

ClientReceives ==
  /\ toClient # <<>>
  /\ toClient' = Tail(toClient)
  /\ LET m == Head(toClient) IN
     \/ m.t = "opened" /\ OnOpen(m)
     \/ m.t = "data" /\ OnBinary(m)
  /\ UNCHANGED <<serverVars, link, chans, height, overtaken, resized>>

\* term.onResize: the window has a new size, and the channel is told if there
\* is one.
WindowResizes(size) ==
  /\ size # height /\ Len(toServer) < MaxAsked
  /\ height' = size
  /\ toServer' = IF link # 0 THEN Append(toServer, [t |-> "resize", size |-> size]) ELSE toServer
  /\ UNCHANGED <<serverVars, toClient, link, chans, opened, received, screen, overtaken, resized>>

Next ==
  \/ \E n \in 1..Limit : Prints(n)
  \/ Attach \/ SendsReplay \/ ServerReceives \/ Repaints \/ ServerNotices
  \/ Drops \/ Reconnects \/ Reloads \/ ClientReceives
  \/ \E size \in Sizes : WindowResizes(size)

Spec == Init /\ [][Next]_vars

-----------------------------------------------------------------------------
\* Nothing is on its way to the window that has the shell.
CaughtUp ==
  /\ link # 0 /\ link = ctx /\ opened
  /\ toClient = <<>> /\ replay = <<>>

\* Window and server count the stream alike: once nothing is on its way, the
\* window has counted every byte the shell printed, whatever was dropped,
\* replayed or trimmed on the way. The next attach asks for `received`.
OffsetsAgree == CaughtUp => received = end

\* The window shows one stretch of the stream that ends where it has counted
\* to, each byte once and in order, over any number of drops, as long as no
\* live output went out between an attach and its replay.
DrawnInOrder ==
  ~overtaken => \A k \in DOMAIN screen : screen[k] = received - Len(screen) + k

\* After a full replay the pty changes its size, so that the program redraws:
\* a change that is owed is still to come, whatever size the pty had and
\* whatever the window asked for in between.
ProgramRedraws == owed /\ ctx # 0 => repaint \/ \E x \in timers : x.chan = ctx

\* "A reconnect asks for what came after, so nothing is drawn twice"
\* (terminal/index.ts). Output between an attach and its replay is drawn
\* first; a drop in between, and the window counts bytes it has not drawn and
\* is sent others again.
NothingDrawnTwice == \A j, k \in DOMAIN screen : screen[j] = screen[k] => j = k

\* With nothing on its way in either direction, the pty has the size of its
\* window, unless a resize came while a repaint was under way.
SizeSettles ==
  CaughtUp /\ toServer = <<>> /\ (\A x \in timers : x.chan # ctx) /\ ~resized
    => rows = height

\* "The first resize after a full replay goes through a wrong size on its way
\* to the right one" (pty.ts): the one that was right 50 ms ago, put back over
\* whatever the window has asked for since.
EndsAtTheRightSize ==
  CaughtUp /\ toServer = <<>> /\ (\A x \in timers : x.chan # ctx) => rows = height
\* What is on the screen is the stream: the ring holds its newest bytes
\* (pty.ts), both ends count it alike, and the window draws it in order
\* (terminal/index.ts).
ScreenIsTheStream == TypeOK /\ HoldsTheTail /\ OffsetsAgree /\ DrawnInOrder

\* The size is right and the program has been told: a redraw that is owed comes,
\* and the pty ends at the size of its window (pty.ts 420-440).
SizeIsRight == ProgramRedraws /\ SizeSettles
=============================================================================
