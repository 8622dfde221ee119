----------------------------- MODULE SliceFlow -----------------------------
(***************************************************************************)
(* How one Session gets large payloads to the page: cut into slices by     *)
(* sendBinary() and pump(), at most one slice handed to the socket at a    *)
(* time, no more out than the page has granted credit for (took()), and    *)
(* put together again by the page's SliceAssembler (shared/protocol.ts).   *)
(*                                                                         *)
(* A payload is a sequence of distinct bytes, so that a lost, doubled or   *)
(* misplaced one shows. The channels are open to begin with and the socket *)
(* stays up: a drop ends the Session and the queue with it. The age of a   *)
(* confirmed slice, which moves the window, is any of quick, slow, neither.*)
(***************************************************************************)
EXTENDS Naturals, Sequences, FiniteSets

CONSTANTS
  Chans,
  Lengths,       \* payload lengths a service sends
  MaxSent,       \* payloads the services send, all channels together
  SliceBytes, HeaderBytes,              \* SLICE_BYTES, SLICE_HEADER_BYTES
  WindowStart, WindowMin, WindowMax     \* CREDIT_WINDOW_*

ASSUME SliceFlowAssumption ==
  /\ {SliceBytes, WindowMin, WindowStart} \subseteq Nat \ {0}
  /\ {HeaderBytes, MaxSent, WindowMax} \subseteq Nat
  /\ Lengths \subseteq Nat \ {0} /\ IsFiniteSet(Chans)
  /\ WindowMin <= WindowStart /\ WindowStart <= WindowMax

VARIABLES
  modern,       \* the page confirms slices; one from before took() does not
  channels,     \* Session.channels
  bulk,         \* Session.bulk
  queued,       \* Session.bulkByChannel, 0 for an id it does not have
  pumping,      \* Session.pumping: a slice waits for its write callback
  unconfirmed,  \* Session.unconfirmed, without the times
  inflight, window, credited,
  toClient, toServer,
  handles,      \* RpcClient.channels
  held,         \* SliceAssembler.held, <<>> for an id it does not have
  sent, delivered

serverVars == <<channels, bulk, queued, pumping, unconfirmed, inflight, window, credited>>
pageVars   == <<handles, held, delivered>>
vars == <<modern, serverVars, pageVars, toClient, toServer, sent>>

\* The n-th payload of a channel.
Payload(n, len) == [b \in 1..len |-> <<n, b>>]
Payloads == {Payload(n, len) : n \in 1..MaxSent, len \in Lengths}

\* The payloads sent so far, each by its channel and its number there.
TotalSent == Cardinality({x \in Chans \X (1..MaxSent) : x[2] <= Len(sent[x[1]])})

\* The entries of q at the positions K, in their order.
Picked(q, K) ==
  LET picked[k \in 0..Len(q)] ==
        IF k = 0 THEN <<>>
        ELSE IF k \in K THEN Append(picked[k - 1], q[k]) ELSE picked[k - 1]
  IN picked[Len(q)]

Total(q) ==
  LET total[k \in 0..Len(q)] == IF k = 0 THEN 0 ELSE total[k - 1] + q[k] IN total[Len(q)]

Init ==
  /\ modern \in BOOLEAN
  /\ channels = Chans /\ handles = Chans
  /\ bulk = <<>> /\ queued = [c \in Chans |-> 0]
  /\ pumping = FALSE
  /\ unconfirmed = <<>> /\ inflight = 0
  /\ window = WindowStart /\ credited = FALSE
  /\ toClient = <<>> /\ toServer = <<>>
  /\ held = [c \in Chans |-> <<>>]
  /\ sent = [c \in Chans |-> <<>>] /\ delivered = [c \in Chans |-> <<>>]

-----------------------------------------------------------------------------
\* Where the next slice of a queue entry ends, and whether it is the last.
End(head) == IF head.at + SliceBytes < Len(head.payload)
               THEN head.at + SliceBytes ELSE Len(head.payload)
LastSlice(head) == End(head) >= Len(head.payload)

\* encodeSlice().
Slice(head) ==
  [t |-> "slice", id |-> head.id, last |-> LastSlice(head),
   bytes |-> SubSeq(head.payload, head.at + 1, End(head))]
SliceSize(m) == HeaderBytes + Len(m.bytes)

\* Mutants of OutOfCredit: one that never holds back, and one that holds back
\* before the page has confirmed anything.
NeverOutOfCredit(n) == FALSE
AlwaysCredited(n) == n >= window'

\* The page has confirmed something and n bytes are out already.
OutOfCredit(n) == credited' /\ n >= window'

\* pump() with no write under way, on the queue q and the n bytes `out`.
Pump(q, out, n) ==
  /\ bulk' = q
  /\ \/ /\ q = <<>> \/ OutOfCredit(n)
        /\ pumping' = FALSE /\ unconfirmed' = out /\ inflight' = n
        /\ UNCHANGED toClient
     \/ /\ q # <<>> /\ ~OutOfCredit(n)
        /\ pumping' = TRUE
        /\ toClient' = Append(toClient, Slice(Head(q)))
        /\ unconfirmed' = Append(out, SliceSize(Slice(Head(q))))
        /\ inflight' = n + SliceSize(Slice(Head(q)))

\* Mutant of GoesDirect: only the length counts.
ShortGoesDirect(c, len) == len <= SliceBytes

\* A short payload skips the queue, unless its channel has something in it.
GoesDirect(c, len) == len <= SliceBytes /\ queued[c] = 0

\* sendBinary().
SendBinary(c, len) ==
  /\ c \in channels /\ TotalSent < MaxSent
  /\ LET p == Payload(Len(sent[c]) + 1, len) IN
     /\ sent' = [sent EXCEPT ![c] = Append(@, p)]
     /\ \/ /\ GoesDirect(c, len)
           /\ toClient' = Append(toClient, [t |-> "data", id |-> c, last |-> TRUE, bytes |-> p])
           /\ UNCHANGED <<bulk, queued, pumping, unconfirmed, inflight, window, credited>>
        \/ /\ ~GoesDirect(c, len)
           /\ queued' = [queued EXCEPT ![c] = @ + 1]
           /\ UNCHANGED <<window, credited>>
           /\ LET q == Append(bulk, [id |-> c, payload |-> p, at |-> 0]) IN
                IF pumping
                  THEN bulk' = q /\ UNCHANGED <<pumping, unconfirmed, inflight, toClient>>
                  ELSE Pump(q, unconfirmed, inflight)
  /\ UNCHANGED <<modern, channels, pageVars, toServer>>

\* The queue entry is dequeued after this slice: it was the last, or the
\* channel has been closed under its payload.
DoneWith(head) == LastSlice(head) \/ head.id \notin channels

\* The write callback of the slice in flight. The head of the queue is still
\* the entry it belongs to: closeChannel() leaves the head alone.
SocketTakes ==
  /\ pumping
  /\ UNCHANGED <<window, credited>>
  /\ LET head == Head(bulk) IN
     \/ /\ DoneWith(head)
        /\ queued' = [queued EXCEPT ![head.id] = @ - 1]
        /\ Pump(Tail(bulk), unconfirmed, inflight)
     \/ /\ ~DoneWith(head)
        /\ UNCHANGED queued
        /\ Pump([bulk EXCEPT ![1].at = End(head)], unconfirmed, inflight)
  /\ UNCHANGED <<modern, channels, pageVars, toServer, sent>>

\* Mutant of Adjusted: the window is not clamped.
UnclampedAdjusted(w) == {w, w \div 2, w + SliceBytes}

\* What one confirmation does to the window, by the age of its slice.
Adjusted(w) ==
  {w,
   IF w \div 2 > WindowMin THEN w \div 2 ELSE WindowMin,
   IF w + SliceBytes < WindowMax THEN w + SliceBytes ELSE WindowMax}

\* Mutant of Uncredited: only the payload's bytes are given back.
PayloadUncredited(n) == IF n - HeaderBytes <= inflight THEN inflight - (n - HeaderBytes) ELSE 0

Uncredited(n) == IF n <= inflight THEN inflight - n ELSE 0

\* Mutant of AfterTook: the credit is noted and the pump left alone.
NoteCredit(n) ==
  /\ unconfirmed' = Tail(unconfirmed) /\ inflight' = Uncredited(n)
  /\ UNCHANGED <<bulk, pumping, toClient>>

\* The tail of took(): the oldest slice is confirmed, the credit given back.
AfterTook(n) ==
  IF pumping
    THEN /\ unconfirmed' = Tail(unconfirmed) /\ inflight' = Uncredited(n)
         /\ UNCHANGED <<bulk, pumping, toClient>>
    ELSE Pump(bulk, Tail(unconfirmed), Uncredited(n))

\* took(). A confirmation is for exactly the oldest slice (CreditIsExact), so
\* its loop runs once.
Took(n) ==
  /\ credited' = TRUE
  /\ window' \in Adjusted(window)
  /\ AfterTook(n)
  /\ UNCHANGED <<modern, channels, queued, pageVars, sent>>

-----------------------------------------------------------------------------
\* Mutant of Spliced: the whole queue, the head included.
SplicedWhole(c) == Picked(bulk, {k \in DOMAIN bulk : bulk[k].id # c})

\* closeChannel() takes every entry of the channel off the queue but the head,
\* which may be in flight.
Spliced(c) == Picked(bulk, {k \in DOMAIN bulk : k = 1 \/ bulk[k].id # c})

\* Mutant of LeftQueued: the count is not kept up with the splice.
CountKept(c) == queued[c]

LeftQueued(c) == IF bulk # <<>> /\ Head(bulk).id = c THEN 1 ELSE 0

CloseChannel(c) ==
  /\ channels' = channels \ {c}
  /\ bulk' = Spliced(c)
  /\ queued' = [queued EXCEPT ![c] = LeftQueued(c)]
  /\ toClient' = Append(toClient, [t |-> "close", id |-> c])
  /\ UNCHANGED <<modern, pumping, unconfirmed, inflight, window, credited, pageVars, sent>>

ServiceCloses(c) ==
  /\ c \in channels
  /\ CloseChannel(c)
  /\ UNCHANGED toServer

ServerReceives ==
  /\ toServer # <<>>
  /\ toServer' = Tail(toServer)
  /\ LET m == Head(toServer) IN
     \/ m.t = "took" /\ Took(m.n)
     \/ m.t = "close" /\ m.id \in channels /\ CloseChannel(m.id)
     \/ /\ m.t = "close" /\ m.id \notin channels
        /\ UNCHANGED <<modern, serverVars, pageVars, toClient, sent>>

-----------------------------------------------------------------------------
\* Channel.close(): the message, then releaseChannel() forgets what is held.
CloseHandle(c) ==
  /\ c \in handles
  /\ handles' = handles \ {c}
  /\ held' = [held EXCEPT ![c] = <<>>]
  /\ toServer' = Append(toServer, [t |-> "close", id |-> c])
  /\ UNCHANGED <<modern, serverVars, delivered, toClient, sent>>

\* onMessage() of a binary frame: credit first, then the assembler, then the
\* handler of the channel if there still is one.
OnBinary(m) ==
  /\ toServer' = IF m.t = "slice" /\ modern
                   THEN Append(toServer, [t |-> "took", n |-> SliceSize(m)]) ELSE toServer
  /\ \/ /\ ~m.last
        /\ held' = [held EXCEPT ![m.id] = @ \o m.bytes]
        /\ UNCHANGED delivered
     \/ /\ m.last
        /\ held' = [held EXCEPT ![m.id] = <<>>]
        /\ delivered' = IF m.id \in handles
                          THEN [delivered EXCEPT ![m.id] = Append(@, held[m.id] \o m.bytes)]
                          ELSE delivered
  /\ UNCHANGED handles

\* `close`: markClosed(), for a channel the page still has.
OnClose(m) ==
  /\ handles' = handles \ {m.id}
  /\ held' = IF m.id \in handles THEN [held EXCEPT ![m.id] = <<>>] ELSE held
  /\ UNCHANGED <<delivered, toServer>>

ClientReceives ==
  /\ toClient # <<>>
  /\ toClient' = Tail(toClient)
  /\ LET m == Head(toClient) IN
       IF m.t = "close" THEN OnClose(m) ELSE OnBinary(m)
  /\ UNCHANGED <<modern, serverVars, sent>>

-----------------------------------------------------------------------------
Next ==
  \/ \E c \in Chans, len \in Lengths : SendBinary(c, len)
  \/ \E c \in Chans : ServiceCloses(c) \/ CloseHandle(c)
  \/ SocketTakes \/ ServerReceives \/ ClientReceives

Spec == Init /\ [][Next]_vars

\* The socket takes what it is given and carries it both ways. Services owe
\* no payload, and nobody owes a close.
Fairness == WF_vars(SocketTakes) /\ WF_vars(ServerReceives) /\ WF_vars(ClientReceives)

FairSpec == Spec /\ Fairness

-----------------------------------------------------------------------------
Frame ==
  [t : {"data", "slice"}, id : Chans, last : BOOLEAN, bytes : Seq(Nat \X Nat)]
    \cup [t : {"close"}, id : Chans]
Entry == [id : Chans, payload : Payloads, at : Nat]

TypeOK ==
  /\ modern \in BOOLEAN
  /\ channels \subseteq Chans /\ handles \subseteq Chans
  /\ bulk \in Seq(Entry)
  /\ queued \in [Chans -> Nat]
  /\ pumping \in BOOLEAN /\ credited \in BOOLEAN
  /\ unconfirmed \in Seq(Nat) /\ inflight \in Nat
  /\ window \in WindowMin..WindowMax
  /\ toClient \in Seq(Frame)
  /\ toServer \in Seq([t : {"took"}, n : Nat] \cup [t : {"close"}, id : Chans])
  /\ held \in [Chans -> Seq(Nat \X Nat)]
  /\ sent \in [Chans -> Seq(Payloads)]
  /\ delivered \in [Chans -> Seq(Seq(Nat \X Nat))]

\* The pump never rests with work to do: a payload waits only behind a write
\* under way, or because the page has more unconfirmed bytes than its window.
\* One missed call of pump() and a window stays as it is for good.
NeverIdle == bulk # <<>> /\ ~pumping => credited /\ inflight >= window

\* The queue's head survives whatever happens while its slice is in flight,
\* so the callback advances the payload it was made for.
HeadInFlight == pumping => bulk # <<>> /\ Head(bulk).at < Len(Head(bulk).payload)

\* bulkByChannel counts the queue. Too high, and the short payloads of a
\* channel queue behind pictures for good; too low, and they overtake.
CountsAreExact ==
  \A c \in Chans : queued[c] = Cardinality({k \in DOMAIN bulk : bulk[k].id = c})

\* Every byte the server holds to be unconfirmed is in a slice on its way to
\* the page or in a confirmation on its way back. Credit that leaks closes the
\* window bit by bit.
Slices(frames) == Picked(frames, {k \in DOMAIN frames : frames[k].t = "slice"})
Tooks(messages) == Picked(messages, {k \in DOMAIN messages : messages[k].t = "took"})
Sizes(slices) == [k \in DOMAIN slices |-> SliceSize(slices[k])]

CreditIsExact ==
  LET tooks == Tooks(toServer) IN
  /\ modern => unconfirmed = [k \in DOMAIN tooks |-> tooks[k].n] \o Sizes(Slices(toClient))
  /\ inflight = Total(unconfirmed)

\* What a keystroke's echo waits behind: once the page has confirmed anything,
\* a slice is only added while less than a full window is on the wire.
OnTheWire(frames) == Total(Sizes(Slices(frames)))
OutAtMostAWindow ==
  [][credited' /\ OnTheWire(toClient') > OnTheWire(toClient)
       => OnTheWire(toClient') < WindowMax + HeaderBytes + SliceBytes]_vars

\* The channels keep the promise of ChannelFifo.
Fifo == INSTANCE ChannelFifo WITH ended <- Chans \ handles
ImplementsFifo == Fifo!Spec

\* A payload reaches the page, or one of the two has let the channel go.
PayloadsArrive ==
  \A c \in Chans, k \in 1..MaxSent :
    Len(sent[c]) >= k ~> Len(delivered[c]) >= k \/ c \notin channels \cap handles

\* "The channel is gone; whatever was held for it is waste" (protocol.ts), and
\* the pump takes it that "the client has forgotten the pieces it already
\* holds" (session.ts). A slice that arrives after the page closed its channel
\* is held again, and nothing ever asks for it to be forgotten.
HeldForOpenChannels == \A c \in Chans : held[c] # <<>> => c \in handles
\* The books of the pump (session.ts 95-190) are exact: the head of the queue
\* is the payload in flight, the queue is counted right, and every byte that is
\* unconfirmed is on the wire. An error in any shows only much later, as a
\* window that slowly closes.
BooksAreExact == TypeOK /\ HeadInFlight /\ CountsAreExact /\ CreditIsExact

\* The wire is neither flooded nor starved: at most a window of slices is out
\* (session.ts 150-190), and every payload arrives in the end.
NeitherFloodedNorStarved == OutAtMostAWindow /\ PayloadsArrive
=============================================================================
