---------------------------- MODULE ChannelFifo ----------------------------
(***************************************************************************)
(* What a channel promises its two ends, whatever carries it: payloads     *)
(* arrive whole, once, in the order they were sent, and none arrives after *)
(* the page has let the channel go. A channel may end with payloads still  *)
(* on their way; those are lost.                                           *)
(***************************************************************************)
EXTENDS Naturals, Sequences

CONSTANTS Chans, Payloads

VARIABLES
  sent,        \* payloads the service handed over, oldest first
  delivered,   \* payloads the page's handler was given, oldest first
  ended        \* channels the page has let go

Init ==
  /\ sent = [c \in Chans |-> <<>>]
  /\ delivered = [c \in Chans |-> <<>>]
  /\ ended = {}

Send(c) ==
  /\ \E p \in Payloads : sent' = [sent EXCEPT ![c] = Append(@, p)]
  /\ UNCHANGED <<delivered, ended>>

Deliver(c) ==
  /\ c \notin ended
  /\ Len(delivered[c]) < Len(sent[c])
  /\ delivered' = [delivered EXCEPT ![c] = Append(@, sent[c][Len(@) + 1])]
  /\ UNCHANGED <<sent, ended>>

End(c) ==
  /\ ended' = ended \cup {c}
  /\ UNCHANGED <<sent, delivered>>

Next == \E c \in Chans : Send(c) \/ Deliver(c) \/ End(c)

Spec == Init /\ [][Next]_<<sent, delivered, ended>>
=============================================================================
