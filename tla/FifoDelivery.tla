---------------------------- MODULE FifoDelivery ----------------------------
(***************************************************************************)
(* What the message layers of the crate promise their users: on every      *)
(* channel, what one side receives is what the other has sent, complete,   *)
(* in order and each item once.  It is the abstract specification that     *)
(* SspiChannel, UdpTunnel and Viewer are shown to implement.               *)
(***************************************************************************)
EXTENDS Integers, Sequences

CONSTANT Channel

VARIABLES sent,            \* all items given to each channel
          received         \* all items taken from it

Init ==
  /\ sent = [c \in Channel |-> <<>>]
  /\ received = [c \in Channel |-> <<>>]

\* One more item, whatever it is
Send(c) ==
  /\ Len(sent'[c]) = Len(sent[c]) + 1
  /\ sent' = [sent EXCEPT ![c] = Append(@, sent'[c][Len(sent[c]) + 1])]
  /\ UNCHANGED received

\* The next n items at once
Deliver(c, n) ==
  /\ received' = [received EXCEPT ![c] = SubSeq(sent[c], 1, Len(@) + n)]
  /\ UNCHANGED sent

Next ==
  \E c \in Channel :
    \/ Send(c)
    \/ \E n \in 1..(Len(sent[c]) - Len(received[c])) : Deliver(c, n)

Spec == Init /\ [][Next]_<<sent, received>>
=============================================================================
