---------------------------- MODULE ChannelSpec ----------------------------
(***************************************************************************)
(* What a mailbox and a message queue promise their callers, with no ring, *)
(* no nodes, no threads that wait and no interrupts: every message goes to *)
(* one receiver, in the order of the sends (urgent messages first), and    *)
(* is still what was sent when the receive returns it.                     *)
(***************************************************************************)
EXTENDS Integers, Sequences

CONSTANTS
  Thread,
  Message,     \* the messages that are sent to the tail
  Urgents,     \* the messages that are sent to the head
  Nothing,     \* no message
  Capacity     \* the most messages the channel holds

VARIABLES
  chan,        \* the messages that were sent and not received
  hand         \* the message a receive has taken and not yet returned

vars == <<chan, hand>>

Init == chan = << >> /\ hand = [t \in Thread |-> Nothing]

Send(m) == Len(chan) < Capacity /\ chan' = Append(chan, m) /\ UNCHANGED hand

Urgent(m) == Len(chan) < Capacity /\ chan' = <<m>> \o chan /\ UNCHANGED hand

Receive(t) ==
  /\ chan # << >> /\ hand[t] = Nothing
  /\ hand' = [hand EXCEPT ![t] = Head(chan)]
  /\ chan' = Tail(chan)

Return(t) ==
  /\ hand[t] # Nothing
  /\ hand' = [hand EXCEPT ![t] = Nothing]
  /\ UNCHANGED chan

Reset == chan' = << >> /\ UNCHANGED hand

Next ==
  \/ (\E m \in Message : Send(m)) \/ (\E m \in Urgents : Urgent(m))
  \/ \E t \in Thread : Receive(t) \/ Return(t)
  \/ Reset

Spec == Init /\ [][Next]_vars

=============================================================================
