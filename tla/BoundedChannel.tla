--------------------------- MODULE BoundedChannel ---------------------------
(***************************************************************************)
(* What the message queue of lab 25 promises: messages are delivered once, *)
(* in the order in which they were accepted, at most Capacity of them are  *)
(* under way, and after the channel is closed nothing is accepted or       *)
(* delivered; what is left may be thrown away.                             *)
(***************************************************************************)
EXTENDS Integers, Sequences

CONSTANTS Receivers, Msgs, Capacity, NoMsg

VARIABLES chan,      \* accepted and not yet delivered, oldest first
          closed,    \* the channel was closed
          received   \* the last message delivered to each receiver

Init ==
  /\ chan = <<>>
  /\ closed = FALSE
  /\ received = [r \in Receivers |-> NoMsg]

Send(m) ==
  /\ ~closed
  /\ Len(chan) < Capacity
  /\ chan' = Append(chan, m)
  /\ UNCHANGED <<closed, received>>

Receive(r) ==
  /\ ~closed
  /\ chan # <<>>
  /\ chan' = Tail(chan)
  /\ received' = [received EXCEPT ![r] = Head(chan)]
  /\ UNCHANGED closed

Close ==
  /\ closed' = TRUE
  /\ UNCHANGED <<chan, received>>

Discard ==
  /\ closed
  /\ chan' = <<>>
  /\ UNCHANGED <<closed, received>>

Next ==
  \/ \E m \in Msgs : Send(m)
  \/ \E r \in Receivers : Receive(r)
  \/ Close
  \/ Discard

Spec == Init /\ [][Next]_<<chan, closed, received>>
=============================================================================
