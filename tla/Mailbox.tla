------------------------------- MODULE Mailbox -------------------------------
(***************************************************************************)
(* What the relay promises the owner of a queue ("delete-on-delivery       *)
(* store-and-forward", handle_rejoin_queue): the messages accepted for a   *)
(* queue leave it once each and in the order they were accepted.  A message *)
(* may wait, and while one waits no later one may overtake it; a full       *)
(* mailbox gives up its oldest message.                                     *)
(***************************************************************************)
EXTENDS Integers, Sequences

CONSTANTS Queue,  \* the queues of the relay
          Cap     \* most messages that wait in one queue

VARIABLES accepted,  \* number of messages accepted for each queue
          waiting,   \* the messages that wait, by number, oldest first
          emitted    \* the messages sent on to the owner, by number, in order

mailboxVars == <<accepted, waiting, emitted>>

Init ==
  /\ accepted = [q \in Queue |-> 0]
  /\ waiting = [q \in Queue |-> <<>>]
  /\ emitted = [q \in Queue |-> <<>>]

\* The newest Cap messages of a sequence.
Newest(s) == IF Len(s) > Cap THEN SubSeq(s, Len(s) - Cap + 1, Len(s)) ELSE s

\* A message is accepted and waits.
Hold(q) ==
  /\ accepted' = [accepted EXCEPT ![q] = @ + 1]
  /\ waiting' = [waiting EXCEPT ![q] = Newest(Append(@, accepted[q] + 1))]
  /\ UNCHANGED emitted

\* A message is accepted and sent on at once, which it may be only when no
\* earlier message waits.
Pass(q) ==
  /\ waiting[q] = <<>>
  /\ accepted' = [accepted EXCEPT ![q] = @ + 1]
  /\ emitted' = [emitted EXCEPT ![q] = Append(@, accepted[q] + 1)]
  /\ UNCHANGED waiting

\* Everything that waits is sent on.
Drain(q) ==
  /\ emitted' = [emitted EXCEPT ![q] = @ \o waiting[q]]
  /\ waiting' = [waiting EXCEPT ![q] = <<>>]
  /\ UNCHANGED accepted

Next == \E q \in Queue : Hold(q) \/ Pass(q) \/ Drain(q)

Spec == Init /\ [][Next]_mailboxVars
=============================================================================
