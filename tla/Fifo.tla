------------------------------- MODULE Fifo -------------------------------
(***************************************************************************)
(* What a mailbox promises: a bounded first-in first-out queue.            *)
(***************************************************************************)
EXTENDS Naturals, Sequences

CONSTANTS Msgs, Capacity, Threads, None

VARIABLES
  q,      \* the messages in the mailbox
  got     \* the message a receiver holds

Init == q = <<>> /\ got = [t \in Threads |-> None]

Send(m) == Len(q) < Capacity /\ q' = Append(q, m) /\ got' = got
Recv(t) == q # <<>> /\ q' = Tail(q) /\ got' = [got EXCEPT ![t] = Head(q)]
Return(t) == got' = [got EXCEPT ![t] = None] /\ q' = q

Next == (\E m \in Msgs : Send(m)) \/ (\E t \in Threads : Recv(t) \/ Return(t))

Spec == Init /\ [][Next]_<<q, got>>
===========================================================================
