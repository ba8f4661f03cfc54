----------------------------- MODULE MCMailbox -----------------------------
(* Four mailboxes, side by side: a ring of two with two messages, used by  *)
(* a thread that both sends and receives; a ring of one that two senders,  *)
(* one with a deadline, contend for; and two rings of one from which two   *)
(* threads receive, one of them with a deadline, or both.                  *)
EXTENDS Mailbox

CONSTANTS t1, t2, t3, m1

VARIABLE unit

One == INSTANCE Mailbox WITH
  Capacity <- 1, Msgs <- {m1}, Senders <- {t1, t2}, Receivers <- {t3}, Timed <- {t1}
Three == INSTANCE Mailbox WITH
  Capacity <- 1, Msgs <- {m1}, Senders <- {t3}, Receivers <- {t1, t2}, Timed <- {t1}
Four == INSTANCE Mailbox WITH
  Capacity <- 1, Msgs <- {m1}, Senders <- {t3}, Receivers <- {t1, t2}, Timed <- {t1, t2}, MaxSeq <- 1

MCvars == <<unit, vars>>

MCInit == \/ unit = "two" /\ Init
          \/ unit = "one" /\ One!Init
          \/ unit = "three" /\ Three!Init
          \/ unit = "four" /\ Four!Init

OneStep(t) == unit = "one" /\ One!Step(t) /\ UNCHANGED unit

MCNext == /\ UNCHANGED unit
          /\ \/ unit = "two" /\ Next
             \/ unit = "one" /\ One!Next
             \/ unit = "three" /\ Three!Next
             \/ unit = "four" /\ Four!Next

\* A thread of the mailbox the senders contend for that can run runs (the scheduler's
\* round robin); nobody need call again, and no deadline need pass.
MCSpec == MCInit /\ [][MCNext]_MCvars /\ \A t \in Threads : WF_MCvars(OneStep(t))

----------------------------------------------------------------------------
\* With fair threads a slot that is free does not stay so beside a waiting sender, nor
\* a message beside a waiting receiver.
EachWaiterServed ==
  /\ unit = "one" /\ len > 0 /\ One!unclaimed("recv") # {} ~> len = 0 \/ One!unclaimed("recv") = {}
  /\ unit = "one" /\ len < 1 /\ One!unclaimed("send") # {} ~> len = 1 \/ One!unclaimed("send") = {}
\* No wakeup is lost when threads time out while they are notified: every waiter can
\* still be notified, every message beside an unclaimed receiver has somebody on the way
\* to it, and so has every free slot beside an unclaimed sender.
NobodyStranded ==
  /\ unit = "two" => NoStrandedWaiter
  /\ unit = "one" => One!NoStrandedWaiter
  /\ unit = "three" => Three!NoStrandedWaiter
  /\ unit = "four" => Four!NoStrandedWaiter
\* A call leaves neither a registration nor a deadline behind, whether it was notified,
\* timed out, or both, so that no waiter queue overflows.
CallsLeaveNothing ==
  /\ unit = "two" => NothingLeftBehind
  /\ unit = "one" => One!NothingLeftBehind
  /\ unit = "three" => Three!NothingLeftBehind
  /\ unit = "four" => Four!NothingLeftBehind
=============================================================================
