----------------------------- MODULE Mailbox -----------------------------
(***************************************************************************)
(* Mailbox: a ring of messages, a queue of waiting receivers and one of    *)
(* waiting senders, both of exact wait tokens.  Blocking calls retry: a    *)
(* success claims one waiter of the other kind under the mailbox lock and  *)
(* completes its token after the lock is released, passing the claim on to *)
(* the next waiter if that token had completed already.                    *)
(*                                                                         *)
(* Time is abstract: the deadline of a timed call passes at some step, and *)
(* from then on its queued timer event may be taken by the timer IRQ,      *)
(* which completes the token in a step of its own.                         *)
(***************************************************************************)
EXTENDS Naturals, Sequences, FiniteSets, SequencesExt, Waits

CONSTANTS
  Capacity,        \* messages the ring holds
  WaiterCapacity,  \* waiter slots of each queue
  Msgs,            \* payloads
  Senders, Receivers,  \* the threads that may call each side
  Timed,           \* the threads whose calls have a deadline
  None             \* model value: an empty slot, no token, no cause

ASSUME MailboxConstants ==
  /\ Capacity \in Nat \ {0} /\ WaiterCapacity \in Nat
  /\ None \notin Msgs
  /\ Senders \subseteq Threads /\ Receivers \subseteq Threads
  /\ Timed \subseteq Threads

Kinds == {"send", "recv"}
other(kind) == IF kind = "send" THEN "recv" ELSE "send"

VARIABLES
  buffer, head, tail, len,   \* the ring
  waiters,      \* per kind: send_waiters and recv_waiters
  timers,       \* tokens with a deadline in a time queue
  fired,        \* tokens whose deadline the timer IRQ took and will complete
  pc,           \* per thread: its place in the call
  call,         \* per thread: [kind, msg, timed] of the call under way
  passed,       \* per thread: the deadline of its timed call has passed
  claim,        \* per thread: the waiter it is to complete
  cause,        \* per thread: why its wait ended
  got,          \* per thread: the message a receive returns
  panic

ring == <<buffer, head, tail, len>>
control == <<buffer, head, tail, len, waiters>>
locals == <<pc, call, passed, claim, cause, got>>
vars == <<phase, seq, control, timers, fired, locals, panic>>

Init ==
  /\ WaitsInit
  /\ buffer = [i \in 0..(Capacity - 1) |-> None] /\ head = 0 /\ tail = 0 /\ len = 0
  /\ waiters = [k \in Kinds |-> <<>>]
  /\ timers = {} /\ fired = {}
  /\ pc = [t \in Threads |-> "idle"]
  /\ call = [t \in Threads |-> None]
  /\ passed = [t \in Threads |-> FALSE]
  /\ claim = [t \in Threads |-> None]
  /\ cause = [t \in Threads |-> None]
  /\ got = [t \in Threads |-> None]
  /\ panic = FALSE

\* A call that returns forgets its arguments.
goto(t, place) ==
  /\ pc' = [pc EXCEPT ![t] = place]
  /\ call' = IF place = "idle" THEN [call EXCEPT ![t] = None] ELSE call
  /\ passed' = IF place = "idle" THEN [passed EXCEPT ![t] = FALSE] ELSE passed

\* send, recv, send_until_counter, recv_until_counter.
Call(t, kind, msg) ==
  /\ pc[t] = "idle"
  /\ pc' = [pc EXCEPT ![t] = "try"]
  /\ call' = [call EXCEPT ![t] = [kind |-> kind, msg |-> msg, timed |-> t \in Timed]]
  /\ got' = [got EXCEPT ![t] = None]
  /\ UNCHANGED <<phase, seq, control, timers, fired, passed, claim, cause, panic>>

\* should_wait: the condition a call of this kind waits on.
should_wait(kind) == IF kind = "send" THEN len = Capacity ELSE len = 0

\* claim_waiter, in the critical section of a success or of a passed-on claim.
claim_waiter(t, kind) ==
  IF waiters[kind] = <<>>
  THEN /\ claim' = [claim EXCEPT ![t] = None] /\ goto(t, "idle")
       /\ waiters' = waiters
  ELSE /\ claim' = [claim EXCEPT ![t] = Head(waiters[kind])] /\ goto(t, "cancel")
       /\ waiters' = [waiters EXCEPT ![kind] = Tail(@)]

TrySend(t) ==
  /\ pc[t] = "try" /\ call[t].kind = "send" /\ ~should_wait("send")
  /\ buffer' = [buffer EXCEPT ![tail] = call[t].msg]
  /\ tail' = (tail + 1) % Capacity
  /\ len' = len + 1 /\ head' = head
  /\ claim_waiter(t, "recv")
  /\ UNCHANGED <<phase, seq, timers, fired, cause, got, panic>>

TryRecvNewest(t) ==
  /\ pc[t] = "try" /\ call[t].kind = "recv" /\ ~should_wait("recv")
  /\ LET last == (tail + Capacity - 1) % Capacity IN
       /\ got' = [got EXCEPT ![t] = buffer[last]]
       /\ buffer' = [buffer EXCEPT ![last] = None]
       /\ tail' = last
  /\ len' = len - 1 /\ head' = head
  /\ claim_waiter(t, "send")
  /\ UNCHANGED <<phase, seq, timers, fired, cause, panic>>
TryRecv(t) ==
  /\ pc[t] = "try" /\ call[t].kind = "recv" /\ ~should_wait("recv")
  /\ got' = [got EXCEPT ![t] = buffer[head]]
  /\ panic' = (panic \/ buffer[head] = None)
  /\ buffer' = [buffer EXCEPT ![head] = None]
  /\ head' = (head + 1) % Capacity
  /\ len' = len - 1 /\ tail' = tail
  /\ claim_waiter(t, "send")
  /\ UNCHANGED <<phase, seq, timers, fired, cause>>

\* Full or Empty; a timed call then looks at the clock.
TryFails(t) ==
  /\ pc[t] = "try" /\ should_wait(call[t].kind)
  /\ goto(t, IF call[t].timed THEN "check" ELSE "enter")
  /\ UNCHANGED <<phase, seq, control, timers, fired, claim, cause, got, panic>>

CheckDeadline(t) ==
  /\ pc[t] = "check"
  /\ goto(t, IF passed[t] THEN "idle" ELSE "enter")
  /\ UNCHANGED <<phase, seq, control, timers, fired, claim, cause, got, panic>>

\* on_mailbox_wait_sync, under the mailbox lock: re-check, prepare, publish.
MailboxWaitUnchecked(t) ==
  /\ pc[t] = "enter"
  /\ LET kind == call[t].kind IN
       /\ prepare_wait(t)
       /\ waiters' = [waiters EXCEPT ![kind] = Append(@, token(t)')]
       /\ timers' = IF call[t].timed THEN timers \cup {token(t)'} ELSE timers
       /\ goto(t, "prepared")
  /\ UNCHANGED <<ring, fired, claim, cause, got, panic>>
MailboxWait(t) ==
  /\ pc[t] = "enter"
  /\ LET kind == call[t].kind IN
       \/ /\ ~should_wait(kind) \/ (call[t].timed /\ passed[t])
          /\ goto(t, "try")
          /\ UNCHANGED <<phase, seq, waiters, timers, panic>>
       \/ /\ should_wait(kind) /\ ~(call[t].timed /\ passed[t])
          /\ prepare_wait(t)
          /\ panic' = (panic \/ Len(waiters[kind]) = WaiterCapacity
                             \/ \E k \in DOMAIN waiters[kind] : waiters[kind][k] = token(t)')
          /\ waiters' = [waiters EXCEPT ![kind] = Append(@, token(t)')]
          /\ timers' = IF call[t].timed THEN timers \cup {token(t)'} ELSE timers
          /\ goto(t, "prepared")
  /\ UNCHANGED <<ring, fired, claim, cause, got>>

\* commit_wait, with the mailbox lock released.
CommitWait(t) ==
  /\ pc[t] = "prepared"
  /\ \/ commit_blocks(t) /\ goto(t, "blocked") /\ cause' = cause
     \/ finish_wait(t) /\ goto(t, "remove") /\ cause' = [cause EXCEPT ![t] = phase[t]]
  /\ UNCHANGED <<control, timers, fired, claim, got, panic>>

\* The woken thread runs again and finishes its wait.
Resume(t) ==
  /\ pc[t] = "blocked" /\ finish_wait(t)
  /\ cause' = [cause EXCEPT ![t] = phase[t]]
  /\ goto(t, "remove")
  /\ UNCHANGED <<control, timers, fired, claim, got, panic>>

\* remove_waiter withdraws the registration; a timed call may now give up.
RemoveWaiter(t) ==
  /\ pc[t] = "remove"
  /\ waiters' = [waiters EXCEPT ![call[t].kind] = SelectSeq(@, LAMBDA w : w # token(t))]
  /\ goto(t, IF call[t].timed /\ cause[t] = "Timeout" THEN "idle" ELSE "try")
  /\ cause' = [cause EXCEPT ![t] = None]
  /\ UNCHANGED <<phase, seq, ring, timers, fired, claim, got, panic>>

----------------------------------------------------------------------------
(* complete_claimed_waiters: three locks, one after another.               *)

KeepDeadline(t) ==
  /\ pc[t] = "cancel" /\ goto(t, "complete")
  /\ UNCHANGED <<phase, seq, control, timers, fired, claim, cause, got, panic>>
CancelDeadline(t) ==
  /\ pc[t] = "cancel"
  /\ timers' = timers \ {claim[t]}
  /\ goto(t, "complete")
  /\ UNCHANGED <<phase, seq, control, fired, claim, cause, got, panic>>

CompleteClaimedOnce(t) ==
  /\ pc[t] = "complete"
  /\ complete_wait(claim[t], "Notified")
  /\ goto(t, "idle") /\ claim' = [claim EXCEPT ![t] = None]
  /\ UNCHANGED <<control, timers, fired, cause, got, panic>>
CompleteClaimed(t) ==
  /\ pc[t] = "complete"
  /\ complete_wait(claim[t], "Notified")
  /\ \/ /\ completes(claim[t])
        /\ goto(t, "idle") /\ claim' = [claim EXCEPT ![t] = None]
     \/ /\ ~completes(claim[t])
        /\ goto(t, "reclaim") /\ claim' = claim
  /\ UNCHANGED <<control, timers, fired, cause, got, panic>>

\* AlreadyCompleted or Stale: the notification goes to the next waiter.
Reclaim(t) ==
  /\ pc[t] = "reclaim"
  /\ claim_waiter(t, other(call[t].kind))
  /\ UNCHANGED <<phase, seq, ring, timers, fired, cause, got, panic>>

----------------------------------------------------------------------------
(* The clock and the timer IRQ of the waiter's CPU.                        *)

DeadlinePasses(t) ==
  /\ pc[t] # "idle" /\ call[t].timed /\ ~passed[t]
  /\ passed' = [passed EXCEPT ![t] = TRUE]
  /\ UNCHANGED <<phase, seq, control, timers, fired, pc, call, claim, cause, got, panic>>

TakeExpired(tok) ==
  /\ tok \in timers /\ passed[tok.thread]
  /\ timers' = timers \ {tok} /\ fired' = fired \cup {tok}
  /\ UNCHANGED <<phase, seq, control, locals, panic>>

CompleteTimeout(tok) ==
  /\ tok \in fired /\ fired' = fired \ {tok}
  /\ complete_wait(tok, "Timeout")
  /\ UNCHANGED <<control, timers, locals, panic>>

\* The steps of a call under way.
Step(t) ==
  \/ TrySend(t) \/ TryRecv(t) \/ TryFails(t) \/ CheckDeadline(t)
  \/ MailboxWait(t) \/ CommitWait(t) \/ Resume(t) \/ RemoveWaiter(t)
  \/ CancelDeadline(t) \/ CompleteClaimed(t) \/ Reclaim(t)

Next ==
  \/ \E t \in Senders, m \in Msgs : Call(t, "send", m)
  \/ \E t \in Receivers : Call(t, "recv", None)
  \/ \E t \in Threads : Step(t) \/ DeadlinePasses(t)
  \/ \E tok \in timers : TakeExpired(tok)
  \/ \E tok \in fired : CompleteTimeout(tok)

Spec == Init /\ [][Next]_vars

----------------------------------------------------------------------------
(* Properties.                                                             *)

\* The ring, the waiter queues and the program counters have their types.
TypeOK ==
  /\ buffer \in [0..(Capacity - 1) -> Msgs \cup {None}]
  /\ head \in 0..(Capacity - 1) /\ tail \in 0..(Capacity - 1) /\ len \in 0..Capacity
  /\ \A k \in Kinds : waiters[k] \in Seq(Tokens)
  /\ timers \subseteq Tokens /\ fired \subseteq Tokens
  /\ phase \in [Threads -> Phases] /\ seq \in [Threads -> 0..MaxSeq]
  /\ claim \in [Threads -> Tokens \cup {None}]
  /\ cause \in [Threads -> Causes \cup {None}]
  /\ got \in [Threads -> Msgs \cup {None}]

\* No slot is found empty while len > 0, and no registration is queued twice or
\* finds its queue full when there is a waiter slot for every thread.
NoPanic == ~panic

\* The messages in the order they are to be received.
contents == [k \in 1..len |-> buffer[(head + k - 1) % Capacity]]
F == INSTANCE Fifo WITH q <- contents

\* The ring implements a bounded FIFO queue: messages are neither lost, duplicated
\* nor reordered, whatever waits, times out or is woken in vain.
ImplementsFifo == F!Spec

\* Threads that are in the middle of a call of this kind and will look at the ring
\* again before they block: awake, woken, or claimed by somebody who wakes them.
about_to_try(kind) ==
  {t \in Threads : pc[t] \notin {"idle", "cancel", "complete", "reclaim"} /\ call[t].kind = kind
                   /\ (pc[t] \in {"prepared", "blocked"} => phase[t] = "Notified")
                   /\ (pc[t] = "remove" => cause[t] = "Notified")}
handing_over(kind) ==
  {t \in Threads : pc[t] \in {"cancel", "complete", "reclaim"} /\ call[t].kind = other(kind)}
\* Waiters that nobody has claimed or timed out.
unclaimed(kind) ==
  {t \in Threads : /\ phase[t] \in {"Prepared", "Blocked"}
                   /\ \E k \in DOMAIN waiters[kind] : waiters[kind][k] = token(t)}

\* A waiting thread can still be notified: its token is registered or claimed.
WaiterIsReachable ==
  \A t \in Threads : phase[t] \in {"Prepared", "Blocked"} =>
    \/ \E k \in DOMAIN waiters[call[t].kind] : waiters[call[t].kind][k] = token(t)
    \/ \E u \in Threads : claim[u] = token(t)

\* No wakeup is lost: every waiter can still be notified, and while a receiver waits
\* unclaimed every message in the ring has somebody on the way to it, and likewise
\* every free slot while a sender waits.  A claimed waiter that timed out must pass its
\* notification on.
NoStrandedWaiter ==
  /\ WaiterIsReachable
  /\ unclaimed("recv") # {} =>
       len <= Cardinality(about_to_try("recv")) + Cardinality(handing_over("recv"))
  /\ unclaimed("send") # {} =>
       Capacity - len <= Cardinality(about_to_try("send")) + Cardinality(handing_over("send"))

\* A call leaves nothing behind: outside a wait no registration and no deadline of
\* the thread is queued, so neither queue fills up with the dead and no registration
\* finds its queue full.
NothingLeftBehind ==
  /\ TypeOK /\ NoPanic
  /\ \A t \in Threads : pc[t] \in {"idle", "try", "check", "enter"} =>
       /\ \A k \in Kinds : \A j \in DOMAIN waiters[k] : waiters[k][j].thread # t
       /\ \A tok \in timers : tok.thread # t
==========================================================================
