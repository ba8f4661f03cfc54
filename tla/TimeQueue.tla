---------------------------- MODULE TimeQueue ----------------------------
(***************************************************************************)
(* One CPU's TimeState: the binary heap of deadlines, the one-shot timer   *)
(* it arms, and the timer interrupt that transfers expired events to the   *)
(* scheduler and takes the quantum update back.                            *)
(*                                                                         *)
(* Two actors: the owner CPU schedules, cancels, sleeps and takes its      *)
(* interrupt (with IRQs masked, so nothing of its own comes between the    *)
(* two locked sections of the handler), and another CPU cancels the        *)
(* deadline of a wait it has notified.  Every operation holds the queue's  *)
(* lock, so each is one step; the handler is two.                          *)
(***************************************************************************)
EXTENDS Naturals, Sequences, SequencesExt

CONSTANTS
  Waits, Quanta,    \* WaitDeadline and QuantumExpired events, as their sort keys
  Capacity,         \* slots reserved for the heap and the expired buffer
  MaxTime,          \* bound: the counter stops here
  None              \* model value: an absent deadline, a missing buffer

Times == 0..MaxTime
TimedEvent == Waits \cup Quanta

\* TimedEvent::sort_key, compared as the tuples are in the code.
lex_less(a, b) ==
  \E k \in 1..4 : a[k] < b[k] /\ \A j \in 1..(k - 1) : a[j] = b[j]

\* The quantum of the thread that waits: same slot and generation.
quantum_of(wait) == <<1, wait[2], wait[3], 0>>

ASSUME KeysAreTuples ==
  /\ \A e \in Waits : e[1] = 0
  /\ \A e \in Quanta : e[1] = 1 /\ e[4] = 0
  /\ \A e \in Waits : quantum_of(e) \in Quanta

VARIABLES
  now,          \* the architected counter
  queue,        \* DeadlineQueue: the heap, entry i of the code at i + 1
  armed,        \* the comparator: armed_timer_deadline, or None when disarmed
  dispatching,  \* dispatching_irq
  expired,      \* the events transferred to the scheduler
  stale,        \* another CPU has cancelled since the timer was programmed
  panic

vars == <<now, queue, armed, dispatching, expired, stale, panic>>

----------------------------------------------------------------------------
(* DeadlineQueue: indices are those of the code plus one.                  *)

less_by_deadline(q, i, j) == q[i].deadline < q[j].deadline
less(q, i, j) ==
  \/ q[i].deadline < q[j].deadline
  \/ q[i].deadline = q[j].deadline /\ lex_less(q[i].event, q[j].event)
swap(q, i, j) == [q EXCEPT ![i] = q[j], ![j] = q[i]]
parent(i) == i \div 2
left(i) == 2 * i

RECURSIVE sift_up(_, _)
sift_up(q, i) ==
  IF i > 1 /\ less(q, i, parent(i))
  THEN sift_up(swap(q, i, parent(i)), parent(i))
  ELSE q

best_child(q, i) ==
  LET l == left(i) IN
  IF l + 1 <= Len(q) /\ less(q, l + 1, l) THEN l + 1 ELSE l

RECURSIVE sift_down(_, _)
sift_down(q, i) ==
  IF left(i) <= Len(q) /\ less(q, best_child(q, i), i)
  THEN sift_down(swap(q, i, best_child(q, i)), best_child(q, i))
  ELSE q

find_event(q, e) == {i \in DOMAIN q : q[i].event = e}

schedule_queue(q, t, e) ==
  IF find_event(q, e) = {}
  THEN sift_up(Append(q, [deadline |-> t, event |-> e]), Len(q) + 1)
  ELSE LET i == CHOOSE i \in find_event(q, e) : TRUE
           moved == [q EXCEPT ![i].deadline = t]
       IN IF t < q[i].deadline THEN sift_up(moved, i)
          ELSE IF t > q[i].deadline THEN sift_down(moved, i)
          ELSE moved

remove_at(q, i) ==
  LET rest == Front(swap(q, i, Len(q))) IN
  IF i > Len(rest) THEN rest
  ELSE IF i > 1 /\ less(rest, i, parent(i)) THEN sift_up(rest, i)
  ELSE sift_down(rest, i)

cancel(q, e) ==
  IF find_event(q, e) = {} THEN q
  ELSE remove_at(q, CHOOSE i \in find_event(q, e) : TRUE)

next_deadline(q) == IF q = <<>> THEN None ELSE Head(q).deadline

\* take_expired pops while the head has expired.
expires(q, t) == q # <<>> /\ Head(q).deadline <= t
RECURSIVE pop_all(_, _, _)
pop_all(q, t, out) ==
  IF expires(q, t) THEN pop_all(remove_at(q, 1), t, Append(out, Head(q).event))
  ELSE [queue |-> q, events |-> out]

----------------------------------------------------------------------------
(* TimeState.                                                              *)

Init ==
  /\ now = 0 /\ queue = <<>> /\ armed = None /\ dispatching = FALSE
  /\ expired = <<>> /\ stale = FALSE /\ panic = FALSE

Tick ==
  /\ now < MaxTime /\ now' = now + 1
  /\ UNCHANGED <<queue, armed, dispatching, expired, stale, panic>>

rearm_timer_unless_armed(q) == armed' = (IF armed # None THEN armed ELSE next_deadline(q)) /\ stale' = FALSE
\* rearm_timer: program the comparator for the head of the new queue.
rearm_timer(q) == armed' = next_deadline(q) /\ stale' = FALSE
keep_timer == UNCHANGED <<armed, stale>>

\* The deadline heap has no room for a new event: the code panics.
full(e) == find_event(queue, e) = {} /\ Len(queue) = Capacity

ScheduleEvent(t, e) ==
  /\ ~dispatching /\ ~panic
  /\ panic' = full(e)
  /\ queue' = IF full(e) THEN queue ELSE schedule_queue(queue, t, e)
  /\ rearm_timer(queue')
  /\ UNCHANGED <<now, dispatching, expired>>

\* cancel_event on the owner CPU: a miss leaves the timer alone.
CancelEvent(e) ==
  /\ ~dispatching /\ ~panic
  /\ queue' = cancel(queue, e)
  /\ IF queue' = queue THEN keep_timer ELSE rearm_timer(queue')
  /\ UNCHANGED <<now, dispatching, expired, panic>>

\* cancel_event on another CPU, also while the owner dispatches.
CancelEventRemote(e) ==
  /\ ~panic
  /\ queue' = cancel(queue, e)
  /\ armed' = armed
  /\ stale' = (stale \/ queue' # queue)
  /\ UNCHANGED <<now, dispatching, expired, panic>>

\* publish_sleep: the quantum goes and the deadline comes in one section.
PublishSleep(t, wait) ==
  /\ ~dispatching /\ ~panic
  /\ LET q == cancel(queue, quantum_of(wait))
         room == find_event(q, wait) # {} \/ Len(q) < Capacity
     IN /\ panic' = ~room
        /\ queue' = IF room THEN schedule_queue(q, t, wait) ELSE q
  /\ rearm_timer(queue')
  /\ UNCHANGED <<now, dispatching, expired>>

\* The interrupt is asserted as long as the comparator is at or below the counter.
asserted == armed # None /\ armed <= now /\ ~dispatching

TakeExpired ==
  /\ asserted /\ ~panic
  /\ LET popped == pop_all(queue, now, expired) IN
       queue' = popped.queue /\ expired' = popped.events
  /\ dispatching' = TRUE
  /\ keep_timer
  /\ UNCHANGED <<now, panic>>

\* The second locked section of on_timer_interrupt.
FinishDispatch(obsolete, t, ensure) ==
  /\ dispatching /\ ~panic
  /\ LET q == cancel(queue, obsolete)
         insert == ensure # None /\ find_event(q, ensure) = {}
         room == Len(q) < Capacity
     IN /\ panic' = (insert /\ ~room)
        /\ queue' = IF insert /\ room THEN schedule_queue(q, t, ensure) ELSE q
  /\ expired' = <<>> /\ dispatching' = FALSE
  /\ rearm_timer(queue')
  /\ UNCHANGED now

Next ==
  \/ Tick
  \/ \E t \in Times, e \in TimedEvent : ScheduleEvent(t, e)
  \/ \E e \in TimedEvent : CancelEvent(e)
  \/ \E e \in Waits : CancelEventRemote(e)
  \/ \E t \in Times, w \in Waits : PublishSleep(t, w)
  \/ TakeExpired
  \/ \E obsolete, ensure \in Quanta \cup {None}, t \in Times :
       (obsolete # ensure \/ ensure = None) /\ FinishDispatch(obsolete, t, ensure)

Spec == Init /\ [][Next]_vars

\* The counter advances, an asserted interrupt is taken unless the timer is moved
\* before, and its handler ends.
Fairness == <>(now = MaxTime) /\ []<>(~asserted) /\ []<>(~dispatching)
FairSpec == Spec /\ Fairness

----------------------------------------------------------------------------
(* Properties.                                                             *)

\* DeadlineQueue keeps a heap, whatever is updated or removed in its middle, and
\* holds an event once.
HeapOrdered ==
  /\ \A i \in DOMAIN queue : i > 1 => ~less(queue, i, parent(i))
  /\ \A i, j \in DOMAIN queue : queue[i].event = queue[j].event => i = j

\* Outside the handler the timer is never armed later than the earliest deadline.
ArmedInTime ==
  ~dispatching /\ ~panic /\ queue # <<>> => armed # None /\ armed <= Head(queue).deadline

\* "A remote cancellation can leave one harmless early timer interrupt": no other
\* interrupt finds nothing to dispatch.
EarlyOnlyAfterRemoteCancel ==
  [][~dispatching /\ dispatching' /\ expired' = <<>> => stale]_vars

deadline_of(e) ==
  IF find_event(queue, e) = {} THEN None
  ELSE queue[CHOOSE i \in find_event(queue, e) : TRUE].deadline
D == INSTANCE Deadlines WITH
       Events <- TimedEvent, KeyLess <- lex_less, batch <- expired,
       deadline <- [e \in TimedEvent |-> deadline_of(e)]

\* The heap implements a deadline per event, and the interrupt takes exactly what
\* has expired, in deadline order (equal deadlines: waits first, by thread).
ImplementsDeadlines == D!Spec

\* Every queued event leaves the queue: it is dispatched once the counter has
\* passed its deadline, unless it is cancelled.
EventFires ==
  \A e \in TimedEvent : deadline_of(e) # None ~> deadline_of(e) = None

\* The heap and the timer serve the events: the heap stays ordered whatever is moved,
\* the timer is armed in time, interrupts in vain only after a remote cancellation, and
\* every event fires or is cancelled.
TimerServes ==
  [](HeapOrdered /\ ArmedInTime) /\ EarlyOnlyAfterRemoteCancel /\ EventFires
==========================================================================
