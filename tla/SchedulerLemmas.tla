-------------------------- MODULE SchedulerLemmas --------------------------
(***************************************************************************)
(* Lemmas about the operators of the scheduler model, for any number of    *)
(* CPUs and threads.                                                       *)
(*                                                                         *)
(* Each operator on scheduler states has one lemma: it takes a `Good'      *)
(* state to a `Good' state and keeps what its callers rely on (`Keeps').   *)
(***************************************************************************)
EXTENDS Scheduler, SequenceTheorems, TLAPS

\* Identifiers of slots that were published at least once.
IssuedIds(s) == {t \in ThreadId : s.gen[t.slot] >= 1}

\* The part of the inductive invariant that one scheduler state carries: M are the
\* CPUs that have acknowledged an SGI and not yet handled it, O the CPUs whose IPI
\* the operation under way has still to request.
Issued(s) ==
  \A c \in Cpus :
    /\ s.current[c] \in IssuedIds(s) \cup {None}
    /\ s.idle[c] \in IssuedIds(s) \cup {None}
    /\ s.current[c] # None => s.idle[c] # None
    /\ s.ready[c] \in Seq(IssuedIds(s))
    /\ s.remote[c] \in Seq(IssuedIds(s))

Notified(s, M, O) ==
  \A c \in Cpus :
    /\ s.remote[c] # <<>> \/ s.retired[c] # None => s.ipi[c] \/ c \in O
    /\ s.ipi[c] => s.sgi[c] \/ c \in M

Good(s, M, O) == s \in SchedState /\ Issued(s) /\ Notified(s, M, O)

\* What callers rely on: a context that is set up stays set up ...
Stays(s, r) ==
  /\ r.online = s.online /\ r.idle = s.idle
  /\ \A c \in Cpus : s.current[c] # None => r.current[c] # None

\* ... and, for most operators, no slot is published and no thread retires.
Keeps(s, r) == Stays(s, r) /\ r.gen = s.gen /\ r.retired = s.retired

LEMMA KeepsTransitive ==
  ASSUME NEW s, NEW r, NEW q, Keeps(s, r), Keeps(r, q)
  PROVE  Keeps(s, q)
BY DEF Keeps, Stays

LEMMA KeepsIssued ==
  ASSUME NEW s, NEW r, Keeps(s, r)
  PROVE  IssuedIds(r) = IssuedIds(s)
BY DEF Keeps, IssuedIds

\* Most steps change nothing the invariant speaks about.
Same(s, r) ==
  /\ r.gen = s.gen /\ r.online = s.online /\ r.idle = s.idle /\ r.current = s.current
  /\ r.ready = s.ready /\ r.remote = s.remote /\ r.retired = s.retired
  /\ r.ipi = s.ipi /\ r.sgi = s.sgi

LEMMA SameIsGood ==
  ASSUME NEW M, NEW O, NEW s, Good(s, M, O), NEW r \in SchedState, Same(s, r)
  PROVE  Good(r, M, O) /\ Keeps(s, r)
<1>1. Keeps(s, r)
  BY DEF Same, Keeps, Stays
<1>2. IssuedIds(r) = IssuedIds(s)
  BY <1>1, KeepsIssued
<1>3. Issued(r)
  BY <1>2 DEF Good, Same, Issued
<1>4. Notified(r, M, O)
  BY DEF Good, Same, Notified
<1> QED
  BY <1>1, <1>3, <1>4 DEF Good

----------------------------------------------------------------------------
(* Steps that change neither a queue nor a context.                        *)

LEMMA AssertThat ==
  ASSUME NEW M, NEW O, NEW s, Good(s, M, O), NEW ok
  PROVE  Good(assert_that(s, ok), M, O) /\ Keeps(s, assert_that(s, ok))
<1>1. assert_that(s, ok) \in SchedState /\ Same(s, assert_that(s, ok))
  BY ZenonT(60) DEF assert_that, panics, Good, SchedState, Same
<1> QED
  BY <1>1, SameIsGood

LEMMA RequestReschedule ==
  ASSUME NEW M, NEW O, NEW s, Good(s, M, O), NEW c
  PROVE  Good(request_reschedule(s, c), M, O) /\ Keeps(s, request_reschedule(s, c))
<1>1. request_reschedule(s, c) \in SchedState /\ Same(s, request_reschedule(s, c))
  BY ZenonT(60) DEF request_reschedule, Good, SchedState, Same
<1> QED
  BY <1>1, SameIsGood

LEMMA ConsumeCheckpoint ==
  ASSUME NEW M, NEW O, NEW s, Good(s, M, O), NEW c
  PROVE  Good(consume_checkpoint(s, c), M, O) /\ Keeps(s, consume_checkpoint(s, c))
<1>1. consume_checkpoint(s, c) \in SchedState /\ Same(s, consume_checkpoint(s, c))
  BY ZenonT(60) DEF consume_checkpoint, Good, SchedState, Same
<1> QED
  BY <1>1, SameIsGood

LEMMA ScheduleEvent ==
  ASSUME NEW M, NEW O, NEW s, Good(s, M, O), NEW c, NEW e \in TimedEvent
  PROVE  Good(schedule_event(s, c, e), M, O) /\ Keeps(s, schedule_event(s, c, e))
<1>1. schedule_event(s, c, e) \in SchedState /\ Same(s, schedule_event(s, c, e))
  BY ZenonT(60) DEF schedule_event, Good, SchedState, Same
<1> QED
  BY <1>1, SameIsGood

LEMMA CancelEvent ==
  ASSUME NEW M, NEW O, NEW s, Good(s, M, O), NEW c, NEW e
  PROVE  /\ Good(cancel_event(s, c, e), M, O) /\ Keeps(s, cancel_event(s, c, e))
         /\ Good(cancel_event_remote(s, c, e), M, O) /\ Keeps(s, cancel_event_remote(s, c, e))
<1>1. cancel_event(s, c, e) \in SchedState /\ Same(s, cancel_event(s, c, e))
  BY ZenonT(60) DEF cancel_event, Good, SchedState, Same
<1>2. cancel_event_remote(s, c, e) \in SchedState /\ Same(s, cancel_event_remote(s, c, e))
  BY ZenonT(60) DEF cancel_event_remote, Good, SchedState, Same
<1> QED
  BY <1>1, <1>2, SameIsGood

LEMMA EnsureQuantumEvent ==
  ASSUME NEW M, NEW O, NEW s, Good(s, M, O), NEW c \in Cpus, s.current[c] # None
  PROVE  Good(ensure_quantum_event(s, c), M, O) /\ Keeps(s, ensure_quantum_event(s, c))
<1>1. s.current[c] \in ThreadId
  BY ZenonT(60) DEF Good, Issued, IssuedIds
<1>2. QuantumExpired(running_thread(s, c)) \in TimedEvent
  BY <1>1 DEF QuantumExpired, running_thread, TimedEvent
<1>3. Keeps(s, s)
  BY DEF Keeps, Stays
<1> QED
  BY <1>2, <1>3, ScheduleEvent DEF ensure_quantum_event

LEMMA ReplaceQuantumEvent ==
  ASSUME NEW M, NEW O, NEW s, Good(s, M, O), NEW c \in Cpus, s.current[c] # None, NEW t
  PROVE  Good(replace_quantum_event(s, c, t), M, O) /\ Keeps(s, replace_quantum_event(s, c, t))
<1> DEFINE s1 == cancel_event(s, c, QuantumExpired(t))
<1>1. Good(s1, M, O) /\ Keeps(s, s1)
  BY CancelEvent
<1>2. s1.current[c] # None
  BY <1>1 DEF Keeps, Stays
<1> QED
  BY <1>1, <1>2, EnsureQuantumEvent, KeepsTransitive DEF replace_quantum_event

LEMMA NoteRunnablePeerAvailable ==
  ASSUME NEW M, NEW O, NEW s, Good(s, M, O), NEW c \in Cpus
  PROVE  /\ Good(note_runnable_peer_available(s, c), M, O)
         /\ Keeps(s, note_runnable_peer_available(s, c))
<1> DEFINE s1 == request_reschedule(s, c)
<1>1. Good(s1, M, O) /\ Keeps(s, s1)
  BY RequestReschedule
<1>2. s.current[c] # None => s1.current[c] # None
  BY <1>1 DEF Keeps, Stays
<1>3. Keeps(s, s)
  BY DEF Keeps, Stays
<1> QED
  BY <1>1, <1>2, <1>3, EnsureQuantumEvent, KeepsTransitive DEF note_runnable_peer_available

----------------------------------------------------------------------------
(* Queues and the scheduler IPI.                                           *)

LEMMA ReadyPushBack ==
  ASSUME NEW M, NEW O, NEW s, Good(s, M, O), NEW c \in Cpus, NEW t \in IssuedIds(s)
  PROVE  Good(ready_push_back(s, c, t), M, O) /\ Keeps(s, ready_push_back(s, c, t))
<1> DEFINE q == Append(s.ready[c], t)
<1>1. s.ready[c] \in Seq(ThreadId) /\ s.ready[c] \in Seq(IssuedIds(s))
  BY DEF Good, SchedState, Issued
<1>2. t \in ThreadId
  BY DEF IssuedIds
<1>3. q \in Seq(ThreadId) /\ q \in Seq(IssuedIds(s))
  BY <1>1, <1>2
<1> HIDE DEF q
<1> DEFINE r == [s EXCEPT !.ready[c] = q, !.panic = s.panic \/ ~
                         (/\ s.idle[c] # t
                         /\ s.home[t.slot] = c
                         /\ ~is_queued(s.ready[c], t.slot)
                         /\ Len(s.ready[c]) < QueueCapacity)]
<1>4. r = ready_push_back(s, c, t)
  BY DEF ready_push_back, panics, q
<1>5. r \in SchedState
  BY ZenonT(60), <1>3 DEF Good, SchedState
<1>6. Keeps(s, r)
  BY DEF Good, SchedState, Keeps, Stays
<1>7. IssuedIds(r) = IssuedIds(s)
  BY <1>6, KeepsIssued
<1>8. Issued(r)
  BY <1>3, <1>7 DEF Good, SchedState, Issued
<1>9. Notified(r, M, O)
  BY DEF Good, SchedState, Notified
<1> QED
  BY <1>4, <1>5, <1>6, <1>8, <1>9 DEF Good

LEMMA MakeReadyAndQueue ==
  ASSUME NEW M, NEW O, NEW s, Good(s, M, O), NEW c \in Cpus, NEW t \in IssuedIds(s), NEW notify
  PROVE  /\ Good(make_ready_and_queue(s, c, t, notify), M, O)
         /\ Keeps(s, make_ready_and_queue(s, c, t, notify))
<1> DEFINE ready == [s EXCEPT !.state[t.slot] = "Ready",
                              !.panic = panics(s, thread_matches(s, t))]
           queued == ready_push_back(ready, c, t)
<1>1. Good(ready, M, O) /\ Keeps(s, ready)
  <2>1. ready \in SchedState /\ Same(s, ready)
    BY ZenonT(60) DEF panics, Good, SchedState, ThreadState, Same
  <2> QED
    BY <2>1, SameIsGood
<1>2. t \in IssuedIds(ready)
  BY <1>1, KeepsIssued
<1>3. make_ready_and_queue(s, c, t, notify)
        \in {ready, queued, note_runnable_peer_available(queued, c)}
  BY DEF make_ready_and_queue
<1> HIDE DEF ready
<1>4. Good(queued, M, O) /\ Keeps(s, queued)
  BY <1>1, <1>2, ReadyPushBack, KeepsTransitive
<1> HIDE DEF queued
<1>5. /\ Good(note_runnable_peer_available(queued, c), M, O)
      /\ Keeps(s, note_runnable_peer_available(queued, c))
  BY <1>4, NoteRunnablePeerAvailable, KeepsTransitive
<1> QED
  BY <1>1, <1>3, <1>4, <1>5

LEMMA MakeRunning ==
  ASSUME NEW M, NEW O, NEW s, Good(s, M, O), NEW c, s.idle[c] # None, NEW t \in IssuedIds(s)
  PROVE  Good(make_running(s, c, t), M, O) /\ Keeps(s, make_running(s, c, t))
<1>1. t # None /\ t \in ThreadId
  BY SchedConstants DEF IssuedIds
<1>2. make_running(s, c, t) \in SchedState
  BY ZenonT(60), <1>1 DEF make_running, panics, Good, SchedState, ThreadState, Optional
<1>3. Keeps(s, make_running(s, c, t))
  BY <1>1 DEF make_running, Good, SchedState, Keeps, Stays
<1>4. IssuedIds(make_running(s, c, t)) = IssuedIds(s)
  BY <1>3, KeepsIssued
<1>5. Issued(make_running(s, c, t))
  BY <1>4 DEF make_running, Good, SchedState, Issued
<1>6. Notified(make_running(s, c, t), M, O)
  BY DEF make_running, Good, SchedState, Notified
<1> QED
  BY <1>2, <1>3, <1>5, <1>6 DEF Good

LEMMA NextThread ==
  ASSUME NEW M, NEW O, NEW s, Good(s, M, O), NEW c \in Cpus, s.idle[c] # None \/ s.ready[c] # <<>>
  PROVE  next_thread(s, c) \in IssuedIds(s)
<1>1. s.ready[c] \in Seq(IssuedIds(s)) /\ s.idle[c] \in IssuedIds(s) \cup {None}
  BY DEF Good, Issued
<1>2. s.ready[c] # <<>> => Head(s.ready[c]) \in IssuedIds(s)
  BY <1>1
<1> QED
  BY <1>1, <1>2 DEF next_thread

LEMMA PopNext ==
  ASSUME NEW M, NEW O, NEW s, Good(s, M, O), NEW c \in Cpus
  PROVE  /\ Good(pop_next(s, c), M, O) /\ Keeps(s, pop_next(s, c))
         /\ pop_next(s, c).current = s.current
<1>1. CASE s.ready[c] = <<>>
  BY <1>1 DEF pop_next, Keeps, Stays
<1>2. CASE s.ready[c] # <<>>
  <2> DEFINE q == Tail(s.ready[c])
             ok == LET t == Head(s.ready[c]) IN
                     /\ thread_matches(s, t) /\ s.state[t.slot] = "Ready"
                     /\ s.idle[c] # t /\ s.home[t.slot] = c
             r == [s EXCEPT !.ready[c] = q, !.panic = s.panic \/ ~ok]
  <2>1. s.ready[c] \in Seq(ThreadId) /\ s.ready[c] \in Seq(IssuedIds(s))
    BY DEF Good, SchedState, Issued
  <2>2. q \in Seq(ThreadId) /\ q \in Seq(IssuedIds(s))
    BY <2>1, <1>2
  <2>3. r = pop_next(s, c)
    BY <1>2 DEF pop_next, panics
  <2> HIDE DEF q, ok
  <2>4. r \in SchedState
    BY ZenonT(60), <2>2 DEF Good, SchedState
  <2>5. Keeps(s, r) /\ r.current = s.current
    BY DEF Good, SchedState, Keeps, Stays
  <2>6. IssuedIds(r) = IssuedIds(s)
    BY <2>5, KeepsIssued
  <2>7. Issued(r)
    BY <2>2, <2>6 DEF Good, SchedState, Issued
  <2>8. Notified(r, M, O)
    BY DEF Good, SchedState, Notified
  <2> QED
    BY ZenonT(60), <2>3, <2>4, <2>5, <2>7, <2>8 DEF Good
<1> QED
  BY <1>1, <1>2

LEMMA RequestSchedulerIpi ==
  ASSUME NEW M, NEW O, NEW s, NEW c, Good(s, M, O \cup {c})
  PROVE  Good(request_scheduler_ipi(s, c), M, O) /\ Keeps(s, request_scheduler_ipi(s, c))
BY ZenonT(60) DEF request_scheduler_ipi, Good, SchedState, Issued, IssuedIds, Notified, Keeps, Stays

LEMMA PublishRemoteReady ==
  ASSUME NEW M, NEW O, NEW s, Good(s, M, O), NEW c, NEW t \in IssuedIds(s)
  PROVE  Good(publish_remote_ready(s, t, c), M, O) /\ Keeps(s, publish_remote_ready(s, t, c))
<1> DEFINE q == Append(s.remote[c], t)
           ok == /\ \A k \in DOMAIN s.remote[c] : s.remote[c][k] # t
                 /\ Len(s.remote[c]) < QueueCapacity
           r == [s EXCEPT !.remote[c] = q, !.panic = s.panic \/ ~ok]
<1>1. c \in Cpus => s.remote[c] \in Seq(ThreadId) /\ s.remote[c] \in Seq(IssuedIds(s))
  BY DEF Good, SchedState, Issued
<1>2. t \in ThreadId
  BY DEF IssuedIds
<1>3. c \in Cpus => q \in Seq(ThreadId) /\ q \in Seq(IssuedIds(s))
  BY <1>1, <1>2
<1>4. publish_remote_ready(s, t, c) = request_scheduler_ipi(r, c)
  BY DEF publish_remote_ready, panics
<1> HIDE DEF q, ok
<1>5. r \in SchedState
  BY <1>3, ZenonT(60) DEF Good, SchedState
<1>6. Keeps(s, r)
  BY DEF Good, SchedState, Keeps, Stays
<1>7. IssuedIds(r) = IssuedIds(s)
  BY <1>6, KeepsIssued
<1>8. Issued(r)
  BY <1>3, <1>7 DEF Good, SchedState, Issued
<1>9. Notified(r, M, O \cup {c})
  BY DEF Good, SchedState, Notified
<1> HIDE DEF r
<1>10. Good(request_scheduler_ipi(r, c), M, O) /\ Keeps(r, request_scheduler_ipi(r, c))
  BY <1>5, <1>8, <1>9, RequestSchedulerIpi DEF Good
<1> QED
  BY <1>4, <1>6, <1>10, KeepsTransitive

\* The handler of CPU c leaves the set of CPUs with an SGI in hand, so the bit must
\* be down and nothing may be left for it.
LEMMA ConsumeSchedulerIpi ==
  ASSUME NEW M, NEW O, NEW s, Good(s, M, O), NEW c \in Cpus, s.retired[c] = None
  PROVE  LET r == consume_scheduler_ipi(s, c)
         IN  Good(r, M \ {c}, O) /\ Keeps(s, r)
<1> DEFINE q == s.ready[c] \o s.remote[c]
           ok == /\ s.ipi[c] \/ s.remote[c] = <<>>
                 /\ \A k \in DOMAIN s.remote[c] : LET t == s.remote[c][k] IN
                      /\ thread_matches(s, t) /\ s.state[t.slot] = "Ready"
                      /\ s.home[t.slot] = c /\ s.idle[c] # t
                      /\ ~is_queued(s.ready[c], t.slot)
                 /\ Len(s.ready[c]) + Len(s.remote[c]) <= QueueCapacity
           r == [s EXCEPT !.ipi[c] = FALSE, !.ready[c] = q, !.remote[c] = <<>>,
                          !.panic = s.panic \/ ~ok]
<1>1. /\ s.ready[c] \in Seq(ThreadId) /\ s.ready[c] \in Seq(IssuedIds(s))
      /\ s.remote[c] \in Seq(ThreadId) /\ s.remote[c] \in Seq(IssuedIds(s))
  BY DEF Good, SchedState, Issued
<1>2. /\ q \in Seq(ThreadId) /\ q \in Seq(IssuedIds(s))
      /\ <<>> \in Seq(ThreadId) /\ <<>> \in Seq(IssuedIds(s))
  BY <1>1
<1>3. r = consume_scheduler_ipi(s, c)
  BY DEF consume_scheduler_ipi, panics
<1> HIDE DEF q, ok
<1>4. r \in SchedState
  BY ZenonT(60), <1>2 DEF Good, SchedState
<1>5. Keeps(s, r)
  BY DEF Good, SchedState, Keeps, Stays
<1>6. IssuedIds(r) = IssuedIds(s)
  BY <1>5, KeepsIssued
<1>7. Issued(r)
  BY <1>2, <1>6 DEF Good, SchedState, Issued
<1>8. Notified(r, M \ {c}, O)
  BY DEF Good, SchedState, Notified
<1> QED
  BY <1>3, <1>4, <1>5, <1>7, <1>8 DEF Good

----------------------------------------------------------------------------
(* Waits.                                                                  *)

LEMMA SetState ==
  ASSUME NEW M, NEW O, NEW s, Good(s, M, O), NEW i, NEW st \in ThreadState
  PROVE  LET r == [s EXCEPT !.state[i] = st]
         IN  Good(r, M, O) /\ Keeps(s, r) /\ r.current = s.current
<1> DEFINE r == [s EXCEPT !.state[i] = st]
<1>1. r \in SchedState /\ Same(s, r)
  BY ZenonT(60) DEF Good, SchedState, Same
<1> HIDE DEF r
<1>2. Good(r, M, O) /\ Keeps(s, r) /\ r.current = s.current
  BY <1>1, SameIsGood DEF Same
<1> QED
  BY <1>2 DEF r

LEMMA CompleteExactWait ==
  ASSUME NEW M, NEW O, NEW s, Good(s, M, O), NEW tok, NEW cause \in {"Notified", "Timeout"}
  PROVE  Good(complete(s, tok, cause), M, O) /\ Keeps(s, complete(s, tok, cause))
<1>1. complete(s, tok, cause) \in SchedState /\ Same(s, complete(s, tok, cause))
  BY ZenonT(60) DEF complete, Good, SchedState, WaitPhase, Same
<1> QED
  BY <1>1, SameIsGood

LEMMA CompletionIssued ==
  ASSUME NEW M, NEW O, NEW s, Good(s, M, O), NEW tok \in WaitToken, completion(s, tok) = "WokeBlocked"
  PROVE  thread_of(tok) \in IssuedIds(s)
BY DEF completion, thread_matches, thread_of, WaitToken, IssuedIds, ThreadId

LEMMA CompleteWaitTransition ==
  ASSUME NEW M, NEW O, NEW s, Good(s, M, O), NEW c \in Cpus, NEW tok \in WaitToken,
         NEW cause \in {"Notified", "Timeout"}, NEW notify
  PROVE  LET r == complete_wait_transition(s, c, tok, cause, notify)
         IN  Good(r, M, O) /\ Keeps(s, r)
<1> DEFINE i == tok.slot
           s1 == complete(s, tok, cause)
           woken == assert_that(s1, s.state[i] = "Blocked")
           early == assert_that(s1, s.state[i] = "Running")
           queued == make_ready_and_queue(woken, c, thread_of(tok), notify)
           ready == [woken EXCEPT !.state[i] = "Ready"]
           r == complete_wait_transition(s, c, tok, cause, notify)
<1>1. Good(s1, M, O) /\ Keeps(s, s1)
  BY CompleteExactWait
<1>2. Good(woken, M, O) /\ Keeps(s, woken) /\ Good(early, M, O) /\ Keeps(s, early)
  BY <1>1, AssertThat, KeepsTransitive
<1>3. CASE completion(s, tok) = "CompletedPrepared"
  <2>1. r = early
    BY <1>3 DEF complete_wait_transition
  <2> QED
    BY <1>2, <2>1
<1>4. CASE completion(s, tok) = "WokeBlocked" /\ s.home[i] = c
  <2>1. r = IF notify THEN queued ELSE request_reschedule(queued, c)
    BY <1>4 DEF complete_wait_transition
  <2>2. thread_of(tok) \in IssuedIds(woken)
    BY <1>2, <1>4, CompletionIssued, KeepsIssued
  <2> HIDE DEF woken
  <2>3. Good(queued, M, O) /\ Keeps(s, queued)
    BY <1>2, <2>2, MakeReadyAndQueue, KeepsTransitive
  <2> HIDE DEF queued
  <2>4. Good(request_reschedule(queued, c), M, O) /\ Keeps(s, request_reschedule(queued, c))
    BY <2>3, RequestReschedule, KeepsTransitive
  <2> QED
    BY <2>1, <2>3, <2>4
<1>5. CASE completion(s, tok) = "WokeBlocked" /\ s.home[i] # c
  <2>1. r = publish_remote_ready(ready, thread_of(tok), s.home[i])
    BY <1>5 DEF complete_wait_transition
  <2> HIDE DEF woken
  <2>2. Good(ready, M, O) /\ Keeps(woken, ready)
    BY ZenonT(60), <1>2, SetState DEF ThreadState
  <2> HIDE DEF ready
  <2>3. Keeps(s, ready)
    BY <1>2, <2>2, KeepsTransitive
  <2>4. thread_of(tok) \in IssuedIds(ready)
    BY <2>3, <1>5, CompletionIssued, KeepsIssued
  <2> QED
    BY <2>1, <2>2, <2>3, <2>4, PublishRemoteReady, KeepsTransitive
<1>6. CASE completion(s, tok) \notin {"CompletedPrepared", "WokeBlocked"}
  <2>1. r = s
    BY <1>6 DEF complete_wait_transition
  <2> QED
    BY <2>1 DEF Keeps, Stays
<1> QED
  BY <1>3, <1>4, <1>5, <1>6

LEMMA Prepare ==
  ASSUME NEW M, NEW O, NEW s, Good(s, M, O), NEW i \in Slots, s.seq[i] < MaxSeq, s.gen[i] >= 1
  PROVE  /\ Good(prepare(s, i), M, O) /\ Keeps(s, prepare(s, i))
         /\ prepare(s, i).current = s.current
         /\ wait_token(prepare(s, i), i) \in WaitToken
<1>1. s.seq[i] + 1 \in 1..MaxSeq /\ s.seq[i] + 1 \in 0..MaxSeq
  BY SchedConstants DEF Good, SchedState
<1>2. /\ Good(prepare(s, i), M, O) /\ Keeps(s, prepare(s, i))
      /\ prepare(s, i).current = s.current
  <2>1. prepare(s, i) \in SchedState /\ Same(s, prepare(s, i))
    BY ZenonT(60), <1>1 DEF prepare, panics, Good, SchedState, WaitPhase, Same
  <2> QED
    BY <2>1, SameIsGood DEF Same
<1>3. wait_token(prepare(s, i), i) = [slot |-> i, gen |-> s.gen[i], seq |-> s.seq[i] + 1]
  BY DEF wait_token, prepare, Good, SchedState
<1>4. s.gen[i] \in 1..MaxGen
  BY SchedConstants DEF Good, SchedState
<1> QED
  BY <1>1, <1>2, <1>3, <1>4 DEF WaitToken

LEMMA Finish ==
  ASSUME NEW M, NEW O, NEW s, Good(s, M, O), NEW i
  PROVE  Good(finish(s, i), M, O) /\ Keeps(s, finish(s, i))
<1>1. finish(s, i) \in SchedState /\ Same(s, finish(s, i))
  BY ZenonT(60) DEF finish, panics, Good, SchedState, WaitPhase, Same
<1> QED
  BY <1>1, SameIsGood

----------------------------------------------------------------------------
(* User roots and context handoffs.                                        *)

LEMMA ClearUserAddressSpace ==
  ASSUME NEW M, NEW O, NEW s, Good(s, M, O), NEW c
  PROVE  /\ Good(clear_user_address_space(s, c), M, O)
         /\ Keeps(s, clear_user_address_space(s, c))
         /\ clear_user_address_space(s, c).current = s.current
<1>1. /\ clear_user_address_space(s, c) \in SchedState
      /\ Same(s, clear_user_address_space(s, c))
  BY ZenonT(60) DEF clear_user_address_space, Good, SchedState, Optional, Same
<1> QED
  BY <1>1, SameIsGood DEF Same

LEMMA ActivateThreadAddressSpace ==
  ASSUME NEW M, NEW O, NEW s, Good(s, M, O), NEW c, NEW t \in ThreadId
  PROVE  /\ Good(activate_thread_address_space(s, c, t), M, O)
         /\ Keeps(s, activate_thread_address_space(s, c, t))
<1> DEFINE ok == \A d \in Cpus \ {c} : s.root[d] # t
           r1 == [s EXCEPT !.access[c] = TRUE, !.root[c] = t, !.panic = s.panic \/ ~ok]
           r2 == [s EXCEPT !.access[c] = FALSE]
<1>1. activate_thread_address_space(s, c, t) \in {r1, r2, clear_user_address_space(s, c)}
  BY DEF activate_thread_address_space, panics
<1> HIDE DEF ok
<1>2. r1 \in SchedState /\ Same(s, r1)
  BY ZenonT(60) DEF Good, SchedState, Optional, Same
<1>3. r2 \in SchedState /\ Same(s, r2)
  BY ZenonT(60) DEF Good, SchedState, Same
<1> HIDE DEF r1, r2
<1> QED
  BY <1>1, <1>2, <1>3, SameIsGood, ClearUserAddressSpace

\* The mandatory part of every switch: the chosen thread runs, with its own root.
LEMMA SwitchTo ==
  ASSUME NEW M, NEW O, NEW s, Good(s, M, O), NEW c, s.idle[c] # None, NEW t \in IssuedIds(s)
  PROVE  LET r == activate_thread_address_space(make_running(s, c, t), c, t)
         IN  Good(r, M, O) /\ Keeps(s, r)
<1>1. Good(make_running(s, c, t), M, O) /\ Keeps(s, make_running(s, c, t))
  BY MakeRunning
<1>2. t \in ThreadId
  BY DEF IssuedIds
<1> QED
  BY <1>1, <1>2, ActivateThreadAddressSpace, KeepsTransitive

LEMMA HandoffOptional ==
  ASSUME NEW M, NEW O, NEW s, Good(s, M, O), NEW c \in Cpus, s.current[c] # None
  PROVE  Good(handoff_optional(s, c), M, O) /\ Keeps(s, handoff_optional(s, c))
<1>1. CASE s.ready[c] = <<>>
  BY <1>1 DEF handoff_optional, Keeps, Stays
<1>2. CASE s.ready[c] # <<>>
  <2> DEFINE to == next_thread(s, c)
             s1 == make_ready_and_queue(pop_next(s, c), c, s.current[c], FALSE)
  <2>1. Good(pop_next(s, c), M, O) /\ Keeps(s, pop_next(s, c))
    BY PopNext
  <2>2. s.current[c] \in IssuedIds(pop_next(s, c))
    BY <2>1, KeepsIssued DEF Good, Issued
  <2>3. Good(s1, M, O) /\ Keeps(s, s1)
    BY ZenonT(60), <2>1, <2>2, MakeReadyAndQueue, KeepsTransitive
  <2>4. to \in IssuedIds(s1)
    BY ZenonT(60), <1>2, <2>3, NextThread, KeepsIssued
  <2>5. handoff_optional(s, c) = activate_thread_address_space(make_running(s1, c, to), c, to)
    BY <1>2 DEF handoff_optional
  <2>6. s1.idle[c] # None
    BY ZenonT(60), <2>3 DEF Good, Issued, Keeps, Stays
  <2> HIDE DEF to, s1
  <2> QED
    BY <2>3, <2>4, <2>5, <2>6, SwitchTo, KeepsTransitive
<1> QED
  BY <1>1, <1>2

LEMMA FinishBlock ==
  ASSUME NEW M, NEW O, NEW s, Good(s, M, O), NEW c \in Cpus, s.current[c] # None, NEW from
  PROVE  /\ Good(finish_block_after_quantum_cancel(s, c), M, O)
         /\ Keeps(s, finish_block_after_quantum_cancel(s, c))
         /\ Good(finish_block_current(s, c, from), M, O)
         /\ Keeps(s, finish_block_current(s, c, from))
<1>1. ASSUME NEW q, Good(q, M, O), q.current[c] # None
      PROVE  /\ Good(finish_block_after_quantum_cancel(q, c), M, O)
             /\ Keeps(q, finish_block_after_quantum_cancel(q, c))
  <2>1. Good(consume_checkpoint(q, c), M, O) /\ Keeps(q, consume_checkpoint(q, c))
    BY <1>1, ConsumeCheckpoint
  <2>2. consume_checkpoint(q, c).current[c] # None
    BY <1>1, <2>1 DEF Keeps, Stays
  <2> QED
    BY <2>1, <2>2, EnsureQuantumEvent, KeepsTransitive DEF finish_block_after_quantum_cancel
<1> DEFINE s1 == cancel_event(s, c, QuantumExpired(from))
<1>2. Good(s1, M, O) /\ Keeps(s, s1)
  BY CancelEvent
<1>3. s1.current[c] # None
  BY <1>2 DEF Keeps, Stays
<1>4. finish_block_current(s, c, from) = finish_block_after_quantum_cancel(s1, c)
  BY DEF finish_block_current
<1> HIDE DEF s1
<1> QED
  BY <1>1, <1>2, <1>3, <1>4, KeepsTransitive

LEMMA BlockCurrent ==
  ASSUME NEW M, NEW O, NEW s, Good(s, M, O), NEW c \in Cpus, s.idle[c] # None,
         NEW phase \in WaitPhase
  PROVE  Good(block_current(s, c, phase), M, O) /\ Keeps(s, block_current(s, c, phase))
<1> DEFINE from == s.current[c]
           to == next_thread(s, c)
           s1 == [s EXCEPT !.wait[from.slot] = phase,
                          !.panic = panics(s, /\ s.depth[c] = 0 /\ s.state[from.slot] = "Running"
                                              /\ from # s.idle[c])]
           s2 == [pop_next(s1, c) EXCEPT !.state[from.slot] = "Blocked"]
<1>1. Good(s1, M, O) /\ Keeps(s, s1)
  <2>1. s1 \in SchedState /\ Same(s, s1)
    BY ZenonT(60) DEF panics, Good, SchedState, Same
  <2> QED
    BY <2>1, SameIsGood
<1>2. to \in IssuedIds(s)
  BY NextThread
<1>3. block_current(s, c, phase) = activate_thread_address_space(make_running(s2, c, to), c, to)
  BY DEF block_current
<1> HIDE DEF s1, to
<1>4. Good(pop_next(s1, c), M, O) /\ Keeps(s, pop_next(s1, c))
  BY <1>1, PopNext, KeepsTransitive
<1>5. Good(s2, M, O) /\ Keeps(pop_next(s1, c), s2)
  BY ZenonT(60), <1>4, SetState DEF ThreadState
<1> HIDE DEF s2
<1>6. Keeps(s, s2)
  BY <1>4, <1>5, KeepsTransitive
<1>7. to \in IssuedIds(s2)
  BY <1>2, <1>6, KeepsIssued
<1>8. s2.idle[c] # None
  BY <1>6 DEF Keeps, Stays
<1> QED
  BY <1>3, <1>5, <1>6, <1>7, <1>8, SwitchTo, KeepsTransitive

----------------------------------------------------------------------------
(* Thread lifecycle.                                                       *)

LEMMA ReapExited ==
  ASSUME NEW M, NEW O, NEW s, Good(s, M, O), NEW t \in ThreadId
  PROVE  Good(reap_exited(s, t), M, O) /\ Keeps(s, reap_exited(s, t))
<1> DEFINE i == t.slot
           q == Append(s.free, i)
           r == [s EXCEPT !.state[i] = "Free", !.home[i] = None, !.joinable[i] = FALSE,
                          !.user[i] = FALSE, !.free = q,
                          !.panic = panics(s, s.wait[i] = "none")]
<1>1. i \in Slots
  BY DEF ThreadId
<1>2. s.free \in Seq(Slots)
  BY DEF Good, SchedState
<1>3. q \in Seq(Slots)
  BY <1>1, <1>2
<1>4. r = reap_exited(s, t)
  BY DEF reap_exited
<1> HIDE DEF i, q
<1>5. Good(r, M, O) /\ Keeps(s, r)
  <2>1. r \in SchedState
    BY ZenonT(60), <1>3 DEF panics, Good, SchedState, ThreadState, Optional
  <2>2. Same(s, r)
    BY DEF Good, SchedState, Same
  <2> QED
    BY <2>1, <2>2, SameIsGood
<1> QED
  BY <1>4, <1>5

LEMMA SetReapedUser ==
  ASSUME NEW M, NEW O, NEW s, Good(s, M, O), NEW joiner, NEW t \in ThreadId, NEW user
  PROVE  LET r == set_reaped_user(s, joiner, t, user) IN Good(r, M, O) /\ Keeps(s, r)
<1> DEFINE v == IF user THEN t ELSE None
           ok == thread_matches(s, joiner) /\ s.reaped[joiner.slot] = None
           r == [s EXCEPT !.reaped[joiner.slot] = v, !.panic = s.panic \/ ~ok]
<1>1. v \in Optional(ThreadId)
  BY DEF Optional
<1>2. r = set_reaped_user(s, joiner, t, user)
  BY DEF set_reaped_user, panics
<1> HIDE DEF v, ok
<1>3. r \in SchedState /\ Same(s, r)
  BY ZenonT(60), <1>1 DEF Good, SchedState, Same
<1> QED
  BY <1>2, <1>3, SameIsGood

LEMMA SetResult ==
  ASSUME NEW M, NEW O, NEW s, Good(s, M, O), NEW i, NEW v \in Optional(ThreadId \cup {JoinError})
  PROVE  LET r == [s EXCEPT !.result[i] = v] IN Good(r, M, O) /\ Keeps(s, r)
<1> DEFINE r == [s EXCEPT !.result[i] = v]
<1>1. r \in SchedState /\ Same(s, r)
  BY ZenonT(60) DEF Good, SchedState, Same
<1> HIDE DEF r
<1>2. Good(r, M, O) /\ Keeps(s, r)
  BY <1>1, SameIsGood
<1> QED
  BY <1>2 DEF r

LEMMA CompleteJoiner ==
  ASSUME NEW M, NEW O, NEW s, Good(s, M, O), NEW c \in Cpus, NEW t \in ThreadId,
         NEW joiner \in WaitToken, NEW notify
  PROVE  LET r == complete_joiner(s, c, t, joiner, notify) IN Good(r, M, O) /\ Keeps(s, r)
<1> DEFINE s1 == assert_that(s, completion(s, joiner) = "WokeBlocked")
           s2 == complete_wait_transition(s1, c, joiner, "Notified", notify)
           r == [s2 EXCEPT !.result[joiner.slot] = t]
<1>1. Good(s1, M, O) /\ Keeps(s, s1)
  BY AssertThat
<1>2. r = complete_joiner(s, c, t, joiner, notify)
  BY DEF complete_joiner
<1> HIDE DEF s1
<1>3. Good(s2, M, O) /\ Keeps(s, s2)
  BY <1>1, CompleteWaitTransition, KeepsTransitive
<1> HIDE DEF s2
<1>4. Good(r, M, O) /\ Keeps(s2, r)
  BY ZenonT(60), <1>3, SetResult DEF Optional
<1> QED
  BY <1>2, <1>3, <1>4, KeepsTransitive

\* The retired thread of the CPU is gone afterwards.
Finalized(s, r, c) == Stays(s, r) /\ r.gen = s.gen /\ r.retired[c] = None

LEMMA FinalizeRetired ==
  ASSUME NEW M, NEW O, NEW s, Good(s, M, O), NEW c \in Cpus, NEW notify
  PROVE  /\ Good(finalize_retired(s, c, notify), M, O)
         /\ Finalized(s, finalize_retired(s, c, notify), c)
<1> DEFINE t == s.retired[c]
           i == t.slot
           taken == [s EXCEPT !.retired[c] = None,
                         !.panic = panics(s, /\ s.current[c] # t /\ thread_matches(s, t)
                                             /\ s.state[i] = "Exited" /\ s.home[i] = c)]
           joiner == s.joiner[i]
           alone == [taken EXCEPT !.joiner[i] = None]
           joined == complete_joiner(alone, c, t, joiner, notify)
           after1 == set_reaped_user(reap_exited(joined, t), thread_of(joiner), t, s.user[i])
           after2 == reap_exited(assert_that(taken, ~s.user[i]), t)
           r == finalize_retired(s, c, notify)
<1>1. CASE t = None
  BY <1>1 DEF finalize_retired, Finalized, Stays
<1>2. CASE t # None
  <2>1. t \in ThreadId
    BY <1>2 DEF Good, SchedState, Optional
  <2>2. i \in Slots
    BY <2>1 DEF ThreadId
  <2>3. Good(taken, M, O) /\ Stays(s, taken) /\ taken.gen = s.gen /\ taken.retired[c] = None
    <3> DEFINE ok == /\ s.current[c] # t /\ thread_matches(s, t)
                     /\ s.state[i] = "Exited" /\ s.home[i] = c
               q == [s EXCEPT !.retired[c] = None, !.panic = s.panic \/ ~ok]
    <3>1. q = taken
      BY DEF panics
    <3> HIDE DEF ok, t, i, taken
    <3>2. Good(q, M, O) /\ Stays(s, q) /\ q.gen = s.gen /\ q.retired[c] = None
      BY ZenonT(60) DEF Good, SchedState, Optional, Issued, IssuedIds, Notified, Stays
    <3> QED
      BY ZenonT(60), <3>1, <3>2
  <2>4. r = IF joiner # None THEN after1 ELSE IF ~s.joinable[i] THEN after2 ELSE taken
    BY <1>2 DEF finalize_retired
  <2>5. joiner # None => joiner \in WaitToken
    BY <2>2 DEF Good, SchedState, Optional
  <2>6. ASSUME NEW q, Good(q, M, O), Keeps(taken, q)
        PROVE  Good(q, M, O) /\ Stays(s, q) /\ q.gen = s.gen /\ q.retired[c] = None
    BY <2>3, <2>6 DEF Keeps, Stays
  <2> HIDE DEF t, i, taken, joiner
  <2>7. Good(alone, M, O) /\ Keeps(taken, alone)
    <3>1. taken \in SchedState
      BY <2>3 DEF Good
    <3>2. alone \in SchedState
      BY ZenonT(60), <3>1 DEF SchedState, Optional
    <3>3. Same(taken, alone)
      BY <3>1 DEF SchedState, Same
    <3> QED
      BY <2>3, <3>2, <3>3, SameIsGood
  <2> HIDE DEF alone
  <2>8. joiner # None => Good(after1, M, O) /\ Keeps(taken, after1)
    BY <2>1, <2>5, <2>7, CompleteJoiner, ReapExited, SetReapedUser, KeepsTransitive
  <2>9. Good(after2, M, O) /\ Keeps(taken, after2)
    BY <2>1, <2>3, AssertThat, ReapExited, KeepsTransitive
  <2> HIDE DEF after1, after2
  <2>10. Keeps(taken, taken)
    BY DEF Keeps, Stays
  <2>11. Good(r, M, O) /\ Keeps(taken, r)
    BY <2>3, <2>4, <2>8, <2>9, <2>10
  <2> QED
    BY <2>6, <2>11 DEF Finalized
<1> QED
  BY <1>1, <1>2

\* The exiting thread retires on its CPU and the CPU owes itself an IPI for it.
LEMMA ExitTransition ==
  ASSUME NEW M, NEW O, NEW s, Good(s, M, O), NEW c \in Cpus, s.idle[c] # None, s.current[c] # None
  PROVE  LET r == transition_exit_current(s, c)
         IN  Good(r, M, O) /\ Stays(s, r) /\ r.gen = s.gen
<1> DEFINE from == s.current[c]
           to == next_thread(s, c)
           ok == /\ s.state[from.slot] = "Running"
                 /\ from # s.idle[c] /\ s.retired[c] = None
           s1 == [s EXCEPT !.state[from.slot] = "Exited", !.retired[c] = from,
                           !.panic = s.panic \/ ~ok]
           s2 == make_running(pop_next(s1, c), c, to)
<1>1. transition_exit_current(s, c) = request_scheduler_ipi(s2, c)
  BY DEF transition_exit_current, panics
<1>2. to \in IssuedIds(s)
  BY NextThread
<1>3. from \in ThreadId
  BY ZenonT(60) DEF Good, Issued, IssuedIds
<1> HIDE DEF ok, to, from
<1>4. Good(s1, M, O \cup {c}) /\ Stays(s, s1) /\ s1.gen = s.gen
  <2>1. s1 \in SchedState
    BY ZenonT(60), <1>3 DEF Good, SchedState, ThreadState, Optional
  <2>2. /\ Stays(s, s1) /\ s1.gen = s.gen /\ s1.current = s.current
        /\ s1.ready = s.ready /\ s1.remote = s.remote
    BY DEF Good, SchedState, Stays
  <2>3. Issued(s1)
    BY <2>2 DEF Good, Issued, IssuedIds, Stays
  <2>4. Notified(s1, M, O \cup {c})
    BY DEF Good, SchedState, Notified
  <2> QED
    BY <2>1, <2>2, <2>3, <2>4 DEF Good
<1> HIDE DEF s1
<1>5. Good(pop_next(s1, c), M, O \cup {c}) /\ Keeps(s1, pop_next(s1, c))
  BY <1>4, PopNext
<1>6. to \in IssuedIds(pop_next(s1, c))
  BY <1>2, <1>4, <1>5 DEF Keeps, IssuedIds
<1>7. Good(s2, M, O \cup {c}) /\ Keeps(s1, s2)
  <2>1. pop_next(s1, c).idle[c] # None
    BY <1>4, <1>5 DEF Keeps, Stays
  <2> QED
    BY <1>5, <1>6, <2>1, MakeRunning, KeepsTransitive
<1> HIDE DEF s2
<1>8. Good(request_scheduler_ipi(s2, c), M, O) /\ Keeps(s1, request_scheduler_ipi(s2, c))
  BY <1>7, RequestSchedulerIpi, KeepsTransitive
<1> QED
  BY <1>1, <1>4, <1>8 DEF Keeps, Stays

\* Publishing a slot only adds identifiers to the issued ones.
LEMMA IssuedGrows ==
  ASSUME NEW s, NEW r, Issued(s), IssuedIds(s) \subseteq IssuedIds(r),
         r.current = s.current, r.idle = s.idle, r.ready = s.ready, r.remote = s.remote
  PROVE  Issued(r)
<1>1. Seq(IssuedIds(s)) \subseteq Seq(IssuedIds(r))
  BY SeqMonotonic
<1> QED
  BY <1>1 DEF Issued

LEMMA LastOf ==
  ASSUME NEW S, NEW q \in Seq(S), q # <<>>
  PROVE  q[Len(q)] \in S /\ SubSeq(q, 1, Len(q) - 1) \in Seq(S)
<1>1. Len(q) \in Nat /\ Len(q) # 0
  OBVIOUS
<1>2. Len(q) \in 1..Len(q) /\ Len(q) - 1 \in Nat
  BY <1>1
<1>3. q[Len(q)] \in S
  BY <1>2, ElementOfSeq
<1>4. SubSeq(q, 1, Len(q) - 1) \in Seq(S)
  BY <1>2, SubSeqProperties
<1> QED
  BY <1>3, <1>4

LEMMA Publish ==
  ASSUME NEW M, NEW O, NEW s, Good(s, M, O), NEW c \in Cpus, NEW home \in Cpus,
         NEW joinable \in BOOLEAN, NEW user \in BOOLEAN,
         s.free # <<>>, s.gen[s.free[Len(s.free)]] < MaxGen
  PROVE  LET r == publish(s, c, home, joinable, user) IN Good(r, M, O) /\ Stays(s, r)
<1> DEFINE i == s.free[Len(s.free)]
           g == s.gen[i] + 1
           q == SubSeq(s.free, 1, Len(s.free) - 1)
           t == [slot |-> i, gen |-> g]
           ok == s.state[i] = "Free"
           s1 == [s EXCEPT !.free = q, !.gen[i] = g, !.state[i] = "Ready", !.home[i] = home,
                           !.joinable[i] = joinable, !.user[i] = user,
                           !.panic = s.panic \/ ~ok]
           local == ready_push_back(s1, c, t)
           r == publish(s, c, home, joinable, user)
<1>1. s \in SchedState /\ s.free \in Seq(Slots)
  BY ZenonT(60) DEF Good, SchedState
<1>2. i \in Slots /\ q \in Seq(Slots)
  BY <1>1, LastOf
<1>3. g \in 0..MaxGen /\ g \in 1..MaxGen /\ s.gen[i] \in Nat
  <2>1. s.gen[i] < MaxGen
    OBVIOUS
  <2>2. s.gen \in [Slots -> 0..MaxGen]
    BY <1>1 DEF SchedState
  <2> HIDE DEF i
  <2>3. s.gen[i] \in 0..MaxGen
    BY <1>2, <2>2
  <2> QED
    BY <2>1, <2>3, SchedConstants
<1>4. t \in ThreadId
  BY <1>2, <1>3 DEF ThreadId
<1>5. r = IF home # c THEN publish_remote_ready(s1, t, home)
          ELSE IF s.ready[c] = <<>> THEN note_runnable_peer_available(local, c) ELSE local
  BY DEF publish, panics
<1> HIDE DEF i, g, q, ok
<1>6. s1 \in SchedState
  BY <1>1, <1>2, <1>3, ZenonT(60) DEF SchedState, ThreadState, Optional
<1>7. /\ s1.gen = [s.gen EXCEPT ![i] = g] /\ s1.current = s.current /\ s1.idle = s.idle
      /\ s1.ready = s.ready /\ s1.remote = s.remote /\ s1.retired = s.retired
      /\ s1.ipi = s.ipi /\ s1.sgi = s.sgi /\ s1.online = s.online
  BY <1>1 DEF SchedState
<1>8. t.slot = i /\ t.gen = g
  OBVIOUS
<1> HIDE DEF s1, t
<1>9. IssuedIds(s) \subseteq IssuedIds(s1) /\ t \in IssuedIds(s1)
  <2>1. s.gen \in [Slots -> 0..MaxGen]
    BY <1>1 DEF SchedState
  <2>2. \A x \in ThreadId : x.slot \in Slots
    BY DEF ThreadId
  <2>3. \A j \in Slots : s1.gen[j] = IF j = i THEN g ELSE s.gen[j]
    BY <1>7, <2>1
  <2>4. g >= 1
    BY <1>3, SchedConstants
  <2>5. IssuedIds(s) \subseteq IssuedIds(s1)
    BY <2>2, <2>3, <2>4 DEF IssuedIds
  <2>6. s1.gen[t.slot] >= 1
    BY <1>2, <1>8, <2>3, <2>4
  <2> QED
    BY <1>4, <2>5, <2>6 DEF IssuedIds
<1>10. Issued(s1)
  BY <1>7, <1>9, IssuedGrows DEF Good
<1>11. Notified(s1, M, O)
  BY <1>7 DEF Good, Notified
<1>12. Good(s1, M, O) /\ Stays(s, s1)
  BY <1>6, <1>7, <1>10, <1>11 DEF Good, Stays
<1>13. Good(local, M, O) /\ Keeps(s1, local)
  BY <1>9, <1>12, ReadyPushBack
<1> HIDE DEF local
<1>14. Good(r, M, O) /\ Keeps(s1, r)
  <2> DEFINE remote == publish_remote_ready(s1, t, home)
             noted == note_runnable_peer_available(local, c)
  <2>1. Good(remote, M, O) /\ Keeps(s1, remote)
    BY <1>9, <1>12, PublishRemoteReady
  <2>2. Good(noted, M, O) /\ Keeps(local, noted)
    BY <1>13, NoteRunnablePeerAvailable
  <2>3. r \in {remote, noted, local}
    BY <1>5
  <2> HIDE DEF remote, noted, r
  <2>4. Keeps(s1, noted)
    BY <1>13, <2>2, KeepsTransitive
  <2> QED
    BY <1>13, <2>1, <2>2, <2>3, <2>4
<1> QED
  BY <1>12, <1>14 DEF Keeps, Stays

LEMMA ExitCurrent ==
  ASSUME NEW M, NEW O, NEW s, Good(s, M, O), NEW c \in Cpus, s.current[c] # None
  PROVE  LET r == exit_current(s, c) IN Good(r, M, O) /\ Stays(s, r)
<1> DEFINE from == s.current[c]
           s1 == transition_exit_current(s, c)
           to == s1.current[c]
           s2 == IF s1.user[from.slot] /\ s1.idle[c] = to
                 THEN clear_user_address_space(s1, c) ELSE s1
           s3 == activate_thread_address_space(s2, c, to)
           r == exit_current(s, c)
<1>1. Good(s1, M, O) /\ Stays(s, s1)
  BY ExitTransition DEF Good, Issued
<1>2. r = finish_block_current(s3, c, from)
  BY DEF exit_current
<1> HIDE DEF s1
<1>3. to \in ThreadId
  BY ZenonT(60), <1>1 DEF Good, Issued, IssuedIds, Stays
<1>4. Good(s2, M, O) /\ Keeps(s1, s2)
  <2>1. Keeps(s1, s1)
    BY DEF Keeps, Stays
  <2> QED
    BY <1>1, <2>1, ClearUserAddressSpace
<1> HIDE DEF s2, to
<1>5. Good(s3, M, O) /\ Keeps(s1, s3)
  BY <1>3, <1>4, ActivateThreadAddressSpace, KeepsTransitive
<1> HIDE DEF s3
<1>6. s3.current[c] # None
  BY <1>1, <1>5 DEF Keeps, Stays
<1>7. Good(r, M, O) /\ Keeps(s1, r)
  BY <1>2, <1>5, <1>6, FinishBlock, KeepsTransitive
<1> QED
  BY <1>1, <1>7 DEF Keeps, Stays

LEMMA PreemptCheckpoint ==
  ASSUME NEW M, NEW O, NEW s, Good(s, M, O), NEW c \in Cpus, s.current[c] # None
  PROVE  LET r == preempt_checkpoint(s, c) IN Good(r, M, O) /\ Stays(s, r)
<1> DEFINE s1 == finalize_retired(s, c, TRUE)
           s2 == consume_checkpoint(s1, c)
           s3 == handoff_optional(s2, c)
           r == preempt_checkpoint(s, c)
<1>1. Good(s1, M, O) /\ Stays(s, s1)
  BY ZenonT(60), FinalizeRetired DEF Finalized
<1>2. r = IF checkpoint_due(s1, c) THEN replace_quantum_event(s3, c, s1.current[c]) ELSE s1
  BY DEF preempt_checkpoint
<1> HIDE DEF s1
<1>3. Good(s2, M, O) /\ Keeps(s1, s2) /\ s2.current[c] # None
  BY <1>1, ConsumeCheckpoint DEF Keeps, Stays
<1> HIDE DEF s2
<1>4. Good(s3, M, O) /\ Keeps(s1, s3) /\ s3.current[c] # None
  <2>1. Good(s3, M, O) /\ Keeps(s2, s3)
    BY <1>3, HandoffOptional
  <2> QED
    BY <1>3, <2>1, KeepsTransitive DEF Keeps, Stays
<1> HIDE DEF s3
<1>5. Keeps(s1, s1)
  BY DEF Keeps, Stays
<1>6. Good(r, M, O) /\ Keeps(s1, r)
  BY <1>1, <1>2, <1>4, <1>5, ReplaceQuantumEvent, KeepsTransitive
<1> QED
  BY <1>1, <1>6 DEF Keeps, Stays
============================================================================
