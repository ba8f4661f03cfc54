------------------------ MODULE SchedulerPreemption ------------------------
(***************************************************************************)
(* No CPU changes its running thread or drops a reschedule request under a *)
(* PreemptGuard, for any number of CPUs and threads and any nesting of     *)
(* guards.                                                                 *)
(*                                                                         *)
(* `Safe' relates the states before and after an operator: guards are kept *)
(* and only a CPU without one may have switched or taken up a request.  It *)
(* is transitive, so a handler is safe if each operator it is composed of  *)
(* is.                                                                     *)
(***************************************************************************)
EXTENDS Scheduler, TLAPS

IsState(s) ==
  /\ {"depth", "current", "resched"} \subseteq DOMAIN s
  /\ DOMAIN s.depth = Cpus /\ DOMAIN s.current = Cpus /\ DOMAIN s.resched = Cpus

Safe(s, r) ==
  /\ IsState(r) /\ r.depth = s.depth
  /\ \A d \in Cpus :
       \/ s.depth[d] = 0
       \/ r.current[d] = s.current[d] /\ (s.resched[d] => r.resched[d])

LEMMA SafeTransitive ==
  ASSUME NEW s, NEW r, NEW q, Safe(s, r), Safe(r, q)
  PROVE  Safe(s, q)
BY DEF Safe

LEMMA SafeState ==
  ASSUME NEW s, NEW r, Safe(s, r)
  PROVE  IsState(r) /\ r.depth = s.depth
BY DEF Safe

----------------------------------------------------------------------------
(* Operators that switch no CPU.                                           *)

LEMMA Bookkeeping ==
  ASSUME NEW s, IsState(s), NEW c
  PROVE  /\ Safe(s, s)
         /\ Safe(s, request_reschedule(s, c))
         /\ Safe(s, consume_checkpoint(s, c))
BY DEF IsState, Safe, request_reschedule, consume_checkpoint, checkpoint_due

LEMMA AssertThat ==
  ASSUME NEW s, IsState(s), NEW ok
  PROVE  Safe(s, assert_that(s, ok))
BY DEF IsState, Safe, assert_that

LEMMA Events ==
  ASSUME NEW s, IsState(s), NEW c, NEW e
  PROVE  /\ Safe(s, schedule_event(s, c, e))
         /\ Safe(s, cancel_event(s, c, e))
         /\ Safe(s, cancel_event_remote(s, c, e))
BY DEF IsState, Safe, schedule_event, cancel_event, cancel_event_remote

LEMMA EnsureQuantum ==
  ASSUME NEW s, IsState(s), NEW c
  PROVE  Safe(s, ensure_quantum_event(s, c))
BY Bookkeeping, Events DEF ensure_quantum_event

LEMMA ReplaceQuantum ==
  ASSUME NEW s, IsState(s), NEW c, NEW t
  PROVE  Safe(s, replace_quantum_event(s, c, t))
<1> DEFINE s1 == cancel_event(s, c, QuantumExpired(t))
<1>1. Safe(s, s1)
  BY Events
<1>2. Safe(s1, ensure_quantum_event(s1, c))
  BY SafeState, <1>1, EnsureQuantum
<1> QED
  BY <1>1, <1>2, SafeTransitive DEF replace_quantum_event

LEMMA NotePeer ==
  ASSUME NEW s, IsState(s), NEW c
  PROVE  Safe(s, note_runnable_peer_available(s, c))
<1> DEFINE s1 == request_reschedule(s, c)
<1>1. Safe(s, s1) /\ Safe(s, s)
  BY Bookkeeping
<1>2. Safe(s1, ensure_quantum_event(s1, c))
  BY SafeState, <1>1, EnsureQuantum
<1> QED
  BY <1>1, <1>2, SafeTransitive DEF note_runnable_peer_available

LEMMA Queues ==
  ASSUME NEW s, IsState(s), NEW c
  PROVE  /\ Safe(s, pop_next(s, c))
         /\ Safe(s, request_scheduler_ipi(s, c))
         /\ Safe(s, consume_scheduler_ipi(s, c))
BY DEF IsState, Safe, pop_next, request_scheduler_ipi, consume_scheduler_ipi

LEMMA PushBack ==
  ASSUME NEW s, IsState(s), NEW c, NEW t
  PROVE  Safe(s, ready_push_back(s, c, t))
BY DEF IsState, Safe, ready_push_back

LEMMA PublishRemote ==
  ASSUME NEW s, IsState(s), NEW c, NEW t
  PROVE  Safe(s, publish_remote_ready(s, t, c))
<1> DEFINE r == [s EXCEPT
     !.remote[c] = Append(@, t),
     !.panic = panics(s, /\ \A k \in DOMAIN s.remote[c] : s.remote[c][k] # t
                         /\ Len(s.remote[c]) < QueueCapacity)]
<1>1. Safe(s, r)
  BY DEF IsState, Safe
<1>2. publish_remote_ready(s, t, c) = request_scheduler_ipi(r, c)
  BY DEF publish_remote_ready
<1> HIDE DEF r
<1>3. Safe(r, request_scheduler_ipi(r, c))
  BY SafeState, <1>1, Queues
<1> QED
  BY <1>1, <1>2, <1>3, SafeTransitive

LEMMA MakeReady ==
  ASSUME NEW s, IsState(s), NEW c, NEW t, NEW notify
  PROVE  Safe(s, make_ready_and_queue(s, c, t, notify))
<1> DEFINE ready == [s EXCEPT !.state[t.slot] = "Ready", !.panic = panics(s, thread_matches(s, t))]
           queued == ready_push_back(ready, c, t)
           noted == note_runnable_peer_available(queued, c)
<1>1. Safe(s, ready)
  BY DEF IsState, Safe
<1>2. make_ready_and_queue(s, c, t, notify) \in {ready, queued, noted}
  BY DEF make_ready_and_queue
<1> HIDE DEF ready
<1>3. Safe(s, queued)
  BY SafeState, <1>1, PushBack, SafeTransitive
<1> HIDE DEF queued
<1>4. Safe(s, noted)
  BY SafeState, <1>3, NotePeer, SafeTransitive
<1> QED
  BY <1>1, <1>2, <1>3, <1>4

LEMMA Completion ==
  ASSUME NEW s, IsState(s), NEW c, NEW tok, NEW cause, NEW notify
  PROVE  /\ Safe(s, complete(s, tok, cause))
         /\ Safe(s, complete_wait_transition(s, c, tok, cause, notify))
<1> DEFINE i == tok.slot
           s1 == complete(s, tok, cause)
           woken == assert_that(s1, s.state[i] = "Blocked")
           early == assert_that(s1, s.state[i] = "Running")
           queued == make_ready_and_queue(woken, c, thread_of(tok), notify)
           asked == request_reschedule(queued, c)
           ready == [woken EXCEPT !.state[i] = "Ready"]
           remote == publish_remote_ready(ready, thread_of(tok), s.home[i])
<1>1. Safe(s, s1)
  BY DEF complete, IsState, Safe
<1>2. complete_wait_transition(s, c, tok, cause, notify) \in {early, queued, asked, remote, s}
  BY DEF complete_wait_transition
<1> HIDE DEF s1
<1>3. Safe(s, woken) /\ Safe(s, early)
  BY SafeState, <1>1, AssertThat, SafeTransitive
<1> HIDE DEF woken, early
<1>4. Safe(s, queued)
  BY SafeState, <1>3, MakeReady, SafeTransitive
<1> HIDE DEF queued
<1>5. Safe(s, asked)
  BY SafeState, <1>4, Bookkeeping, SafeTransitive
<1>6. Safe(s, ready)
  BY <1>3 DEF IsState, Safe
<1> HIDE DEF ready, asked
<1>7. Safe(s, remote)
  BY SafeState, <1>6, PublishRemote, SafeTransitive
<1>8. Safe(s, s)
  BY Bookkeeping
<1> QED
  BY <1>1, <1>2, <1>3, <1>4, <1>5, <1>7, <1>8 DEF s1

LEMMA Activate ==
  ASSUME NEW s, IsState(s), NEW c, NEW t
  PROVE  /\ Safe(s, clear_user_address_space(s, c))
         /\ Safe(s, activate_thread_address_space(s, c, t))
BY DEF IsState, Safe, clear_user_address_space, activate_thread_address_space

LEMMA FinishBlock ==
  ASSUME NEW s, IsState(s), NEW c, NEW t
  PROVE  /\ Safe(s, finish_block_after_quantum_cancel(s, c))
         /\ Safe(s, finish_block_current(s, c, t))
<1>1. ASSUME NEW r, IsState(r) PROVE Safe(r, finish_block_after_quantum_cancel(r, c))
  <2> DEFINE s1 == consume_checkpoint(r, c)
  <2>1. Safe(r, s1)
    BY <1>1, Bookkeeping
  <2> HIDE DEF s1
  <2>2. Safe(s1, ensure_quantum_event(s1, c))
    BY SafeState, <2>1, EnsureQuantum
  <2> QED
    BY <2>1, <2>2, SafeTransitive DEF finish_block_after_quantum_cancel, s1
<1> DEFINE s1 == cancel_event(s, c, QuantumExpired(t))
<1>2. Safe(s, s1)
  BY Events
<1> HIDE DEF s1
<1>3. Safe(s1, finish_block_after_quantum_cancel(s1, c))
  BY <1>1, <1>2 DEF Safe
<1> QED
  BY <1>1, <1>2, <1>3, SafeTransitive DEF finish_block_current, s1

LEMMA Reap ==
  ASSUME NEW s, IsState(s), NEW t
  PROVE  Safe(s, reap_exited(s, t))
BY DEF IsState, Safe, reap_exited

LEMMA FinalizeRetired ==
  ASSUME NEW s, IsState(s), NEW c, NEW notify
  PROVE  Safe(s, finalize_retired(s, c, notify))
<1> DEFINE t == s.retired[c]
           i == t.slot
           taken == [s EXCEPT !.retired[c] = None,
                              !.panic = panics(s, /\ s.current[c] # t /\ thread_matches(s, t)
                                                  /\ s.state[i] = "Exited" /\ s.home[i] = c)]
           joiner == s.joiner[i]
           left == [taken EXCEPT !.joiner[i] = None]
           asked == assert_that(left, completion(left, joiner) = "WokeBlocked")
           woken == complete_wait_transition(asked, c, joiner, "Notified", notify)
           joined == [woken EXCEPT !.result[joiner.slot] = t]
           reaped == reap_exited(joined, t)
           handed == set_reaped_user(reaped, thread_of(joiner), t, s.user[i])
           plain == assert_that(taken, ~s.user[i])
<1>1. finalize_retired(s, c, notify) \in {s, handed, reap_exited(plain, t), taken}
  BY DEF finalize_retired, complete_joiner
<1>2. Safe(s, taken) /\ Safe(s, s)
  BY DEF IsState, Safe
<1> HIDE DEF taken
<1>3. Safe(s, left)
  BY <1>2 DEF IsState, Safe
<1>4. Safe(s, plain)
  BY SafeState, <1>2, AssertThat, SafeTransitive
<1> HIDE DEF left, plain
<1>5. Safe(s, asked)
  BY SafeState, <1>3, AssertThat, SafeTransitive
<1> HIDE DEF asked
<1>6. Safe(asked, woken)
  BY SafeState, <1>5, Completion
<1> HIDE DEF woken
<1>7. Safe(s, woken)
  BY <1>5, <1>6, SafeTransitive
<1>8. Safe(s, joined)
  BY <1>7 DEF IsState, Safe
<1> HIDE DEF joined
<1>9. Safe(s, reaped) /\ Safe(s, reap_exited(plain, t))
  BY SafeState, <1>4, <1>8, Reap, SafeTransitive
<1> HIDE DEF reaped
<1>10. Safe(s, handed)
  BY <1>9 DEF IsState, Safe, set_reaped_user
<1> QED
  BY <1>1, <1>2, <1>9, <1>10

\* A published thread does not run yet.
LEMMA Publish ==
  ASSUME NEW s, IsState(s), NEW c, NEW home, NEW joinable, NEW user
  PROVE  Safe(s, publish(s, c, home, joinable, user))
<1> DEFINE i == s.free[Len(s.free)]
           t == [slot |-> i, gen |-> s.gen[i] + 1]
           s1 == [s EXCEPT !.free = SubSeq(@, 1, Len(@) - 1),
                           !.gen[i] = @ + 1, !.state[i] = "Ready", !.home[i] = home,
                           !.joinable[i] = joinable, !.user[i] = user,
                           !.panic = panics(s, s.state[i] = "Free")]
           local == ready_push_back(s1, c, t)
           noted == note_runnable_peer_available(local, c)
           remote == publish_remote_ready(s1, t, home)
<1>1. publish(s, c, home, joinable, user) \in {remote, noted, local}
  BY DEF publish
<1>2. Safe(s, s1)
  BY DEF IsState, Safe
<1> HIDE DEF s1
<1>3. Safe(s, local) /\ Safe(s, remote)
  BY SafeState, <1>2, PushBack, PublishRemote, SafeTransitive
<1> HIDE DEF local, remote
<1>4. Safe(s, noted)
  BY SafeState, <1>3, NotePeer, SafeTransitive
<1> QED
  BY <1>1, <1>3, <1>4

----------------------------------------------------------------------------
(* Operators that switch, on a CPU that holds no guard.                    *)

LEMMA MakeRunning ==
  ASSUME NEW s, IsState(s), NEW c \in Cpus, s.depth[c] = 0, NEW t
  PROVE  Safe(s, make_running(s, c, t))
BY DEF IsState, Safe, make_running

LEMMA Handoff ==
  ASSUME NEW s, IsState(s), NEW c \in Cpus, s.depth[c] = 0
  PROVE  Safe(s, handoff_optional(s, c))
<1> DEFINE to == next_thread(s, c)
           popped == pop_next(s, c)
           s1 == make_ready_and_queue(popped, c, s.current[c], FALSE)
           s2 == make_running(s1, c, to)
           s3 == activate_thread_address_space(s2, c, to)
<1>1. handoff_optional(s, c) \in {s, s3}
  BY DEF handoff_optional
<1>2. Safe(s, popped) /\ Safe(s, s)
  BY Queues, Bookkeeping
<1> HIDE DEF popped
<1>3. Safe(s, s1)
  <2>1. IsState(popped)
    BY <1>2 DEF Safe
  <2>2. ASSUME NEW t PROVE Safe(popped, make_ready_and_queue(popped, c, t, FALSE))
    BY ZenonT(60), <2>1, MakeReady
  <2>3. Safe(popped, s1)
    BY ZenonT(60), <2>2
  <2> QED
    BY ZenonT(60), <1>2, <2>3, SafeTransitive
<1> HIDE DEF s1
<1>4. Safe(s, s2)
  BY SafeState, <1>3, MakeRunning, SafeTransitive
<1> HIDE DEF s2
<1>5. Safe(s, s3)
  BY SafeState, <1>4, Activate, SafeTransitive
<1> QED
  BY <1>1, <1>2, <1>5

\* A due checkpoint is one at depth zero.
LEMMA Checkpoint ==
  ASSUME NEW s, IsState(s), NEW c \in Cpus, checkpoint_due(s, c)
  PROVE  Safe(s, handoff_optional(consume_checkpoint(s, c), c))
<1> DEFINE s1 == consume_checkpoint(s, c)
<1>1. Safe(s, s1) /\ s.depth[c] = 0
  BY Bookkeeping DEF checkpoint_due
<1> HIDE DEF s1
<1>2. Safe(s1, handoff_optional(s1, c))
  BY SafeState, <1>1, Handoff
<1> QED
  BY <1>1, <1>2, SafeTransitive DEF s1

LEMMA PreemptCheckpoint ==
  ASSUME NEW s, IsState(s), NEW c \in Cpus
  PROVE  Safe(s, preempt_checkpoint(s, c))
<1> DEFINE s1 == finalize_retired(s, c, TRUE)
           s2 == handoff_optional(consume_checkpoint(s1, c), c)
<1>1. preempt_checkpoint(s, c) = IF checkpoint_due(s1, c) THEN replace_quantum_event(s2, c, s1.current[c]) ELSE s1
  BY DEF preempt_checkpoint
<1>2. Safe(s, s1)
  BY ZenonT(60), FinalizeRetired
<1> HIDE DEF s1
<1>3. CASE checkpoint_due(s1, c)
  <2>1. Safe(s, s2)
    BY SafeState, <1>2, <1>3, Checkpoint, SafeTransitive
  <2> HIDE DEF s2
  <2>2. Safe(s2, replace_quantum_event(s2, c, s1.current[c]))
    BY SafeState, <2>1, ReplaceQuantum
  <2> QED
    BY <1>1, <1>3, <2>1, <2>2, SafeTransitive
<1> QED
  BY <1>1, <1>2, <1>3

LEMMA BlockCurrent ==
  ASSUME NEW s, IsState(s), NEW c \in Cpus, s.depth[c] = 0, NEW phase
  PROVE  Safe(s, block_current(s, c, phase))
<1> DEFINE from == s.current[c]
           to == next_thread(s, c)
           s1 == [s EXCEPT !.wait[from.slot] = phase,
                           !.panic = panics(s, s.state[from.slot] = "Running" /\ from # s.idle[c])]
           popped == pop_next(s1, c)
           s2 == [popped EXCEPT !.state[from.slot] = "Blocked"]
           s3 == make_running(s2, c, to)
<1>1. block_current(s, c, phase) = activate_thread_address_space(s3, c, to)
  BY DEF block_current
<1>2. Safe(s, s1)
  BY DEF IsState, Safe
<1> HIDE DEF s1, to
<1>3. Safe(s, popped)
  BY SafeState, <1>2, Queues, SafeTransitive
<1> HIDE DEF popped
<1>4. Safe(s, s2)
  BY <1>3 DEF IsState, Safe
<1> HIDE DEF s2
<1>5. Safe(s, s3)
  BY SafeState, <1>4, MakeRunning, SafeTransitive
<1> HIDE DEF s3
<1> QED
  BY SafeState, <1>1, <1>5, Activate, SafeTransitive

LEMMA ExitCurrent ==
  ASSUME NEW s, IsState(s), NEW c \in Cpus, s.depth[c] = 0
  PROVE  Safe(s, exit_current(s, c))
<1> DEFINE from == s.current[c]
           next == next_thread(s, c)
           s1 == [s EXCEPT !.state[from.slot] = "Exited", !.retired[c] = from,
                           !.panic = panics(s, /\ s.state[from.slot] = "Running"
                                               /\ from # s.idle[c] /\ s.retired[c] = None)]
           popped == pop_next(s1, c)
           runs == make_running(popped, c, next)
           left == request_scheduler_ipi(runs, c)
           to == left.current[c]
           bare == IF left.user[from.slot] /\ left.idle[c] = to THEN clear_user_address_space(left, c) ELSE left
           s2 == activate_thread_address_space(bare, c, to)
<1>1. exit_current(s, c) = finish_block_current(s2, c, from)
  BY DEF exit_current, transition_exit_current
<1>2. Safe(s, s1)
  BY DEF IsState, Safe
<1> HIDE DEF s1, next
<1>3. Safe(s, popped)
  BY SafeState, <1>2, Queues, SafeTransitive
<1> HIDE DEF popped
<1>4. Safe(s, runs)
  BY SafeState, <1>3, MakeRunning, SafeTransitive
<1> HIDE DEF runs
<1>5. Safe(s, left)
  BY SafeState, <1>4, Queues, SafeTransitive
<1> HIDE DEF left, to
<1>6. Safe(s, bare)
  BY SafeState, <1>5, Activate, SafeTransitive
<1> HIDE DEF bare
<1>7. Safe(s, s2)
  BY SafeState, <1>6, Activate, SafeTransitive
<1> HIDE DEF s2
<1>8. Safe(s2, finish_block_current(s2, c, from))
  BY SafeState, <1>7, FinishBlock
<1> QED
  BY <1>1, <1>7, <1>8, SafeTransitive

----------------------------------------------------------------------------
(* One lemma per group of actions.                                         *)

\* Where a CPU is bound to hold no guard: before it enters its first thread, and
\* between preparing a wait and committing or cancelling it.
Unguarded == {"boot", "prepared", "refused"}

Modes ==
  /\ DOMAIN mode' = Cpus
  /\ \A d \in Cpus : mode'[d] \in Unguarded => mode[d] \in Unguarded \/ sched.depth[d] = 0

PInv ==
  /\ IsState(sched)
  /\ DOMAIN mode = Cpus
  /\ \A d \in Cpus : mode[d] \in Unguarded => sched.depth[d] = 0

LEMMA BootSteps ==
  ASSUME PInv, NEW c \in Cpus, InitializeCurrentCpu(c) \/ EnterRunningThread(c)
  PROVE  Safe(sched, sched') /\ Modes
<1>1. IsState(sched)
  BY DEF PInv
<1>2. CASE InitializeCurrentCpu(c)
  <2> DEFINE i == sched.free[Len(sched.free)]
             t == [slot |-> i, gen |-> 1]
             s1 == [sched EXCEPT !.free = SubSeq(@, 1, Len(@) - 1), !.gen[i] = 1,
                                 !.state[i] = "Ready", !.home[i] = c, !.idle[c] = t]
  <2>1. sched' = make_running(s1, c, t)
    BY <1>2 DEF InitializeCurrentCpu, initialize_idle_current
  <2>2. Safe(sched, s1) /\ sched.depth[c] = 0
    BY <1>1, <1>2 DEF InitializeCurrentCpu, PInv, Unguarded, Safe, IsState
  <2>3. Modes
    BY <1>2 DEF InitializeCurrentCpu, PInv, Modes
  <2> HIDE DEF s1, t
  <2>4. Safe(s1, make_running(s1, c, t))
    BY SafeState, <2>2, MakeRunning
  <2> QED
    BY <2>1, <2>2, <2>3, <2>4, SafeTransitive
<1>3. CASE EnterRunningThread(c)
  <2> DEFINE asked == assert_that(sched, ~sched.online[c])
             s1 == ensure_quantum_event(asked, c)
             s2 == activate_thread_address_space(s1, c, sched.current[c])
  <2>1. sched' = [s2 EXCEPT !.online[c] = TRUE]
    BY <1>3 DEF EnterRunningThread
  <2>2. Safe(sched, asked)
    BY <1>1, AssertThat
  <2> HIDE DEF asked
  <2>3. Safe(sched, s1)
    BY SafeState, <2>2, EnsureQuantum, SafeTransitive
  <2> HIDE DEF s1
  <2>4. Safe(sched, s2)
    BY SafeState, <2>3, Activate, SafeTransitive
  <2> HIDE DEF s2
  <2>5. Safe(sched, sched')
    BY <2>1, <2>4 DEF Safe, IsState
  <2>6. Modes
    BY <1>3 DEF EnterRunningThread, PInv, Modes, Unguarded
  <2> QED
    BY <2>5, <2>6
<1> QED
  BY <1>2, <1>3

LEMMA SpawnSteps ==
  ASSUME PInv, NEW c \in Cpus, NEW home, NEW joinable,
         \/ ThreadSpawn(c, home, joinable)
         \/ ThreadSpawnUser(c, home)
         \/ ThreadExit(c)
         \/ YieldNow(c)
  PROVE  Safe(sched, sched') /\ Modes
<1> DEFINE f == finalize_retired(sched, c, TRUE)
           r == request_reschedule(sched, c)
<1>1. IsState(sched)
  BY DEF PInv
<1>2. Modes
  BY ZenonT(60) DEF ThreadSpawn, ThreadSpawnUser, ThreadExit, YieldNow, PInv, Modes
<1>3. Safe(sched, f) /\ Safe(sched, r)
  BY ZenonT(60), <1>1, FinalizeRetired, Bookkeeping
<1>4. ThreadExit(c) => sched.depth[c] = 0
  BY DEF ThreadExit, PreemptionEnabled
<1>5. \/ sched' \in {f, publish(f, c, home, joinable, FALSE), publish(sched, c, home, TRUE, TRUE),
                     preempt_checkpoint(r, c)}
      \/ ThreadExit(c) /\ sched' = exit_current(f, c)
  BY ZenonT(60) DEF ThreadSpawn, ThreadSpawnUser, ThreadExit, YieldNow
<1> HIDE DEF f, r
<1>6. Safe(f, publish(f, c, home, joinable, FALSE)) /\ Safe(sched, publish(sched, c, home, TRUE, TRUE))
  <2>1. IsState(f)
    BY <1>3 DEF Safe
  <2>2. Safe(f, publish(f, c, home, joinable, FALSE))
    BY ZenonT(60), <2>1, Publish
  <2>3. Safe(sched, publish(sched, c, home, TRUE, TRUE))
    BY ZenonT(60), <1>1, Publish
  <2> QED
    BY ZenonT(60), <2>2, <2>3
<1>7. /\ sched.depth[c] = 0 => Safe(f, exit_current(f, c))
      /\ Safe(r, preempt_checkpoint(r, c))
  BY SafeState, <1>3, ExitCurrent, PreemptCheckpoint
<1>8. /\ Safe(sched, publish(f, c, home, joinable, FALSE))
      /\ ThreadExit(c) => Safe(sched, exit_current(f, c))
      /\ Safe(sched, preempt_checkpoint(r, c))
  BY ZenonT(60), <1>3, <1>4, <1>6, <1>7, SafeTransitive
<1> QED
  BY ZenonT(60), <1>2, <1>3, <1>5, <1>6, <1>8

\* A call that would block or exit under a guard changes nothing before the CPU halts.
LEMMA HaltSteps ==
  ASSUME PInv, NEW c \in Cpus, NEW held, BlockUnderGuard(c, held)
  PROVE  Safe(sched, sched') /\ Modes
<1>1. Safe(sched, sched) /\ sched' = sched
  BY Bookkeeping DEF PInv, BlockUnderGuard
<1>2. Modes
  BY DEF BlockUnderGuard, Halt, PInv, Modes, Unguarded
<1> QED
  BY <1>1, <1>2

LEMMA JoinSteps ==
  ASSUME PInv, NEW c \in Cpus, NEW t,
         ThreadJoin(c, t) \/ FinishJoin(c) \/ TakeJoinResult(c)
  PROVE  Safe(sched, sched') /\ Modes
<1>1. IsState(sched)
  BY DEF PInv
<1>2. Modes
  <2>1. mode' \in {mode, [mode EXCEPT ![c] = "halted"]}
    BY ZenonT(60) DEF ThreadJoin, FinishJoin, TakeJoinResult, Halt
  <2> QED
    BY <2>1 DEF PInv, Modes, Unguarded
<1>3. CASE FinishJoin(c) \/ TakeJoinResult(c)
  BY ZenonT(60), <1>1, <1>2, <1>3 DEF FinishJoin, TakeJoinResult, finish, Safe, IsState
<1>4. CASE ThreadJoin(c, t)
  <2> DEFINE me == sched.current[c]
             i == me.slot
             f == finalize_retired(sched, c, TRUE)
             s1 == assert_that(f, f.result[i] = None /\ f.reaped[i] = None)
             idle == assert_that(s1, ~is_queued(s1.ready[s1.home[t.slot]], t.slot))
             left == reap_exited(idle, t)
             reaped == set_reaped_user(left, me, thread_id(s1, t.slot), s1.user[t.slot])
             waiting == prepare(s1, i)
             published == [waiting EXCEPT !.joiner[t.slot] = wait_token(waiting, i)]
             blocked == block_current(published, c, "Blocked")
  <2>1. \/ sched' \in {s1, [s1 EXCEPT !.result[i] = JoinError],
                       [reaped EXCEPT !.result[i] = thread_id(s1, t.slot)]}
        \/ PreemptionEnabled(c) /\ sched' = finish_block_current(blocked, c, me)
    BY ZenonT(60), <1>4 DEF ThreadJoin
  <2>2. Safe(sched, f)
    BY ZenonT(60), <1>1, FinalizeRetired
  <2> HIDE DEF f
  <2>3. Safe(sched, s1)
    BY SafeState, <2>2, AssertThat, SafeTransitive
  <2> HIDE DEF s1
  <2>4. Safe(sched, idle)
    BY SafeState, <2>3, AssertThat, SafeTransitive
  <2> HIDE DEF idle
  <2>5. Safe(sched, left)
    BY SafeState, <2>4, Reap, SafeTransitive
  <2> HIDE DEF left
  <2>6. Safe(sched, reaped) /\ Safe(sched, waiting)
    BY <2>3, <2>5 DEF set_reaped_user, prepare, Safe, IsState
  <2> HIDE DEF reaped, waiting
  <2>7. Safe(sched, published)
    BY <2>6 DEF Safe, IsState
  <2> HIDE DEF published
  <2>8. ASSUME PreemptionEnabled(c) PROVE Safe(sched, finish_block_current(blocked, c, me))
    <3>1. Safe(published, blocked)
      BY SafeState, <2>7, <2>8, BlockCurrent DEF PreemptionEnabled
    <3> HIDE DEF blocked
    <3>2. Safe(blocked, finish_block_current(blocked, c, me))
      BY SafeState, <3>1, FinishBlock
    <3> QED
      BY <2>7, <3>1, <3>2, SafeTransitive
  <2>9. /\ Safe(sched, [s1 EXCEPT !.result[i] = JoinError])
        /\ Safe(sched, [reaped EXCEPT !.result[i] = thread_id(s1, t.slot)])
    BY <2>3, <2>6 DEF Safe, IsState
  <2> QED
    BY <1>2, <2>1, <2>3, <2>8, <2>9
<1> QED
  BY <1>3, <1>4

LEMMA WaitSteps ==
  ASSUME PInv, NEW c \in Cpus, NEW kind,
         \/ PrepareWait(c, kind)
         \/ CommitWait(c)
         \/ CancelWait(c)
         \/ SleepUser(c)
         \/ FinishWait(c)
  PROVE  Safe(sched, sched') /\ Modes
<1> DEFINE me == sched.current[c]
<1>1. IsState(sched)
  BY DEF PInv
<1>2. Modes
  BY DEF PrepareWait, CommitWait, CancelWait, SleepUser, FinishWait, PreemptionEnabled, PInv,
         Modes, Unguarded
<1>3. ASSUME NEW i, NEW ok
      PROVE  /\ Safe(sched, prepare(sched, i)) /\ Safe(sched, finish(sched, i))
             /\ Safe(sched, finish(assert_that(sched, ok), i))
  BY <1>1 DEF prepare, finish, assert_that, Safe, IsState
<1>4. CASE PrepareWait(c, kind)
  <2> DEFINE s1 == prepare(sched, Me(c))
             e == WaitDeadline(wait_token(s1, Me(c)))
  <2>1. sched' \in {s1, schedule_event(s1, c, e)}
    BY <1>4 DEF PrepareWait
  <2>2. Safe(sched, s1)
    BY <1>3
  <2> HIDE DEF s1, e
  <2>3. Safe(s1, schedule_event(s1, c, e))
    BY SafeState, <2>2, Events
  <2> QED
    BY <1>2, <2>1, <2>2, <2>3, SafeTransitive
<1>5. CASE CommitWait(c)
  <2> DEFINE blocked == block_current(sched, c, "Blocked")
  <2>1. sched' \in {finish_block_current(blocked, c, me),
                    finish(assert_that(sched, PreemptionEnabled(c)), me.slot)}
    BY <1>5 DEF CommitWait
  <2>2. sched.depth[c] = 0
    BY <1>5 DEF CommitWait, PInv, Unguarded
  <2>3. Safe(sched, blocked)
    BY <1>1, <2>2, BlockCurrent
  <2> HIDE DEF blocked, me
  <2>4. Safe(blocked, finish_block_current(blocked, c, me))
    BY SafeState, <2>3, FinishBlock
  <2> QED
    BY <1>2, <1>3, <2>1, <2>3, <2>4, SafeTransitive
<1>6. CASE CancelWait(c)
  BY <1>1, <1>2, <1>6 DEF CancelWait, Safe, IsState
<1>7. CASE SleepUser(c)
  <2> DEFINE s1 == prepare(sched, me.slot)
             s2 == cancel_event(s1, c, QuantumExpired(me))
             e == WaitDeadline(wait_token(s1, me.slot))
             s3 == schedule_event(s2, c, e)
             blocked == block_current(s3, c, "sleeping")
  <2>1. sched' = finish_block_after_quantum_cancel(blocked, c) /\ sched.depth[c] = 0
    BY <1>7 DEF SleepUser, PreemptionEnabled
  <2>2. Safe(sched, s1)
    BY <1>3
  <2> HIDE DEF s1, e, me
  <2>3. Safe(s1, s2)
    BY SafeState, <2>2, Events
  <2> HIDE DEF s2
  <2>4. Safe(s2, s3)
    BY SafeState, <2>3, Events
  <2> HIDE DEF s3
  <2>5. Safe(sched, s3)
    BY <2>2, <2>3, <2>4, SafeTransitive
  <2>6. Safe(s3, blocked)
    BY SafeState, <2>1, <2>5, BlockCurrent
  <2> HIDE DEF blocked
  <2>7. Safe(blocked, finish_block_after_quantum_cancel(blocked, c))
    BY SafeState, <2>6, FinishBlock
  <2> QED
    BY <1>2, <2>1, <2>5, <2>6, <2>7, SafeTransitive
<1>8. CASE FinishWait(c)
  BY <1>2, <1>3, <1>8 DEF FinishWait
<1> QED
  BY <1>4, <1>5, <1>6, <1>7, <1>8

LEMMA OwnerSteps ==
  ASSUME PInv, NEW c \in Cpus, NEW tok, ClaimWaiter(c, tok) \/ CompleteWait(c, tok) \/ AckSchedulerIpi(c)
  PROVE  Safe(sched, sched') /\ Modes
<1>1. IsState(sched)
  BY DEF PInv
<1>2. Modes
  BY ZenonT(60) DEF ClaimWaiter, CompleteWait, AckSchedulerIpi, PInv, Modes, Unguarded
<1>3. CASE ClaimWaiter(c, tok)
  <2> DEFINE e == WaitDeadline(tok)
             home == sched.home[tok.slot]
  <2>1. sched' \in {cancel_event(sched, c, e), cancel_event_remote(sched, home, e)}
    BY <1>3 DEF ClaimWaiter
  <2> HIDE DEF e, home
  <2> QED
    BY <1>1, <1>2, <2>1, Events
<1>4. CASE CompleteWait(c, tok)
  BY ZenonT(60), <1>1, <1>2, <1>4, Completion DEF CompleteWait
<1>5. CASE AckSchedulerIpi(c)
  BY <1>1, <1>2, <1>5 DEF AckSchedulerIpi, Safe, IsState
<1> QED
  BY <1>3, <1>4, <1>5

LEMMA IpiSteps ==
  ASSUME PInv, NEW c \in Cpus, FinishSchedulerIpi(c)
  PROVE  Safe(sched, sched') /\ Modes
<1> DEFINE s1 == finalize_retired(sched, c, TRUE)
           drained == consume_scheduler_ipi(s1, c)
           s2 == note_runnable_peer_available(drained, c)
           switched == handoff_optional(consume_checkpoint(s2, c), c)
<1>1. Modes
  BY DEF FinishSchedulerIpi, PInv, Modes, Unguarded
<1>2. \/ sched' \in {s1, s2}
      \/ checkpoint_due(s2, c) /\ sched' = replace_quantum_event(switched, c, s2.current[c])
  BY ZenonT(60) DEF FinishSchedulerIpi
<1>3. Safe(sched, s1)
  BY ZenonT(60), FinalizeRetired DEF PInv
<1> HIDE DEF s1
<1>4. Safe(s1, drained)
  BY SafeState, <1>3, Queues
<1> HIDE DEF drained
<1>5. Safe(drained, s2)
  BY SafeState, <1>4, NotePeer
<1> HIDE DEF s2
<1>6. Safe(sched, s2)
  BY <1>3, <1>4, <1>5, SafeTransitive
<1>7. ASSUME checkpoint_due(s2, c) PROVE Safe(sched, replace_quantum_event(switched, c, s2.current[c]))
  <2>1. Safe(s2, switched)
    BY SafeState, <1>6, <1>7, Checkpoint
  <2> HIDE DEF switched
  <2>2. Safe(switched, replace_quantum_event(switched, c, s2.current[c]))
    BY SafeState, <2>1, ReplaceQuantum
  <2> QED
    BY <1>6, <2>1, <2>2, SafeTransitive
<1> QED
  BY <1>1, <1>2, <1>3, <1>6, <1>7

\* The idle CPU that a timeout wakes directly holds no guard.
LEMMA WakeFromIdle ==
  ASSUME NEW s, IsState(s), NEW c \in Cpus, s.depth[c] = 0, NEW tok
  PROVE  Safe(s, timed_wake_from_idle(s, c, tok))
<1> DEFINE done == complete(s, tok, "Timeout")
           s1 == [done EXCEPT !.state[tok.slot] = "Ready"]
           queued == make_ready_and_queue(s1, c, s.idle[c], FALSE)
           s2 == make_running(queued, c, thread_of(tok))
           s3 == consume_checkpoint(s2, c)
<1>1. timed_wake_from_idle(s, c, tok) = activate_thread_address_space(s3, c, thread_of(tok))
  BY DEF timed_wake_from_idle
<1>2. Safe(s, done)
  BY DEF complete, Safe, IsState
<1> HIDE DEF done
<1>3. Safe(s, s1)
  BY <1>2 DEF Safe, IsState
<1> HIDE DEF s1
<1>4. Safe(s1, queued)
  <2>1. IsState(s1)
    BY <1>3 DEF Safe
  <2>2. ASSUME NEW t PROVE Safe(s1, make_ready_and_queue(s1, c, t, FALSE))
    BY ZenonT(60), <2>1, MakeReady
  <2> QED
    BY ZenonT(60), <2>2
<1> HIDE DEF queued
<1>5. Safe(s, queued)
  BY <1>3, <1>4, SafeTransitive
<1>6. Safe(queued, s2)
  BY SafeState, <1>5, MakeRunning
<1> HIDE DEF s2
<1>7. Safe(s2, s3)
  BY SafeState, <1>6, Bookkeeping
<1> HIDE DEF s3
<1>8. Safe(s3, activate_thread_address_space(s3, c, thread_of(tok)))
  BY SafeState, <1>7, Activate
<1>9. Safe(s, s3)
  BY <1>5, <1>6, <1>7, SafeTransitive
<1> QED
  BY <1>1, <1>8, <1>9, SafeTransitive

LEMMA TimerSteps ==
  ASSUME PInv, NEW c \in Cpus, NEW batch,
         \/ TakeExpired(c, batch)
         \/ FinishTimerBegin(c)
         \/ FinishTimerEvent(c)
         \/ FinishTimerEnd(c)
         \/ ApplyQuantumUpdate(c)
  PROVE  Safe(sched, sched') /\ Modes
<1>1. IsState(sched)
  BY DEF PInv
<1>2. Modes
  BY ZenonT(60) DEF TakeExpired, FinishTimerBegin, FinishTimerEvent, FinishTimerEnd, ApplyQuantumUpdate,
         PInv, Modes, Unguarded
<1>3. CASE TakeExpired(c, batch)
  BY <1>1, <1>2, <1>3 DEF TakeExpired, Safe, IsState
<1>4. CASE FinishTimerBegin(c)
  <2> DEFINE s1 == finalize_retired(sched, c, FALSE)
             tok == expired[c][1].of
  <2>1. \/ sched' = s1
        \/ s1.depth[c] = 0 /\ sched' = timed_wake_from_idle(s1, c, tok)
    BY ZenonT(60), <1>4 DEF FinishTimerBegin, wakes_from_idle
  <2>2. Safe(sched, s1)
    BY ZenonT(60), <1>1, FinalizeRetired
  <2> HIDE DEF s1, tok
  <2>3. s1.depth[c] = 0 => Safe(s1, timed_wake_from_idle(s1, c, tok))
    BY SafeState, <2>2, WakeFromIdle
  <2> QED
    BY <1>2, <2>1, <2>2, <2>3, SafeTransitive
<1>5. CASE FinishTimerEvent(c)
  <2> DEFINE of == Head(expired[c]).of
  <2>1. sched' \in {sched, request_reschedule(sched, c), complete_wait_transition(sched, c, of, "Timeout", FALSE)}
    BY <1>5 DEF FinishTimerEvent, finish_timer_event
  <2> HIDE DEF of
  <2>2. Safe(sched, complete_wait_transition(sched, c, of, "Timeout", FALSE))
    BY ZenonT(60), <1>1, Completion
  <2> QED
    BY ZenonT(60), <1>1, <1>2, <2>1, <2>2, Bookkeeping
<1>6. CASE FinishTimerEnd(c)
  <2> DEFINE s1 == IF sched.current[c] = sched.idle[c] /\ has_runnable_peer(sched, c)
                   THEN request_reschedule(sched, c) ELSE sched
             s2 == handoff_optional(consume_checkpoint(s1, c), c)
  <2>1. sched' = IF checkpoint_due(s1, c) THEN s2 ELSE s1
    BY ZenonT(60), <1>6 DEF FinishTimerEnd
  <2>2. Safe(sched, s1)
    BY ZenonT(60), <1>1, Bookkeeping
  <2> HIDE DEF s1
  <2>3. checkpoint_due(s1, c) => Safe(s1, s2)
    BY SafeState, <2>2, Checkpoint
  <2> HIDE DEF s2
  <2> QED
    BY <1>2, <2>1, <2>2, <2>3, SafeTransitive
<1>7. CASE ApplyQuantumUpdate(c)
  <2> DEFINE s1 == cancel_event(sched, c, QuantumExpired(update[c].obsolete))
             e == QuantumExpired(update[c].ensure)
  <2>1. sched' \in {[s1 EXCEPT !.early[c] = FALSE], schedule_event(s1, c, e)}
    BY <1>7 DEF ApplyQuantumUpdate
  <2>2. Safe(sched, s1)
    BY <1>1, Events
  <2> HIDE DEF s1, e
  <2>3. Safe(s1, schedule_event(s1, c, e))
    BY SafeState, <2>2, Events
  <2>4. Safe(sched, [s1 EXCEPT !.early[c] = FALSE])
    BY <2>2 DEF Safe, IsState
  <2> QED
    BY ZenonT(60), <1>2, <2>1, <2>2, <2>3, <2>4, SafeTransitive
<1> QED
  BY <1>3, <1>4, <1>5, <1>6, <1>7

----------------------------------------------------------------------------
(* The theorem.                                                            *)

Switch ==
  \A c \in Cpus : sched.depth[c] > 0 /\ sched'.depth[c] > 0 =>
    /\ sched'.current[c] = sched.current[c]
    /\ sched.resched[c] => sched'.resched[c]

LEMMA SafeStep ==
  ASSUME PInv, Safe(sched, sched'), Modes
  PROVE  PInv' /\ Switch
BY DEF PInv, Safe, Modes, Switch, IsState

\* Entering and dropping a guard change the depth of the own CPU only, and a drop
\* reaches a checkpoint only if it was the last.
LEMMA GuardSteps ==
  ASSUME PInv, NEW c \in Cpus, NEW irqs, PreemptGuardEnter(c) \/ PreemptGuardDrop(c, irqs)
  PROVE  PInv' /\ Switch
<1>1. CASE PreemptGuardEnter(c)
  BY <1>1 DEF PreemptGuardEnter, PInv, Switch, IsState, Unguarded
<1>2. CASE PreemptGuardDrop(c, irqs)
  <2> DEFINE s1 == [sched EXCEPT !.depth[c] = @ - 1]
  <2>1. /\ IsState(s1) /\ s1.current = sched.current /\ s1.resched = sched.resched
        /\ \A d \in Cpus \ {c} : s1.depth[d] = sched.depth[d]
    BY DEF PInv, IsState
  <2>2. /\ mode[c] = "thread" /\ mode' = mode
        /\ \/ sched' = s1
           \/ checkpoint_due(s1, c) /\ sched' = preempt_checkpoint(s1, c)
    BY <1>2 DEF PreemptGuardDrop
  <2> HIDE DEF s1
  <2>3. Safe(s1, preempt_checkpoint(s1, c)) /\ Safe(s1, s1)
    BY <2>1, PreemptCheckpoint, Bookkeeping
  <2>4. Safe(s1, sched')
    BY <2>2, <2>3
  <2>5. PInv'
    BY <2>1, <2>2, <2>4 DEF PInv, Safe, Unguarded
  <2>6. Switch
    <3> SUFFICES ASSUME NEW d \in Cpus, sched.depth[d] > 0, sched'.depth[d] > 0
                 PROVE  /\ sched'.current[d] = sched.current[d]
                        /\ sched.resched[d] => sched'.resched[d]
      BY DEF Switch
    <3>1. s1.depth[d] # 0
      BY <2>4 DEF Safe
    <3> QED
      BY <2>1, <2>4, <3>1 DEF Safe
  <2> QED
    BY <2>5, <2>6
<1> QED
  BY <1>1, <1>2

LEMMA PreemptionStep ==
  ASSUME PInv, [Next]_vars
  PROVE  PInv' /\ Switch
<1>1. CASE UNCHANGED vars
  BY <1>1 DEF vars, PInv, Switch, IsState
<1>2. ASSUME NEW c \in Cpus,
             \/ PreemptGuardEnter(c)
             \/ \E irqs \in BOOLEAN : PreemptGuardDrop(c, irqs)
      PROVE  PInv' /\ Switch
  BY <1>2, GuardSteps
<1>3. ASSUME NEW c \in Cpus, InitializeCurrentCpu(c) \/ EnterRunningThread(c)
      PROVE  PInv' /\ Switch
  BY <1>3, BootSteps, SafeStep
<1>4. ASSUME NEW c \in Cpus,
             \/ \E home \in Cpus, joinable \in BOOLEAN : ThreadSpawn(c, home, joinable)
             \/ \E home \in Cpus : ThreadSpawnUser(c, home)
             \/ ThreadExit(c)
             \/ YieldNow(c)
      PROVE  PInv' /\ Switch
  BY <1>4, SpawnSteps, SafeStep
<1>10. ASSUME NEW c \in Cpus, \E held \in BOOLEAN : BlockUnderGuard(c, held)
       PROVE  PInv' /\ Switch
  BY <1>10, HaltSteps, SafeStep
<1>5. ASSUME NEW c \in Cpus,
             \/ \E i \in Slots : \E g \in 1..sched.gen[i] : ThreadJoin(c, [slot |-> i, gen |-> g])
             \/ FinishJoin(c)
             \/ TakeJoinResult(c)
      PROVE  PInv' /\ Switch
  BY ZenonT(60), <1>5, JoinSteps, SafeStep
<1>6. ASSUME NEW c \in Cpus,
             \/ \E kind \in WaitKinds : PrepareWait(c, kind)
             \/ CommitWait(c)
             \/ CancelWait(c)
             \/ SleepUser(c)
             \/ FinishWait(c)
      PROVE  PInv' /\ Switch
  BY <1>6, WaitSteps, SafeStep
<1>7. ASSUME NEW c \in Cpus,
             \/ \E tok \in owned : ClaimWaiter(c, tok)
             \/ \E tok \in claimed : CompleteWait(c, tok)
             \/ AckSchedulerIpi(c)
      PROVE  PInv' /\ Switch
  BY <1>7, OwnerSteps, SafeStep
<1>8. ASSUME NEW c \in Cpus, FinishSchedulerIpi(c)
      PROVE  PInv' /\ Switch
  BY <1>8, IpiSteps, SafeStep
<1>9. ASSUME NEW c \in Cpus,
             \/ \E batch \in Batches(sched.timed[c]) : TakeExpired(c, batch)
             \/ FinishTimerBegin(c)
             \/ FinishTimerEvent(c)
             \/ FinishTimerEnd(c)
             \/ ApplyQuantumUpdate(c)
      PROVE  PInv' /\ Switch
  BY <1>9, TimerSteps, SafeStep
<1> QED
  BY <1>1, <1>2, <1>3, <1>4, <1>5, <1>6, <1>7, <1>8, <1>9, <1>10 DEF Next

\* For any number of CPUs and threads and any nesting of guards: while a PreemptGuard is
\* held on a CPU, no yield, spawn, join, interrupt or wake changes its running thread or
\* loses its reschedule request, and a call that would block or exit panics before it
\* has changed anything (assert_preemption_enabled).
THEOREM GuardsHold == Spec => NoSwitchWhileDisabled
<1>1. Init => PInv
  <2>1. {"depth", "current", "resched"} \subseteq DOMAIN bootstrap_new
    BY DEF bootstrap_new
  <2>2. bootstrap_new.depth = [c \in Cpus |-> 0]
    BY DEF bootstrap_new
  <2>3. DOMAIN bootstrap_new.current = Cpus
    BY DEF bootstrap_new
  <2>4. DOMAIN bootstrap_new.resched = Cpus
    BY DEF bootstrap_new
  <2> QED
    BY <2>1, <2>2, <2>3, <2>4 DEF Init, PInv, IsState
<1>2. PInv /\ [Next]_vars => PInv' /\ Switch
  BY PreemptionStep
<1> QED
  BY <1>1, <1>2, PTL DEF Spec, NoSwitchWhileDisabled, Switch

============================================================================
