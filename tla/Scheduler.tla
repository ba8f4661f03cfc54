---------------------------- MODULE Scheduler ----------------------------
(***************************************************************************)
(* The genrt scheduler: the thread table, the per-CPU contexts, the        *)
(* remote-ready ingress and its coalesced scheduler IPI, exact wait        *)
(* tokens, thread join and deferred reclamation, CPU-local preemption      *)
(* state and the per-CPU queue of timed events.                            *)
(*                                                                         *)
(* `sched' is everything an operation changes under IrqSpinLock<Scheduler> *)
(* (with the CPU-local preemption cells and the timed events, which only   *)
(* the owner CPU adds to).  An operator of this module takes such a state  *)
(* and returns the state the Rust method of the same name leaves, so a     *)
(* handler is the composition of the methods it calls, in their order.     *)
(* An internal panic of the code sets `panic' and is otherwise carried on  *)
(* with.  The one panic that callers answer for, to block or to exit under *)
(* a PreemptGuard, halts the CPU (mode "halted") before anything changes.  *)
(*                                                                         *)
(* A CPU runs with its IRQs masked from prepare_wait to commit_wait and    *)
(* through an IRQ handler, so one program counter per CPU (`mode') is      *)
(* enough: only OTHER CPUs act inside those windows.                       *)
(***************************************************************************)
EXTENDS Naturals, Sequences, FiniteSets

CONSTANTS
  NumCpus,          \* logical CPUs, CPU 0 boots
  ThreadCapacity,   \* KERNEL_THREAD_CAPACITY
  MaxGen,           \* bound: generations a slot goes through
  MaxSeq,           \* bound: waits a slot prepares over all its generations
  MaxDepth,         \* bound: nesting of PreemptGuard
  MaxBatch,         \* bound: timed events one timer IRQ takes
  WaitKinds,        \* the ways threads wait (see PrepareWait)
  None, JoinError   \* model values: an absent option, a failed join

Cpus == 0..(NumCpus - 1)
Slots == 0..(ThreadCapacity - 1)
ThreadId == [slot : Slots, gen : 1..MaxGen]
WaitToken == [slot : Slots, gen : 1..MaxGen, seq : 1..MaxSeq]
QueueCapacity == ThreadCapacity - 1

ASSUME SchedConstants ==
  /\ NumCpus \in Nat \ {0}
  /\ ThreadCapacity \in Nat /\ ThreadCapacity >= NumCpus + 1
  /\ MaxGen \in Nat \ {0} /\ MaxSeq \in Nat /\ MaxDepth \in Nat /\ MaxBatch \in Nat
  /\ WaitKinds \subseteq {"owner", "timed", "sleep", "refused"}
  /\ None \notin ThreadId \cup WaitToken \cup Cpus \cup {JoinError}

ThreadState == {"Free", "Ready", "Running", "Blocked", "Exited"}
\* ActiveWait: its phase, with Completed(cause) named by the cause and the one
\* observable phase of an Automatic wait ("sleeping" = Blocked, Automatic).
WaitPhase == {"none", "Prepared", "Blocked", "sleeping", "Notified", "Timeout"}
WaitDeadline(tok) == [kind |-> "wait", of |-> tok]
QuantumExpired(t) == [kind |-> "quantum", of |-> t]
TimedEvent == [kind : {"wait"}, of : WaitToken] \cup [kind : {"quantum"}, of : ThreadId]

VARIABLES
  sched,      \* the state behind the scheduler lock
  lock,       \* the CPU inside a multi-step scheduler critical section, or None
  mode,       \* per CPU: what the CPU executes
  expired,    \* per CPU: ExpiredEvents being dispatched by the timer IRQ
  update,     \* per CPU: the QuantumUpdate to apply after the dispatch
  pc,         \* per slot: the thread's place in a blocking call
  target,     \* per slot: the thread it is joining
  owned,      \* tokens published to condition owners (mailbox, stdin, process)
  claimed     \* tokens an owner removed and is about to complete

vars == <<sched, lock, mode, expired, update, pc, target, owned, claimed>>

thread_id(s, i) == [slot |-> i, gen |-> s.gen[i]]
thread_of(tok) == [slot |-> tok.slot, gen |-> tok.gen]
wait_token(s, i) == [slot |-> i, gen |-> s.gen[i], seq |-> s.seq[i]]
thread_matches_any_generation(s, t) == s.state[t.slot] # "Free"
thread_matches(s, t) == s.gen[t.slot] = t.gen /\ s.state[t.slot] # "Free"
thread_is_retiring(s, t) == thread_matches(s, t) /\ s.retired[s.home[t.slot]] = t
running_thread(s, c) == s.current[c]
has_runnable_peer(s, c) == s.ready[c] # <<>>
is_queued(q, i) == \E k \in DOMAIN q : q[k].slot = i
panics(s, ok) == s.panic \/ ~ok
assert_that(s, ok) == [s EXCEPT !.panic = panics(s, ok)]

----------------------------------------------------------------------------
(* CPU-local preemption state and the timed events of a CPU.               *)

request_reschedule(s, c) == [s EXCEPT !.resched[c] = TRUE]

\* PreemptionState::consume_checkpoint: whether it fires, and what it leaves.
checkpoint_due_at_any_depth(s, c) == s.online[c] /\ s.resched[c]
checkpoint_due(s, c) == s.online[c] /\ s.depth[c] = 0 /\ s.resched[c]
consume_checkpoint(s, c) ==
  IF checkpoint_due(s, c) THEN [s EXCEPT !.resched[c] = FALSE] ELSE s

\* On the owner CPU both re-arm the timer for the events that are left; a cancel
\* from another CPU leaves it armed for the event that is gone (`early').
schedule_event(s, c, e) == [s EXCEPT !.timed[c] = @ \cup {e}, !.early[c] = FALSE]
cancel_event(s, c, e) ==
  [s EXCEPT !.timed[c] = @ \ {e}, !.early[c] = @ /\ e \notin s.timed[c]]
cancel_event_remote(s, c, e) ==
  [s EXCEPT !.timed[c] = @ \ {e}, !.early[c] = @ \/ e \in s.timed[c]]

ensure_quantum_event(s, c) ==
  IF has_runnable_peer(s, c) /\ QuantumExpired(running_thread(s, c)) \notin s.timed[c]
  THEN schedule_event(s, c, QuantumExpired(running_thread(s, c)))
  ELSE s

replace_quantum_event(s, c, obsolete) ==
  ensure_quantum_event(cancel_event(s, c, QuantumExpired(obsolete)), c)

note_runnable_peer_available(s, c) ==
  IF s.current[c] # None /\ has_runnable_peer(s, c)
  THEN ensure_quantum_event(request_reschedule(s, c), c)
  ELSE s

----------------------------------------------------------------------------
(* Ready queues, remote-ready ingress and the scheduler IPI.               *)

ready_push_back(s, c, t) ==
  [s EXCEPT
     !.ready[c] = Append(@, t),
     !.panic = panics(s, /\ s.idle[c] # t
                         /\ s.home[t.slot] = c
                         /\ ~is_queued(s.ready[c], t.slot)
                         /\ Len(s.ready[c]) < QueueCapacity)]

make_ready_and_queue(s, c, t, notify) ==
  LET ready == [s EXCEPT !.state[t.slot] = "Ready",
                         !.panic = panics(s, thread_matches(s, t))]
      queued == ready_push_back(ready, c, t)
  IN IF s.idle[c] = t THEN ready
     ELSE IF notify /\ s.ready[c] = <<>> THEN note_runnable_peer_available(queued, c)
     ELSE queued

make_running(s, c, t) ==
  [s EXCEPT
     !.state[t.slot] = "Running", !.current[c] = t,
     !.panic = panics(s, /\ thread_matches(s, t)
                         /\ s.state[t.slot] = "Ready"
                         /\ s.home[t.slot] = c)]

\* ready_pop_front, or the idle thread when the queue is empty.
next_thread(s, c) == IF s.ready[c] = <<>> THEN s.idle[c] ELSE Head(s.ready[c])
pop_next(s, c) ==
  IF s.ready[c] = <<>> THEN s
  ELSE [s EXCEPT
          !.ready[c] = Tail(@),
          !.panic = panics(s, LET t == Head(s.ready[c]) IN
                              /\ thread_matches(s, t) /\ s.state[t.slot] = "Ready"
                              /\ s.idle[c] # t /\ s.home[t.slot] = c)]

request_scheduler_ipi(s, c) ==
  IF s.ipi[c] THEN s ELSE [s EXCEPT !.ipi[c] = TRUE, !.sgi[c] = TRUE]

publish_remote_ready(s, t, c) ==
  request_scheduler_ipi(
    [s EXCEPT
       !.remote[c] = Append(@, t),
       !.panic = panics(s, /\ \A k \in DOMAIN s.remote[c] : s.remote[c][k] # t
                           /\ Len(s.remote[c]) < QueueCapacity)], c)

\* Clears the coalescing bit and moves the whole ingress, in order.
consume_scheduler_ipi(s, c) ==
  [s EXCEPT
     !.ipi[c] = FALSE,
     !.ready[c] = @ \o s.remote[c],
     !.remote[c] = <<>>,
     !.panic = panics(s,
       /\ s.ipi[c] \/ s.remote[c] = <<>>
       /\ \A k \in DOMAIN s.remote[c] : LET t == s.remote[c][k] IN
            /\ thread_matches(s, t) /\ s.state[t.slot] = "Ready"
            /\ s.home[t.slot] = c /\ s.idle[c] # t
            /\ ~is_queued(s.ready[c], t.slot)
       /\ Len(s.ready[c]) + Len(s.remote[c]) <= QueueCapacity)]

----------------------------------------------------------------------------
(* Waits: WaitMetadata and the completion of an exact token.               *)

prepare(s, i) ==
  [s EXCEPT !.wait[i] = "Prepared", !.seq[i] = @ + 1,
            !.panic = panics(s, s.wait[i] = "none")]

completion_any_sequence(s, tok) ==
  LET phase == s.wait[tok.slot] IN
  IF ~thread_matches(s, thread_of(tok)) \/ phase = "none" THEN "Stale"
  ELSE CASE phase = "Prepared"                -> "CompletedPrepared"
         [] phase \in {"Blocked", "sleeping"} -> "WokeBlocked"
         [] phase \in {"Notified", "Timeout"} -> "AlreadyCompleted"
completion(s, tok) ==
  LET phase == s.wait[tok.slot] IN
  IF ~thread_matches(s, thread_of(tok)) \/ phase = "none" \/ s.seq[tok.slot] # tok.seq
  THEN "Stale"
  ELSE CASE phase = "Prepared"                -> "CompletedPrepared"
         [] phase \in {"Blocked", "sleeping"} -> "WokeBlocked"
         [] phase \in {"Notified", "Timeout"} -> "AlreadyCompleted"

\* WaitMetadata::complete: an Automatic wait is consumed by its completion.
complete(s, tok, cause) ==
  IF completion(s, tok) \in {"CompletedPrepared", "WokeBlocked"}
  THEN [s EXCEPT !.wait[tok.slot] = IF @ = "sleeping" THEN "none" ELSE cause]
  ELSE s

\* Executed on CPU c; `notify' is FALSE inside a timer batch.
complete_wait_last_wins(s, c, tok, cause, notify) ==
  LET i == tok.slot
      done == [s EXCEPT !.wait[i] = IF @ = "sleeping" THEN "none" ELSE cause]
  IN CASE completion(s, tok) \in {"CompletedPrepared", "AlreadyCompleted"} -> done
       [] completion(s, tok) = "WokeBlocked" /\ s.home[i] = c ->
            make_ready_and_queue(done, c, thread_of(tok), notify)
       [] completion(s, tok) = "WokeBlocked" /\ s.home[i] # c ->
            publish_remote_ready([done EXCEPT !.state[i] = "Ready"], thread_of(tok), s.home[i])
       [] OTHER -> s
complete_wait_transition(s, c, tok, cause, notify) ==
  LET i == tok.slot
      home == s.home[i]
      s1 == complete(s, tok, cause)
      woken == assert_that(s1, s.state[i] = "Blocked")
  IN CASE completion(s, tok) = "CompletedPrepared" ->
            assert_that(s1, s.state[i] = "Running")
       [] completion(s, tok) = "WokeBlocked" /\ home = c ->
            LET queued == make_ready_and_queue(woken, c, thread_of(tok), notify)
            IN IF notify THEN queued ELSE request_reschedule(queued, c)
       [] completion(s, tok) = "WokeBlocked" /\ home # c ->
            publish_remote_ready([woken EXCEPT !.state[i] = "Ready"], thread_of(tok), home)
       [] OTHER -> s

----------------------------------------------------------------------------
(* User roots: TTBR0 of a CPU follows the thread the CPU runs.  A user     *)
(* address space is named by its main thread.                              *)

clear_user_address_space(s, c) == [s EXCEPT !.access[c] = FALSE, !.root[c] = None]

activate_keeping_idle_access(s, c, t) ==
  IF s.user[t.slot] THEN [s EXCEPT !.access[c] = TRUE, !.root[c] = t]
  ELSE IF s.idle[c] = t THEN s
  ELSE clear_user_address_space(s, c)
activate_thread_address_space(s, c, t) ==
  IF s.user[t.slot]
  THEN [s EXCEPT !.access[c] = TRUE, !.root[c] = t,
                 !.panic = panics(s, \A d \in Cpus \ {c} : s.root[d] # t)]
  ELSE IF s.idle[c] = t THEN [s EXCEPT !.access[c] = FALSE]
  ELSE clear_user_address_space(s, c)

----------------------------------------------------------------------------
(* Context handoffs.                                                       *)

\* transition_optional_switch and handoff_selected.
handoff_optional(s, c) ==
  LET from == s.current[c]
      to == next_thread(s, c)
      s1 == make_ready_and_queue(pop_next(s, c), c, from, FALSE)
  IN IF s.ready[c] = <<>> THEN s
     ELSE activate_thread_address_space(make_running(s1, c, to), c, to)

finish_block_without_quantum(s, c) == consume_checkpoint(s, c)
finish_block_after_quantum_cancel(s, c) ==
  ensure_quantum_event(consume_checkpoint(s, c), c)

finish_block_current(s, c, from) ==
  finish_block_after_quantum_cancel(cancel_event(s, c, QuantumExpired(from)), c)

----------------------------------------------------------------------------
(* Thread lifecycle.                                                       *)

\* ThreadTable::release: the slot keeps its generation and wait sequence.
reap_exited(s, t) ==
  LET i == t.slot IN
  [s EXCEPT !.state[i] = "Free", !.home[i] = None, !.joinable[i] = FALSE,
            !.user[i] = FALSE, !.free = Append(@, i),
            !.panic = panics(s, s.wait[i] = "none")]

complete_joiner(s, c, t, joiner, notify) ==
  [complete_wait_transition(assert_that(s, completion(s, joiner) = "WokeBlocked"),
                            c, joiner, "Notified", notify)
     EXCEPT !.result[joiner.slot] = t]

\* The joiner that takes over the reaped thread's user resources.
set_reaped_user(s, joiner, t, user) ==
  [s EXCEPT !.reaped[joiner.slot] = IF user THEN t ELSE None,
            !.panic = panics(s, thread_matches(s, joiner) /\ s.reaped[joiner.slot] = None)]

finalize_retired(s, c, notify) ==
  LET t == s.retired[c]
      i == t.slot
      taken == [s EXCEPT !.retired[c] = None,
                         !.panic = panics(s, /\ s.current[c] # t /\ thread_matches(s, t)
                                             /\ s.state[i] = "Exited" /\ s.home[i] = c)]
      joiner == s.joiner[i]
      joined == complete_joiner([taken EXCEPT !.joiner[i] = None], c, t, joiner, notify)
  IN IF t = None THEN s
     ELSE IF joiner # None
          THEN set_reaped_user(reap_exited(joined, t), thread_of(joiner), t, s.user[i])
     ELSE IF ~s.joinable[i] THEN reap_exited(assert_that(taken, ~s.user[i]), t)
     ELSE taken

transition_exit_without_ipi(s, c) ==
  LET from == s.current[c]
      s1 == [s EXCEPT !.state[from.slot] = "Exited", !.retired[c] = from]
  IN make_running(pop_next(s1, c), c, next_thread(s, c))
transition_exit_current(s, c) ==
  LET from == s.current[c]
      to == next_thread(s, c)
      s1 == [s EXCEPT !.state[from.slot] = "Exited", !.retired[c] = from,
                      !.panic = panics(s, /\ s.state[from.slot] = "Running"
                                          /\ from # s.idle[c] /\ s.retired[c] = None)]
  IN request_scheduler_ipi(make_running(pop_next(s1, c), c, to), c)

\* ThreadTable slot taken and published on `home' by CPU c.
publish(s, c, home, joinable, user) ==
  LET i == s.free[Len(s.free)]
      t == [slot |-> i, gen |-> s.gen[i] + 1]
      s1 == [s EXCEPT !.free = SubSeq(@, 1, Len(@) - 1),
                      !.gen[i] = @ + 1, !.state[i] = "Ready", !.home[i] = home,
                      !.joinable[i] = joinable, !.user[i] = user,
                      !.panic = panics(s, s.state[i] = "Free")]
      local == ready_push_back(s1, c, t)
  IN IF home # c THEN publish_remote_ready(s1, t, home)
     ELSE IF s.ready[c] = <<>> THEN note_runnable_peer_available(local, c)
     ELSE local

----------------------------------------------------------------------------
(* Boot: CPU 0 bootstraps idle and one static thread, starts every         *)
(* secondary and waits for it, and enters its first thread last.           *)

idle0 == [slot |-> 0, gen |-> 1]
init_thread == [slot |-> 1, gen |-> 1]

bootstrap_new ==
  [gen      |-> [i \in Slots |-> IF i <= 1 THEN 1 ELSE 0],
   seq      |-> [i \in Slots |-> 0],
   state    |-> [i \in Slots |-> IF i = 0 THEN "Ready" ELSE IF i = 1 THEN "Running" ELSE "Free"],
   home     |-> [i \in Slots |-> IF i <= 1 THEN 0 ELSE None],
   joinable |-> [i \in Slots |-> FALSE],
   user     |-> [i \in Slots |-> FALSE],
   wait     |-> [i \in Slots |-> "none"],
   joiner   |-> [i \in Slots |-> None],
   result   |-> [i \in Slots |-> None],
   reaped   |-> [i \in Slots |-> None],
   free     |-> [k \in 1..(ThreadCapacity - 2) |-> k + 1],
   current  |-> [c \in Cpus |-> IF c = 0 THEN init_thread ELSE None],
   idle     |-> [c \in Cpus |-> IF c = 0 THEN idle0 ELSE None],
   retired  |-> [c \in Cpus |-> None],
   online   |-> [c \in Cpus |-> FALSE],
   ready    |-> [c \in Cpus |-> <<>>],
   remote   |-> [c \in Cpus |-> <<>>],
   ipi      |-> [c \in Cpus |-> FALSE],
   sgi      |-> [c \in Cpus |-> FALSE],
   depth    |-> [c \in Cpus |-> 0],
   resched  |-> [c \in Cpus |-> FALSE],
   timed    |-> [c \in Cpus |-> {}],
   early    |-> [c \in Cpus |-> FALSE],
   root     |-> [c \in Cpus |-> None],
   access   |-> [c \in Cpus |-> FALSE],
   panic    |-> FALSE]

Init ==
  /\ sched = bootstrap_new
  /\ lock = None
  /\ mode = [c \in Cpus |-> "boot"]
  /\ expired = [c \in Cpus |-> <<>>]
  /\ update = [c \in Cpus |-> [obsolete |-> None, ensure |-> None]]
  /\ pc = [i \in Slots |-> "run"]
  /\ target = [i \in Slots |-> None]
  /\ owned = {}
  /\ claimed = {}

\* transition_initialize_idle_current: permanent idle from a reserved slot.
initialize_idle_current(s, c) ==
  LET i == s.free[Len(s.free)]
      t == [slot |-> i, gen |-> 1]
  IN make_running(
       [s EXCEPT !.free = SubSeq(@, 1, Len(@) - 1), !.gen[i] = 1, !.state[i] = "Ready",
                 !.home[i] = c, !.idle[c] = t], c, t)

InitializeCurrentCpu(c) ==
  /\ mode[c] = "boot" /\ sched.current[c] = None /\ lock = None
  /\ \A d \in Cpus : 0 < d /\ d < c => sched.online[d]
  /\ sched.free # <<>>
  /\ sched' = initialize_idle_current(sched, c)
  /\ UNCHANGED <<lock, mode, expired, update, pc, target, owned, claimed>>

\* prepare_running_thread_entry; CPU 0 enters after the last secondary.
EnterRunningThread(c) ==
  /\ mode[c] = "boot" /\ sched.current[c] # None /\ lock = None
  /\ c = 0 => \A d \in Cpus \ {0} : sched.online[d]
  /\ LET s1 == ensure_quantum_event(assert_that(sched, ~sched.online[c]), c)
         s2 == activate_thread_address_space(s1, c, sched.current[c])
     IN sched' = [s2 EXCEPT !.online[c] = TRUE]
  /\ mode' = [mode EXCEPT ![c] = "thread"]
  /\ UNCHANGED <<lock, expired, update, pc, target, owned, claimed>>

----------------------------------------------------------------------------
(* Calls of the running thread.  The idle thread makes none of them.  Only *)
(* the ones that block or exit ask for preemption to be enabled.           *)

Me(c) == sched.current[c].slot
Calls(c) ==
  /\ mode[c] = "thread" /\ lock = None
  /\ sched.current[c] # sched.idle[c]
PreemptionEnabled(c) == sched.depth[c] = 0

\* The failed assert_preemption_enabled of a call that would block or exit: the panic
\* handler halts the CPU in its critical section, if it is in one (`held').
Halt(c, held) ==
  /\ mode' = [mode EXCEPT ![c] = "halted"]
  /\ lock' = IF held THEN c ELSE None

\* Exits and the waits of condition owners assert outside the scheduler lock, the
\* wait preparations of sleeps inside it.
BlockUnderGuard(c, held) ==
  /\ Calls(c) /\ pc[Me(c)] = "run" /\ ~PreemptionEnabled(c)
  /\ Halt(c, held)
  /\ UNCHANGED <<sched, expired, update, pc, target, owned, claimed>>

\* thread_spawn (kernel) finalizes the retired slot first; thread_spawn_user and
\* the fork path do not.  Without a free slot the call fails after finalizing.
ThreadSpawn(c, home, joinable) ==
  /\ Calls(c) /\ pc[Me(c)] = "run" /\ ~sched.user[Me(c)]
  /\ LET s1 == finalize_retired(sched, c, TRUE) IN
       \/ /\ s1.online[home] /\ s1.free # <<>>
          /\ s1.gen[s1.free[Len(s1.free)]] < MaxGen
          /\ sched' = publish(s1, c, home, joinable, FALSE)
       \/ /\ ~s1.online[home] \/ s1.free = <<>>
          /\ sched' = s1
  /\ UNCHANGED <<lock, mode, expired, update, pc, target, owned, claimed>>

ThreadSpawnUser(c, home) ==
  /\ Calls(c) /\ pc[Me(c)] = "run"
  /\ sched.online[home] /\ sched.free # <<>>
  /\ sched.gen[sched.free[Len(sched.free)]] < MaxGen
  /\ sched' = publish(sched, c, home, TRUE, TRUE)
  /\ UNCHANGED <<lock, mode, expired, update, pc, target, owned, claimed>>

exit_current(s, c) ==
  LET from == s.current[c]
      s1 == transition_exit_current(s, c)
      to == s1.current[c]
      s2 == IF s1.user[from.slot] /\ s1.idle[c] = to
            THEN clear_user_address_space(s1, c) ELSE s1
  IN finish_block_current(activate_thread_address_space(s2, c, to), c, from)

ThreadExitWithoutFinalize(c) ==
  /\ Calls(c) /\ pc[Me(c)] = "run" /\ PreemptionEnabled(c)
  /\ sched' = exit_current(sched, c)
  /\ UNCHANGED <<lock, mode, expired, update, pc, target, owned, claimed>>
ThreadExit(c) ==
  /\ Calls(c) /\ pc[Me(c)] = "run" /\ PreemptionEnabled(c)
  /\ sched' = exit_current(finalize_retired(sched, c, TRUE), c)
  /\ UNCHANGED <<lock, mode, expired, update, pc, target, owned, claimed>>

\* WaitMetadata::commit of a Prepared wait and the mandatory handoff.
block_current(s, c, phase) ==
  LET from == s.current[c]
      to == next_thread(s, c)
      s1 == [s EXCEPT !.wait[from.slot] = phase,
                      !.panic = panics(s, /\ s.depth[c] = 0 /\ s.state[from.slot] = "Running"
                                          /\ from # s.idle[c])]
      s2 == [pop_next(s1, c) EXCEPT !.state[from.slot] = "Blocked"]
  IN activate_thread_address_space(make_running(s2, c, to), c, to)

\* What join_thread does with a target, in the order it checks.
join_answer_reaping_early(s, c, t) ==
  CASE ~thread_matches(s, t) -> "refuse"
    [] thread_matches(s, t) /\
       \/ t.slot = s.current[c].slot \/ ~s.joinable[t.slot] \/ s.joiner[t.slot] # None -> "refuse"
    [] OTHER -> IF s.state[t.slot] = "Exited" THEN "reap" ELSE "block"
join_answer(s, c, t) ==
  CASE ~thread_matches(s, t)                                     -> "refuse"
    [] thread_matches(s, t) /\
       \/ s.idle[s.home[t.slot]] = t
       \/ t.slot = s.current[c].slot
       \/ ~s.joinable[t.slot]
       \/ s.joiner[t.slot] # None                                -> "refuse"
    [] OTHER -> IF s.state[t.slot] = "Exited" /\ ~thread_is_retiring(s, t)
                THEN "reap" ELSE "block"

ThreadJoin(c, t) ==
  /\ Calls(c) /\ pc[Me(c)] = "run"
  /\ LET me == sched.current[c]
         i == me.slot
         s1 == LET f == finalize_retired(sched, c, TRUE)
               IN assert_that(f, f.result[i] = None /\ f.reaped[i] = None)
         answer == join_answer(s1, c, t)
         reaped == set_reaped_user(
                     reap_exited(assert_that(s1, ~is_queued(s1.ready[s1.home[t.slot]], t.slot)), t),
                     me, thread_id(s1, t.slot), s1.user[t.slot])
         waiting == prepare(s1, i)
         published == [waiting EXCEPT !.joiner[t.slot] = wait_token(waiting, i)]
     IN \/ /\ answer = "refuse"
           /\ sched' = [s1 EXCEPT !.result[i] = JoinError]
           /\ pc' = [pc EXCEPT ![i] = "result"]
           /\ UNCHANGED <<lock, mode>>
        \/ /\ answer = "reap"
           /\ sched' = [reaped EXCEPT !.result[i] = thread_id(s1, t.slot)]
           /\ pc' = [pc EXCEPT ![i] = "result"]
           /\ UNCHANGED <<lock, mode>>
        \/ /\ answer = "block" /\ PreemptionEnabled(c) /\ s1.seq[i] < MaxSeq
           /\ sched' = finish_block_current(block_current(published, c, "Blocked"), c, me)
           /\ pc' = [pc EXCEPT ![i] = "join"]
           /\ UNCHANGED <<lock, mode>>
        \/ /\ answer = "block" /\ ~PreemptionEnabled(c)
           /\ sched' = s1 /\ pc' = pc
           /\ Halt(c, TRUE)
  /\ target' = [target EXCEPT ![Me(c)] = t]
  /\ UNCHANGED <<expired, update, owned, claimed>>

\* finish_wait of the running thread's own token.
finish(s, i) ==
  [s EXCEPT !.wait[i] = "none",
            !.panic = panics(s, s.wait[i] \in {"Notified", "Timeout"})]

\* SchedCallWaitOutput::take_completion of a join.
FinishJoin(c) ==
  /\ Calls(c) /\ pc[Me(c)] = "join"
  /\ sched' = finish(sched, Me(c))
  /\ pc' = [pc EXCEPT ![Me(c)] = "result"]
  /\ UNCHANGED <<lock, mode, expired, update, target, owned, claimed>>

TakeJoinResult(c) ==
  /\ Calls(c) /\ pc[Me(c)] = "result"
  /\ sched' = [sched EXCEPT !.result[Me(c)] = None, !.reaped[Me(c)] = None,
                            !.panic = panics(sched, sched.result[Me(c)] # None)]
  /\ pc' = [pc EXCEPT ![Me(c)] = "run"]
  /\ target' = [target EXCEPT ![Me(c)] = None]
  /\ UNCHANGED <<lock, mode, expired, update, owned, claimed>>

----------------------------------------------------------------------------
(* Preemption guards and voluntary yields; idle logs, so it takes guards.  *)

\* preempt_checkpoint: the depth-zero safe point of the EL1 sched-call.
preempt_checkpoint(s, c) ==
  LET s1 == finalize_retired(s, c, TRUE) IN
  IF checkpoint_due(s1, c)
  THEN replace_quantum_event(handoff_optional(consume_checkpoint(s1, c), c), c, s1.current[c])
  ELSE s1

YieldNow(c) ==
  /\ Calls(c) /\ pc[Me(c)] = "run"
  /\ sched' = preempt_checkpoint(request_reschedule(sched, c), c)
  /\ UNCHANGED <<lock, mode, expired, update, pc, target, owned, claimed>>

PreemptGuardEnter(c) ==
  /\ mode[c] = "thread"
  /\ sched.depth[c] < MaxDepth
  /\ sched' = [sched EXCEPT !.depth[c] = @ + 1]
  /\ UNCHANGED <<lock, mode, expired, update, pc, target, owned, claimed>>

\* `irqs': whether the IRQ state the guard saved allows the sched-call.
PreemptGuardDrop(c, irqs) ==
  /\ mode[c] = "thread" /\ lock = None
  /\ sched.depth[c] > 0
  /\ LET s1 == [sched EXCEPT !.depth[c] = @ - 1] IN
       sched' = IF irqs /\ checkpoint_due(s1, c) THEN preempt_checkpoint(s1, c) ELSE s1
  /\ UNCHANGED <<lock, mode, expired, update, pc, target, owned, claimed>>

----------------------------------------------------------------------------
(* Waits of condition owners.  A caller prepares its wait and publishes    *)
(* the token before it lets go of its own lock: to the owner alone         *)
(* (stdin, waitpid, mailbox), to the owner and the timer (mailbox with a   *)
(* deadline), to the timer alone (sleep), or to nobody (the owner refused  *)
(* the registration, and the caller cancels).                              *)

PrepareWait(c, kind) ==
  /\ Calls(c) /\ pc[Me(c)] = "run" /\ PreemptionEnabled(c) /\ sched.seq[Me(c)] < MaxSeq
  /\ kind \in {"timed", "sleep"} => ~sched.user[Me(c)]
  /\ LET s1 == prepare(sched, Me(c))
         tok == wait_token(s1, Me(c))
     IN /\ sched' = IF kind \in {"timed", "sleep"}
                    THEN schedule_event(s1, c, WaitDeadline(tok)) ELSE s1
        /\ owned' = IF kind \in {"owner", "timed"} THEN owned \cup {tok} ELSE owned
  /\ mode' = [mode EXCEPT ![c] = IF kind = "refused" THEN "refused" ELSE "prepared"]
  /\ UNCHANGED <<lock, expired, update, pc, target, claimed>>

\* commit_wait: block, or take the completion that came first (Early).
CommitWait(c) ==
  /\ mode[c] = "prepared" /\ lock = None
  /\ LET me == sched.current[c]
         i == me.slot
     IN \/ /\ sched.wait[i] = "Prepared"
           /\ sched' = finish_block_current(block_current(sched, c, "Blocked"), c, me)
           /\ pc' = [pc EXCEPT ![i] = "wait"]
           /\ owned' = owned
        \/ /\ sched.wait[i] # "Prepared"
           /\ sched' = finish(assert_that(sched, PreemptionEnabled(c)), i)
           /\ pc' = pc
           /\ owned' = owned \ {wait_token(sched, i)}
  /\ mode' = [mode EXCEPT ![c] = "thread"]
  /\ UNCHANGED <<lock, expired, update, target, claimed>>

CancelWait(c) ==
  /\ mode[c] = "refused" /\ lock = None
  /\ sched' = [sched EXCEPT !.wait[Me(c)] = "none",
                            !.panic = panics(sched, sched.wait[Me(c)] = "Prepared")]
  /\ mode' = [mode EXCEPT ![c] = "thread"]
  /\ UNCHANGED <<lock, expired, update, pc, target, owned, claimed>>

\* sleep_user_until_counter: prepare, publish and commit under one guard.
SleepUser(c) ==
  /\ Calls(c) /\ pc[Me(c)] = "run" /\ PreemptionEnabled(c)
  /\ sched.user[Me(c)] /\ sched.seq[Me(c)] < MaxSeq
  /\ LET me == sched.current[c]
         s1 == prepare(sched, me.slot)
         s2 == schedule_event(cancel_event(s1, c, QuantumExpired(me)), c,
                              WaitDeadline(wait_token(s1, me.slot)))
     IN sched' = finish_block_after_quantum_cancel(block_current(s2, c, "sleeping"), c)
  /\ UNCHANGED <<lock, mode, expired, update, pc, target, owned, claimed>>

\* The woken thread consumes its completion and withdraws the token.
FinishWait(c) ==
  /\ Calls(c) /\ pc[Me(c)] = "wait"
  /\ sched' = finish(sched, Me(c))
  /\ owned' = owned \ {wait_token(sched, Me(c))}
  /\ pc' = [pc EXCEPT ![Me(c)] = "run"]
  /\ UNCHANGED <<lock, mode, expired, update, target, claimed>>

\* A condition owner running on CPU c removes a waiter and cancels its
\* deadline, wherever that is queued.
ClaimWaiterKeepingDeadline(c, tok) ==
  /\ mode[c] = "thread" /\ tok \in owned
  /\ owned' = owned \ {tok}
  /\ claimed' = claimed \cup {tok}
  /\ UNCHANGED <<sched, lock, mode, expired, update, pc, target>>
ClaimWaiter(c, tok) ==
  /\ mode[c] = "thread" /\ tok \in owned
  /\ owned' = owned \ {tok}
  /\ claimed' = claimed \cup {tok}
  /\ LET home == sched.home[tok.slot] IN
       sched' = IF home = c THEN cancel_event(sched, c, WaitDeadline(tok))
                ELSE cancel_event_remote(sched, home, WaitDeadline(tok))
  /\ UNCHANGED <<lock, mode, expired, update, pc, target>>

\* ... and completes the exact token later, from thread or IRQ context.
CompleteWait(c, tok) ==
  /\ mode[c] = "thread" /\ lock = None /\ tok \in claimed
  /\ claimed' = claimed \ {tok}
  /\ sched' = complete_wait_transition(sched, c, tok, "Notified", TRUE)
  /\ UNCHANGED <<lock, mode, expired, update, pc, target, owned>>

----------------------------------------------------------------------------
(* Scheduler IPI: the SGI is acknowledged, then handled under the lock.    *)

AckSchedulerIpi(c) ==
  /\ mode[c] = "thread" /\ sched.sgi[c]
  /\ sched' = [sched EXCEPT !.sgi[c] = FALSE]
  /\ mode' = [mode EXCEPT ![c] = "ipi"]
  /\ UNCHANGED <<lock, expired, update, pc, target, owned, claimed>>

FinishSchedulerIpi(c) ==
  /\ mode[c] = "ipi" /\ lock = None
  /\ LET s1 == finalize_retired(sched, c, TRUE)
         s2 == note_runnable_peer_available(consume_scheduler_ipi(s1, c), c)
     IN sched' = IF ~s1.online[c] THEN s1
                 ELSE IF checkpoint_due(s2, c)
                 THEN replace_quantum_event(
                        handoff_optional(consume_checkpoint(s2, c), c), c, s2.current[c])
                 ELSE s2
  /\ mode' = [mode EXCEPT ![c] = "thread"]
  /\ UNCHANGED <<lock, expired, update, pc, target, owned, claimed>>

----------------------------------------------------------------------------
(* Timer IRQ: take the expired events under the time lock, run the batch   *)
(* under the scheduler lock, then apply the quantum update and re-arm      *)
(* under the time lock.  Deadlines are abstract: any set of pending events *)
(* may have expired, and an empty one when the timer was left armed early. *)

Batches(E) ==
  {q \in UNION {[1..n -> E] : n \in 0..MaxBatch} :
     \A j, k \in DOMAIN q : q[j] = q[k] => j = k}

TakeExpired(c, batch) ==
  /\ mode[c] = "thread"
  /\ batch = <<>> => sched.early[c]
  /\ expired' = [expired EXCEPT ![c] = batch]
  /\ sched' = [sched EXCEPT !.timed[c] = @ \ {batch[k] : k \in DOMAIN batch}]
  /\ mode' = [mode EXCEPT ![c] = "timer"]
  /\ UNCHANGED <<lock, update, pc, target, owned, claimed>>

\* transition_timed_wake_from_idle: the one event wakes a thread that idle can
\* hand the CPU to directly.
wakes_from_idle(s, c, batch) ==
  /\ Len(batch) = 1 /\ batch[1].kind = "wait"
  /\ s.depth[c] = 0
  /\ s.current[c] = s.idle[c] /\ s.ready[c] = <<>> /\ s.remote[c] = <<>>
  /\ completion(s, batch[1].of) = "WokeBlocked"
  /\ s.state[batch[1].of.slot] = "Blocked"

timed_wake_from_idle(s, c, tok) ==
  LET s1 == [complete(s, tok, "Timeout") EXCEPT !.state[tok.slot] = "Ready"]
      s2 == make_running(make_ready_and_queue(s1, c, s.idle[c], FALSE), c, thread_of(tok))
  IN activate_thread_address_space(consume_checkpoint(s2, c), c, thread_of(tok))

\* finish_timer_interrupt takes the lock, and keeps it through its loop.
FinishTimerBegin(c) ==
  /\ mode[c] = "timer" /\ lock = None
  /\ LET s1 == finalize_retired(sched, c, FALSE) IN
       \/ /\ wakes_from_idle(s1, c, expired[c])
          /\ sched' = timed_wake_from_idle(s1, c, expired[c][1].of)
          /\ expired' = [expired EXCEPT ![c] = <<>>]
          /\ mode' = [mode EXCEPT ![c] = "rearm"]
          /\ lock' = None
       \/ /\ ~wakes_from_idle(s1, c, expired[c])
          /\ sched' = s1
          /\ mode' = [mode EXCEPT ![c] = "batch"]
          /\ lock' = c
          /\ expired' = expired
  /\ UNCHANGED <<update, pc, target, owned, claimed>>

finish_timer_event(s, c, e) ==
  IF e.kind = "wait"
  THEN complete_wait_transition(s, c, e.of, "Timeout", FALSE)
  ELSE IF running_thread(s, c) = e.of THEN request_reschedule(s, c) ELSE s

FinishTimerEvent(c) ==
  /\ mode[c] = "batch" /\ expired[c] # <<>>
  /\ sched' = finish_timer_event(sched, c, Head(expired[c]))
  /\ expired' = [expired EXCEPT ![c] = Tail(@)]
  /\ UNCHANGED <<lock, mode, update, pc, target, owned, claimed>>

FinishTimerEnd(c) ==
  /\ mode[c] = "batch" /\ expired[c] = <<>>
  /\ LET s1 == IF sched.current[c] = sched.idle[c] /\ has_runnable_peer(sched, c)
               THEN request_reschedule(sched, c) ELSE sched
         due == checkpoint_due(s1, c)
         s2 == IF due THEN handoff_optional(consume_checkpoint(s1, c), c) ELSE s1
     IN /\ sched' = s2
        /\ update' = [update EXCEPT ![c] =
             [obsolete |-> IF due THEN s1.current[c] ELSE None,
              ensure |-> IF has_runnable_peer(s2, c) THEN s2.current[c] ELSE None]]
  /\ lock' = None
  /\ mode' = [mode EXCEPT ![c] = "rearm"]
  /\ UNCHANGED <<expired, pc, target, owned, claimed>>

ApplyQuantumUpdate(c) ==
  /\ mode[c] = "rearm"
  /\ LET s1 == cancel_event(sched, c, QuantumExpired(update[c].obsolete)) IN
       sched' = IF update[c].ensure = None THEN [s1 EXCEPT !.early[c] = FALSE]
                ELSE schedule_event(s1, c, QuantumExpired(update[c].ensure))
  /\ update' = [update EXCEPT ![c] = [obsolete |-> None, ensure |-> None]]
  /\ mode' = [mode EXCEPT ![c] = "thread"]
  /\ UNCHANGED <<lock, expired, pc, target, owned, claimed>>

----------------------------------------------------------------------------

Next ==
  \E c \in Cpus :
    \/ InitializeCurrentCpu(c)
    \/ EnterRunningThread(c)
    \/ \E home \in Cpus, joinable \in BOOLEAN : ThreadSpawn(c, home, joinable)
    \/ \E home \in Cpus : ThreadSpawnUser(c, home)
    \/ ThreadExit(c)
    \/ \E held \in BOOLEAN : BlockUnderGuard(c, held)
    \/ \E i \in Slots : \E g \in 1..sched.gen[i] : ThreadJoin(c, [slot |-> i, gen |-> g])
    \/ FinishJoin(c)
    \/ TakeJoinResult(c)
    \/ YieldNow(c)
    \/ PreemptGuardEnter(c)
    \/ \E irqs \in BOOLEAN : PreemptGuardDrop(c, irqs)
    \/ \E kind \in WaitKinds : PrepareWait(c, kind)
    \/ CommitWait(c)
    \/ CancelWait(c)
    \/ SleepUser(c)
    \/ FinishWait(c)
    \/ \E tok \in owned : ClaimWaiter(c, tok)
    \/ \E tok \in claimed : CompleteWait(c, tok)
    \/ AckSchedulerIpi(c)
    \/ FinishSchedulerIpi(c)
    \/ \E batch \in Batches(sched.timed[c]) : TakeExpired(c, batch)
    \/ FinishTimerBegin(c)
    \/ FinishTimerEvent(c)
    \/ FinishTimerEnd(c)
    \/ ApplyQuantumUpdate(c)

Spec == Init /\ [][Next]_vars

\* What hardware and code guarantee of a CPU, each a step that stays possible until
\* it happens: an IRQ handler or a prepared wait gets the spin lock and runs to its
\* end; the interrupt controller delivers a pending SGI; the counter passes the
\* deadline of the running thread's quantum, unless that is cancelled before.
Fairness ==
  \A c \in Cpus :
    /\ []<>(mode[c] = "thread")
    /\ []<>(~sched.sgi[c])
    /\ []<>(sched.current[c] # None /\ QuantumExpired(sched.current[c]) \notin sched.timed[c])

FairSpec == Spec /\ Fairness

----------------------------------------------------------------------------
(* Properties.                                                             *)

Optional(S) == S \cup {None}
SchedState ==
  [gen : [Slots -> 0..MaxGen], seq : [Slots -> 0..MaxSeq],
   state : [Slots -> ThreadState], home : [Slots -> Optional(Cpus)],
   joinable : [Slots -> BOOLEAN], user : [Slots -> BOOLEAN],
   wait : [Slots -> WaitPhase], joiner : [Slots -> Optional(WaitToken)],
   result : [Slots -> Optional(ThreadId \cup {JoinError})],
   reaped : [Slots -> Optional(ThreadId)], free : Seq(Slots),
   current : [Cpus -> Optional(ThreadId)], idle : [Cpus -> Optional(ThreadId)],
   retired : [Cpus -> Optional(ThreadId)], online : [Cpus -> BOOLEAN],
   ready : [Cpus -> Seq(ThreadId)], remote : [Cpus -> Seq(ThreadId)],
   ipi : [Cpus -> BOOLEAN], sgi : [Cpus -> BOOLEAN],
   depth : [Cpus -> 0..MaxDepth], resched : [Cpus -> BOOLEAN],
   timed : [Cpus -> SUBSET TimedEvent], early : [Cpus -> BOOLEAN],
   root : [Cpus -> Optional(ThreadId)], access : [Cpus -> BOOLEAN],
   panic : BOOLEAN]

\* Every field of the scheduler state and every program counter has its type.
TypeOK ==
  /\ sched \in SchedState
  /\ lock \in Optional(Cpus)
  /\ mode \in [Cpus -> {"boot", "thread", "prepared", "refused", "ipi",
                        "timer", "batch", "rearm", "halted"}]
  /\ expired \in [Cpus -> Seq(TimedEvent)]
  /\ update \in [Cpus -> [obsolete : Optional(ThreadId), ensure : Optional(ThreadId)]]
  /\ pc \in [Slots -> {"run", "wait", "join", "result"}]
  /\ target \in [Slots -> Optional(ThreadId)]
  /\ owned \subseteq WaitToken /\ claimed \subseteq WaitToken

\* No panic of the modelled code is reachable: no queue overflows or holds a
\* thread twice, every handoff finds a Ready local thread, a joiner is always
\* blocked when its target is finalized, every wait finishes exactly once.
NoPanic == ~sched.panic

\* The threads a CPU is to run: its ready queue, then what it has not drained.
run_queue(s, c) == s.ready[c] \o s.remote[c]

\* Scheduler::validate_invariants: a Ready thread other than idle is queued exactly
\* once, on its home CPU, and nothing else is queued; exactly the current threads
\* run; the phase of a wait agrees with the state of its thread; a retired thread
\* keeps its slot until its CPU has left its stack.
ValidateInvariants ==
  LET s == sched IN
  /\ \A c \in Cpus : LET q == run_queue(s, c) IN
       /\ \A k \in DOMAIN q : /\ thread_matches(s, q[k]) /\ s.state[q[k].slot] = "Ready"
                              /\ s.home[q[k].slot] = c /\ q[k] # s.idle[c]
       /\ \A j, k \in DOMAIN q : q[j].slot = q[k].slot => j = k
       /\ s.current[c] # None =>
            /\ thread_matches(s, s.current[c])
            /\ s.state[s.current[c].slot] = "Running" /\ s.home[s.current[c].slot] = c
       /\ s.retired[c] # None =>
            /\ thread_matches(s, s.retired[c])
            /\ s.state[s.retired[c].slot] = "Exited" /\ s.home[s.retired[c].slot] = c
  /\ \A i \in Slots :
       /\ s.state[i] = "Ready" /\ s.idle[s.home[i]] # thread_id(s, i)
            => is_queued(run_queue(s, s.home[i]), i)
       /\ s.state[i] = "Running" => s.current[s.home[i]] = thread_id(s, i)
       /\ s.state[i] = "Blocked" <=> s.wait[i] \in {"Blocked", "sleeping"}
       /\ s.wait[i] = "Prepared" => s.state[i] = "Running"
       /\ s.wait[i] \in {"Notified", "Timeout"} => s.state[i] \in {"Ready", "Running"}
       /\ s.state[i] = "Free" <=> \E k \in DOMAIN s.free : s.free[k] = i

\* A notification is never lost to coalescing: whatever waits for the scheduler
\* IPI of a CPU (remote-ready threads, a retired thread) keeps the pending bit
\* set, and a set bit means that the SGI is still to be handled.
IpiNotLost ==
  \A c \in Cpus :
    /\ sched.remote[c] # <<>> \/ sched.retired[c] # None => sched.ipi[c]
    /\ sched.ipi[c] => sched.sgi[c] \/ mode[c] = "ipi"

\* A CPU with a runnable peer has the quantum of its running thread queued
\* whenever it runs outside the timer handler: round robin never stops, even
\* when the reschedule request came from an IRQ that makes no checkpoint.
PeerHasQuantum ==
  \A c \in Cpus :
    sched.online[c] /\ mode[c] \notin {"timer", "batch", "rearm"} /\ sched.ready[c] # <<>>
      => QuantumExpired(sched.current[c]) \in sched.timed[c]

\* The root installed on a CPU belongs to a user thread that has neither exited
\* nor been reaped, so its address space is never destroyed under the CPU.
RootIsLive ==
  \A c \in Cpus : sched.root[c] # None =>
    /\ thread_matches(sched, sched.root[c])
    /\ sched.user[sched.root[c].slot]
    /\ sched.state[sched.root[c].slot] # "Exited"
    /\ sched.home[sched.root[c].slot] = c

\* User copies are allowed exactly while the CPU runs the owner of its root.
AccessIsCurrent ==
  \A c \in Cpus : sched.online[c] =>
    (sched.access[c] <=> /\ sched.root[c] = sched.current[c]
                         /\ sched.user[sched.current[c].slot])

\* Both: idle may keep a root installed, but neither beyond its owner's exit nor with
\* leave to copy through it.
UserRoots == RootIsLive /\ AccessIsCurrent

\* thread_join answers for the thread it was asked about, and hands over that
\* thread's user resources and no other's.
JoinIsExact ==
  \A i \in Slots :
    /\ sched.result[i] \notin {None, JoinError} => sched.result[i] = target[i]
    /\ sched.reaped[i] # None => sched.reaped[i] = sched.result[i]

\* A blocked thread is woken by the completion of its own current token and by
\* nothing else: an owner that completes late, after the wait timed out and the
\* thread (or its slot's next thread) waits again, wakes nobody.
ExactWake ==
  [][\A i \in Slots :
       sched.wait[i] \in {"Blocked", "sleeping"} /\ sched'.wait[i] # sched.wait[i] =>
         LET tok == wait_token(sched, i) IN
         \/ tok \in claimed \ claimed'
         \/ \E c \in Cpus : /\ expired[c] # <<>> /\ expired'[c] # expired[c]
                            /\ Head(expired[c]) = WaitDeadline(tok)
         \/ \E j \in Slots : sched.joiner[j] = tok /\ sched'.joiner[j] = None]_vars

W == INSTANCE Waits WITH Threads <- Slots, phase <- sched.wait, seq <- sched.seq

\* The waits of the slots are what condition owners rely on: a wait is prepared
\* under a new sequence, completed at most once, by the first cause, and finished
\* before the slot waits again.
ImplementsWaits == W!WaitsSpec

\* While a PreemptGuard is held on a CPU, no yield, spawn, interrupt or wake changes the
\* thread it runs, a call that would block or exit does not get that far, and a
\* request to reschedule stays pending for the drop of the outermost guard.
NoSwitchWhileDisabled ==
  [][\A c \in Cpus : sched.depth[c] > 0 /\ sched'.depth[c] > 0 =>
       /\ sched'.current[c] = sched.current[c]
       /\ sched.resched[c] => sched'.resched[c]]_vars

\* Every queued timed event belongs to a live thread of that CPU, at most one
\* wait and one quantum for each: the fixed deadline capacity (three per thread)
\* is never exceeded, however waits are notified, time out or are abandoned.
TimedEventsLive ==
  \A c \in Cpus : \A e \in sched.timed[c] :
    /\ thread_matches(sched, thread_of(e.of)) /\ sched.home[e.of.slot] = c
    /\ e.kind = "wait" => e.of.seq = sched.seq[e.of.slot]

\* Both: the time queue of a CPU holds what its threads need and nothing else.
EventsMatchThreads == TimedEventsLive /\ PeerHasQuantum

\* Every runnable thread gets the CPU: a Ready thread other than idle runs, or
\* is found to have run when it has moved on.
ReadyRuns ==
  \A t \in ThreadId :
    thread_matches(sched, t) /\ sched.state[t.slot] = "Ready" /\ (\A c \in Cpus : sched.idle[c] # t)
      ~> thread_matches(sched, t) /\ sched.state[t.slot] = "Running"

\* A thread that has exited leaves the retired slot of its CPU without any help
\* from a quantum: the self-IPI finalizes it.
RetiredIsFinalized ==
  \A c \in Cpus : sched.retired[c] # None ~> sched.retired[c] = None

\* Both: no thread is forgotten, at the beginning of its turn or after its end.
ThreadsProgress == ReadyRuns /\ RetiredIsFinalized
============================================================================
