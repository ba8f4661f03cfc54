-------------------------- MODULE SchedulerProofs --------------------------
(***************************************************************************)
(* Proofs about the scheduler model for any number of CPUs and threads:    *)
(* type correctness, and that no scheduler notification is ever lost.      *)
(*                                                                         *)
(* The actions compose the lemmas of SchedulerLemmas, as the handlers      *)
(* compose the operators.                                                  *)
(***************************************************************************)
EXTENDS SchedulerLemmas

(* The inductive invariant and its preservation, one lemma per action.     *)

Acked == {c \in Cpus : mode[c] = "ipi"}

\* A CPU past its boot is online and has a running (hence an idle) thread.
Contexts == \A c \in Cpus : mode[c] # "boot" => sched.online[c] /\ sched.current[c] # None

IInv == TypeOK /\ Good(sched, Acked, {}) /\ Contexts

\* A step that leaves the program counters of the CPUs alone.
LEMMA SchedStep ==
  ASSUME Contexts, UNCHANGED mode, Good(sched', Acked, {}), Stays(sched, sched')
  PROVE  Good(sched', Acked', {}) /\ Contexts'
<1>1. Acked' = Acked
  BY DEF Acked
<1> QED
  BY <1>1 DEF Contexts, Stays

\* A step of CPU c that takes it from one program counter to another, none of them
\* "boot"; only the IPI handler has to leave its CPU with nothing owed to it.
LEMMA ModeStep ==
  ASSUME TypeOK, Contexts, NEW c \in Cpus, NEW m, mode[c] # "boot", m # "ipi",
         mode' = [mode EXCEPT ![c] = m],
         \/ mode[c] # "ipi" /\ Good(sched', Acked, {})
         \/ Good(sched', Acked \ {c}, {}),
         Stays(sched, sched')
  PROVE  Good(sched', Acked', {}) /\ Contexts'
<1>1. mode \in [Cpus -> {"boot", "thread", "prepared", "refused", "ipi",
                         "timer", "batch", "rearm", "halted"}]
  BY DEF TypeOK
<1>2. mode[c] # "ipi" => Acked' = Acked
  BY <1>1 DEF Acked
<1>3. Acked' = Acked \ {c}
  BY <1>1 DEF Acked
<1>4. Good(sched', Acked', {})
  BY <1>2, <1>3
<1> QED
  BY <1>1, <1>4 DEF Contexts, Stays

LEMMA SchedOnly ==
  ASSUME IInv, Good(sched', Acked, {}), Stays(sched, sched'),
         UNCHANGED <<lock, mode, expired, update, pc, target, owned, claimed>>
  PROVE  IInv'
<1>1. TypeOK'
  BY DEF IInv, TypeOK, Good
<1> QED
  BY <1>1, SchedStep DEF IInv

LEMMA StaysTransitive ==
  ASSUME NEW s, NEW r, NEW q, Stays(s, r), Stays(r, q)
  PROVE  Stays(s, q)
BY DEF Stays

\* What a CPU past its boot knows of its running thread.
LEMMA Runs ==
  ASSUME IInv, NEW c \in Cpus, mode[c] # "boot"
  PROVE  /\ Good(sched, Acked, {})
         /\ sched.current[c] # None /\ sched.idle[c] # None /\ sched.online[c]
         /\ sched.current[c] \in ThreadId /\ Me(c) \in Slots /\ sched.gen[Me(c)] >= 1
<1>1. Good(sched, Acked, {}) /\ sched.current[c] # None /\ sched.online[c]
  BY DEF IInv, Contexts
<1>2. sched.current[c] \in IssuedIds(sched) /\ sched.idle[c] # None
  BY <1>1 DEF Good, Issued
<1> QED
  BY <1>1, <1>2 DEF IssuedIds, ThreadId, Me

LEMMA ThreadSpawnStep ==
  ASSUME IInv, NEW c \in Cpus, NEW home \in Cpus, NEW joinable \in BOOLEAN,
         ThreadSpawn(c, home, joinable)
  PROVE  IInv'
<1> DEFINE s1 == finalize_retired(sched, c, TRUE)
<1>1. Good(s1, Acked, {}) /\ Stays(sched, s1)
  BY ZenonT(60), FinalizeRetired DEF IInv, Finalized
<1>2. \/ /\ s1.free # <<>> /\ s1.gen[s1.free[Len(s1.free)]] < MaxGen
         /\ sched' = publish(s1, c, home, joinable, FALSE)
      \/ sched' = s1
  BY ZenonT(60) DEF ThreadSpawn
<1> HIDE DEF s1
<1>3. Good(sched', Acked, {}) /\ Stays(sched, sched')
  <2>1. CASE sched' = s1
    BY <1>1, <2>1
  <2>2. CASE /\ s1.free # <<>> /\ s1.gen[s1.free[Len(s1.free)]] < MaxGen
             /\ sched' = publish(s1, c, home, joinable, FALSE)
    <3>1. Good(sched', Acked, {}) /\ Stays(s1, sched')
      BY ZenonT(60), <1>1, <2>2, Publish
    <3> QED
      BY <1>1, <3>1, StaysTransitive
  <2> QED
    BY ZenonT(60), <1>2, <2>1, <2>2
<1> QED
  BY <1>3, SchedOnly DEF ThreadSpawn

LEMMA ThreadSpawnUserStep ==
  ASSUME IInv, NEW c \in Cpus, NEW home \in Cpus, ThreadSpawnUser(c, home)
  PROVE  IInv'
<1>1. Good(sched', Acked, {}) /\ Stays(sched, sched')
  BY ZenonT(60), Publish DEF IInv, ThreadSpawnUser
<1> QED
  BY <1>1, SchedOnly DEF ThreadSpawnUser

LEMMA ThreadExitStep ==
  ASSUME IInv, NEW c \in Cpus, ThreadExit(c)
  PROVE  IInv'
<1> DEFINE s1 == finalize_retired(sched, c, TRUE)
<1>1. mode[c] # "boot"
  BY DEF ThreadExit, Calls
<1>2. Good(s1, Acked, {}) /\ Stays(sched, s1)
  BY ZenonT(60), FinalizeRetired DEF IInv, Finalized
<1>3. sched' = exit_current(s1, c)
  BY DEF ThreadExit
<1> HIDE DEF s1
<1>4. s1.current[c] # None
  BY <1>1, <1>2, Runs DEF Stays
<1>5. Good(sched', Acked, {}) /\ Stays(sched, sched')
  BY <1>2, <1>3, <1>4, ExitCurrent, StaysTransitive
<1> QED
  BY <1>5, SchedOnly DEF ThreadExit

LEMMA YieldNowStep ==
  ASSUME IInv, NEW c \in Cpus, YieldNow(c)
  PROVE  IInv'
<1> DEFINE s1 == request_reschedule(sched, c)
<1>1. mode[c] # "boot"
  BY DEF YieldNow, Calls
<1>2. Good(s1, Acked, {}) /\ Stays(sched, s1)
  BY RequestReschedule DEF IInv, Keeps
<1>3. sched' = preempt_checkpoint(s1, c)
  BY DEF YieldNow
<1> HIDE DEF s1
<1>4. s1.current[c] # None
  BY <1>1, <1>2, Runs DEF Stays
<1>5. Good(sched', Acked, {}) /\ Stays(sched, sched')
  BY <1>2, <1>3, <1>4, PreemptCheckpoint, StaysTransitive
<1> QED
  BY <1>5, SchedOnly DEF YieldNow

LEMMA GuardStep ==
  ASSUME IInv, NEW c \in Cpus, PreemptGuardEnter(c) \/ \E irqs \in BOOLEAN : PreemptGuardDrop(c, irqs)
  PROVE  IInv'
<1> USE DEF IInv
<1>1. CASE PreemptGuardEnter(c)
  <2>1. sched' \in SchedState /\ Same(sched, sched')
    <3> DEFINE d == sched.depth[c] + 1
    <3>1. sched \in SchedState /\ sched.depth \in [Cpus -> 0..MaxDepth]
      BY ZenonT(60) DEF Good, SchedState
    <3>2. d \in 0..MaxDepth
      BY <1>1, <3>1, SchedConstants DEF PreemptGuardEnter
    <3>3. sched' = [sched EXCEPT !.depth[c] = d]
      BY <1>1 DEF PreemptGuardEnter
    <3> HIDE DEF d
    <3> QED
      BY <3>1, <3>2, <3>3, ZenonT(60) DEF SchedState, Same
  <2>2. Good(sched', Acked, {}) /\ Stays(sched, sched')
    BY <2>1, SameIsGood DEF Keeps
  <2> QED
    BY <1>1, <2>2, SchedOnly DEF PreemptGuardEnter
<1>2. ASSUME NEW irqs \in BOOLEAN, PreemptGuardDrop(c, irqs)
      PROVE  IInv'
  <2> DEFINE s1 == [sched EXCEPT !.depth[c] = @ - 1]
  <2>1. s1 \in SchedState /\ Same(sched, s1)
    <3> DEFINE d == sched.depth[c] - 1
    <3>1. sched \in SchedState /\ sched.depth \in [Cpus -> 0..MaxDepth]
      BY ZenonT(60) DEF Good, SchedState
    <3>2. d \in 0..MaxDepth
      BY <1>2, <3>1, SchedConstants DEF PreemptGuardDrop
    <3>3. s1 = [sched EXCEPT !.depth[c] = d]
      OBVIOUS
    <3> HIDE DEF d, s1
    <3> QED
      BY <3>1, <3>2, <3>3, ZenonT(60) DEF SchedState, Same
  <2>2. sched' = IF irqs /\ checkpoint_due(s1, c) THEN preempt_checkpoint(s1, c) ELSE s1
    BY <1>2 DEF PreemptGuardDrop
  <2> HIDE DEF s1
  <2>3. Good(s1, Acked, {}) /\ Stays(sched, s1)
    BY <2>1, SameIsGood DEF Keeps
  <2>4. s1.current[c] # None
    BY <1>2, <2>3, Runs DEF Stays, PreemptGuardDrop
  <2>5. Good(sched', Acked, {}) /\ Stays(sched, sched')
    BY <2>2, <2>3, <2>4, PreemptCheckpoint, StaysTransitive
  <2> QED
    BY <1>2, <2>5, SchedOnly DEF PreemptGuardDrop
<1> QED
  BY <1>1, <1>2

LEMMA ThreadJoinStep ==
  ASSUME IInv, NEW c \in Cpus, NEW t \in ThreadId, ThreadJoin(c, t)
  PROVE  IInv'
<1> DEFINE me == sched.current[c]
           i == me.slot
           f == finalize_retired(sched, c, TRUE)
           s1 == assert_that(f, f.result[i] = None /\ f.reaped[i] = None)
           alive == assert_that(s1, ~is_queued(s1.ready[s1.home[t.slot]], t.slot))
           id == thread_id(s1, t.slot)
           reaped == set_reaped_user(reap_exited(alive, t), me, id, s1.user[t.slot])
           waiting == prepare(s1, i)
           tok == wait_token(waiting, i)
           published == [waiting EXCEPT !.joiner[t.slot] = tok]
           blocked == block_current(published, c, "Blocked")
<1>1. /\ mode[c] = "thread"
      /\ pc' \in {pc, [pc EXCEPT ![i] = "result"], [pc EXCEPT ![i] = "join"]}
      /\ target' = [target EXCEPT ![i] = t]
      /\ \/ UNCHANGED <<lock, mode>>
         \/ lock' = c /\ mode' = [mode EXCEPT ![c] = "halted"]
      /\ UNCHANGED <<expired, update, owned, claimed>>
  BY ZenonT(60) DEF ThreadJoin, Calls, Me, Halt
<1>2. \/ sched' = s1
      \/ sched' = [s1 EXCEPT !.result[i] = JoinError]
      \/ /\ join_answer(s1, c, t) = "reap"
         /\ sched' = [reaped EXCEPT !.result[i] = id]
      \/ s1.seq[i] < MaxSeq /\ sched' = finish_block_current(blocked, c, me)
  BY ZenonT(60) DEF ThreadJoin
<1>3. Good(f, Acked, {}) /\ Stays(sched, f) /\ f.gen = sched.gen
  <2>1. Good(sched, Acked, {})
    BY DEF IInv
  <2>2. Good(f, Acked, {}) /\ Finalized(sched, f, c)
    BY ZenonT(60), <2>1, FinalizeRetired
  <2> QED
    BY ZenonT(60), <2>2 DEF Finalized
<1> HIDE DEF f
<1>4. Good(s1, Acked, {}) /\ Stays(sched, s1) /\ s1.gen = sched.gen
  <2>1. Good(s1, Acked, {}) /\ Keeps(f, s1)
    BY <1>3, AssertThat
  <2> HIDE DEF s1
  <2>2. Stays(f, s1) /\ s1.gen = f.gen
    BY <2>1 DEF Keeps
  <2> QED
    BY <1>3, <2>1, <2>2, StaysTransitive
<1> HIDE DEF s1
<1>5. /\ i \in Slots /\ s1.gen[i] >= 1 /\ s1.idle[c] # None /\ s1.current[c] # None
  BY <1>1, <1>4, Runs DEF Stays, Me
<1>6. ASSUME sched' = [s1 EXCEPT !.result[i] = JoinError]
      PROVE  Good(sched', Acked, {}) /\ Stays(sched, sched')
  <2>1. Good(sched', Acked, {}) /\ Keeps(s1, sched')
    BY ZenonT(60), <1>4, <1>6, SetResult DEF Optional
  <2> QED
    BY <1>4, <2>1, StaysTransitive DEF Keeps
<1>7. ASSUME join_answer(s1, c, t) = "reap", sched' = [reaped EXCEPT !.result[i] = id]
      PROVE  Good(sched', Acked, {}) /\ Stays(sched, sched')
  <2>1. s1.gen[t.slot] = t.gen /\ t = [slot |-> t.slot, gen |-> t.gen]
    BY ZenonT(60), <1>7 DEF join_answer, thread_matches, ThreadId
  <2>2. id \in ThreadId
    BY <2>1 DEF thread_id
  <2> HIDE DEF id
  <2>3. Good(alive, Acked, {}) /\ Keeps(s1, alive)
    BY <1>4, AssertThat
  <2> HIDE DEF alive
  <2>4. Good(reap_exited(alive, t), Acked, {}) /\ Keeps(s1, reap_exited(alive, t))
    BY <2>3, ReapExited, KeepsTransitive
  <2>5. Good(reaped, Acked, {}) /\ Keeps(s1, reaped)
    BY <2>2, <2>4, SetReapedUser, KeepsTransitive
  <2> HIDE DEF reaped
  <2>6. Good(sched', Acked, {}) /\ Keeps(reaped, sched')
    BY ZenonT(60), <1>7, <2>2, <2>5, SetResult DEF Optional
  <2> QED
    BY <1>4, <2>5, <2>6, StaysTransitive DEF Keeps
<1>8. ASSUME s1.seq[i] < MaxSeq, sched' = finish_block_current(blocked, c, me)
      PROVE  Good(sched', Acked, {}) /\ Stays(sched, sched')
  <2>1. Good(waiting, Acked, {}) /\ Keeps(s1, waiting) /\ tok \in WaitToken
    BY <1>4, <1>5, <1>8, Prepare
  <2> HIDE DEF waiting, tok
  <2>2. published \in SchedState /\ Same(waiting, published)
    BY ZenonT(60), <2>1 DEF Good, SchedState, Optional, Same
  <2>3. Good(published, Acked, {}) /\ Keeps(waiting, published)
    BY <2>1, <2>2, SameIsGood
  <2> HIDE DEF published
  <2>4. Keeps(s1, published) /\ published.idle[c] # None
    BY <1>5, <2>1, <2>3, KeepsTransitive DEF Keeps, Stays
  <2>5. Good(blocked, Acked, {}) /\ Keeps(s1, blocked)
    BY <2>3, <2>4, BlockCurrent, KeepsTransitive DEF WaitPhase
  <2> HIDE DEF blocked
  <2>6. blocked.current[c] # None
    BY <1>5, <2>5 DEF Keeps, Stays
  <2>7. Good(sched', Acked, {}) /\ Keeps(s1, sched')
    BY <1>8, <2>5, <2>6, FinishBlock, KeepsTransitive
  <2> QED
    BY <1>4, <2>7, StaysTransitive DEF Keeps
<1>9. Good(sched', Acked, {}) /\ Stays(sched, sched')
  BY ZenonT(60), <1>2, <1>4, <1>6, <1>7, <1>8
<1>10. TypeOK'
  <2> HIDE DEF i
  <2> QED
    BY <1>1, <1>5, <1>9 DEF IInv, TypeOK, Good, Optional
<1>11. CASE UNCHANGED mode
  BY <1>9, <1>10, <1>11, SchedStep DEF IInv
<1>12. CASE mode' = [mode EXCEPT ![c] = "halted"]
  BY ZenonT(60), <1>1, <1>9, <1>10, <1>12, ModeStep DEF IInv
<1> QED
  BY <1>1, <1>11, <1>12

\* A CPU that halts leaves the scheduler as it was.
LEMMA BlockUnderGuardStep ==
  ASSUME IInv, NEW c \in Cpus, NEW held, BlockUnderGuard(c, held)
  PROVE  IInv'
<1>1. /\ mode[c] = "thread" /\ mode' = [mode EXCEPT ![c] = "halted"] /\ lock' \in Optional(Cpus)
      /\ UNCHANGED <<sched, expired, update, pc, target, owned, claimed>>
  BY DEF BlockUnderGuard, Calls, Halt, Optional
<1>2. Good(sched', Acked, {}) /\ Stays(sched, sched')
  BY <1>1 DEF IInv, Stays
<1>3. TypeOK'
  BY <1>1 DEF IInv, TypeOK
<1> QED
  BY ZenonT(60), <1>1, <1>2, <1>3, ModeStep DEF IInv

LEMMA InitializeCurrentCpuStep ==
  ASSUME IInv, NEW c \in Cpus, InitializeCurrentCpu(c)
  PROVE  IInv'
<1> DEFINE i == sched.free[Len(sched.free)]
           q == SubSeq(sched.free, 1, Len(sched.free) - 1)
           t == [slot |-> i, gen |-> 1]
           s1 == [sched EXCEPT !.free = q, !.gen[i] = 1, !.state[i] = "Ready",
                               !.home[i] = c, !.idle[c] = t]
<1>1. sched \in SchedState /\ sched.free \in Seq(Slots) /\ Good(sched, Acked, {})
  BY ZenonT(60) DEF IInv, Good, SchedState
<1>2. i \in Slots /\ q \in Seq(Slots)
  BY <1>1, LastOf DEF InitializeCurrentCpu
<1>3. 1 \in 1..MaxGen /\ 1 \in 0..MaxGen
  BY SchedConstants
<1>4. t \in ThreadId /\ t.slot = i /\ t.gen = 1 /\ t # None
  BY <1>2, <1>3, SchedConstants DEF ThreadId
<1>5. sched' = make_running(s1, c, t) /\ sched.current[c] = None /\ mode[c] = "boot"
  BY DEF InitializeCurrentCpu, initialize_idle_current
<1> HIDE DEF i, q, t
<1>6. s1 \in SchedState
  BY <1>1, <1>2, <1>3, <1>4, ZenonT(60) DEF SchedState, ThreadState, Optional
<1>7. /\ s1.gen = [sched.gen EXCEPT ![i] = 1] /\ s1.current = sched.current
      /\ s1.idle = [sched.idle EXCEPT ![c] = t] /\ s1.ready = sched.ready
      /\ s1.remote = sched.remote /\ s1.retired = sched.retired
      /\ s1.ipi = sched.ipi /\ s1.sgi = sched.sgi /\ s1.online = sched.online
  BY <1>1 DEF SchedState
<1> HIDE DEF s1
<1>8. IssuedIds(sched) \subseteq IssuedIds(s1) /\ t \in IssuedIds(s1)
  <2>1. sched.gen \in [Slots -> 0..MaxGen]
    BY <1>1 DEF SchedState
  <2>2. \A x \in ThreadId : x.slot \in Slots
    BY DEF ThreadId
  <2>3. \A j \in Slots : s1.gen[j] = IF j = i THEN 1 ELSE sched.gen[j]
    BY <1>7, <2>1
  <2>4. IssuedIds(sched) \subseteq IssuedIds(s1)
    BY <2>2, <2>3 DEF IssuedIds
  <2>5. s1.gen[t.slot] >= 1
    BY <1>2, <1>4, <2>3
  <2> QED
    BY <1>4, <2>4, <2>5 DEF IssuedIds
<1>9. sched.idle \in [Cpus -> Optional(ThreadId)]
  BY <1>1 DEF SchedState
<1>10. s1.idle[c] = t /\ \A d \in Cpus : d # c => s1.idle[d] = sched.idle[d]
  BY <1>7, <1>9
<1>11. Issued(s1)
  <2>1. \A d \in Cpus : /\ s1.ready[d] \in Seq(IssuedIds(s1))
                        /\ s1.remote[d] \in Seq(IssuedIds(s1))
    BY <1>1, <1>7, <1>8, SeqMonotonic DEF Good, Issued
  <2>2. \A d \in Cpus : /\ s1.current[d] \in IssuedIds(s1) \cup {None}
                        /\ sched.idle[d] \in IssuedIds(s1) \cup {None}
                        /\ s1.current[d] # None => sched.idle[d] # None
    BY <1>1, <1>7, <1>8 DEF Good, Issued
  <2>3. \A d \in Cpus : /\ s1.idle[d] \in IssuedIds(s1) \cup {None}
                        /\ s1.current[d] # None => s1.idle[d] # None
    BY <1>4, <1>8, <1>10, <2>2
  <2> QED
    BY <2>1, <2>2, <2>3 DEF Issued
<1>12. Notified(s1, Acked, {})
  BY <1>1, <1>7 DEF Good, Notified
<1>13. Good(sched', Acked, {}) /\ Keeps(s1, sched')
  BY <1>4, <1>5, <1>6, <1>8, <1>10, <1>11, <1>12, MakeRunning DEF Good
<1>14. UNCHANGED <<lock, mode, expired, update, pc, target, owned, claimed>>
  BY DEF InitializeCurrentCpu
<1>15. Contexts'
  <2>1. \A d \in Cpus : mode[d] # "boot" => sched.online[d] /\ sched.current[d] # None
    BY DEF IInv, Contexts
  <2>2. \A d \in Cpus : s1.current[d] # None => sched'.current[d] # None
    BY <1>13 DEF Keeps, Stays
  <2>3. sched'.online = s1.online /\ mode' = mode
    BY <1>13, <1>14 DEF Keeps, Stays
  <2> QED
    BY <1>7, <2>1, <2>2, <2>3 DEF Contexts
<1>16. Acked' = Acked
  BY <1>14 DEF Acked
<1>17. TypeOK'
  BY <1>13, <1>14 DEF IInv, TypeOK, Good
<1> QED
  BY <1>13, <1>15, <1>16, <1>17 DEF IInv

LEMMA EnterRunningThreadStep ==
  ASSUME IInv, NEW c \in Cpus, EnterRunningThread(c)
  PROVE  IInv'
<1> DEFINE a == assert_that(sched, ~sched.online[c])
           s1 == ensure_quantum_event(a, c)
           s2 == activate_thread_address_space(s1, c, sched.current[c])
           r == [s2 EXCEPT !.online[c] = TRUE]
<1>1. Good(sched, Acked, {}) /\ sched.current[c] # None /\ mode[c] = "boot"
  BY DEF IInv, EnterRunningThread
<1>2. sched.current[c] \in ThreadId
  BY ZenonT(60), <1>1 DEF Good, Issued, IssuedIds
<1>3. /\ sched' = r /\ mode' = [mode EXCEPT ![c] = "thread"]
      /\ UNCHANGED <<lock, expired, update, pc, target, owned, claimed>>
  BY DEF EnterRunningThread
<1>4. Good(a, Acked, {}) /\ Keeps(sched, a)
  BY <1>1, AssertThat
<1> HIDE DEF a
<1>5. a.current[c] # None
  BY <1>1, <1>4 DEF Keeps, Stays
<1>6. Good(s1, Acked, {}) /\ Keeps(sched, s1)
  BY <1>4, <1>5, EnsureQuantumEvent, KeepsTransitive
<1> HIDE DEF s1
<1>7. Good(s2, Acked, {}) /\ Keeps(sched, s2)
  BY <1>2, <1>6, ActivateThreadAddressSpace, KeepsTransitive
<1> HIDE DEF s2
<1>8. s2 \in SchedState
  BY <1>7 DEF Good
<1>9. r \in SchedState
  BY ZenonT(60), <1>8 DEF SchedState
<1>10. /\ r.online = [s2.online EXCEPT ![c] = TRUE] /\ r.current = s2.current
       /\ r.gen = s2.gen /\ r.idle = s2.idle /\ r.ready = s2.ready /\ r.remote = s2.remote
       /\ r.retired = s2.retired /\ r.ipi = s2.ipi /\ r.sgi = s2.sgi
       /\ s2.online \in [Cpus -> BOOLEAN]
  BY <1>8 DEF SchedState
<1> HIDE DEF r
<1>11. IssuedIds(r) = IssuedIds(s2)
  BY <1>10 DEF IssuedIds
<1>12. Issued(r)
  BY <1>7, <1>10, <1>11 DEF Good, Issued
<1>13. Notified(r, Acked, {})
  BY <1>7, <1>10 DEF Good, Notified
<1>14. mode \in [Cpus -> {"boot", "thread", "prepared", "refused", "ipi",
                          "timer", "batch", "rearm", "halted"}]
  BY DEF IInv, TypeOK
<1>15. Acked' = Acked
  BY <1>1, <1>3, <1>14 DEF Acked
<1>16. Contexts'
  <2>1. r.current[c] # None /\ r.online[c]
    BY <1>1, <1>7, <1>10 DEF Keeps, Stays
  <2>2. ASSUME NEW d \in Cpus, d # c, mode'[d] # "boot"
        PROVE  r.online[d] /\ r.current[d] # None
    <3>1. sched.online[d] /\ sched.current[d] # None
      BY <1>3, <1>14, <2>2 DEF IInv, Contexts
    <3> QED
      BY <1>7, <1>10, <2>2, <3>1 DEF Keeps, Stays
  <2> QED
    BY <1>3, <2>1, <2>2 DEF Contexts
<1>17. TypeOK'
  BY <1>3, <1>9, <1>14 DEF IInv, TypeOK
<1> QED
  BY <1>3, <1>9, <1>12, <1>13, <1>15, <1>16, <1>17 DEF IInv, Good

LEMMA JoinResultStep ==
  ASSUME IInv, NEW c \in Cpus, FinishJoin(c) \/ TakeJoinResult(c)
  PROVE  IInv'
<1>1. mode[c] # "boot"
  BY DEF FinishJoin, TakeJoinResult, Calls
<1>2. Good(sched, Acked, {}) /\ Me(c) \in Slots
  BY <1>1, Runs
<1>3. CASE FinishJoin(c)
  <2>1. Good(sched', Acked, {}) /\ Stays(sched, sched')
    BY <1>2, <1>3, Finish DEF FinishJoin, Keeps
  <2>2. TypeOK'
    BY <1>2, <1>3, <2>1 DEF IInv, TypeOK, FinishJoin, Good
  <2> QED
    BY <1>3, <2>1, <2>2, SchedStep DEF IInv, FinishJoin
<1>4. CASE TakeJoinResult(c)
  <2>1. sched' \in SchedState /\ Same(sched, sched')
    BY <1>2, <1>4, ZenonT(60) DEF TakeJoinResult, panics, Good, SchedState, Optional, Same
  <2>2. Good(sched', Acked, {}) /\ Stays(sched, sched')
    BY <1>2, <2>1, SameIsGood DEF Keeps
  <2>3. TypeOK'
    BY <1>2, <1>4, <2>1 DEF IInv, TypeOK, TakeJoinResult, Optional
  <2> QED
    BY <1>4, <2>2, <2>3, SchedStep DEF IInv, TakeJoinResult
<1> QED
  BY <1>3, <1>4

LEMMA PrepareWaitStep ==
  ASSUME IInv, NEW c \in Cpus, NEW kind, PrepareWait(c, kind)
  PROVE  IInv'
<1> DEFINE s1 == prepare(sched, Me(c))
           tok == wait_token(s1, Me(c))
           m == IF kind = "refused" THEN "refused" ELSE "prepared"
<1>1. /\ mode[c] = "thread" /\ sched.seq[Me(c)] < MaxSeq
      /\ sched' = IF kind \in {"timed", "sleep"}
                  THEN schedule_event(s1, c, WaitDeadline(tok)) ELSE s1
      /\ owned' = IF kind \in {"owner", "timed"} THEN owned \cup {tok} ELSE owned
      /\ mode' = [mode EXCEPT ![c] = m]
      /\ UNCHANGED <<lock, expired, update, pc, target, claimed>>
  BY ZenonT(60) DEF PrepareWait, Calls
<1>2. Good(s1, Acked, {}) /\ Keeps(sched, s1) /\ tok \in WaitToken
  BY <1>1, Runs, Prepare
<1>3. m \in {"refused", "prepared"}
  OBVIOUS
<1> HIDE DEF s1, tok, m
<1>4. WaitDeadline(tok) \in TimedEvent
  BY ZenonT(60), <1>2 DEF WaitDeadline, TimedEvent
<1>5. Good(sched', Acked, {}) /\ Stays(sched, sched')
  BY ZenonT(60), <1>1, <1>2, <1>4, ScheduleEvent, KeepsTransitive DEF Keeps
<1>6. TypeOK'
  BY ZenonT(60), <1>1, <1>2, <1>3, <1>5 DEF IInv, TypeOK, Good
<1> QED
  BY ZenonT(60), <1>1, <1>3, <1>5, <1>6, ModeStep DEF IInv

LEMMA CommitWaitStep ==
  ASSUME IInv, NEW c \in Cpus, CommitWait(c)
  PROVE  IInv'
<1> DEFINE i == Me(c)
           blocked == block_current(sched, c, "Blocked")
           enabled == assert_that(sched, PreemptionEnabled(c))
<1>1. /\ mode[c] = "prepared" /\ mode' = [mode EXCEPT ![c] = "thread"]
      /\ UNCHANGED <<lock, expired, update, target, claimed>>
  BY DEF CommitWait
<1>2. \/ /\ sched' = finish_block_current(blocked, c, sched.current[c])
         /\ pc' = [pc EXCEPT ![i] = "wait"] /\ owned' = owned
      \/ /\ sched' = finish(enabled, i)
         /\ pc' = pc /\ owned' = owned \ {wait_token(sched, i)}
  BY DEF CommitWait, Me
<1>3. /\ Good(sched, Acked, {}) /\ sched.current[c] # None /\ sched.idle[c] # None
      /\ i \in Slots
  BY <1>1, Runs
<1> HIDE DEF i
<1>4. Good(blocked, Acked, {}) /\ Keeps(sched, blocked)
  BY <1>3, BlockCurrent DEF WaitPhase
<1> HIDE DEF blocked
<1>5. blocked.current[c] # None
  BY <1>3, <1>4 DEF Keeps, Stays
<1>6. Good(sched', Acked, {}) /\ Keeps(sched, sched')
  <2>1. CASE sched' = finish_block_current(blocked, c, sched.current[c])
    <3>1. Good(sched', Acked, {}) /\ Keeps(blocked, sched')
      BY <2>1, <1>4, <1>5, FinishBlock
    <3> QED
      BY <3>1, <1>4, KeepsTransitive
  <2>2. CASE sched' = finish(enabled, i)
    <3>1. Good(enabled, Acked, {}) /\ Keeps(sched, enabled)
      BY <1>3, AssertThat
    <3> HIDE DEF enabled
    <3>2. Good(sched', Acked, {}) /\ Keeps(enabled, sched')
      BY <2>2, <1>3, <3>1, Finish
    <3> QED
      BY <3>1, <3>2, KeepsTransitive
  <2> QED
    BY <1>2, <2>1, <2>2
<1>7. TypeOK'
  BY ZenonT(60), <1>1, <1>2, <1>3, <1>6 DEF IInv, TypeOK, Good
<1> QED
  BY ZenonT(60), <1>1, <1>6, <1>7, ModeStep DEF IInv, Keeps

LEMMA CancelWaitStep ==
  ASSUME IInv, NEW c \in Cpus, CancelWait(c)
  PROVE  IInv'
<1>1. /\ mode[c] = "refused" /\ mode' = [mode EXCEPT ![c] = "thread"]
      /\ UNCHANGED <<lock, expired, update, pc, target, owned, claimed>>
  BY DEF CancelWait
<1>2. sched' \in SchedState /\ Same(sched, sched')
  BY ZenonT(60) DEF IInv, CancelWait, panics, Good, SchedState, WaitPhase, Same
<1>3. Good(sched', Acked, {}) /\ Stays(sched, sched')
  BY <1>2, SameIsGood DEF IInv, Keeps
<1>4. TypeOK'
  BY <1>1, <1>2 DEF IInv, TypeOK
<1> QED
  BY ZenonT(60), <1>1, <1>3, <1>4, ModeStep DEF IInv

LEMMA SleepUserStep ==
  ASSUME IInv, NEW c \in Cpus, SleepUser(c)
  PROVE  IInv'
<1> DEFINE me == sched.current[c]
           s1 == prepare(sched, me.slot)
           tok == wait_token(s1, me.slot)
           s2 == cancel_event(s1, c, QuantumExpired(me))
           s3 == schedule_event(s2, c, WaitDeadline(tok))
           s4 == block_current(s3, c, "sleeping")
<1>1. /\ mode[c] = "thread" /\ sched.seq[me.slot] < MaxSeq
      /\ sched' = finish_block_after_quantum_cancel(s4, c)
      /\ UNCHANGED <<lock, mode, expired, update, pc, target, owned, claimed>>
  BY ZenonT(60) DEF SleepUser, Calls, Me
<1>2. /\ Good(sched, Acked, {}) /\ sched.current[c] # None /\ sched.idle[c] # None
      /\ me.slot \in Slots /\ sched.gen[me.slot] >= 1
  BY ZenonT(60), <1>1, Runs DEF Me
<1>3. Good(s1, Acked, {}) /\ Keeps(sched, s1) /\ tok \in WaitToken
  BY ZenonT(60), <1>1, <1>2, Prepare
<1> HIDE DEF s1, tok
<1>4. WaitDeadline(tok) \in TimedEvent
  BY ZenonT(60), <1>3 DEF WaitDeadline, TimedEvent
<1>5. Good(s2, Acked, {}) /\ Keeps(sched, s2)
  BY <1>3, CancelEvent, KeepsTransitive
<1> HIDE DEF s2
<1>6. Good(s3, Acked, {}) /\ Keeps(sched, s3)
  BY <1>4, <1>5, ScheduleEvent, KeepsTransitive
<1> HIDE DEF s3
<1>7. s3.idle[c] # None
  BY <1>2, <1>6 DEF Keeps, Stays
<1>8. Good(s4, Acked, {}) /\ Keeps(sched, s4)
  BY <1>6, <1>7, BlockCurrent, KeepsTransitive DEF WaitPhase
<1> HIDE DEF s4
<1>9. s4.current[c] # None
  BY <1>2, <1>8 DEF Keeps, Stays
<1>10. Good(sched', Acked, {}) /\ Keeps(sched, sched')
  BY <1>1, <1>8, <1>9, FinishBlock, KeepsTransitive
<1> QED
  BY ZenonT(60), <1>1, <1>10, SchedOnly DEF Keeps

LEMMA FinishWaitStep ==
  ASSUME IInv, NEW c \in Cpus, FinishWait(c)
  PROVE  IInv'
<1>1. /\ mode[c] = "thread" /\ sched' = finish(sched, Me(c))
      /\ owned' = owned \ {wait_token(sched, Me(c))}
      /\ pc' = [pc EXCEPT ![Me(c)] = "run"]
      /\ UNCHANGED <<lock, mode, expired, update, target, claimed>>
  BY DEF FinishWait, Calls
<1>2. Good(sched, Acked, {}) /\ Me(c) \in Slots
  BY <1>1, Runs
<1>3. Good(sched', Acked, {}) /\ Stays(sched, sched')
  BY <1>1, <1>2, Finish DEF Keeps
<1>4. TypeOK'
  BY <1>1, <1>2, <1>3 DEF IInv, TypeOK, Good
<1> QED
  BY <1>1, <1>3, <1>4, SchedStep DEF IInv

LEMMA OwnerStep ==
  ASSUME IInv, NEW c \in Cpus, NEW tok,
         \/ tok \in owned /\ ClaimWaiter(c, tok)
         \/ tok \in claimed /\ CompleteWait(c, tok)
  PROVE  IInv'
<1>1. Good(sched, Acked, {}) /\ tok \in WaitToken
  BY DEF IInv, TypeOK
<1>2. CASE ClaimWaiter(c, tok)
  <2>1. /\ owned' = owned \ {tok} /\ claimed' = claimed \cup {tok}
        /\ \/ sched' = cancel_event(sched, c, WaitDeadline(tok))
           \/ sched' = cancel_event_remote(sched, sched.home[tok.slot], WaitDeadline(tok))
        /\ UNCHANGED <<lock, mode, expired, update, pc, target>>
    BY ZenonT(60), <1>2 DEF ClaimWaiter
  <2>2. Good(sched', Acked, {}) /\ Keeps(sched, sched')
    BY <1>1, <2>1, CancelEvent
  <2>3. TypeOK'
    BY ZenonT(60), <1>1, <2>1, <2>2 DEF IInv, TypeOK, Good
  <2> QED
    BY <2>1, <2>2, <2>3, SchedStep DEF IInv, Keeps
<1>3. CASE CompleteWait(c, tok)
  <2>1. /\ claimed' = claimed \ {tok}
        /\ sched' = complete_wait_transition(sched, c, tok, "Notified", TRUE)
        /\ UNCHANGED <<lock, mode, expired, update, pc, target, owned>>
    BY <1>3 DEF CompleteWait
  <2>2. Good(sched', Acked, {}) /\ Keeps(sched, sched')
    BY ZenonT(60), <1>1, <2>1, CompleteWaitTransition
  <2>3. TypeOK'
    BY ZenonT(60), <2>1, <2>2 DEF IInv, TypeOK, Good
  <2> QED
    BY ZenonT(60), <2>1, <2>2, <2>3, SchedStep DEF IInv, Keeps
<1> QED
  BY <1>2, <1>3

\* From the acknowledgement on, the handler stands for the SGI.
LEMMA AckSchedulerIpiStep ==
  ASSUME IInv, NEW c \in Cpus, AckSchedulerIpi(c)
  PROVE  IInv'
<1>1. /\ mode[c] = "thread" /\ sched' = [sched EXCEPT !.sgi[c] = FALSE]
      /\ mode' = [mode EXCEPT ![c] = "ipi"]
      /\ UNCHANGED <<lock, expired, update, pc, target, owned, claimed>>
  BY DEF AckSchedulerIpi
<1>2. sched \in SchedState /\ Issued(sched) /\ Notified(sched, Acked, {})
  BY DEF IInv, Good
<1>3. mode \in [Cpus -> {"boot", "thread", "prepared", "refused", "ipi",
                         "timer", "batch", "rearm", "halted"}]
  BY DEF IInv, TypeOK
<1>4. Acked' = Acked \cup {c}
  BY <1>1, <1>3 DEF Acked
<1>5. sched' \in SchedState
  BY <1>1, <1>2, ZenonT(60) DEF SchedState
<1>6. /\ sched'.gen = sched.gen /\ sched'.online = sched.online /\ sched'.idle = sched.idle
      /\ sched'.current = sched.current /\ sched'.ready = sched.ready
      /\ sched'.remote = sched.remote /\ sched'.retired = sched.retired
      /\ sched'.ipi = sched.ipi /\ sched'.sgi = [sched.sgi EXCEPT ![c] = FALSE]
      /\ sched.sgi \in [Cpus -> BOOLEAN]
  BY <1>1, <1>2 DEF SchedState
<1>7. IssuedIds(sched') = IssuedIds(sched)
  BY <1>6 DEF IssuedIds
<1>8. Issued(sched')
  BY <1>2, <1>6, <1>7 DEF Issued
<1>9. Notified(sched', Acked', {})
  BY <1>2, <1>4, <1>6 DEF Notified
<1>10. Contexts'
  BY <1>1, <1>3, <1>6 DEF IInv, Contexts
<1>11. TypeOK'
  BY <1>1, <1>3, <1>5 DEF IInv, TypeOK
<1> QED
  BY <1>5, <1>8, <1>9, <1>10, <1>11 DEF IInv, Good

\* The retired thread goes first, then the ingress: the bit may fall.
LEMMA FinishSchedulerIpiStep ==
  ASSUME IInv, NEW c \in Cpus, FinishSchedulerIpi(c)
  PROVE  IInv'
<1> DEFINE M == Acked \ {c}
           s1 == finalize_retired(sched, c, TRUE)
           s2 == consume_scheduler_ipi(s1, c)
           s3 == note_runnable_peer_available(s2, c)
           s4 == consume_checkpoint(s3, c)
           s5 == handoff_optional(s4, c)
<1>1. /\ mode[c] = "ipi" /\ mode' = [mode EXCEPT ![c] = "thread"]
      /\ UNCHANGED <<lock, expired, update, pc, target, owned, claimed>>
  BY DEF FinishSchedulerIpi
<1>2. sched' = IF ~s1.online[c] THEN s1
               ELSE IF checkpoint_due(s3, c)
               THEN replace_quantum_event(s5, c, s3.current[c]) ELSE s3
  BY ZenonT(60) DEF FinishSchedulerIpi
<1>3. Good(sched, Acked, {}) /\ sched.current[c] # None /\ sched.online[c]
  BY <1>1, Runs
<1>4. Good(s1, Acked, {}) /\ Finalized(sched, s1, c)
  BY ZenonT(60), <1>3, FinalizeRetired
<1> HIDE DEF s1
<1>5. s1.retired[c] = None /\ s1.online[c] /\ s1.current[c] # None /\ Stays(sched, s1)
  BY <1>3, <1>4 DEF Finalized, Stays
<1>6. Good(s2, M, {}) /\ Keeps(s1, s2)
  BY <1>4, <1>5, ConsumeSchedulerIpi
<1> HIDE DEF s2, M
<1>7. Good(s3, M, {}) /\ Keeps(s1, s3)
  BY <1>6, NoteRunnablePeerAvailable, KeepsTransitive
<1> HIDE DEF s3
<1>8. Good(s4, M, {}) /\ Keeps(s1, s4)
  BY <1>7, ConsumeCheckpoint, KeepsTransitive
<1> HIDE DEF s4
<1>9. s4.current[c] # None
  BY <1>5, <1>8 DEF Keeps, Stays
<1>10. Good(s5, M, {}) /\ Keeps(s1, s5)
  BY <1>8, <1>9, HandoffOptional, KeepsTransitive
<1> HIDE DEF s5
<1>11. s5.current[c] # None
  BY <1>5, <1>10 DEF Keeps, Stays
<1>12. Good(sched', M, {}) /\ Keeps(s1, sched')
  BY <1>2, <1>5, <1>7, <1>10, <1>11, ReplaceQuantumEvent, KeepsTransitive
<1>13. Stays(sched, sched')
  BY <1>5, <1>12, StaysTransitive DEF Keeps
<1>14. TypeOK'
  BY <1>1, <1>12 DEF IInv, TypeOK, Good
<1> QED
  BY ZenonT(60), <1>1, <1>12, <1>13, <1>14, ModeStep DEF IInv, M

LEMMA BatchIsSeq ==
  ASSUME NEW S, NEW E \in SUBSET S, NEW batch \in Batches(E)
  PROVE  batch \in Seq(S)
<1>1. PICK n \in 0..MaxBatch : batch \in [1..n -> E]
  BY DEF Batches
<1>2. n \in Nat
  BY SchedConstants
<1>3. batch \in [1..n -> S]
  BY <1>1
<1> QED
  BY <1>2, <1>3, SeqDef

LEMMA TakeExpiredStep ==
  ASSUME IInv, NEW c \in Cpus, NEW batch \in Batches(sched.timed[c]), TakeExpired(c, batch)
  PROVE  IInv'
<1> DEFINE E == {batch[k] : k \in DOMAIN batch}
<1>1. /\ mode[c] = "thread" /\ expired' = [expired EXCEPT ![c] = batch]
      /\ mode' = [mode EXCEPT ![c] = "timer"]
      /\ sched' = [sched EXCEPT !.timed[c] = @ \ E]
      /\ UNCHANGED <<lock, update, pc, target, owned, claimed>>
  BY DEF TakeExpired
<1> HIDE DEF E
<1>2. sched \in SchedState /\ sched.timed[c] \in SUBSET TimedEvent
  BY ZenonT(60) DEF IInv, Good, SchedState
<1>3. batch \in Seq(TimedEvent)
  BY <1>2, BatchIsSeq
<1>4. sched' \in SchedState /\ Same(sched, sched')
  BY ZenonT(60), <1>1, <1>2 DEF SchedState, Same
<1>5. Good(sched', Acked, {}) /\ Stays(sched, sched')
  BY <1>4, SameIsGood DEF IInv, Keeps
<1>6. TypeOK'
  BY <1>1, <1>3, <1>4 DEF IInv, TypeOK
<1> QED
  BY ZenonT(60), <1>1, <1>5, <1>6, ModeStep DEF IInv

LEMMA TimedWakeFromIdle ==
  ASSUME NEW M, NEW O, NEW s, Good(s, M, O), NEW c \in Cpus, s.idle[c] # None,
         NEW tok \in WaitToken, completion(s, tok) = "WokeBlocked"
  PROVE  Good(timed_wake_from_idle(s, c, tok), M, O) /\ Keeps(s, timed_wake_from_idle(s, c, tok))
<1> DEFINE t == thread_of(tok)
           a == complete(s, tok, "Timeout")
           s1 == [a EXCEPT !.state[tok.slot] = "Ready"]
           q == make_ready_and_queue(s1, c, s.idle[c], FALSE)
           s2 == make_running(q, c, t)
           s3 == consume_checkpoint(s2, c)
<1>1. timed_wake_from_idle(s, c, tok) = activate_thread_address_space(s3, c, t)
  BY DEF timed_wake_from_idle
<1>2. t \in IssuedIds(s) /\ s.idle[c] \in IssuedIds(s)
  BY CompletionIssued DEF Good, Issued
<1>3. Good(a, M, O) /\ Keeps(s, a)
  BY CompleteExactWait
<1> HIDE DEF t, a
<1>4. Good(s1, M, O) /\ Keeps(s, s1)
  BY ZenonT(60), <1>3, SetState, KeepsTransitive DEF ThreadState
<1> HIDE DEF s1
<1>5. Good(q, M, O) /\ Keeps(s, q)
  BY ZenonT(60), <1>2, <1>4, MakeReadyAndQueue, KeepsIssued, KeepsTransitive
<1> HIDE DEF q
<1>6. q.idle[c] # None /\ t \in IssuedIds(q)
  BY <1>2, <1>5, KeepsIssued DEF Keeps, Stays
<1>7. Good(s2, M, O) /\ Keeps(s, s2)
  BY <1>5, <1>6, MakeRunning, KeepsTransitive
<1> HIDE DEF s2
<1>8. Good(s3, M, O) /\ Keeps(s, s3)
  BY <1>7, ConsumeCheckpoint, KeepsTransitive
<1> HIDE DEF s3
<1>9. t \in ThreadId
  BY <1>2 DEF IssuedIds
<1> QED
  BY <1>1, <1>8, <1>9, ActivateThreadAddressSpace, KeepsTransitive

LEMMA FinishTimerBeginStep ==
  ASSUME IInv, NEW c \in Cpus, FinishTimerBegin(c)
  PROVE  IInv'
<1> DEFINE s1 == finalize_retired(sched, c, FALSE)
           e == expired[c][1]
<1>1. /\ mode[c] = "timer" /\ UNCHANGED <<update, pc, target, owned, claimed>>
      /\ \/ /\ wakes_from_idle(s1, c, expired[c])
            /\ sched' = timed_wake_from_idle(s1, c, e.of)
            /\ expired' = [expired EXCEPT ![c] = <<>>]
            /\ mode' = [mode EXCEPT ![c] = "rearm"] /\ lock' = None
         \/ /\ sched' = s1 /\ expired' = expired
            /\ mode' = [mode EXCEPT ![c] = "batch"] /\ lock' = c
  BY ZenonT(60) DEF FinishTimerBegin
<1>2. Good(sched, Acked, {}) /\ sched.current[c] # None /\ sched.idle[c] # None
  BY ZenonT(60), <1>1, Runs
<1>3. Good(s1, Acked, {}) /\ Finalized(sched, s1, c)
  BY ZenonT(60), <1>2, FinalizeRetired
<1> HIDE DEF s1
<1>4. Stays(sched, s1) /\ s1.idle[c] # None
  BY <1>2, <1>3 DEF Finalized, Stays
<1>5. expired \in [Cpus -> Seq(TimedEvent)] /\ <<>> \in Seq(TimedEvent)
  BY DEF IInv, TypeOK
<1>6. wakes_from_idle(s1, c, expired[c])
        => e.of \in WaitToken /\ completion(s1, e.of) = "WokeBlocked"
  <2>1. Len(expired[c]) = 1 => e \in TimedEvent
    <3>1. expired[c] \in Seq(TimedEvent) /\ 1 \in 1..1
      BY <1>5
    <3> QED
      BY <3>1, ElementOfSeq
  <2> HIDE DEF e
  <2>2. e \in TimedEvent /\ e.kind = "wait" => e.of \in WaitToken
    BY DEF TimedEvent
  <2> QED
    BY <2>1, <2>2 DEF wakes_from_idle, e
<1> HIDE DEF e
<1>7. Good(sched', Acked, {}) /\ Stays(sched, sched')
  <2>1. CASE sched' = s1
    BY <1>3, <1>4, <2>1
  <2>2. CASE wakes_from_idle(s1, c, expired[c]) /\ sched' = timed_wake_from_idle(s1, c, e.of)
    <3>1. Good(sched', Acked, {}) /\ Keeps(s1, sched')
      BY ZenonT(60), <1>3, <1>4, <1>6, <2>2, TimedWakeFromIdle
    <3> QED
      BY <1>4, <3>1, StaysTransitive DEF Keeps
  <2> QED
    BY <1>1, <2>1, <2>2
<1>8. TypeOK'
  BY ZenonT(60), <1>1, <1>5, <1>7 DEF IInv, TypeOK, Good, Optional
<1> QED
  BY ZenonT(60), <1>1, <1>7, <1>8, ModeStep DEF IInv

LEMMA FinishTimerEventStep ==
  ASSUME IInv, NEW c \in Cpus, FinishTimerEvent(c)
  PROVE  IInv'
<1> DEFINE e == Head(expired[c])
<1>1. /\ expired[c] # <<>> /\ sched' = finish_timer_event(sched, c, e)
      /\ expired' = [expired EXCEPT ![c] = Tail(@)]
      /\ UNCHANGED <<lock, mode, update, pc, target, owned, claimed>>
  BY DEF FinishTimerEvent
<1>2. expired \in [Cpus -> Seq(TimedEvent)] /\ Good(sched, Acked, {})
  BY DEF IInv, TypeOK
<1>3. e \in TimedEvent /\ Tail(expired[c]) \in Seq(TimedEvent)
  BY <1>1, <1>2
<1> HIDE DEF e
<1>4. e.kind = "wait" => e.of \in WaitToken
  BY <1>3 DEF TimedEvent
<1>5. Keeps(sched, sched)
  BY DEF Keeps, Stays
<1>6. Good(sched', Acked, {}) /\ Keeps(sched, sched')
  <2>1. CASE e.kind = "wait"
    <3>1. sched' = complete_wait_transition(sched, c, e.of, "Timeout", FALSE)
      BY <1>1, <2>1 DEF finish_timer_event
    <3> QED
      BY ZenonT(60), <1>2, <1>4, <2>1, <3>1, CompleteWaitTransition
  <2>2. CASE e.kind # "wait"
    <3>1. sched' = request_reschedule(sched, c) \/ sched' = sched
      BY <1>1, <2>2 DEF finish_timer_event
    <3> QED
      BY <1>2, <1>5, <3>1, RequestReschedule
  <2> QED
    BY <2>1, <2>2
<1>7. TypeOK'
  BY <1>1, <1>2, <1>3, <1>6 DEF IInv, TypeOK, Good
<1> QED
  BY <1>1, <1>6, <1>7, SchedStep DEF IInv, Keeps

LEMMA FinishTimerEndStep ==
  ASSUME IInv, NEW c \in Cpus, FinishTimerEnd(c)
  PROVE  IInv'
<1> DEFINE s1 == IF sched.current[c] = sched.idle[c] /\ has_runnable_peer(sched, c)
                 THEN request_reschedule(sched, c) ELSE sched
           due == checkpoint_due(s1, c)
           a == consume_checkpoint(s1, c)
           s2 == IF due THEN handoff_optional(a, c) ELSE s1
           u == [obsolete |-> IF due THEN s1.current[c] ELSE None,
                 ensure |-> IF has_runnable_peer(s2, c) THEN s2.current[c] ELSE None]
<1>1. /\ mode[c] = "batch" /\ mode' = [mode EXCEPT ![c] = "rearm"] /\ lock' = None
      /\ sched' = s2 /\ update' = [update EXCEPT ![c] = u]
      /\ UNCHANGED <<expired, pc, target, owned, claimed>>
  BY ZenonT(60) DEF FinishTimerEnd
<1>2. Good(sched, Acked, {}) /\ sched.current[c] # None
  BY ZenonT(60), <1>1, Runs
<1>3. Keeps(sched, sched)
  BY DEF Keeps, Stays
<1>4. Good(s1, Acked, {}) /\ Keeps(sched, s1)
  BY ZenonT(60), <1>2, <1>3, RequestReschedule
<1> HIDE DEF s1, due
<1>5. Good(a, Acked, {}) /\ Keeps(sched, a)
  BY <1>4, ConsumeCheckpoint, KeepsTransitive
<1> HIDE DEF a
<1>6. a.current[c] # None
  BY <1>2, <1>5 DEF Keeps, Stays
<1>7. Good(s2, Acked, {}) /\ Keeps(sched, s2)
  BY <1>4, <1>5, <1>6, HandoffOptional, KeepsTransitive
<1> HIDE DEF s2
<1>8. s1.current[c] \in Optional(ThreadId) /\ s2.current[c] \in Optional(ThreadId)
  BY ZenonT(60), <1>4, <1>7 DEF Good, SchedState
<1>9. u \in [obsolete : Optional(ThreadId), ensure : Optional(ThreadId)]
  BY ZenonT(60), <1>8 DEF Optional
<1> HIDE DEF u
<1>10. TypeOK'
  BY <1>1, <1>7, <1>9 DEF IInv, TypeOK, Good, Optional
<1> QED
  BY ZenonT(60), <1>1, <1>7, <1>10, ModeStep DEF IInv, Keeps

LEMMA ApplyQuantumUpdateStep ==
  ASSUME IInv, NEW c \in Cpus, ApplyQuantumUpdate(c)
  PROVE  IInv'
<1> DEFINE s1 == cancel_event(sched, c, QuantumExpired(update[c].obsolete))
           none == [obsolete |-> None, ensure |-> None]
           e == QuantumExpired(update[c].ensure)
<1>1. /\ mode[c] = "rearm" /\ mode' = [mode EXCEPT ![c] = "thread"]
      /\ sched' = IF update[c].ensure = None THEN [s1 EXCEPT !.early[c] = FALSE]
                  ELSE schedule_event(s1, c, e)
      /\ update' = [update EXCEPT ![c] = none]
      /\ UNCHANGED <<lock, expired, pc, target, owned, claimed>>
  BY DEF ApplyQuantumUpdate
<1>2. update \in [Cpus -> [obsolete : Optional(ThreadId), ensure : Optional(ThreadId)]]
  BY DEF IInv, TypeOK
<1>3. update[c].ensure # None => e \in TimedEvent
  BY <1>2 DEF Optional, QuantumExpired, TimedEvent
<1>4. none \in [obsolete : Optional(ThreadId), ensure : Optional(ThreadId)]
  BY DEF Optional
<1>5. Good(s1, Acked, {}) /\ Keeps(sched, s1)
  BY CancelEvent DEF IInv
<1> HIDE DEF s1, none, e
<1>6. Good(sched', Acked, {}) /\ Keeps(s1, sched')
  <2>1. CASE update[c].ensure = None
    <3>1. s1 \in SchedState /\ sched' = [s1 EXCEPT !.early[c] = FALSE]
      BY <1>1, <1>5, <2>1 DEF Good
    <3>2. sched' \in SchedState /\ Same(s1, sched')
      BY ZenonT(60), <3>1 DEF SchedState, Same
    <3> QED
      BY <1>5, <3>2, SameIsGood
  <2>2. CASE update[c].ensure # None
    BY <1>1, <1>3, <1>5, <2>2, ScheduleEvent
  <2> QED
    BY <2>1, <2>2
<1>7. TypeOK'
  BY <1>1, <1>2, <1>4, <1>6 DEF IInv, TypeOK, Good
<1>8. Stays(sched, sched')
  BY <1>5, <1>6, StaysTransitive DEF Keeps
<1> QED
  BY ZenonT(60), <1>1, <1>6, <1>7, <1>8, ModeStep DEF IInv

LEMMA InitIInv ==
  ASSUME Init
  PROVE  IInv
<1> DEFINE q == [k \in 1..(ThreadCapacity - 2) |-> k + 1]
<1>1. /\ ThreadCapacity \in Nat /\ ThreadCapacity >= 2 /\ NumCpus \in Nat \ {0}
      /\ 1 \in 0..MaxGen /\ 0 \in 0..MaxGen /\ 1 \in 1..MaxGen
      /\ 0 \in 0..MaxSeq /\ 0 \in 0..MaxDepth
  BY SchedConstants
<1>2. 0 \in Slots /\ 1 \in Slots /\ 0 \in Cpus
  BY <1>1 DEF Slots, Cpus
<1>3. idle0 \in ThreadId /\ init_thread \in ThreadId /\ idle0 # None /\ init_thread # None
  BY <1>1, <1>2, SchedConstants DEF idle0, init_thread, ThreadId
<1>4. q \in Seq(Slots)
  <2>1. ThreadCapacity - 2 \in Nat
    BY <1>1
  <2>2. \A k \in 1..(ThreadCapacity - 2) : k + 1 \in Slots
    BY <1>1 DEF Slots
  <2>3. q \in [1..(ThreadCapacity - 2) -> Slots]
    BY <2>2
  <2> QED
    BY <2>1, <2>3, SeqDef
<1>5. <<>> \in Seq(ThreadId) /\ <<>> \in Seq(TimedEvent) /\ <<>> \in Seq(IssuedIds(sched))
  OBVIOUS
<1>6. sched \in SchedState
  <2>1. sched = bootstrap_new
    BY DEF Init
  <2>2. /\ [i \in Slots |-> IF i <= 1 THEN 1 ELSE 0] \in [Slots -> 0..MaxGen]
        /\ [i \in Slots |-> 0] \in [Slots -> 0..MaxSeq]
        /\ [i \in Slots |-> IF i = 0 THEN "Ready" ELSE IF i = 1 THEN "Running" ELSE "Free"]
             \in [Slots -> ThreadState]
        /\ [i \in Slots |-> IF i <= 1 THEN 0 ELSE None] \in [Slots -> Optional(Cpus)]
        /\ [i \in Slots |-> "none"] \in [Slots -> WaitPhase]
    BY <1>1, <1>2 DEF ThreadState, WaitPhase, Optional
  <2>3. /\ [c \in Cpus |-> IF c = 0 THEN init_thread ELSE None] \in [Cpus -> Optional(ThreadId)]
        /\ [c \in Cpus |-> IF c = 0 THEN idle0 ELSE None] \in [Cpus -> Optional(ThreadId)]
        /\ [c \in Cpus |-> None] \in [Cpus -> Optional(ThreadId)]
        /\ [c \in Cpus |-> <<>>] \in [Cpus -> Seq(ThreadId)]
        /\ [c \in Cpus |-> 0] \in [Cpus -> 0..MaxDepth]
        /\ [c \in Cpus |-> {}] \in [Cpus -> SUBSET TimedEvent]
    BY <1>1, <1>3, <1>5 DEF Optional
  <2>4. /\ [i \in Slots |-> None] \in [Slots -> Optional(WaitToken)]
        /\ [i \in Slots |-> None] \in [Slots -> Optional(ThreadId \cup {JoinError})]
        /\ [i \in Slots |-> None] \in [Slots -> Optional(ThreadId)]
    BY DEF Optional
  <2> QED
    BY <1>4, <2>1, <2>2, <2>3, <2>4, ZenonT(60) DEF bootstrap_new, SchedState
<1>7. Issued(sched)
  <2>1. idle0 \in IssuedIds(sched) /\ init_thread \in IssuedIds(sched)
    <3>1. sched.gen = [i \in Slots |-> IF i <= 1 THEN 1 ELSE 0]
      BY ZenonT(60) DEF Init, bootstrap_new
    <3>2. idle0.slot = 0 /\ init_thread.slot = 1
      BY DEF idle0, init_thread
    <3> QED
      BY <1>2, <1>3, <3>1, <3>2 DEF IssuedIds
  <2> QED
    BY ZenonT(60), <1>3, <1>5, <2>1 DEF Init, bootstrap_new, Issued
<1>8. Notified(sched, Acked, {})
  BY ZenonT(60) DEF Init, bootstrap_new, Notified
<1>9. Contexts
  BY DEF Init, Contexts
<1>10. TypeOK
  BY <1>5, <1>6 DEF Init, TypeOK, Optional
<1> QED
  BY <1>6, <1>7, <1>8, <1>9, <1>10 DEF IInv, Good

LEMMA NextIInv ==
  ASSUME IInv, [Next]_vars
  PROVE  IInv'
<1>1. CASE UNCHANGED vars
  BY ZenonT(60), <1>1 DEF vars, IInv, TypeOK, Good, Acked, Contexts, Issued, IssuedIds, Notified
<1>2. CASE Next
  <2>1. PICK c \in Cpus :
          \/ InitializeCurrentCpu(c)
          \/ EnterRunningThread(c)
          \/ \E home \in Cpus, joinable \in BOOLEAN : ThreadSpawn(c, home, joinable)
          \/ \E home \in Cpus : ThreadSpawnUser(c, home)
          \/ ThreadExit(c)
          \/ \E held \in BOOLEAN : BlockUnderGuard(c, held)
          \/ \E i \in Slots : \E g \in 1..sched.gen[i] : ThreadJoin(c, [slot |-> i, gen |-> g])
          \/ FinishJoin(c)
          \/ TakeJoinResult(c)
          \/ YieldNow(c)
          \/ PreemptGuardEnter(c)
          \/ \E irqs \in BOOLEAN : PreemptGuardDrop(c, irqs)
          \/ \E kind \in WaitKinds : PrepareWait(c, kind)
          \/ CommitWait(c)
          \/ CancelWait(c)
          \/ SleepUser(c)
          \/ FinishWait(c)
          \/ \E tok \in owned : ClaimWaiter(c, tok)
          \/ \E tok \in claimed : CompleteWait(c, tok)
          \/ AckSchedulerIpi(c)
          \/ FinishSchedulerIpi(c)
          \/ \E batch \in Batches(sched.timed[c]) : TakeExpired(c, batch)
          \/ FinishTimerBegin(c)
          \/ FinishTimerEvent(c)
          \/ FinishTimerEnd(c)
          \/ ApplyQuantumUpdate(c)
    BY ZenonT(60), <1>2 DEF Next
  <2>2. ASSUME NEW i \in Slots, NEW g \in 1..sched.gen[i], ThreadJoin(c, [slot |-> i, gen |-> g])
        PROVE  IInv'
    <3>1. sched.gen[i] \in 0..MaxGen
      BY DEF IInv, Good, SchedState
    <3>2. [slot |-> i, gen |-> g] \in ThreadId
      BY <3>1, SchedConstants DEF ThreadId
    <3> QED
      BY <2>2, <3>2, ThreadJoinStep
  <2> QED
    BY ZenonT(60), <2>1, <2>2, InitializeCurrentCpuStep, EnterRunningThreadStep, ThreadSpawnStep,
       ThreadSpawnUserStep, ThreadExitStep, BlockUnderGuardStep, JoinResultStep, YieldNowStep, GuardStep,
       PrepareWaitStep, CommitWaitStep, CancelWaitStep, SleepUserStep, FinishWaitStep,
       OwnerStep, AckSchedulerIpiStep, FinishSchedulerIpiStep, TakeExpiredStep,
       FinishTimerBeginStep, FinishTimerEventStep, FinishTimerEndStep, ApplyQuantumUpdateStep
<1> QED
  BY <1>1, <1>2

LEMMA Inductive == Spec => []IInv
<1>1. Init => IInv
  BY InitIInv
<1>2. IInv /\ [Next]_vars => IInv'
  BY NextIInv
<1> QED
  BY <1>1, <1>2, PTL DEF Spec

\* Every operation of the scheduler leaves a well-typed state, whatever the number of
\* CPUs, thread slots, generations, waits, guards and events in a timer batch.
THEOREM TypeCorrect == Spec => []TypeOK
<1>1. IInv => TypeOK
  BY DEF IInv
<1> QED
  BY <1>1, Inductive, PTL

\* Coalescing scheduler IPIs behind one pending bit loses no notification: a thread in
\* the remote-ready ingress of a CPU, or retired on it, keeps the bit set, and the bit
\* stands for an SGI that the CPU has still to handle.
THEOREM NoIpiLost == Spec => []IpiNotLost
<1>1. IInv => IpiNotLost
  BY DEF IInv, Good, Notified, Acked, IpiNotLost
<1> QED
  BY <1>1, Inductive, PTL
============================================================================
