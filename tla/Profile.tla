------------------------------ MODULE Profile ------------------------------
(***************************************************************************)
(* The wake profiler of one CPU: a session of its owner thread collects    *)
(* one record per absolute sleep, filled by hooks in the system call, the  *)
(* scheduler and the interrupt path.  Threads sleep, are preempted and     *)
(* woken; interrupts also arrive in the windows in which START and STOP    *)
(* allocate or hold the session outside the lock.  Every other stretch     *)
(* between a trap and its return runs with interrupts masked and is one    *)
(* action here.                                                            *)
(***************************************************************************)
EXTENDS Integers, Sequences, FiniteSets, SequencesExt, FiniteSetsExt, Functions

CONSTANTS
  Threads,     \* threads of this CPU
  Configs,     \* [selected, capacity]: FULL selects every phase, FOCUSED two
  Deadlines, MaxNow, MaxSleeps, MaxIrqs,   \* bounds
  None, idle

VARIABLES
  profile,   \* CpuProfile: session, svc, irq_record; irq_entry is the number of the interrupt
  window,    \* the current thread is in a heap window: [command, config, held]
  current, ready, timers,   \* the scheduler and the deadlines of sleepers
  now, irqs,
  sleeps,    \* ghost: for each sleep, its thread and the interrupt that ended it
  asked      \* ghost: absolute sleeps of the owner since START

vars == <<profile, window, current, ready, timers, now, irqs, sleeps, asked>>

Phase == 0..13
SvcEntry == 0
DeadlineValidated == 1
TimerPublished == 2
WaitCommitted == 3
SleepHandoff == 4
IrqEntry == 5
Acknowledge == 6
ExpiredExtracted == 7
SchedulerAcquired == 8
WakeSelected == 9
ContextRestored == 10
TimerRearmed == 11
InterruptCompleted == 12
ReturnToUser == 13
IrqPhases == {IrqEntry, Acknowledge, ExpiredExtracted, SchedulerAcquired, TimerRearmed, InterruptCompleted}

----------------------------------------------------------------------------
(* The session.  A stamp stands for a counter value by its source: the     *)
(* interrupt for an interrupt phase, the sleep for the others.             *)

allocate(t, config) ==
  [owner |-> t, selected |-> config.selected, capacity |-> config.capacity, active |-> TRUE, cycle |-> None,
   completed |-> 0, records |-> <<>>, lost |-> 0, early |-> 0, incomplete |-> 0]

present(r) == {r.stamps[k].phase : k \in DOMAIN r.stamps}

stamp(s, i, phase, source) ==
  IF ~s.active \/ phase \notin s.selected \/ phase \in present(s.records[i]) THEN s
  ELSE [s EXCEPT !.records[i].stamps = Append(@, [phase |-> phase, of |-> source])]

full(s) == [s EXCEPT !.cycle = None, !.lost = @ + 1]

begin(s, t, deadline, early, n) ==
  IF ~s.active \/ t # s.owner THEN s
  ELSE IF Len(s.records) = s.capacity THEN full(s)
  ELSE LET i == Len(s.records) + 1
           r == [sleep |-> n, deadline |-> deadline, programmed |-> FALSE,
                 path |-> IF early THEN "early" ELSE "generic", stamps |-> <<>>]
           s1 == [s EXCEPT !.records = Append(@, r), !.early = @ + (IF early THEN 1 ELSE 0),
                           !.cycle = [index |-> i, token |-> None, expired |-> early]]
       IN stamp(stamp(s1, i, SvcEntry, n), i, DeadlineValidated, n)

freeze(s) == [s EXCEPT !.active = FALSE, !.incomplete = Len(s.records) - s.completed, !.cycle = None]

path_phases(r) == IF r.path = "early" THEN {SvcEntry, DeadlineValidated, ReturnToUser} ELSE Phase
record_complete(s, i) ==
  LET r == s.records[i] IN s.selected \cap path_phases(r) \subseteq present(r) /\ (r.path = "early" \/ r.programmed)

\* The token is that of the sleep n, which names its thread.
bind(s, t, n, deadline) ==
  IF s.active /\ s.owner = t /\ s.cycle # None /\ s.records[s.cycle.index].deadline = deadline
  THEN [s EXCEPT !.cycle.token = n] ELSE s

expires(s, n, deadline) ==
  s.active /\ s.cycle # None /\ s.cycle.token = n /\ ~s.cycle.expired
  /\ s.records[s.cycle.index].deadline = deadline

expired(s, irq) ==
  LET i == s.cycle.index
      s1 == stamp([s EXCEPT !.cycle.expired = TRUE], i, IrqEntry, irq)
  IN stamp(stamp(s1, i, Acknowledge, irq), i, ExpiredExtracted, irq)

resumes_any(s, t) == s.cycle # None /\ s.cycle.expired
resumes(s, t) == s.owner = t /\ s.cycle # None /\ s.cycle.expired
resume(s, t, phase, from_idle, n) ==
  IF ~resumes(s, t) THEN s
  ELSE stamp([s EXCEPT !.records[s.cycle.index].path = IF from_idle THEN "idle" ELSE @], s.cycle.index, phase, n)

returned(s, t, n) ==
  IF ~s.active \/ ~resumes(s, t) THEN s
  ELSE LET s1 == stamp(s, s.cycle.index, ReturnToUser, n)
       IN [s1 EXCEPT !.completed = @ + (IF record_complete(s1, s.cycle.index) THEN 1 ELSE 0), !.cycle = None]

----------------------------------------------------------------------------
(* The hooks.                                                              *)

start_allowed(p, t) == IF p.session = None THEN TRUE ELSE p.session.owner = t /\ ~p.session.active
owned(p, t) == p.session # None /\ p.session.owner = t
detached(p) == [p EXCEPT !.session = None, !.irq_record = None]

svc_entry(p, t, n) == [p EXCEPT !.svc = [owner |-> t, sleep |-> n]]
begun(p, deadline, early) ==
  IF p.svc = None THEN p
  ELSE IF p.session = None THEN [p EXCEPT !.svc = None]
  ELSE [p EXCEPT !.svc = None, !.session = begin(@, p.svc.owner, deadline, early, p.svc.sleep)]
bound(p, t, n, deadline) == IF p.session = None THEN p ELSE [p EXCEPT !.session = bind(@, t, n, deadline)]
wait_published(p, n) ==
  IF p.session = None \/ p.session.cycle = None \/ p.session.cycle.token # n THEN p
  ELSE [p EXCEPT !.session = stamp(@, @.cycle.index, TimerPublished, n)]
sleep_phase(p, t, phase, n) ==
  IF ~owned(p, t) \/ p.session.cycle = None \/ p.session.cycle.token = None THEN p
  ELSE [p EXCEPT !.session = stamp(@, @.cycle.index, phase, n)]
programmed(p, deadline) ==
  IF \/ p.session = None \/ ~p.session.active \/ p.session.cycle = None
     \/ p.session.cycle.expired \/ p.session.cycle.token = None
     \/ p.session.records[p.session.cycle.index].deadline # deadline THEN p
  ELSE [p EXCEPT !.session.records[p.session.cycle.index].programmed = TRUE]
irq_entry(p) == [p EXCEPT !.irq_record = None]
extracted(p, due, irq) ==
  IF p.session # None /\ \E x \in due : expires(p.session, x.sleep, x.deadline)
  THEN [p EXCEPT !.session = expired(@, irq), !.irq_record = p.session.cycle.index] ELSE p
irq_phase(p, phase, irq) ==
  IF p.irq_record = None \/ p.session = None THEN p
  ELSE [p EXCEPT !.session = stamp(@, p.irq_record, phase, irq)]
resumed(p, t, phase, from_idle, n) ==
  IF p.session = None THEN p ELSE [p EXCEPT !.session = resume(@, t, phase, from_idle, n)]
return_to_user(p, t, n) ==
  IF t = idle \/ p.session = None THEN p ELSE [p EXCEPT !.session = returned(@, t, n)]

----------------------------------------------------------------------------
(* The CPU.                                                                *)

Init ==
  /\ profile = [session |-> None, svc |-> None, irq_record |-> None]
  /\ window = None /\ timers = {} /\ now = 0 /\ irqs = 0 /\ sleeps = <<>> /\ asked = 0
  /\ \E t \in Threads : current = t /\ ready = Threads \ {t}

\* The sleep a thread is in or returns from.
sleep_of(t) == Max({0} \cup {n \in DOMAIN sleeps : sleeps[n].thread = t})
in_user(t) == current = t /\ t # idle /\ window = None
candidates == IF ready = {} THEN {idle} ELSE ready

\* rearm_timer arms the head of the queue, which may be a quantum's deadline.
rearmed(p, ts, quantum) == IF ts = {} \/ quantum THEN p ELSE programmed(p, Min({x.deadline : x \in ts}))

\* sys_clock_nanosleep on the profiled path: staged, admitted, and either early or put
\* to sleep until its deadline, with a handoff to another thread.
ClockNanosleep(t, deadline, absolute, to, quantum) ==
  LET n == Len(sleeps) + 1
      early == deadline <= now
      p1 == svc_entry(profile, t, n)
      p2 == IF absolute THEN begun(p1, deadline, early) ELSE p1
      ts == timers \cup {[thread |-> t, sleep |-> n, deadline |-> deadline]}
      p3 == wait_published(rearmed(bound(p2, t, n, deadline), ts, quantum), n)
      p4 == resumed(p3, to, WakeSelected, FALSE, sleep_of(to))
      p5 == resumed(sleep_phase(p4, t, WaitCommitted, n), to, ContextRestored, FALSE, sleep_of(to))
      p6 == sleep_phase(p5, t, SleepHandoff, n)
  IN /\ in_user(t) /\ Len(sleeps) < MaxSleeps /\ to \in candidates
     /\ ~absolute => ~early
     /\ sleeps' = Append(sleeps, [thread |-> t, irq |-> 0])
     /\ asked' = IF absolute /\ owned(profile, t) /\ profile.session.active THEN asked + 1 ELSE asked
     /\ IF early THEN profile' = return_to_user(p2, t, n) /\ UNCHANGED <<current, ready, timers>>
        ELSE /\ profile' = return_to_user(p6, to, sleep_of(to))
             /\ current' = to /\ ready' = ready \ {to} /\ timers' = ts
     /\ UNCHANGED <<window, now, irqs>>

\* irq_entry, dispatch and the return.  A timer interrupt extracts what is due and wakes
\* it; then the interrupted thread goes on or a ready one is selected, which a heap
\* window forbids.
Irq(timer, to, quantum) ==
  LET irq == irqs + 1
      due == IF timer THEN {x \in timers : x.deadline <= now} ELSE {}
      woken == ready \cup {x.thread : x \in due}
      p1 == extracted(irq_entry(profile), due, irq)
      p2 == IF timer THEN irq_phase(p1, SchedulerAcquired, irq) ELSE p1
      p3 == IF to = current THEN p2
            ELSE resumed(resumed(p2, to, WakeSelected, current = idle, sleep_of(to)), to, ContextRestored, FALSE, sleep_of(to))
      p4 == IF timer THEN irq_phase(rearmed(p3, timers \ due, quantum), TimerRearmed, irq) ELSE p3
      p5 == irq_phase(p4, InterruptCompleted, irq)
  IN /\ irqs < MaxIrqs /\ irqs' = irq
     /\ \/ to = current /\ (current # idle \/ woken = {})
        \/ window = None /\ to \in woken
     /\ profile' = IF window = None THEN return_to_user(p5, to, sleep_of(to)) ELSE p5
     /\ timers' = timers \ due
     /\ ready' = (woken \cup ({current} \ {idle})) \ {to} /\ current' = to
     /\ sleeps' = [n \in DOMAIN sleeps |->
                    IF \E x \in due : x.sleep = n THEN [sleeps[n] EXCEPT !.irq = irq] ELSE sleeps[n]]
     /\ UNCHANGED <<window, now, asked>>

\* START checks, allocates in the heap window, checks again and installs.
StartChecked(t, config) ==
  /\ in_user(t) /\ start_allowed(profile, t)
  /\ profile' = svc_entry(profile, t, 0)
  /\ window' = [command |-> "start", held |-> allocate(t, config)]
  /\ UNCHANGED <<current, ready, timers, now, irqs, sleeps, asked>>
StartInstalled(reserved) ==
  /\ window # None /\ window.command = "start" /\ window' = None
  /\ IF reserved /\ start_allowed(profile, current)
     THEN /\ profile' = [profile EXCEPT !.svc = None, !.irq_record = None, !.session = window.held]
          /\ asked' = 0
     ELSE UNCHANGED <<profile, asked>>
  /\ UNCHANGED <<current, ready, timers, now, irqs, sleeps>>

\* STOP takes the session, freezes it outside the lock and puts it back.
StopTaken(t) ==
  /\ in_user(t) /\ owned(profile, t)
  /\ profile' = svc_entry(detached(profile), t, 0)
  /\ window' = [command |-> "stop", held |-> freeze(profile.session)]
  /\ UNCHANGED <<current, ready, timers, now, irqs, sleeps, asked>>
StopReturned ==
  /\ window # None /\ window.command = "stop" /\ window' = None
  /\ profile' = [profile EXCEPT !.session = window.held]
  /\ UNCHANGED <<current, ready, timers, now, irqs, sleeps, asked>>

Discard(t) ==
  /\ in_user(t) /\ owned(profile, t)
  /\ profile' = svc_entry(detached(profile), t, 0)
  /\ UNCHANGED <<window, current, ready, timers, now, irqs, sleeps, asked>>

\* finish_current_process: cleanup, then another thread runs for good.
Exit(t, to) ==
  LET p1 == IF owned(profile, t) THEN [detached(profile) EXCEPT !.svc = None] ELSE profile
      p2 == resumed(resumed(p1, to, WakeSelected, FALSE, sleep_of(to)), to, ContextRestored, FALSE, sleep_of(to))
  IN /\ in_user(t) /\ to \in candidates
     /\ profile' = return_to_user(p2, to, sleep_of(to))
     /\ current' = to /\ ready' = ready \ {to}
     /\ UNCHANGED <<window, timers, now, irqs, sleeps, asked>>

Tick == now < MaxNow /\ now' = now + 1 /\ UNCHANGED <<profile, window, current, ready, timers, irqs, sleeps, asked>>

Next ==
  \/ \E t \in Threads, deadline \in Deadlines, absolute, quantum \in BOOLEAN, to \in Threads \cup {idle} :
       ClockNanosleep(t, deadline, absolute, to, quantum)
  \/ \E timer, quantum \in BOOLEAN, to \in Threads \cup {idle} : Irq(timer, to, quantum)
  \/ \E t \in Threads, config \in Configs : StartChecked(t, config)
  \/ \E reserved \in BOOLEAN : StartInstalled(reserved)
  \/ \E t \in Threads : StopTaken(t) \/ Discard(t)
  \/ StopReturned
  \/ \E t \in Threads, to \in Threads \cup {idle} : Exit(t, to)
  \/ Tick
Spec == Init /\ [][Next]_vars

----------------------------------------------------------------------------
(* Properties.                                                             *)

sessions == {profile.session} \ {None}

\* Causality orders the phases, but for the selection of the thread against the end of
\* the interrupt.
ordered(a, b) == a < b \/ {a, b} \subseteq WakeSelected..InterruptCompleted

\* Every counter value of a record belongs to that record's sleep: taken in its own
\* system call, in the one interrupt that ended it, or on its own return, in causal
\* order, whatever other threads, stale timers and interrupts the CPU meets.
RecordIsOneWait ==
  \A s \in sessions : \A i \in DOMAIN s.records :
    LET r == s.records[i] IN
    /\ sleeps[r.sleep].thread = s.owner
    /\ \A k \in DOMAIN r.stamps :
         /\ r.stamps[k].of = IF r.stamps[k].phase \in IrqPhases THEN sleeps[r.sleep].irq ELSE r.sleep
         /\ \A j \in 1..(k - 1) : ordered(r.stamps[j].phase, r.stamps[k].phase)

\* The header accounts for every absolute sleep of the owner since START: recorded or
\* lost; and a frozen session calls incomplete exactly the records that miss a phase of
\* their path or the programmed deadline.
AccountingIsExact ==
  \A s \in sessions :
    /\ Len(s.records) + s.lost = asked
    /\ ~s.active => s.incomplete = Cardinality({i \in DOMAIN s.records : ~record_complete(s, i)})

\* Once STOP returned, the export does not change until its owner starts anew, discards
\* it or exits: a read in pieces is consistent.
frozen_kept == \A s \in sessions : ~s.active => profile'.session = s \/ current = s.owner
=============================================================================
