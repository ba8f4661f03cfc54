------------------------------- MODULE Locks -------------------------------
(***************************************************************************)
(* The synchronization primitives: SpinLock, which excludes preemption,    *)
(* and IrqSpinLock, which masks interrupts.  Threads of several CPUs take  *)
(* them, nested in the order of LockOrder; interrupts                      *)
(* arrive whenever a CPU admits them and take IrqSpinLocks of their own.   *)
(* Handlers, and threads that wake others under the scheduler's lock, ask  *)
(* for a reschedule: it switches threads on return from an interrupt, at   *)
(* the checkpoint that ends the outermost PreemptGuard, or at a yield.     *)
(***************************************************************************)
EXTENDS Integers, Sequences, FiniteSets, SequencesExt, FiniteSetsExt, Functions

CONSTANTS
  CPUs, Threads,
  home,        \* the CPU of each thread
  LockOrder,   \* every lock, outermost first
  IrqLocks,    \* those that are IrqSpinLocks
  None

VARIABLES
  locked,      \* RawSpin's flag of each lock
  masked,      \* DAIF.I of each CPU
  depth, pending,   \* PreemptionState of each CPU
  running,     \* the thread each CPU runs, or has interrupted
  irq,         \* the CPU is in its interrupt handler
  pc, want,    \* of each context: what it does, with which lock
  held         \* of each context: its guards, the innermost last

locks == <<locked, masked, depth, held>>
vars == <<locks, pending, running, irq, pc, want>>

\* The handler of a CPU is a context beside its threads.
Contexts == Threads \cup CPUs
cpu_of(c) == IF c \in CPUs THEN c ELSE home[c]
executes(c) == IF c \in CPUs THEN irq[c] ELSE running[home[c]] = c /\ ~irq[home[c]]

place(l) == SelectInSeq(LockOrder, LAMBDA x : x = l)
innermost(c) == IF held[c] = <<>> THEN 0 ELSE place(Last(held[c]).lock)
kind(l) == IF l \in IrqLocks THEN "irq" ELSE "spin"

Init ==
  /\ locked = [l \in Range(LockOrder) |-> FALSE]
  /\ masked = [k \in CPUs |-> FALSE] /\ irq = [k \in CPUs |-> FALSE]
  /\ depth = [k \in CPUs |-> 0] /\ pending = [k \in CPUs |-> FALSE]
  /\ running \in {r \in [CPUs -> Threads] : \A k \in CPUs : home[r[k]] = k}
  /\ pc = [c \in Contexts |-> "run"] /\ want = [c \in Contexts |-> None] /\ held = [c \in Contexts |-> <<>>]

at(c, p) == executes(c) /\ pc[c] = p
go(c, p) == pc' = [pc EXCEPT ![c] = p]

----------------------------------------------------------------------------
(* Guards.                                                                 *)

\* PreemptGuard::enter for a SpinLock, LocalIrqGuard::save_and_disable for an
\* IrqSpinLock: taken before spinning.
take_guard(c, l) ==
  IF kind(l) = "irq" THEN masked' = [masked EXCEPT ![cpu_of(c)] = TRUE] /\ UNCHANGED depth
  ELSE depth' = [depth EXCEPT ![cpu_of(c)] = @ + 1] /\ UNCHANGED masked

\* The guard is dropped: the saved interrupt state returns, or preemption is admitted,
\* with a checkpoint if a request waits and interrupts were admitted.
drop_guard(c, g) ==
  LET k == cpu_of(c) IN
  IF kind(g.lock) = "irq"
  THEN masked' = [masked EXCEPT ![k] = g.saved] /\ go(c, "run") /\ UNCHANGED depth
  ELSE /\ depth' = [depth EXCEPT ![k] = @ - 1] /\ UNCHANGED masked
       /\ go(c, IF depth[k] = 1 /\ pending[k] /\ ~masked[k] THEN "checkpoint" ELSE "run")

\* lock and try_lock: the guard, then the flag.  An interrupt handler takes only
\* IrqSpinLocks.
Lock(c, l, trying) ==
  /\ at(c, "run") /\ innermost(c) < place(l)
  /\ c \in CPUs => l \in IrqLocks
  /\ take_guard(c, l)
  /\ want' = [want EXCEPT ![c] = [lock |-> l, saved |-> masked[cpu_of(c)]]]
  /\ go(c, IF trying THEN "try" ELSE "spin")
  /\ UNCHANGED <<locked, held, pending, running, irq>>

acquires(c) ==
  /\ locked' = [locked EXCEPT ![want[c].lock] = TRUE]
  /\ held' = [held EXCEPT ![c] = Append(@, want[c])]
  /\ want' = [want EXCEPT ![c] = None] /\ go(c, "run")

\* The compare_exchange that succeeds; one that fails spins.
RawLock(c) ==
  /\ at(c, "spin") /\ ~locked[want[c].lock] /\ acquires(c)
  /\ UNCHANGED <<masked, depth, pending, running, irq>>

RawTryLock(c) ==
  /\ at(c, "try")
  /\ IF locked[want[c].lock]
     THEN drop_guard(c, want[c]) /\ want' = [want EXCEPT ![c] = None] /\ UNCHANGED <<locked, held>>
     ELSE acquires(c) /\ UNCHANGED <<masked, depth>>
  /\ UNCHANGED <<pending, running, irq>>

Unlock(c) ==
  /\ at(c, "run") /\ held[c] # <<>>
  /\ locked' = [locked EXCEPT ![Last(held[c]).lock] = FALSE]
  /\ want' = [want EXCEPT ![c] = Last(held[c])] /\ held' = [held EXCEPT ![c] = Front(@)]
  /\ go(c, "drop")
  /\ UNCHANGED <<masked, depth, pending, running, irq>>

Unguard(c) ==
  /\ at(c, "drop") /\ drop_guard(c, want[c]) /\ want' = [want EXCEPT ![c] = None]
  /\ UNCHANGED <<locked, held, pending, running, irq>>

----------------------------------------------------------------------------
(* Interrupts and switches.                                                *)

\* consume_checkpoint, and a switch to any thread of the CPU.
checkpoint(k, next) ==
  IF depth[k] = 0 /\ pending[k]
  THEN pending' = [pending EXCEPT ![k] = FALSE] /\ running' = [running EXCEPT ![k] = next]
  ELSE next = running[k] /\ UNCHANGED <<pending, running>>

PreemptCheckpoint(c, next) ==
  /\ at(c, "checkpoint") /\ home[next] = cpu_of(c)
  /\ checkpoint(cpu_of(c), next) /\ go(c, "run")
  /\ UNCHANGED <<locks, irq, want>>

Interrupt(k) ==
  /\ ~irq[k] /\ ~masked[k]
  /\ irq' = [irq EXCEPT ![k] = TRUE] /\ masked' = [masked EXCEPT ![k] = TRUE]
  /\ UNCHANGED <<locked, depth, held, pending, running, pc, want>>

\* A handler asks; so does a thread whose complete_wait readies a thread of its own CPU
\* under the scheduler's IrqSpinLock, whose drop has no checkpoint.
RequestReschedule(c) ==
  /\ at(c, "run") /\ c \in Threads => masked[home[c]]
  /\ pending' = [pending EXCEPT ![cpu_of(c)] = TRUE]
  /\ UNCHANGED <<locks, running, irq, pc, want>>

\* Outside IrqSpinLocks; under a PreemptGuard the checkpoint leaves the request.
YieldNow(t) ==
  /\ at(t, "run") /\ ~masked[home[t]]
  /\ pending' = [pending EXCEPT ![home[t]] = TRUE] /\ go(t, "checkpoint")
  /\ UNCHANGED <<locks, running, irq, want>>

InterruptReturn(k, next) ==
  /\ at(k, "run") /\ held[k] = <<>> /\ home[next] = k
  /\ irq' = [irq EXCEPT ![k] = FALSE] /\ masked' = [masked EXCEPT ![k] = FALSE]
  /\ checkpoint(k, next)
  /\ UNCHANGED <<locked, depth, held, pc, want>>

Next ==
  \/ \E c \in Contexts, l \in Range(LockOrder), trying \in BOOLEAN : Lock(c, l, trying)
  \/ \E c \in Contexts : RawLock(c) \/ RawTryLock(c) \/ Unlock(c) \/ Unguard(c) \/ RequestReschedule(c)
  \/ \E t \in Threads : YieldNow(t)
  \/ \E t, next \in Threads : PreemptCheckpoint(t, next)
  \/ \E k \in CPUs : Interrupt(k)
  \/ \E k \in CPUs, next \in Threads : InterruptReturn(k, next)
Spec == Init /\ [][Next]_vars

----------------------------------------------------------------------------
(* Properties.                                                             *)

holds(c, l) == \E i \in DOMAIN held[c] : held[c][i].lock = l
spins(c) == pc[c] = "spin" /\ locked[want[c].lock]

\* A value is borrowed by one context at a time, and only through a lock whose flag is
\* set.
BorrowIsExclusive ==
  \A l \in Range(LockOrder) :
    /\ Cardinality({c \in Contexts : holds(c, l)}) <= 1
    /\ locked[l] = (\E c \in Contexts : holds(c, l))

\* Whoever spins waits for a context that goes on running: the holder is on another CPU
\* and has not been switched away.  So no handler spins on what it interrupted, and no
\* thread on what a thread of its CPU holds.
SpinnerIsServed ==
  \A c, d \in Contexts :
    executes(c) /\ spins(c) /\ holds(d, want[c].lock) =>
      /\ cpu_of(d) # cpu_of(c)
      /\ d \in Threads => running[home[d]] = d

\* Once a thread has dropped every guard, its CPU admits interrupts and preemption
\* again.
GuardsAreRestored ==
  \A k \in CPUs : LET t == running[k] IN
    ~irq[k] /\ held[t] = <<>> /\ pc[t] \in {"run", "checkpoint"} => ~masked[k] /\ depth[k] = 0

\* A step that leaves an interrupt or the outermost PreemptGuard, to a thread that can be
\* preempted, takes the reschedule that was asked for or goes to the checkpoint that
\* does.  (The drop of an IrqSpinLock alone does neither: what a thread asked for under
\* one waits for the next of these steps.)
RequestIsTaken ==
  \A k \in CPUs :
    /\ irq[k] \/ depth[k] > 0
    /\ ~irq'[k] /\ depth'[k] = 0 /\ ~masked'[k] /\ pending'[k]
    => pc'[running'[k]] = "checkpoint"
=============================================================================
