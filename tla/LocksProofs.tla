---------------------------- MODULE LocksProofs ----------------------------
(***************************************************************************)
(* SpinLock and IrqSpinLock exclude, for any number of CPUs, threads and   *)
(* locks and whatever interrupts and switches happen.                      *)
(***************************************************************************)
EXTENDS Locks, FiniteSetTheorems, TLAPS

AllLocks == Range(LockOrder)
Guards == [lock : AllLocks, saved : BOOLEAN]

Typed ==
  /\ locked \in [AllLocks -> BOOLEAN] /\ masked \in [CPUs -> BOOLEAN]
  /\ DOMAIN pc = Contexts /\ DOMAIN want = Contexts
  /\ \A c \in Contexts : pc[c] \in {"spin", "try", "drop"} => want[c] \in Guards
  /\ held \in [Contexts -> Seq(Guards)]

\* A flag is set exactly while some context holds a guard of the lock, and then there is
\* one such guard.  That a context holds it once matters: its release clears the flag.
Exact ==
  /\ \A l \in AllLocks : locked[l] <=> \E c \in Contexts : holds(c, l)
  /\ \A c, d \in Contexts : \A i \in DOMAIN held[c], j \in DOMAIN held[d] :
       held[c][i].lock = held[d][j].lock => c = d /\ i = j

IInv == Typed /\ Exact

LEMMA CpuOf ==
  ASSUME home \in [Threads -> CPUs], NEW c \in Contexts
  PROVE  cpu_of(c) \in CPUs
BY DEF cpu_of, Contexts

LEMMA InitHolds ==
  ASSUME Init
  PROVE  IInv
BY DEF Init, IInv, Typed, Exact, holds, AllLocks, Guards

\* Most steps touch neither a flag nor a guard.
LEMMA SameGuards ==
  ASSUME Exact, UNCHANGED <<locked, held>>
  PROVE  Exact'
BY DEF Exact, holds

LEMMA DropGuardTyped ==
  ASSUME home \in [Threads -> CPUs], Typed, NEW c \in Contexts, want[c] \in Guards, drop_guard(c, want[c]),
         want' = [want EXCEPT ![c] = None], UNCHANGED <<locked, held>>
  PROVE  Typed'
<1>1. masked' \in [CPUs -> BOOLEAN]
  BY CpuOf DEF drop_guard, Typed, Guards
<1>2. \/ pc' = [pc EXCEPT ![c] = "run"]
      \/ pc' = [pc EXCEPT ![c] = "checkpoint"]
  BY DEF drop_guard, go
<1> QED
  BY <1>1, <1>2 DEF Typed

\* The flag is set and the guard is stored, once.
LEMMA Acquire ==
  ASSUME IInv, NEW c \in Contexts, pc[c] \in {"spin", "try"}, ~locked[want[c].lock], acquires(c),
         UNCHANGED masked
  PROVE  IInv'
<1> DEFINE g == want[c]
<1>1. g \in Guards /\ g.lock \in AllLocks
  BY DEF IInv, Typed, Guards
<1>2. held[c] \in Seq(Guards)
  BY DEF IInv, Typed
<1>3. held' = [held EXCEPT ![c] = Append(held[c], g)]
  BY DEF acquires
<1>4. /\ held'[c] = Append(held[c], g)
      /\ \A d \in Contexts : d # c => held'[d] = held[d]
  BY <1>3 DEF IInv, Typed
<1>5. /\ DOMAIN held'[c] = DOMAIN held[c] \cup {Len(held[c]) + 1}
      /\ \A i \in DOMAIN held[c] : held'[c][i] = held[c][i]
      /\ held'[c][Len(held[c]) + 1] = g
      /\ Len(held[c]) + 1 \notin DOMAIN held[c]
  BY <1>2, <1>4
<1>6. Typed'
  <2>1. held' \in [Contexts -> Seq(Guards)]
    BY <1>1, <1>2, <1>3 DEF IInv, Typed
  <2>2. locked' \in [AllLocks -> BOOLEAN]
    BY DEF IInv, Typed, acquires
  <2>3. /\ DOMAIN pc' = Contexts /\ DOMAIN want' = Contexts
        /\ \A d \in Contexts : pc'[d] \in {"spin", "try", "drop"} => want'[d] \in Guards
    BY DEF IInv, Typed, acquires, go
  <2> QED
    BY <2>1, <2>2, <2>3 DEF Typed, IInv
<1>7. \A d \in Contexts : \A i \in DOMAIN held[d] : held[d][i].lock # g.lock
  BY <1>1 DEF IInv, Exact, holds
<1>8. \A l \in AllLocks : locked'[l] = IF l = g.lock THEN TRUE ELSE locked[l]
  BY <1>1 DEF IInv, Typed, acquires
<1>9. \A l \in AllLocks : locked'[l] <=> \E d \in Contexts : holds(d, l)'
  <2> SUFFICES ASSUME NEW l \in AllLocks PROVE locked'[l] <=> \E d \in Contexts : holds(d, l)'
    OBVIOUS
  <2>1. CASE l = g.lock
    BY <1>5, <1>8, <2>1 DEF holds
  <2>2. CASE l # g.lock
    <3>1. \A d \in Contexts : holds(d, l)' <=> holds(d, l)
      BY <1>4, <1>5, <2>2 DEF holds
    <3> QED
      BY <1>8, <2>2, <3>1 DEF IInv, Exact
  <2> QED
    BY <2>1, <2>2
<1>10. ASSUME NEW d \in Contexts, NEW e \in Contexts, NEW i \in DOMAIN held'[d], NEW j \in DOMAIN held'[e],
              held'[d][i].lock = held'[e][j].lock
       PROVE  d = e /\ i = j
  <2>1. \/ i \in DOMAIN held[d] /\ held'[d][i] = held[d][i]
        \/ d = c /\ i = Len(held[c]) + 1 /\ held'[d][i] = g
    BY <1>4, <1>5
  <2>2. \/ j \in DOMAIN held[e] /\ held'[e][j] = held[e][j]
        \/ e = c /\ j = Len(held[c]) + 1 /\ held'[e][j] = g
    BY <1>4, <1>5
  <2> QED
    BY <1>7, <1>10, <2>1, <2>2 DEF IInv, Exact
<1> QED
  BY <1>6, <1>9, <1>10 DEF IInv, Exact

\* The innermost guard goes, and with it the only reason for its flag.
LEMMA Release ==
  ASSUME IInv, NEW c \in Contexts, Unlock(c)
  PROVE  IInv'
<1> DEFINE n == Len(held[c])
           g == held[c][n]
<1>1. held[c] \in Seq(Guards) /\ held[c] # <<>> /\ n \in Nat \ {0}
  BY DEF IInv, Typed, Unlock
<1>2. g \in Guards /\ g.lock \in AllLocks /\ Last(held[c]) = g
  <2>1. DOMAIN held[c] = 1..n /\ n \in 1..n
    BY <1>1
  <2>2. g \in Guards
    BY <1>1, <2>1
  <2> QED
    BY <2>2 DEF Guards, Last
<1>3. Front(held[c]) \in Seq(Guards) /\ Front(held[c]) = [i \in 1..(n - 1) |-> held[c][i]]
  BY <1>1 DEF Front
<1>4. /\ held'[c] = [i \in 1..(n - 1) |-> held[c][i]]
      /\ \A d \in Contexts : d # c => held'[d] = held[d]
  BY <1>3 DEF IInv, Typed, Unlock
<1>5. Typed'
  <2>1. held' \in [Contexts -> Seq(Guards)]
    BY <1>3 DEF IInv, Typed, Unlock
  <2>2. locked' \in [AllLocks -> BOOLEAN]
    BY DEF IInv, Typed, Unlock
  <2>3. /\ DOMAIN pc' = Contexts /\ DOMAIN want' = Contexts
        /\ \A d \in Contexts : pc'[d] \in {"spin", "try", "drop"} => want'[d] \in Guards
    BY <1>2 DEF IInv, Typed, Unlock, go
  <2> QED
    BY <2>1, <2>2, <2>3 DEF Typed, IInv, Unlock
<1>6. \A l \in AllLocks : locked'[l] = IF l = g.lock THEN FALSE ELSE locked[l]
  BY <1>2 DEF IInv, Typed, Unlock
<1>7. DOMAIN held[c] = 1..n /\ n \in 1..n /\ n \notin 1..(n - 1) /\ DOMAIN held'[c] = 1..(n - 1)
  BY <1>1, <1>4
<1>8. \A d \in Contexts : /\ DOMAIN held'[d] \subseteq DOMAIN held[d]
                          /\ \A i \in DOMAIN held'[d] : held'[d][i] = held[d][i]
                          /\ d = c => n \notin DOMAIN held'[d]
  BY <1>1, <1>4, <1>7
<1>9. \A d \in Contexts : \A i \in DOMAIN held[d] : i \in DOMAIN held'[d] \/ (d = c /\ i = n)
  BY <1>1, <1>4, <1>7
<1>10. \A l \in AllLocks : locked'[l] <=> \E d \in Contexts : holds(d, l)'
  <2> SUFFICES ASSUME NEW l \in AllLocks PROVE locked'[l] <=> \E d \in Contexts : holds(d, l)'
    OBVIOUS
  <2>1. CASE l = g.lock
    <3>1. ASSUME NEW d \in Contexts, holds(d, l)' PROVE FALSE
      <4>1. PICK i \in DOMAIN held'[d] : held'[d][i].lock = g.lock
        BY <2>1, <3>1 DEF holds
      <4>2. i \in DOMAIN held[d] /\ held[d][i].lock = held[c][n].lock /\ n \in DOMAIN held[c]
        BY <1>7, <1>8, <4>1
      <4>3. d = c /\ i = n
        BY <4>2 DEF IInv, Exact
      <4> QED
        BY <1>8, <4>1, <4>3
    <3> QED
      BY <1>6, <2>1, <3>1
  <2>2. CASE l # g.lock
    <3>1. \A d \in Contexts : holds(d, l)' <=> holds(d, l)
      BY <1>8, <1>9, <2>2 DEF holds
    <3> QED
      BY <1>6, <2>2, <3>1 DEF IInv, Exact
  <2> QED
    BY <2>1, <2>2
<1>11. \A d, e \in Contexts : \A i \in DOMAIN held'[d], j \in DOMAIN held'[e] :
         held'[d][i].lock = held'[e][j].lock => d = e /\ i = j
  BY <1>8 DEF IInv, Exact
<1> QED
  BY <1>5, <1>10, <1>11 DEF IInv, Exact

LEMMA StepHolds ==
  ASSUME home \in [Threads -> CPUs], IInv, [Next]_vars
  PROVE  IInv'
<1> USE DEF IInv
<1>1. CASE UNCHANGED vars
  BY <1>1, SameGuards DEF vars, locks, Typed
<1>2. ASSUME NEW c \in Contexts, NEW l \in AllLocks, NEW trying \in BOOLEAN, Lock(c, l, trying)
      PROVE  IInv'
  <2>1. cpu_of(c) \in CPUs
    BY CpuOf
  <2>2. masked' \in [CPUs -> BOOLEAN]
    BY <1>2, <2>1 DEF Lock, take_guard, Typed
  <2>3. [lock |-> l, saved |-> masked[cpu_of(c)]] \in Guards
    BY <2>1 DEF Typed, Guards
  <2>4. Typed'
    BY <1>2, <2>2, <2>3 DEF Lock, go, Typed
  <2> QED
    BY <1>2, <2>4, SameGuards DEF Lock
<1>3. ASSUME NEW c \in Contexts, RawLock(c) PROVE IInv'
  BY <1>3, Acquire DEF RawLock, at
<1>4. ASSUME NEW c \in Contexts, RawTryLock(c) PROVE IInv'
  <2>1. CASE locked[want[c].lock]
    <3>1. want[c] \in Guards
      BY <1>4 DEF RawTryLock, at, Typed
    <3>2. Typed'
      BY <1>4, <2>1, <3>1, DropGuardTyped DEF RawTryLock
    <3> QED
      BY <1>4, <2>1, <3>2, SameGuards DEF RawTryLock
  <2>2. CASE ~locked[want[c].lock]
    BY <1>4, <2>2, Acquire DEF RawTryLock, at
  <2> QED
    BY <2>1, <2>2
<1>5. ASSUME NEW c \in Contexts, Unlock(c) PROVE IInv'
  BY <1>5, Release
<1>6. ASSUME NEW c \in Contexts, Unguard(c) PROVE IInv'
  <2>1. want[c] \in Guards
    BY <1>6 DEF Unguard, at, Typed
  <2>2. Typed'
    BY <1>6, <2>1, DropGuardTyped DEF Unguard
  <2> QED
    BY <1>6, <2>2, SameGuards DEF Unguard
<1>7. ASSUME NEW t \in Threads, NEW next \in Threads, PreemptCheckpoint(t, next) PROVE IInv'
  <2>1. t \in Contexts
    BY DEF Contexts
  <2>2. Typed'
    BY <1>7, <2>1 DEF PreemptCheckpoint, locks, go, Typed
  <2> QED
    BY <1>7, <2>2, SameGuards DEF PreemptCheckpoint, locks
<1>8. ASSUME NEW k \in CPUs, Interrupt(k) PROVE IInv'
  BY <1>8, SameGuards DEF Interrupt, Typed
<1>9. ASSUME NEW c \in Contexts, RequestReschedule(c) PROVE IInv'
  BY <1>9, SameGuards DEF RequestReschedule, locks, Typed
<1>10. ASSUME NEW k \in CPUs, NEW next \in Threads, InterruptReturn(k, next) PROVE IInv'
  BY <1>10, SameGuards DEF InterruptReturn, Typed
<1>11. ASSUME NEW t \in Threads, YieldNow(t) PROVE IInv'
  BY <1>11, SameGuards DEF YieldNow, locks, go, Typed, Contexts
<1> QED
  BY <1>1, <1>2, <1>3, <1>4, <1>5, <1>6, <1>7, <1>8, <1>9, <1>10, <1>11 DEF Next, AllLocks

LEMMA InvariantSuffices ==
  ASSUME IInv
  PROVE  BorrowIsExclusive
<1> SUFFICES ASSUME NEW l \in AllLocks
             PROVE  /\ Cardinality({c \in Contexts : holds(c, l)}) <= 1
                    /\ locked[l] = (\E c \in Contexts : holds(c, l))
  BY DEF BorrowIsExclusive, AllLocks
<1> DEFINE borrowers == {c \in Contexts : holds(c, l)}
<1>1. \A c, d \in borrowers : c = d
  BY DEF IInv, Exact, holds
<1>2. \E c : borrowers \subseteq {c}
  BY <1>1
<1>3. PICK c : borrowers \subseteq {c}
  BY <1>2
<1>4. IsFiniteSet({c}) /\ Cardinality({c}) = 1
  BY FS_Singleton
<1>5. Cardinality(borrowers) <= 1
  BY <1>3, <1>4, FS_Subset
<1>6. locked[l] \in BOOLEAN /\ (locked[l] <=> \E d \in Contexts : holds(d, l))
  BY DEF IInv, Typed, Exact
<1> QED
  BY <1>5, <1>6

\* Whatever threads, CPUs and locks there are, and however they are interrupted and
\* switched, at most one context borrows what a SpinLock or an IrqSpinLock protects, and
\* it does so under the flag.
THEOREM LocksExclude ==
  ASSUME home \in [Threads -> CPUs]
  PROVE  Spec => []BorrowIsExclusive
<1>1. Init => IInv
  BY InitHolds
<1>2. IInv /\ [Next]_vars => IInv'
  BY StepHolds
<1>3. IInv => BorrowIsExclusive
  BY InvariantSuffices
<1> QED
  BY <1>1, <1>2, <1>3, PTL DEF Spec
============================================================================
