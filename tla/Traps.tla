------------------------------- MODULE Traps -------------------------------
(***************************************************************************)
(* Exceptions, trap frames and saved contexts.  Every exception saves the  *)
(* interrupted registers in a live frame on the kernel stack in use; the   *)
(* handler may write a result there, rewind it to the svc, or hand off:    *)
(* copy it to the thread's saved context and another thread's over it; the *)
(* return loads whatever the live frame then holds.  Two CPUs, each with   *)
(* its idle thread; threads keep their home CPU.  Which thread runs next,  *)
(* and the waits themselves, are the subject of module Scheduler.          *)
(***************************************************************************)
EXTENDS Integers, FiniteSets, FiniteSetsExt

CONSTANTS
  CPUs, Boot,  \* CPUs, and the one the first process runs on
  Threads, First,
  Idle,        \* per CPU: its idle thread
  Calls, MaxCalls,
  Roots,       \* translation roots
  None

VARIABLES
  cpu,         \* per CPU: the registers; stack is the kernel stack and its depth
  ttbr,        \* per CPU: the installed user root
  current,     \* per CPU: the running thread
  home, state, \* per thread: its CPU; free, ready, running, blocked or exited
  waits,       \* per thread: what it is blocked on
  saved,       \* per thread: its SavedContext
  outer,       \* per thread: the frame at the base of its kernel stack, if one is live
  root, roots, \* per thread: its root; the roots that exist
  parent,      \* per thread: the thread that forked it, until its status is taken
  zombies      \* threads whose exit status is published

vars == <<cpu, ttbr, current, home, state, waits, saved, outer, root, roots, parent, zombies>>
sched == <<current, home, state, waits, saved>>
space == <<ttbr, root, roots>>
family == <<parent, zombies>>

U == INSTANCE UserThreads WITH view <- None
All == Threads \cup {Idle[c] : c \in CPUs}
base(t) == [of |-> t, depth |-> 0]
\* Where the kernel is on a stack of its own.
place(name, child) == [name |-> name, child |-> child]
at(c, name) == cpu[c].mode = "el1" /\ cpu[c].pc.name = name

----------------------------------------------------------------------------
(* Frames.                                                                 *)

init_user_el0(entry, sp, kernel_sp) ==
  [mode |-> "el0", x |-> U!zero, keep |-> 0, pc |-> entry, sp |-> sp, kernel_sp |-> kernel_sp]
init_kernel_el1(entry, kernel_sp) ==
  [mode |-> "el1", x |-> None, keep |-> None, pc |-> entry, sp |-> kernel_sp, kernel_sp |-> kernel_sp]

\* The frame an exception saves, and the registers its return loads.
save_frame(r) ==
  [mode |-> r.mode, x |-> r.x, keep |-> r.keep, pc |-> r.pc,
   sp |-> IF r.mode = "el0" THEN r.sp ELSE r.stack, kernel_sp |-> r.stack]
restore_frame(f) ==
  [mode |-> f.mode, x |-> f.x, keep |-> f.keep, pc |-> f.pc,
   sp |-> IF f.mode = "el0" THEN f.sp ELSE None,
   stack |-> IF f.mode = "el0" THEN f.kernel_sp ELSE f.sp]
\* The hardware leaves the address after the svc.
svc_frame(r) == [save_frame(r) EXCEPT !.pc = @ + 1]

set_syscall_result(f, value) == [f EXCEPT !.x = value]
restart_current_syscall(f) == [f EXCEPT !.pc = @ - 1]
replace_user_context_after_exec(f, sp) == init_user_el0(0, sp, f.kernel_sp)
fork_child(f, child) == [f EXCEPT !.x = U!zero, !.kernel_sp = base(child)]

Init ==
  /\ home = [t \in All |-> IF t \in Threads THEN Boot ELSE CHOOSE c \in CPUs : Idle[c] = t]
  /\ root = [t \in Threads |-> IF t = First THEN Min(Roots) ELSE None] /\ roots = {Min(Roots)}
  /\ current = [c \in CPUs |-> IF c = Boot THEN First ELSE Idle[c]]
  /\ state = [t \in All |-> IF t = First \/ (t \notin Threads /\ t # Idle[Boot]) THEN "running"
                            ELSE IF t \in Threads THEN "free" ELSE "ready"]
  /\ saved = [t \in All |-> IF t = Idle[Boot] THEN init_kernel_el1(place("idle", None), base(t)) ELSE None]
  /\ cpu = [c \in CPUs |-> restore_frame(IF c = Boot THEN init_user_el0(0, Min(Roots), base(First))
                                         ELSE init_kernel_el1(place("idle", None), base(Idle[c])))]
  /\ ttbr = [c \in CPUs |-> IF c = Boot THEN Min(Roots) ELSE None]
  /\ waits = [t \in Threads |-> None] /\ outer = [t \in All |-> None]
  /\ parent = waits /\ zombies = {}

----------------------------------------------------------------------------
(* Handoff.                                                                *)

\* activate_thread_address_space: idle keeps the root it finds.
activate_thread_address_space(c, t) == IF t \in Threads THEN root[t] ELSE ttbr[c]

selectable(c) ==
  LET peers == {t \in Threads : state[t] = "ready" /\ home[t] = c} IN
  IF peers = {} THEN {Idle[c]} ELSE peers

\* The live frame f of the thread that leaves is copied out, the next thread's in; a
\* saved context is dead while its thread runs.
exchange(c, to, f) == [saved EXCEPT ![current[c]] = f, ![to] = None]
handoff(c, f, leaves_as, on) ==
  LET from == current[c] IN
  \E to \in selectable(c) :
    /\ saved' = exchange(c, to, f)
    /\ cpu' = [cpu EXCEPT ![c] = restore_frame(saved[to])]
    /\ ttbr' = [ttbr EXCEPT ![c] = activate_thread_address_space(c, to)]
    /\ current' = [current EXCEPT ![c] = to]
    /\ state' = [state EXCEPT ![from] = leaves_as, ![to] = "running"]
    /\ waits' = IF from \in Threads THEN [waits EXCEPT ![from] = on] ELSE waits
    /\ UNCHANGED <<home, root, roots>>
stays(c, f) == cpu' = [cpu EXCEPT ![c] = restore_frame(f)] /\ UNCHANGED <<sched, space>>

\* An exception from EL0 uses the base of the kernel stack, and gives it back.
popped(c) == outer' = [outer EXCEPT ![cpu[c].stack.of] = None]

\* An interrupt, of EL0 or of idle; system calls run with interrupts masked.
Irq(c) ==
  LET f == save_frame(cpu[c]) IN
  /\ cpu[c].mode = "el0" \/ at(c, "idle")
  /\ IF selectable(c) = {Idle[c]} THEN stays(c, f)
     ELSE stays(c, f) \/ handoff(c, f, "ready", None)
  /\ popped(c) /\ UNCHANGED family

\* A deadline, input, or another owner completes a wait.
Wake(t) ==
  /\ state[t] = "blocked" /\ waits[t] \in {"sleep", "input"}
  /\ state' = [state EXCEPT ![t] = "ready"] /\ waits' = [waits EXCEPT ![t] = None]
  /\ UNCHANGED <<cpu, current, home, saved, outer, space, family>>

----------------------------------------------------------------------------
(* System calls.                                                           *)

Compute(c) ==
  /\ cpu[c].mode = "el0" /\ cpu[c].pc % 2 = 0 /\ cpu[c].pc < 2 * MaxCalls
  /\ \E call \in Calls : cpu' = [cpu EXCEPT ![c] = U!compute(@, call)]
  /\ UNCHANGED <<sched, space, outer, family>>

\* lower_el_sync_entry and dispatch: the request is decoded from the frame.
requests(c, call) == cpu[c].mode = "el0" /\ cpu[c].pc % 2 = 1 /\ cpu[c].x = U!arg(call)
result(c) == U!ret(current[c], cpu[c].pc)
answer(c) == stays(c, set_syscall_result(svc_frame(cpu[c]), result(c)))

\* A call that ends in its handler.
Simple(c) == requests(c, "simple") /\ answer(c) /\ popped(c) /\ UNCHANGED family

sleep_then_answer(c) ==
  \E to \in selectable(c) :
    /\ saved' = exchange(c, to, svc_frame(cpu[c]))
    /\ cpu' = [cpu EXCEPT ![c] = restore_frame(set_syscall_result(saved[to], U!zero))]
    /\ ttbr' = [ttbr EXCEPT ![c] = activate_thread_address_space(c, to)]
    /\ current' = [current EXCEPT ![c] = to]
    /\ state' = [state EXCEPT ![current[c]] = "blocked", ![to] = "running"]
    /\ waits' = [waits EXCEPT ![current[c]] = "sleep"]
    /\ UNCHANGED <<home, root, roots>>
\* sys_clock_nanosleep: the result is stored before the handoff.
nanosleep(c) ==
  LET f == set_syscall_result(svc_frame(cpu[c]), U!zero) IN
  handoff(c, f, "blocked", "sleep") \/ stays(c, f)
Sleep(c) ==
  /\ requests(c, "sleep")
  /\ nanosleep(c) \/ answer(c)
  /\ popped(c) /\ UNCHANGED family

\* sys_read of stdin: with nothing to read the call is rewound and blocks, to be
\* made again; a completion that wins before the commit leaves it rewound.
Read(c) ==
  LET f == restart_current_syscall(svc_frame(cpu[c])) IN
  /\ requests(c, "read")
  /\ answer(c) \/ handoff(c, f, "blocked", "input") \/ stays(c, f)
  /\ popped(c) /\ UNCHANGED family

\* sys_fork: the child's context is the live frame, with a result, a kernel stack
\* and a root of its own.
Fork(c) ==
  LET t == current[c]
      f == svc_frame(cpu[c])
  IN /\ requests(c, "fork") /\ popped(c)
     /\ \/ answer(c) /\ UNCHANGED family
        \/ \E child \in Threads, on \in CPUs :
             /\ state[child] = "free" /\ roots # Roots
             /\ saved' = [saved EXCEPT ![child] = fork_child(f, child)]
             /\ state' = [state EXCEPT ![child] = "ready"] /\ home' = [home EXCEPT ![child] = on]
             /\ root' = [root EXCEPT ![child] = Min(Roots \ roots)]
             /\ roots' = roots \cup {root'[child]}
             /\ parent' = [parent EXCEPT ![child] = t]
             /\ cpu' = [cpu EXCEPT ![c] = restore_frame(set_syscall_result(f, result(c)))]
             /\ UNCHANGED <<ttbr, current, waits, zombies>>

\* replace_current_user_resources.
replace_current_user_resources(c, new) == ttbr' = [ttbr EXCEPT ![c] = new]
\* sys_execve: the new root is installed, the frame replaced, the old root destroyed.
Exec(c) ==
  LET t == current[c]
      new == Min(Roots \ roots)
  IN /\ requests(c, "exec") /\ popped(c) /\ UNCHANGED family
     /\ \/ answer(c)
        \/ /\ roots # Roots
           /\ replace_current_user_resources(c, new)
           /\ root' = [root EXCEPT ![t] = new] /\ roots' = (roots \ {root[t]}) \cup {new}
           /\ cpu' = [cpu EXCEPT ![c] = restore_frame(replace_user_context_after_exec(svc_frame(cpu[c]), new))]
           /\ UNCHANGED sched

----------------------------------------------------------------------------
(* Exit and waitpid: the two calls that leave a frame on the kernel stack. *)

\* The kernel continues at p, above the frame of its caller.
within(c, f, p) ==
  /\ outer' = [outer EXCEPT ![cpu[c].stack.of] = f]
  /\ cpu' = [cpu EXCEPT ![c] = restore_frame(init_kernel_el1(p, [of |-> @.stack.of, depth |-> 1]))]

waiting_for(t) == {p \in Threads : state[p] = "blocked" /\ waits[p] = t}
wake(ts) ==
  /\ state' = [t \in All |-> IF t \in ts THEN "ready" ELSE state[t]]
  /\ waits' = [t \in Threads |-> IF t \in ts THEN None ELSE waits[t]]

\* finish_current_process, of exit or of a fault: the status is published and the
\* parent's wait completed.
FinishProcess(c) ==
  LET t == current[c] IN
  /\ cpu[c].mode = "el0"
  /\ \/ requests(c, "exit") /\ within(c, svc_frame(cpu[c]), place("exit", None))
     \/ cpu[c].pc % 2 = 0 /\ within(c, save_frame(cpu[c]), place("exit", None))
  /\ zombies' = zombies \cup {t}
  /\ wake(waiting_for(t))
  /\ UNCHANGED <<current, home, saved, space, parent>>

exit_address_space(c, to) == IF to = Idle[c] THEN None ELSE activate_thread_address_space(c, to)
\* exit_current: nothing is saved; the root is detached when idle comes next; a
\* thread that joins this one becomes ready.
ExitCurrent(c) ==
  LET t == current[c]
      joiners == waiting_for(t)
  IN /\ at(c, "exit")
     /\ \E to \in selectable(c) :
          /\ cpu' = [cpu EXCEPT ![c] = restore_frame(saved[to])]
          /\ ttbr' = [ttbr EXCEPT ![c] = exit_address_space(c, to)]
          /\ current' = [current EXCEPT ![c] = to]
          /\ state' = [s \in All |-> IF s = t THEN "exited" ELSE IF s = to THEN "running"
                                     ELSE IF s \in joiners THEN "ready" ELSE state[s]]
          /\ saved' = exchange(c, to, None)
     /\ waits' = [s \in Threads |-> IF s \in joiners THEN None ELSE waits[s]]
     /\ outer' = [outer EXCEPT ![cpu[c].stack.of] = None]
     /\ UNCHANGED <<home, root, roots, family>>

\* sys_waitpid: an error, a rewound wait for a running child (which its exit may
\* complete before the commit), or a status taken.
Waitpid(c) ==
  LET t == current[c]
      children == {e \in Threads : parent[e] = t}
      f == svc_frame(cpu[c])
  IN /\ requests(c, "waitpid")
     /\ \/ answer(c) /\ popped(c) /\ UNCHANGED family
        \/ \E e \in children \ zombies :
             /\ handoff(c, restart_current_syscall(f), "blocked", e)
                \/ stays(c, restart_current_syscall(f))
             /\ popped(c) /\ UNCHANGED family
        \/ \E e \in children \cap zombies :
             /\ within(c, f, place("join", e))
             /\ parent' = [parent EXCEPT ![e] = None] /\ zombies' = zombies \ {e}
             /\ UNCHANGED <<sched, space>>

\* thread_join from inside the call: a second svc, whose frame lies above the
\* caller's; it blocks while the child's thread has not left its CPU.
Join(c) ==
  LET e == cpu[c].pc.child IN
  /\ at(c, "join") /\ state[e] # "exited"
  /\ handoff(c, save_frame(cpu[c]), "blocked", e) /\ UNCHANGED <<outer, family>>

answer_in_outer_frame(c) ==
  LET f == outer[cpu[c].stack.of] IN
  restore_frame(set_syscall_result(f, U!ret(current[c], f.pc - 1)))
\* The child is reaped, its image destroyed, and the caller's own frame answered.
Reap(c) ==
  LET e == cpu[c].pc.child IN
  /\ at(c, "join") /\ state[e] = "exited"
  /\ state' = [state EXCEPT ![e] = "free"]
  /\ root' = [root EXCEPT ![e] = None] /\ roots' = roots \ {root[e]}
  /\ cpu' = [cpu EXCEPT ![c] = answer_in_outer_frame(c)]
  /\ popped(c)
  /\ UNCHANGED <<ttbr, current, home, waits, saved, family>>

Next ==
  \/ \E c \in CPUs :
       \/ Irq(c) \/ Compute(c) \/ Simple(c) \/ Sleep(c) \/ Read(c) \/ Fork(c) \/ Exec(c)
       \/ FinishProcess(c) \/ ExitCurrent(c) \/ Waitpid(c) \/ Join(c) \/ Reap(c)
  \/ \E t \in Threads : Wake(t)

Spec == Init /\ [][Next]_vars

----------------------------------------------------------------------------
(* Properties.                                                             *)

\* The registers a thread will next run with; inside a call, those it made it with.
registers(f) == [pc |-> f.pc, x |-> f.x, keep |-> f.keep, sp |-> f.sp]
called_with(f) == IF f.pc % 2 = 0 /\ f.x \notin {U!zero} /\ f.x[1] = "arg"
                  THEN [registers(f) EXCEPT !.pc = @ - 1] ELSE registers(f)
live(t) == state[t] \notin {"free", "exited"}
visible(t) ==
  LET c == home[t] IN
  IF ~live(t) THEN None
  ELSE IF current[c] = t
       THEN IF cpu[c].mode = "el0" THEN registers(cpu[c]) ELSE called_with(outer[cpu[c].stack.of])
  ELSE IF saved[t].mode = "el0" THEN registers(saved[t])
  ELSE called_with(outer[saved[t].sp.of])

View == INSTANCE UserThreads WITH view <- [t \in Threads |-> visible(t)]
\* Whatever is interrupted, blocked, rewound, forked, replaced or reaped around it,
\* each thread sees only its own instructions and the results of its own calls: no
\* result lands in the frame of the thread a handoff brought in, no frame is lost
\* on a kernel stack, and a rewound call is made again with its own arguments.
alone == View!Next \/ UNCHANGED [t \in Threads |-> visible(t)]

\* EL0 runs under its own root, on its own kernel stack, and no CPU, idle ones
\* included, has a root installed that has been destroyed.
OwnRoot ==
  \A c \in CPUs :
    /\ ttbr[c] \in roots \cup {None}
    /\ cpu[c].mode = "el0" =>
         ttbr[c] = root[current[c]] /\ cpu[c].stack = base(current[c])
==========================================================================
