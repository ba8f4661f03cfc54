---------------------------- MODULE UserThreads ----------------------------
(***************************************************************************)
(* What a userspace thread sees of the machine, whatever the kernel does   *)
(* under it: its own registers, changed by its own instructions and by the *)
(* return of its own system calls.  Odd program counters hold an svc.      *)
(***************************************************************************)
EXTENDS Integers, FiniteSetsExt

CONSTANTS
  Threads, First,
  Calls,       \* the system calls a program makes
  MaxCalls,    \* bound: calls in one run of an image
  Roots,       \* images, each with a stack of its own
  None

VARIABLE view  \* per thread: its registers, or None

zero == <<"zero">>
arg(call) == <<"arg", call>>
ret(t, pc) == <<"ret", t, pc>>
entered(sp) == [pc |-> 0, x |-> zero, keep |-> 0, sp |-> sp]

Init == view = [t \in Threads |-> IF t = First THEN entered(Min(Roots)) ELSE None]

\* The instructions up to the next svc: they load its arguments and move on.
compute(v, call) == [v EXCEPT !.x = arg(call), !.keep = v.pc + 1, !.pc = @ + 1]
returned(v, value) == [v EXCEPT !.x = value, !.pc = @ + 1]

Compute(t) ==
  /\ view[t].pc % 2 = 0 /\ view[t].pc < 2 * MaxCalls
  /\ \E call \in Calls : view' = [view EXCEPT ![t] = compute(@, call)]
Returns(t) ==
  /\ view[t].pc % 2 = 1
  /\ \E value \in {zero, ret(t, view[t].pc)} : view' = [view EXCEPT ![t] = returned(@, value)]
\* fork returns twice.
Forks(t, child) ==
  /\ view[t].pc % 2 = 1 /\ view[t].x = arg("fork") /\ view[child] = None
  /\ view' = [view EXCEPT ![t] = returned(@, ret(t, view[t].pc)), ![child] = returned(view[t], zero)]
Execs(t) ==
  /\ view[t].pc % 2 = 1 /\ view[t].x = arg("exec")
  /\ \E sp \in Roots : view' = [view EXCEPT ![t] = entered(sp)]
Exits(t) == view' = [view EXCEPT ![t] = None]

Next ==
  \E t \in Threads : view[t] # None /\
    (Compute(t) \/ Returns(t) \/ Execs(t) \/ Exits(t) \/ \E child \in Threads \ {t} : Forks(t, child))

Spec == Init /\ [][Next]_view
==========================================================================
