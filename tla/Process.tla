----------------------------- MODULE Process -----------------------------
(***************************************************************************)
(* The process table: creation of the first process and fork, exec, exit,  *)
(* waitpid and the kernel's join of the first process, with the resources  *)
(* they hand over (address spaces, loaded images, user stacks) and the     *)
(* reverse index from threads to processes.                                *)
(*                                                                         *)
(* Every section under the process-table lock is one step.  Threads are    *)
(* thread slots with generations; thread_join is the scheduler's, seen     *)
(* from outside: it returns when the thread has exited, and then the slot  *)
(* is free.  A step of a thread runs on its home CPU with its root         *)
(* installed; a CPU without work keeps the last root.                      *)
(***************************************************************************)
EXTENDS Naturals, FiniteSets, Functions, Waits

CONSTANTS
  MaxProcesses,  \* MAX_PROCESSES
  NumThreads,    \* thread slots; slot 0 is the kernel's init thread
  NumCpus,
  NumSpaces,     \* roots the frame allocator can hold at once
  MaxGen,        \* bound: generations of a process slot (a reaped process uses two)
  MaxThreadGen,  \* bound: generations of a thread slot
  None

ASSUME ProcessConstants ==
  /\ MaxProcesses \in Nat \ {0} /\ NumThreads \in Nat \ {0} /\ NumCpus \in Nat \ {0}
  /\ NumSpaces \in Nat /\ MaxGen \in Nat /\ MaxThreadGen \in Nat
  /\ Threads = 0..(NumThreads - 1)

Cpus == 0..(NumCpus - 1)
Spaces == 1..NumSpaces
ProcSlots == 0..(MaxProcesses - 1)
ProcessId == [slot : ProcSlots, gen : 1..MaxGen]
ThreadId == [slot : Threads, gen : 0..MaxThreadGen]
InitThread == 0

VARIABLES
  procs,     \* per process slot: generation and Process
  owners,    \* thread_owners: per thread slot, the process it runs
  threads,   \* per thread slot: [gen, state, cpu, space]
  root,      \* per CPU: the installed user root
  spaces, images, stacks,   \* allocated roots, and those with segments and a stack
  pc,        \* per thread: its place in a system call
  work,      \* per thread: the locals of that call
  panic

resources == <<spaces, images, stacks>>
vars == <<phase, seq, procs, owners, threads, root, resources, pc, work, panic>>

free_process == [state |-> "Free", parent |-> None, cpu |-> None, pending |-> None,
                 main |-> None, status |-> None, consumer |-> None, waiter |-> None,
                 space |-> None, image |-> None]
no_work == [pid |-> None, space |-> None, image |-> None, stack |-> None,
            main |-> None, status |-> None, token |-> None]

Init ==
  /\ WaitsInit
  /\ procs = [i \in ProcSlots |-> [gen |-> 0, process |-> free_process]]
  /\ owners = [t \in Threads |-> None]
  /\ threads = [t \in Threads |->
       [gen |-> 0, state |-> IF t = InitThread THEN "live" ELSE "free", cpu |-> 0, space |-> None]]
  /\ root = [c \in Cpus |-> None]
  /\ spaces = {} /\ images = {} /\ stacks = {}
  /\ pc = [t \in Threads |-> IF t = InitThread THEN "init" ELSE "user"]
  /\ work = [t \in Threads |-> no_work]
  /\ panic = FALSE

----------------------------------------------------------------------------
(* ProcessTable.                                                           *)

slot(pid) == procs[pid.slot].gen = pid.gen /\ procs[pid.slot].process.state # "Free"
process(pid) == procs[pid.slot].process
with_process(pid, p) == [procs EXCEPT ![pid.slot].process = p]

\* The thread slot may have a new owner by now, which stays.
release_slot(pid, gen) ==
  LET thread == process(pid).main IN
  /\ procs' = [procs EXCEPT ![pid.slot] = [gen |-> gen, process |-> free_process]]
  /\ owners' = IF thread # None /\ owners[thread.slot] = pid
               THEN [owners EXCEPT ![thread.slot] = None] ELSE owners
next_child_cpu(p) == IF p.pending # None THEN p.pending ELSE p.cpu

thread_id(t) == [slot |-> t, gen |-> threads[t].gen]
\* process_for_thread panics on a stale or mismatched reverse owner.
owner_matches(t) ==
  owners[t] # None => slot(owners[t]) /\ process(owners[t]).main = thread_id(t)

\* A step of thread t on its CPU; `asserts' is what the code panics without.
installed_elsewhere(a, c) == a # None /\ \E d \in Cpus \ {c} : root[d] = a
runs(t, place, asserts) ==
  LET c == threads[t].cpu IN
  /\ threads[t].state = "live" /\ pc[t] = place
  /\ root' = [root EXCEPT ![c] = threads[t].space]
  /\ panic' = (panic \/ ~asserts \/ installed_elsewhere(threads[t].space, c))
goto(t, place, w) == pc' = [pc EXCEPT ![t] = place] /\ work' = [work EXCEPT ![t] = w]
returns(t) == goto(t, "user", no_work)

\* allocate_process_slot: the first free slot gets the next generation.
allocate_process_slot(t, parent, cpu) ==
  \E i \in ProcSlots :
    LET gen == procs[i].gen + 1 IN
    /\ procs[i].process.state = "Free"
    /\ \A j \in 0..(i - 1) : procs[j].process.state # "Free"
    /\ gen <= MaxGen
    /\ procs' = [procs EXCEPT ![i] =
         [gen |-> gen,
          process |-> [free_process EXCEPT !.state = "Running", !.parent = parent, !.cpu = cpu]]]
    /\ goto(t, "stage", [no_work EXCEPT !.pid = [slot |-> i, gen |-> gen]])

\* destroy_user_address_space refuses a root that some CPU has installed.
destroyable(a) == a # None /\ \A c \in Cpus : root'[c] # a
destroy_user_address_space(a) == spaces' = spaces \ (IF destroyable(a) THEN {a} ELSE {})

----------------------------------------------------------------------------
(* spawn_first_user_process and fork_current.                              *)

SpawnFirst(t) ==
  /\ t = InitThread /\ runs(t, "init", TRUE)
  /\ allocate_process_slot(t, None, threads[t].cpu)
  /\ UNCHANGED <<phase, seq, owners, threads, resources>>

Fork(t) ==
  /\ runs(t, "user", owner_matches(t)) /\ owners[t] # None
  /\ process(owners[t]).image # None
  /\ allocate_process_slot(t, owners[t], next_child_cpu(process(owners[t])))
  /\ UNCHANGED <<phase, seq, owners, threads, resources>>

\* create_user_address_space, the image, the stack and its contents: each may fail,
\* and what the earlier ones made is kept for the cleanup.
stage(t, w, ready, failed) ==
  \/ /\ goto(t, failed, w)
     /\ UNCHANGED resources
  \/ \E a \in Spaces \ spaces, made \in 1..3, place \in {ready, failed} :
       /\ \A b \in 1..(a - 1) : b \in spaces
       /\ place = ready => made = 3
       /\ spaces' = spaces \cup {a}
       /\ images' = IF made >= 2 THEN images \cup {a} ELSE images
       /\ stacks' = IF made >= 3 THEN stacks \cup {a} ELSE stacks
       /\ goto(t, place, [w EXCEPT !.space = a,
                                   !.image = IF made >= 2 THEN a ELSE None,
                                   !.stack = IF made >= 3 THEN a ELSE None])

Stage(t) ==
  /\ runs(t, "stage", TRUE)
  /\ stage(t, work[t], "attach", "abort")
  /\ UNCHANGED <<phase, seq, procs, owners, threads>>

AttachProcessResources(t) ==
  LET w == work[t] IN
  /\ runs(t, "attach", slot(w.pid))
  /\ procs' = with_process(w.pid, [process(w.pid) EXCEPT
                !.state = "Running", !.space = w.space, !.image = w.image])
  /\ goto(t, "publish", [w EXCEPT !.space = None, !.image = None])
  /\ UNCHANGED <<phase, seq, owners, threads, resources>>

\* bind_main_thread panics otherwise; so does consuming the placement of a parent
\* that is gone.
bind_main_thread(pid, n) ==
  /\ slot(pid) /\ process(pid).space # None
  /\ owners[n] = None /\ process(pid).main = None
consume_pending_fork_cpu(table, parent) ==
  IF parent = None THEN table ELSE [table EXCEPT ![parent.slot].process.pending = None]

\* thread_spawn_user(_from_context), with the process table locked: the thread is
\* bound to its process before it can run, and the parent's placement consumed.
PublishThread(t) ==
  LET w == work[t]
      child == process(w.pid)
  IN \E n \in Threads :
       LET gen == threads[n].gen + 1
           bound == with_process(w.pid, [child EXCEPT !.main = [slot |-> n, gen |-> gen]])
       IN /\ threads[n].state = "free" /\ gen <= MaxThreadGen
          /\ \A m \in 0..(n - 1) : threads[m].state # "free"
          /\ runs(t, "publish", /\ bind_main_thread(w.pid, n)
                                /\ child.parent # None => slot(child.parent))
          /\ threads' = [threads EXCEPT ![n] =
               [gen |-> gen, state |-> "live", cpu |-> child.cpu, space |-> child.space]]
          /\ owners' = [owners EXCEPT ![n] = w.pid]
          /\ procs' = consume_pending_fork_cpu(bound, child.parent)
          /\ IF t = InitThread THEN goto(t, "claim", [no_work EXCEPT !.pid = w.pid])
             ELSE returns(t)
          /\ UNCHANGED <<phase, seq, resources>>

NoThreadSlots(t) ==
  /\ \A n \in Threads : threads[n].state # "free"
  /\ runs(t, "publish", TRUE)
  /\ goto(t, "abort", work[t])
  /\ UNCHANGED <<phase, seq, procs, owners, threads, resources>>

\* The cleanup of a failed creation takes back what was attached ...
TakeProcessImageResources(t) ==
  LET w == work[t] IN
  /\ runs(t, "abort", TRUE)
  /\ goto(t, "free", IF w.space # None THEN w
                     ELSE [w EXCEPT !.space = process(w.pid).space, !.image = process(w.pid).image])
  /\ procs' = with_process(w.pid, [process(w.pid) EXCEPT !.space = None, !.image = None])
  /\ UNCHANGED <<phase, seq, owners, threads, resources>>

\* ... frees it, and frees the slot under its own generation.
FreeProcessSlot(t) ==
  LET w == work[t] IN
  /\ runs(t, "free", slot(w.pid))
  /\ images' = images \ {w.image} /\ stacks' = stacks \ {w.stack}
  /\ destroy_user_address_space(w.space)
  /\ release_slot(w.pid, w.pid.gen)
  /\ IF t = InitThread THEN goto(t, "done", no_work) ELSE returns(t)
  /\ UNCHANGED <<phase, seq, threads>>

----------------------------------------------------------------------------
(* execve_current: staged in full, activated, swapped, and then the old    *)
(* image goes.  What a failed staging has made is freed at once.           *)

StageExec(t) ==
  /\ runs(t, "user", owner_matches(t)) /\ owners[t] # None
  /\ stage(t, [no_work EXCEPT !.pid = owners[t]], "activate", "cleanup")
  /\ UNCHANGED <<phase, seq, procs, owners, threads>>

\* replace_current_user_resources: the thread's old stack comes back.
ReplaceCurrentUserResources(t) ==
  LET w == work[t]
      c == threads[t].cpu
  IN /\ pc[t] = "activate" /\ threads[t].state = "live"
     /\ root' = [root EXCEPT ![c] = w.space]
     /\ panic' = (panic \/ ~slot(w.pid) \/ installed_elsewhere(w.space, c))
     /\ threads' = [threads EXCEPT ![t].space = w.space]
     /\ goto(t, "swap", [w EXCEPT !.stack = threads[t].space])
     /\ UNCHANGED <<phase, seq, procs, owners, resources>>

SwapImage(t) ==
  LET w == work[t]
      p == process(w.pid)
  IN /\ runs(t, "swap", slot(w.pid))
     /\ procs' = with_process(w.pid, [p EXCEPT !.space = w.space, !.image = w.image,
                                               !.state = "Running", !.status = None])
     /\ goto(t, "cleanup", [w EXCEPT !.space = p.space, !.image = p.image])
     /\ UNCHANGED <<phase, seq, owners, threads, resources>>

CleanupKeepingStack(t) ==
  /\ runs(t, "cleanup", TRUE)
  /\ images' = images \ {work[t].image} /\ stacks' = stacks
  /\ destroy_user_address_space(work[t].space)
  /\ IF t = InitThread THEN goto(t, "done", no_work) ELSE returns(t)
  /\ UNCHANGED <<phase, seq, procs, owners, threads>>
\* The old stack is dropped and the old image freed; so is a failed staging.  Also
\* the end of a waitpid and of a process join, which have no stack left.
CleanupProcessImage(t) ==
  LET w == work[t] IN
  /\ runs(t, "cleanup", TRUE)
  /\ images' = images \ {w.image} /\ stacks' = stacks \ {w.stack}
  /\ destroy_user_address_space(w.space)
  /\ IF t = InitThread THEN goto(t, "done", no_work) ELSE returns(t)
  /\ UNCHANGED <<phase, seq, procs, owners, threads>>

----------------------------------------------------------------------------
(* finish_current_process, by exit or by fault.                            *)

FinishProcess(t) ==
  LET pid == owners[t]
      p == process(pid)
  IN /\ pid # None
     /\ runs(t, "user", owner_matches(t))
     /\ IF p.status # None
        THEN goto(t, "exit", no_work) /\ UNCHANGED <<procs, owners>>
        ELSE /\ procs' = with_process(pid, [p EXCEPT !.state = "Zombie", !.status = pid])
             /\ owners' = [owners EXCEPT ![t] = None]
             /\ goto(t, IF p.waiter = None THEN "exit" ELSE "wake", [no_work EXCEPT !.token = p.waiter])
     /\ UNCHANGED <<phase, seq, threads, resources>>

WakeWaiterIfBlocked(t) ==
  /\ runs(t, "wake", TRUE)
  /\ IF phase[work[t].token.thread] = "Blocked" THEN complete_wait(work[t].token, "Notified")
     ELSE UNCHANGED <<phase, seq>>
  /\ goto(t, "exit", no_work)
  /\ UNCHANGED <<procs, owners, threads, resources>>
WakeWaiter(t) ==
  /\ runs(t, "wake", TRUE)
  /\ complete_wait(work[t].token, "Notified")
  /\ goto(t, "exit", no_work)
  /\ UNCHANGED <<procs, owners, threads, resources>>

ThreadExitDetached(t) ==
  /\ threads[t].state = "live" /\ pc[t] = "exit"
  /\ threads' = [threads EXCEPT ![t].state = "free", ![t].space = None]
  /\ stacks' = stacks \ {threads[t].space}
  /\ root' = [root EXCEPT ![threads[t].cpu] = None]
  /\ returns(t)
  /\ UNCHANGED <<phase, seq, procs, owners, spaces, images, panic>>
\* on_thread_exit_sync: the CPU leaves the root of the exiting thread.
ThreadExit(t) ==
  LET c == threads[t].cpu
      others == {threads[n].space : n \in {n \in Threads \ {t} :
                    threads[n].state = "live" /\ threads[n].cpu = c}}
  IN /\ threads[t].state = "live" /\ pc[t] = "exit"
     /\ threads' = [threads EXCEPT ![t].state = "exited"]
     /\ \E a \in others \cup {None} : root' = [root EXCEPT ![c] = a]
     /\ returns(t)
     /\ UNCHANGED <<phase, seq, procs, owners, resources, panic>>

----------------------------------------------------------------------------
(* waitpid_current: consume the status, join the thread, clean up.         *)

\* A parent asks, or asks again after its wait.
may_ask(t, pid) == \/ pc[t] = "user"
                   \/ pc[t] = "restart" /\ work[t].pid = pid
                   \/ pc[t] = "blocked" /\ work[t].pid = pid /\ phase[t] \in Causes

PrepareWaitChild(t, pid) ==
  LET p == process(pid)
      claimed == [p EXCEPT !.consumer = thread_id(t)]
  IN /\ owners[t] # None /\ may_ask(t, pid)
     /\ slot(pid) /\ p.parent = owners[t]
     /\ p.consumer \in {None, thread_id(t)}
     /\ p.waiter # None => p.waiter.thread = t
     /\ \/ /\ p.status = None
           /\ runs(t, pc[t], owner_matches(t) /\ p.waiter = None)
           /\ p.waiter = None => prepare_wait(t)
           /\ p.waiter # None => UNCHANGED <<phase, seq>>
           /\ procs' = with_process(pid, [claimed EXCEPT !.waiter = token(t)'])
           /\ owners' = owners
           /\ goto(t, "prepared", [no_work EXCEPT !.pid = pid])
        \/ /\ p.status # None
           /\ runs(t, pc[t], owner_matches(t) /\ p.main # None)
           /\ release_slot(pid, pid.gen + 1)
           /\ goto(t, IF p.waiter = None THEN "join" ELSE "finish",
                   [pid |-> pid, space |-> p.space, image |-> p.image, stack |-> None,
                    main |-> p.main, status |-> p.status, token |-> p.waiter])
           /\ UNCHANGED <<phase, seq>>
     /\ UNCHANGED <<threads, resources>>

\* commit_wait; in either case the system call is executed again.
CommitWait(t) ==
  /\ runs(t, "prepared", TRUE)
  /\ \/ commit_blocks(t) /\ goto(t, "blocked", work[t])
     \/ finish_wait(t) /\ goto(t, "restart", work[t])
  /\ UNCHANGED <<procs, owners, threads, resources>>

\* finish_wait of the registered token: finished, or stale after an early commit.
FinishWait(t) ==
  LET current == token(t) = work[t].token IN
  /\ runs(t, "finish", current => phase[t] \notin {"Prepared", "Blocked"})
  /\ IF current /\ phase[t] \in Causes THEN finish_wait(t) ELSE UNCHANGED <<phase, seq>>
  /\ goto(t, "join", work[t])
  /\ UNCHANGED <<procs, owners, threads, resources>>

\* thread_join returns the exit code once the thread has exited, or refuses an
\* identifier that is stale; the reaped thread's stack is dropped.
join_target(t) == work[t].main
stale(id) == threads[id.slot].gen # id.gen \/ threads[id.slot].state = "free"
reap(id) ==
  /\ threads' = [threads EXCEPT ![id.slot].state = "free", ![id.slot].space = None]
  /\ stacks' = stacks \ {threads[id.slot].space}

ThreadJoin(t) ==
  LET id == join_target(t) IN
  /\ runs(t, "join", TRUE)
  /\ \/ /\ stale(id) /\ returns(t)
        /\ UNCHANGED <<threads, stacks>>
     \/ /\ ~stale(id) /\ threads[id.slot].state = "exited"
        /\ reap(id) /\ goto(t, "cleanup", work[t])
  /\ UNCHANGED <<phase, seq, procs, owners, spaces, images>>

----------------------------------------------------------------------------
(* process_join, by the kernel's init thread: join first, consume after.   *)

ClaimProcessConsumer(t) ==
  LET w == work[t]
      p == process(w.pid)
  IN /\ runs(t, "claim", TRUE)
     /\ \/ /\ slot(w.pid) /\ p.consumer = None /\ p.main # None
           /\ procs' = with_process(w.pid, [p EXCEPT !.consumer = thread_id(t)])
           /\ goto(t, "join_process", [w EXCEPT !.main = p.main])
        \/ /\ ~slot(w.pid) \/ p.consumer # None \/ p.main = None
           /\ goto(t, "done", no_work) /\ procs' = procs
     /\ UNCHANGED <<phase, seq, owners, threads, resources>>

JoinProcessThread(t) ==
  LET id == join_target(t) IN
  /\ runs(t, "join_process", TRUE)
  /\ \/ /\ stale(id) /\ goto(t, "done", no_work)
        /\ UNCHANGED <<threads, stacks>>
     \/ /\ ~stale(id) /\ threads[id.slot].state = "exited"
        /\ reap(id) /\ goto(t, "consume", work[t])
  /\ UNCHANGED <<phase, seq, procs, owners, spaces, images>>

ConsumeProcess(t) ==
  LET w == work[t]
      p == process(w.pid)
  IN /\ runs(t, "consume", TRUE)
     /\ \/ /\ slot(w.pid) /\ p.consumer = thread_id(t) /\ p.status # None
           /\ release_slot(w.pid, w.pid.gen + 1)
           /\ goto(t, "cleanup", [w EXCEPT !.space = p.space, !.image = p.image, !.status = p.status])
        \/ /\ ~(slot(w.pid) /\ p.consumer = thread_id(t) /\ p.status # None)
           /\ goto(t, "done", no_work) /\ UNCHANGED <<procs, owners>>
     /\ UNCHANGED <<phase, seq, threads, resources>>

\* set_fork_affinity_current, for any online CPU or -1.
SetForkAffinity(t, cpu) ==
  /\ runs(t, "user", owner_matches(t)) /\ owners[t] # None
  /\ procs' = with_process(owners[t], [process(owners[t]) EXCEPT !.pending = cpu])
  /\ UNCHANGED <<phase, seq, owners, threads, resources, pc, work>>

\* process_affinity panics at a published process without an address space.
ProcessAffinity(t, pid) ==
  /\ runs(t, "user", slot(pid) /\ process(pid).main # None => process(pid).space # None)
  /\ UNCHANGED <<phase, seq, procs, owners, threads, resources, pc, work>>

Step(t) ==
  \/ Stage(t) \/ AttachProcessResources(t) \/ PublishThread(t) \/ NoThreadSlots(t)
  \/ TakeProcessImageResources(t) \/ FreeProcessSlot(t)
  \/ ReplaceCurrentUserResources(t) \/ SwapImage(t) \/ CleanupProcessImage(t)
  \/ WakeWaiter(t) \/ ThreadExit(t)
  \/ CommitWait(t) \/ FinishWait(t) \/ ThreadJoin(t)
  \/ ClaimProcessConsumer(t) \/ JoinProcessThread(t) \/ ConsumeProcess(t)

Next ==
  \E t \in Threads :
    \/ Step(t) \/ SpawnFirst(t) \/ Fork(t) \/ StageExec(t) \/ FinishProcess(t)
    \/ \E pid \in ProcessId : PrepareWaitChild(t, pid) \/ ProcessAffinity(t, pid)
    \/ \E cpu \in Cpus \cup {None} : SetForkAffinity(t, cpu)

Spec == Init /\ [][Next]_vars

\* A thread that can run runs; a woken parent asks again.  No process need fork,
\* exec or exit.
FairSpec ==
  Spec /\ \A t \in Threads :
    WF_vars(Step(t) \/ (pc[t] # "user" /\ \E pid \in ProcessId : PrepareWaitChild(t, pid)))

----------------------------------------------------------------------------
(* Properties.                                                             *)

\* The table, the reverse index and the locals have their types.
TypeOK ==
  LET pids == ProcessId \cup {None}
      tids == ThreadId \cup {None}
      roots == Spaces \cup {None}
      tokens == Tokens \cup {None}
  IN /\ \A i \in ProcSlots :
          /\ procs[i].gen \in 0..(MaxGen + 1)
          /\ procs[i].process \in
               [state : {"Free", "Running", "Zombie"}, parent : pids, cpu : Cpus \cup {None},
                pending : Cpus \cup {None}, main : tids, status : pids, consumer : tids,
                waiter : tokens, space : roots, image : roots]
     /\ owners \in [Threads -> pids]
     /\ threads \in [Threads -> [gen : 0..MaxThreadGen, state : {"free", "live", "exited"},
                                 cpu : Cpus, space : roots]]
     /\ root \in [Cpus -> roots]
     /\ spaces \subseteq Spaces /\ images \subseteq Spaces /\ stacks \subseteq Spaces
     /\ \A t \in Threads :
          work[t] \in [pid : pids, space : roots, image : roots, stack : roots,
                       main : tids, status : pids, token : tokens]

\* None of the panics of the process code: reverse owners are never stale, reserved
\* slots do not disappear, a thread is bound once, a wait is never left unfinished,
\* and no root is activated on two CPUs.
NoPanic == ~panic

\* Every root, image and stack that is allocated has exactly one owner: a process
\* record, the thread (stacks), or the system call that hands it over.  Nothing
\* leaks and nothing is freed twice, also when a creation fails half way.
ResourcesOwned ==
  \A a \in Spaces :
    LET records(f) == {i \in ProcSlots : procs[i].process[f] = a}
        calls(f) == {t \in Threads : work[t][f] = a}
        runners == {t \in Threads : threads[t].state # "free" /\ threads[t].space = a}
        one(n, S) == n = IF a \in S THEN 1 ELSE 0
    IN /\ one(Cardinality(records("space")) + Cardinality(calls("space")), spaces)
       /\ one(Cardinality(records("image")) + Cardinality(calls("image")), images)
       /\ one(Cardinality(runners) + Cardinality(calls("stack")), stacks)

\* What a thread runs on, and what a CPU translates through, is not freed.
NoUseAfterFree ==
  /\ \A t \in Threads : threads[t].state = "live" /\ threads[t].space # None =>
       threads[t].space \in spaces \cap images \cap stacks
  /\ \A c \in Cpus : root[c] # None => root[c] \in spaces

\* The life of a process is sound: nothing panics, everything allocated has one owner,
\* and nothing is freed while a thread runs on it or a CPU translates through it.
ResourcesSound == TypeOK /\ NoPanic /\ ResourcesOwned /\ NoUseAfterFree

\* A running process and its thread find each other, and nothing else is indexed.
ReverseOwner ==
  /\ \A t \in Threads : owners[t] # None => threads[t].state = "live" /\ owner_matches(t)
  /\ \A i \in ProcSlots : procs[i].process.state = "Running" /\ procs[i].process.main # None =>
       owners[procs[i].process.main.slot] = [slot |-> i, gen |-> procs[i].gen]

\* Whoever is about to join a thread joins the thread of the process it asked for:
\* nobody else has reaped it and its slot has not been reused.
JoinIsOurs ==
  \A t \in Threads :
    /\ pc[t] \in {"finish", "join", "join_process"} => ~stale(work[t].main)
    /\ work[t].status # None => work[t].status = work[t].pid

\* Both: processes, threads and those who wait for them never mistake one another, and
\* everything still has its owner when a creation fails at its last step.
FamilySound == ReverseOwner /\ JoinIsOurs /\ ResourcesOwned

\* A parent that waits for a child is back in user mode after the child has ended.
ParentReturns ==
  \A t \in Threads, pid \in ProcessId :
    pc[t] \in {"prepared", "blocked"} /\ work[t].pid = pid /\ process(pid).status # None
      ~> pc[t] = "user"
==========================================================================
