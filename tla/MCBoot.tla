------------------------------- MODULE MCBoot -------------------------------
(* The machinery around the kernel's services, side by side: each          *)
(* behaviour is one of bring-up, locks, publication, interrupt delivery,   *)
(* power, or a test run by the host.                                       *)
EXTENDS Integers, Sequences, FiniteSets, TLC

CONSTANTS CAPACITY, Hardware, Threads, CPUs, Cores, MaxRaises, Callers, Actors,
          SERIAL_CHANNEL_CAPACITY, MaxFaults, None

VARIABLES
  unit,
  platform, topology, records, expected, REGISTERED_COUNT, EXPECTED_COUNT, STARTUP_FAILED, CPU_TARGETS, tpidr,
  handoff, published, online, pc0, starting, late, pc, slot,
  locked, masked, depth, pending, running, irq, want, held,
  init_lock, cell, doing, outcome, seen,
  controller, global, local, bound, sgi, mailbox, timer, uart, active, token, events, work, notified, sending, raises,
  backend, RSTS, RSTC, WDOG, CLAIMED, system, step, operation, saved, result,
  case, program, next_sequence, qemu, lines, faults, emitted, serial, drain, chunk, log, channel, sender, receiver,
  runner, execution, failure, status

startup == <<platform, topology, records, expected, REGISTERED_COUNT, EXPECTED_COUNT, STARTUP_FAILED, CPU_TARGETS, tpidr,
             handoff, online, pc0, starting, slot>>
locks == <<locked, masked, depth, pending, running, irq, want, held>>
publication == <<init_lock, cell, doing, outcome, seen>>
interrupts == <<controller, global, local, bound, sgi, mailbox, timer, uart, active, token, events, work, notified,
                sending, raises>>
power == <<backend, RSTS, RSTC, WDOG, CLAIMED, system, step, operation, saved, result>>
harness == <<case, program, next_sequence, qemu, lines, faults, emitted, serial, drain, chunk, log, channel, sender,
             receiver, runner, execution, failure, status>>
vars == <<unit, startup, published, pc, late, locks, publication, interrupts, power, harness>>

----------------------------------------------------------------------------
(* Instances.                                                              *)

node(raw) == [raw |-> raw, enabled |-> TRUE]
disabled(raw) == [raw |-> raw, enabled |-> FALSE]
board(nodes, boot, method, generic) ==
  [nodes |-> nodes, boot |-> boot, method |-> method, generic |-> generic,
   releases |-> [h \in Hardware |-> h], bit |-> [h \in Hardware |-> h + 1]]
swap(a, b) == [h \in Hardware |-> IF h = a THEN b ELSE IF h = b THEN a ELSE h]

\* Boards with two or three CPUs that come up, release the wrong CPU, or share a target
\* bit; and topologies that are refused.
three == board(<<node(1), node(12), node(3)>>, 2, "psci", 3)
pi == board(<<node(0), node(1), node(2)>>, 0, "spin-table", 3)
Platforms ==
  {three, pi,
   [three EXCEPT !.releases = swap(0, 3)], [three EXCEPT !.releases = swap(1, 3)], [pi EXCEPT !.releases = swap(1, 2)],
   [three EXCEPT !.bit = [h \in Hardware |-> IF h = 3 THEN 2 ELSE h + 1]],
   board(<<node(1), disabled(2), node(13)>>, 1, "psci", 2), board(<<node(2)>>, 2, "none", 1),
   board(<<node(1), node(11)>>, 1, "psci", 2), board(<<node(1), node(2)>>, 1, "none", 2),
   board(<<node(1), node(2)>>, 3, "psci", 2), board(<<node(1), node(2)>>, 1, "psci", 3),
   board(<<node(1), node(0)>>, 1, "spin-table", 2), board(<<node(1), node(2), node(3), node(0)>>, 1, "psci", 4)}

S == INSTANCE Startup
L == INSTANCE Locks WITH
  home <- [t \in Threads |-> IF t = "c" THEN "cpu1" ELSE "cpu0"], LockOrder <- <<"spin", "irq">>, IrqLocks <- {"irq"}
P == INSTANCE Publication
I == INSTANCE Interrupts
H == INSTANCE TestHarness
W == INSTANCE Power WITH
  Word <- 8, MAGIC1 <- 5, MAGIC2 <- {6, 7}, RESTART <- 1, POWER_OFF <- 2,
  Arguments <- [magic: {5, 13, 4}, magic2: {6}, command: {1, 10, 3}],
  Statuses <- [rsts: {[halt |-> FALSE, other |-> 7]}, config: {"none", "partial"}]

no_startup ==
  /\ platform = None /\ topology = None /\ records = None /\ expected = None /\ REGISTERED_COUNT = None
  /\ EXPECTED_COUNT = None /\ STARTUP_FAILED = None /\ CPU_TARGETS = None /\ tpidr = None /\ handoff = None
  /\ online = None /\ pc0 = None /\ starting = None /\ slot = None
no_locks ==
  /\ locked = None /\ masked = None /\ depth = None /\ pending = None /\ running = None /\ irq = None
  /\ want = None /\ held = None
no_publication ==
  /\ init_lock = None /\ cell = None /\ doing = None /\ outcome = None /\ seen = None
no_interrupts ==
  /\ controller = None /\ global = None /\ local = None /\ bound = None /\ sgi = None /\ mailbox = None
  /\ timer = None /\ uart = None /\ active = None /\ token = None /\ events = None /\ work = None
  /\ notified = None /\ sending = None /\ raises = None
no_power ==
  /\ backend = None /\ RSTS = None /\ RSTC = None /\ WDOG = None /\ CLAIMED = None /\ system = None
  /\ step = None /\ operation = None /\ saved = None /\ result = None

no_harness ==
  /\ case = None /\ program = None /\ next_sequence = None /\ qemu = None /\ lines = None /\ faults = None
  /\ emitted = None /\ serial = None /\ drain = None /\ chunk = None /\ log = None /\ channel = None
  /\ sender = None /\ receiver = None /\ runner = None /\ execution = None /\ failure = None /\ status = None

Init ==
  \/ unit = "startup" /\ S!Init /\ no_locks /\ no_publication /\ no_interrupts /\ no_power /\ no_harness
  \/ /\ unit = "locks" /\ L!Init /\ no_startup /\ published = None /\ late = None
     /\ no_publication /\ no_interrupts /\ no_power /\ no_harness
  \/ /\ unit = "publication" /\ P!Init /\ no_startup /\ pc = None /\ late = None
     /\ no_locks /\ no_interrupts /\ no_power /\ no_harness
  \/ /\ unit = "interrupts" /\ I!Init /\ no_startup /\ published = None /\ late = None
     /\ no_locks /\ no_publication /\ no_power /\ no_harness
  \/ /\ unit = "power" /\ W!Init /\ no_startup /\ published = None /\ pc = None /\ late = None
     /\ no_locks /\ no_publication /\ no_interrupts /\ no_harness
  \/ /\ unit = "harness" /\ H!Init /\ no_startup /\ published = None /\ pc = None
     /\ no_locks /\ no_publication /\ no_interrupts /\ no_power

rest_s == UNCHANGED <<unit, locks, publication, interrupts, power, harness>>
rest_l == UNCHANGED <<unit, startup, published, late, publication, interrupts, power, harness>>
rest_p == UNCHANGED <<unit, startup, pc, late, locks, interrupts, power, harness>>
rest_i == UNCHANGED <<unit, startup, published, late, locks, publication, power, harness>>
rest_w == UNCHANGED <<unit, startup, published, pc, late, locks, publication, interrupts, harness>>
rest_h == UNCHANGED <<unit, startup, published, pc, locks, publication, interrupts, power>>

Cpu0 == unit = "startup" /\ S!Cpu0 /\ rest_s
DeadlinePasses == unit = "startup" /\ S!DeadlinePasses /\ rest_s
Setup == unit = "interrupts" /\ I!Setup /\ rest_i
SendIpi(k) == unit = "interrupts" /\ I!SendIpi(k) /\ rest_i
Handle(k) == unit = "interrupts" /\ I!Handle(k) /\ rest_i
Taken(k) == unit = "interrupts" /\ I!Taken(k) /\ rest_i
Drain == unit = "harness" /\ H!Drain /\ rest_h
Runner == unit = "harness" /\ H!Runner /\ rest_h
TimeoutPasses == unit = "harness" /\ H!DeadlinePasses /\ rest_h

Next ==
  \/ unit = "startup" /\ S!Next /\ rest_s
  \/ unit = "locks" /\ L!Next /\ rest_l
  \/ unit = "publication" /\ P!Next /\ rest_p
  \/ unit = "interrupts" /\ I!Next /\ rest_i
  \/ unit = "power" /\ W!Next /\ rest_w
  \/ unit = "harness" /\ H!Next /\ rest_h

\* The fairness of the components.
FairSpec ==
  /\ Init /\ [][Next]_vars
  /\ WF_vars(Cpu0) /\ WF_vars(DeadlinePasses) /\ WF_vars(Setup)
  /\ WF_vars(Drain) /\ WF_vars(Runner) /\ WF_vars(TimeoutPasses)
  /\ \A k \in Cores : WF_vars(SendIpi(k)) /\ WF_vars(Handle(k)) /\ WF_vars(Taken(k))

----------------------------------------------------------------------------
(* The components' properties.                                             *)

\* Startup: a CPU that asks who it is gets the slot the topology gives it, its own stack
\* and interrupt target, and CPU0 enters its first thread only with every CPU online and
\* verified.
StartsWhole == unit = "startup" => S!IdentityIsExact /\ S!EntersComplete
\* Interrupts: the scheduler's coalescing bit always has an interrupt on its way, every
\* line falls and all work is taken once the environment is quiet.
InterruptsAreServed ==
  /\ [](unit = "interrupts" => I!NotifiedIsPending)
  /\ <>[](unit = "interrupts" => I!AllServed)
\* Power: the system goes down the way a waiting caller asked for, and a failed request
\* leaves no reset armed.
EndsAsAsked == unit = "power" => W!EndsAsAsked /\ W!NoLatentReset
\* TestHarness: a test reported as passed produced every record of its plan, in order;
\* one reported as failed had a guest that misbehaved or was overtaken by QEMU's exit;
\* and the log of a finished test holds everything the guest wrote.
VerdictIsTrue == unit = "harness" => H!PassedIsEarned /\ H!FailedIsTrue /\ H!LogIsComplete
\* Startup, TestHarness: CPU0 runs or panics whatever the other CPUs do, and every test
\* ends in a report whatever the guest does.
AllEnd == <>(unit = "startup" => S!BootEnded) /\ <>(unit = "harness" => H!Reported)
=============================================================================
