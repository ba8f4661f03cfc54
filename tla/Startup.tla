------------------------------ MODULE Startup ------------------------------
(***************************************************************************)
(* Bringing up the CPUs: CPU0 reads the topology, registers itself and     *)
(* releases the other CPUs one after the other, waiting for each to enter  *)
(* its scheduler.  A released CPU may be slow, hang, fail its local setup, *)
(* or not be the one that was meant; CPU0 gives up after a deadline, which *)
(* may pass while the CPU is just arriving.  A panic stops only the CPU    *)
(* that panics.                                                            *)
(***************************************************************************)
EXTENDS Integers, Sequences, FiniteSets, SequencesExt, FiniteSetsExt, Functions

CONSTANTS
  Platforms,     \* [nodes, boot, method, generic, releases, bit]: what CPU0 finds
  CAPACITY,      \* KERNEL_CPU_CAPACITY = MAX_BOOT_CPUS
  Hardware,      \* normalized identities of CPUs that exist
  None

VARIABLES
  platform,
  topology,            \* target_ids, CPU0 first
  records, expected,   \* CpuRegistry, under its lock
  REGISTERED_COUNT, EXPECTED_COUNT, STARTUP_FAILED,
  CPU_TARGETS,         \* interrupt target bit of each logical CPU, 0 if unbound
  tpidr,               \* logical index + 1 bound to a CPU, 0 if unbound
  handoff,             \* the runtime root that released CPUs install
  published,           \* the scheduler table and the time queues exist
  online,              \* logical CPUs that entered a scheduler context
  pc0, starting, late, \* CPU0: where it is, whom it starts, whether the deadline passed
  pc, slot             \* other CPUs: where each is, and its bootstrap stack

registry == <<records, expected, REGISTERED_COUNT, EXPECTED_COUNT, CPU_TARGETS, tpidr>>
boot == <<platform, topology, handoff, published>>
vars == <<boot, registry, STARTUP_FAILED, online, pc0, starting, late, pc, slot>>

Logical == 0..(CAPACITY - 1)

----------------------------------------------------------------------------
(* The topology.                                                           *)

\* normalize_mpidr drops the control bits, here the tens.
normalize(raw) == raw % 10

enabled(p) == SelectSeq(p.nodes, LAMBDA n : n.enabled)

\* The /psci node names a known version and a conduit; one CPU does without.  A spin
\* table wants the CPUs in the order of their identities, from the boot CPU.
startable(p, ids, index) ==
  \/ p.method = "psci"
  \/ p.method = "none" /\ Len(ids) = 1
  \/ p.method = "spin-table" /\ index = 1 /\ \A i \in DOMAIN ids : ids[i] = i - 1

\* parse_cpu_topology: the raw identities of the enabled nodes, the boot CPU first, or
\* None for an error.
parse_cpu_topology(p) ==
  LET ids == [i \in DOMAIN enabled(p) |-> enabled(p)[i].raw]
      index == SelectInSeq(ids, LAMBDA raw : normalize(raw) = p.boot)
      distinct == \A i, j \in DOMAIN ids : normalize(ids[i]) = normalize(ids[j]) => i = j
  IN IF ~distinct \/ Len(ids) \notin 1..CAPACITY \/ index = 0 \/ ~startable(p, ids, index) THEN None
     ELSE [ids EXCEPT ![1] = ids[index], ![index] = ids[1]]

expected_hardware_id(i) == IF i < Len(topology) THEN normalize(topology[i + 1]) ELSE None

----------------------------------------------------------------------------
(* The registry.                                                           *)

\* CpuRegistry::register: the new records, or None for an error.
register(h, s) ==
  IF Len(records) = CAPACITY \/ s >= CAPACITY \/ (\E r \in Range(records) : r.hardware = h \/ r.slot = s)
  THEN None ELSE Append(records, [hardware |-> h, slot |-> s, verified |-> FALSE])

\* bind_cpu: on the GIC the interface's bit is not another CPU's and the slot is empty;
\* the Pi, whose mailboxes are numbered like its CPUs, wants the identity.
bind_allowed(h, i) ==
  IF platform.method = "spin-table" THEN h = i
  ELSE (\A j \in Logical \ {i} : CPU_TARGETS[j] # platform.bit[h]) /\ CPU_TARGETS[i] = 0

\* register, then arch_bind_current_cpu_logical_id, which is rolled back if it fails;
\* then the count is published.
RegisterAndBind(h, i) ==
  /\ records' = register(h, i)
  /\ CPU_TARGETS' = [CPU_TARGETS EXCEPT ![i] = platform.bit[h]]
  /\ tpidr' = [tpidr EXCEPT ![h] = i + 1]
  /\ REGISTERED_COUNT' = Len(records')
registers(h, i) == register(h, i) # None /\ bind_allowed(h, i)

\* current_id, with is_registered.
current_id(h) == IF tpidr[h] \in 1..REGISTERED_COUNT THEN tpidr[h] - 1 ELSE None

----------------------------------------------------------------------------
(* CPU0.                                                                   *)

Init ==
  /\ platform \in Platforms /\ topology = None
  /\ records = <<>> /\ expected = 0 /\ REGISTERED_COUNT = 0 /\ EXPECTED_COUNT = 0
  /\ STARTUP_FAILED = FALSE /\ CPU_TARGETS = [i \in Logical |-> 0] /\ tpidr = [h \in Hardware |-> 0]
  /\ handoff = None /\ published = FALSE /\ online = {}
  /\ pc0 = "topology" /\ starting = 0 /\ late = FALSE
  /\ pc = [h \in Hardware |-> "off"] /\ slot = [h \in Hardware |-> None]

others == <<pc, slot, STARTUP_FAILED>>
go(place) == pc0' = place
panic0 == go("panic")

\* init_cpu_topology, rust_entry's comparison with the generic count, and the interrupt
\* state of CPU0, which comes up or not.
InitCpuTopology(ready) ==
  /\ pc0 = "topology"
  /\ topology' = parse_cpu_topology(platform)
  /\ IF topology' = None \/ Len(topology') # platform.generic \/ ~ready THEN panic0 ELSE go("register")
  /\ UNCHANGED <<platform, handoff, published, registry, online, starting, late, others>>

RegisterBootCpu ==
  /\ pc0 = "register"
  /\ IF Len(records) # 0 \/ ~registers(platform.boot, 0)
     THEN panic0 /\ UNCHANGED registry
     ELSE /\ records' = <<[hardware |-> platform.boot, slot |-> 0, verified |-> TRUE]>>
          /\ CPU_TARGETS' = [CPU_TARGETS EXCEPT ![0] = platform.bit[platform.boot]]
          /\ tpidr' = [tpidr EXCEPT ![platform.boot] = 1]
          /\ REGISTERED_COUNT' = 1
          /\ go("configure") /\ UNCHANGED <<expected, EXPECTED_COUNT>>
  /\ UNCHANGED <<boot, online, starting, late, others>>

ConfigureExpectedCount ==
  /\ pc0 = "configure"
  /\ IF platform.generic \notin 1..CAPACITY \/ platform.generic # Len(topology) \/ expected # 0 \/ Len(records) # 1
     THEN panic0 /\ UNCHANGED <<expected, EXPECTED_COUNT>>
     ELSE go("bootstrap") /\ expected' = platform.generic /\ EXPECTED_COUNT' = platform.generic
  /\ UNCHANGED <<records, REGISTERED_COUNT, CPU_TARGETS, tpidr>>
  /\ UNCHANGED <<boot, online, starting, late, others>>

\* kernel_main between the registry and the secondaries: memory, the runtime tables,
\* the file system, sched::bootstrap and time::init_cpu_states; any of them may fail.
Bootstrap(succeeds) ==
  /\ pc0 = "bootstrap" /\ published' = succeeds
  /\ IF succeeds THEN starting' = 1 /\ go("start") ELSE panic0 /\ UNCHANGED starting
  /\ UNCHANGED <<platform, topology, handoff, registry, online, late, others>>

\* PSCI passes the slot to the CPU; a CPU that leaves a spin table takes its own
\* identity for it.
slot_of(h) == IF platform.method = "psci" THEN starting ELSE h

\* arch_start_secondary_cpu: the root is published, then firmware is asked.  A released
\* CPU begins at some later time, or never; a spin table refuses no CPU.
StartSecondaryCpu(accepted) ==
  LET h == platform.releases[normalize(topology[starting + 1])] IN
  /\ accepted \/ platform.method = "psci"
  /\ pc0 = "start" /\ starting < EXPECTED_COUNT
  /\ handoff' = "runtime root"
  /\ IF accepted THEN /\ pc' = [pc EXCEPT ![h] = "released"] /\ slot' = [slot EXCEPT ![h] = slot_of(h)]
                      /\ late' = FALSE /\ go("failed?")
     ELSE panic0 /\ UNCHANGED <<pc, slot, late>>
  /\ UNCHANGED <<platform, topology, published, registry, STARTUP_FAILED, online, starting>>

\* The loop of start_and_wait_scheduler_online_secondaries, one load at a time.
waits == <<boot, registry, online, others>>
CheckFailed ==
  /\ pc0 = "failed?"
  /\ IF STARTUP_FAILED THEN panic0 ELSE go("online?")
  /\ UNCHANGED <<waits, starting, late>>
CheckRegistered ==
  /\ pc0 = "online?"
  /\ IF starting < REGISTERED_COUNT THEN go("start") /\ starting' = starting + 1
     ELSE go("deadline?") /\ UNCHANGED starting
  /\ UNCHANGED <<waits, late>>
CheckOnline ==
  /\ pc0 = "online?"
  /\ IF starting \in online THEN go("start") /\ starting' = starting + 1
     ELSE go("deadline?") /\ UNCHANGED starting
  /\ UNCHANGED <<waits, late>>
CheckDeadline ==
  /\ pc0 = "deadline?"
  /\ IF late THEN panic0 ELSE go("failed?")
  /\ UNCHANGED <<waits, starting, late>>

\* enter_running_thread on CPU0.
EnterRunningThread ==
  /\ pc0 = "start" /\ starting = EXPECTED_COUNT
  /\ go("running") /\ online' = online \cup {0}
  /\ UNCHANGED <<boot, registry, starting, late, others>>

\* uptime_ms reaches the deadline.
DeadlinePasses ==
  /\ pc0 \in {"failed?", "online?", "deadline?"} /\ ~late /\ late' = TRUE
  /\ UNCHANGED <<waits, pc0, starting>>

----------------------------------------------------------------------------
(* A released CPU.                                                         *)

at(h, place) == pc[h] = place /\ UNCHANGED <<slot, boot, pc0, starting, late>>
step(h, to) == pc' = [pc EXCEPT ![h] = to] /\ UNCHANGED STARTUP_FAILED
fails(h) == pc' = [pc EXCEPT ![h] = "panic"] /\ STARTUP_FAILED' = TRUE /\ UNCHANGED <<registry, online>>

\* secondary_rust_entry: the local interrupt state comes up, or the CPU reports
\* failure and parks.
SecondaryEntry(h, ready) ==
  /\ at(h, "released")
  /\ IF ready THEN step(h, "identity") /\ UNCHANGED <<registry, online>> ELSE fails(h)

\* register_secondary_cpu up to its lock.
MatchIdentity(h) ==
  /\ at(h, "identity")
  /\ IF EXPECTED_COUNT # 0 /\ expected_hardware_id(slot[h]) = h
     THEN step(h, "register") /\ UNCHANGED <<registry, online>> ELSE fails(h)

RegisterSecondaryCpu(h) ==
  /\ at(h, "register")
  /\ IF expected # 0 /\ Len(records) < EXPECTED_COUNT /\ Len(records) = slot[h] /\ registers(h, slot[h])
     THEN step(h, "verify") /\ RegisterAndBind(h, slot[h]) /\ UNCHANGED <<expected, EXPECTED_COUNT, online>>
     ELSE fails(h)

VerifyCurrentId(h) ==
  /\ at(h, "verify")
  /\ IF current_id(h) = slot[h]
     THEN /\ step(h, "initialize")
          /\ records' = [records EXCEPT ![slot[h] + 1].verified = TRUE]
          /\ UNCHANGED <<expected, REGISTERED_COUNT, EXPECTED_COUNT, CPU_TARGETS, tpidr, online>>
     ELSE fails(h)

\* kernel_secondary_main's check, and initialize_current_cpu.
InitializeCurrentCpu(h) ==
  /\ at(h, "initialize")
  /\ IF current_id(h) \notin online /\ published
     THEN step(h, "enter") /\ UNCHANGED <<registry, online>> ELSE fails(h)

\* enter_running_thread: the context becomes online.
EnterSecondary(h) ==
  /\ at(h, "enter") /\ step(h, "running")
  /\ online' = online \cup {current_id(h)} /\ UNCHANGED registry

Cpu0 ==
  \/ RegisterBootCpu \/ ConfigureExpectedCount
  \/ \E ok \in BOOLEAN : InitCpuTopology(ok) \/ Bootstrap(ok)
  \/ \E accepted \in BOOLEAN : StartSecondaryCpu(accepted)
  \/ CheckFailed \/ CheckOnline \/ CheckDeadline \/ EnterRunningThread
Secondary(h) ==
  \/ \E ready \in BOOLEAN : SecondaryEntry(h, ready)
  \/ MatchIdentity(h) \/ RegisterSecondaryCpu(h) \/ VerifyCurrentId(h) \/ InitializeCurrentCpu(h) \/ EnterSecondary(h)

Next == Cpu0 \/ DeadlinePasses \/ \E h \in Hardware : Secondary(h)
Spec == Init /\ [][Next]_vars
\* CPU0 runs and time passes; the other CPUs may hang anywhere.
FairSpec == Spec /\ WF_vars(Cpu0) /\ WF_vars(DeadlinePasses)

----------------------------------------------------------------------------
(* Properties.                                                             *)

\* Whoever asks which CPU it is gets the slot the topology gives its hardware, and a
\* notification sent to that slot reaches it and no other CPU; no two CPUs that left
\* firmware share a bootstrap stack.
IdentityIsExact ==
  /\ \A h \in Hardware : current_id(h) # None =>
       LET i == current_id(h) IN
       /\ expected_hardware_id(i) = h
       /\ records[i + 1].hardware = h /\ records[i + 1].slot = i
       /\ \A g \in Hardware : CPU_TARGETS[i] = platform.bit[g] /\ current_id(g) # None => g = h
  /\ \A g, h \in Hardware : slot[g] # None /\ slot[g] = slot[h] => g = h

\* CPU0 enters its first thread only when every CPU of the topology runs a scheduler
\* under a verified identity and none has reported failure, however late or early the
\* others arrive.
EntersComplete ==
  pc0 = "running" =>
    /\ online = 0..(EXPECTED_COUNT - 1) /\ ~STARTUP_FAILED
    /\ Len(records) = Len(topology) /\ \A r \in Range(records) : r.verified
    /\ \A h \in Hardware : pc[h] \in {"off", "running"}

\* A CPU that gave up, or never arrived, stops the boot: CPU0 runs or panics in bounded
\* time whatever the others do.
BootEnded == pc0 \in {"running", "panic"}
=============================================================================
