---------------------------- MODULE TestHarness ----------------------------
(***************************************************************************)
(* A test of the kernel under QEMU: the guest writes GTRT/1 records to its *)
(* serial line, a drain thread copies them to a log and through a bounded  *)
(* channel to the runner, which follows the plan of the case, gives up at  *)
(* its deadline, kills QEMU and validates the whole log again.  The guest  *)
(* may fail, abort, hang, lose or garble records, or die, at any time.     *)
(***************************************************************************)
EXTENDS Integers, Sequences, FiniteSets, SequencesExt, FiniteSetsExt, Functions

CONSTANTS
  SERIAL_CHANNEL_CAPACITY,
  MaxFaults,     \* bound: how often the guest misbehaves
  None

VARIABLES
  case,
  program, next_sequence, qemu, lines,   \* the guest: what it will do, its counters, QEMU's status, unread input
  faults, emitted,                       \* ghosts: misbehaviours, and all that was written to the serial line
  serial,                                \* bytes in the pipe, by tokens
  drain, chunk, log, channel, sender, receiver,   \* the drain thread, its log and the two ends of the channel
  runner, execution, late, failure, status        \* the runner

guest == <<program, next_sequence, qemu, lines, faults, emitted>>
pump == <<drain, chunk, log, channel, sender>>
vars == <<case, guest, serial, pump, receiver, runner, execution, late, failure, status>>

----------------------------------------------------------------------------
(* Cases and records.                                                      *)

Producers == {"kernel", "init"}
suite == "suite"
Subjects == {suite, "a", "b", "power"}

rec(p, e, s, d) == [producer |-> p, event |-> e, subject |-> s, detail |-> d]
emit(r) == [do |-> "emit", record |-> r]
read == [do |-> "read"]
case_of(p, s) == <<emit(rec(p, "CASE_START", s, None)), emit(rec(p, "PASS", s, None))>>
challenge(p, s) == <<read, emit(rec(p, "CASE_START", s, None)), emit(rec(p, "PASS", s, "nonce"))>>
terminal(operation) ==
  <<read, emit(rec("init", "CASE_START", "power", None)), emit(rec("init", "TERMINAL", "power", operation))>>
ready(p) == emit(rec(p, "READY", suite, None))

\* For each way to end, what the guest does when all is well.
Script(termination) ==
  CASE termination = "protocol" ->
         <<ready("kernel")>> \o case_of("kernel", "a") \o challenge("init", "b")
         \o <<emit(rec("kernel", "DONE", suite, "PASS"))>>
    [] termination = "poweroff" -> <<ready("init")>> \o terminal("POWER_OFF") \o <<[do |-> "off"]>>
    [] termination = "reboot" -> <<ready("init")>> \o terminal("RESTART") \o <<[do |-> "restart"], ready("init"), read>>

\* The plan of the runner: the steps of the case, and its end.  A SendLine answers a
\* read, an Expect waits for a record.
Plan(termination) ==
  LET expects == SelectSeq(Script(termination), LAMBDA x : x.do # "restart")
  IN IF termination = "reboot" THEN Front(expects) ELSE expects

supervisor == IF case = "protocol" THEN "kernel" ELSE "init"

----------------------------------------------------------------------------
(* The host's parser and protocol.                                         *)

\* A record cut off before its end, and what the parser makes of it.
partial == [producer |-> "kernel", sequence |-> 0, event |-> "partial", subject |-> suite, detail |-> None]
malformed == [partial EXCEPT !.event = "malformed"]

Protocol ==
  [next |-> [p \in Producers |-> 1], cases |-> [k \in Producers \X Subjects |-> "none"],
   ready |-> FALSE, terminal |-> FALSE, operation |-> None, error |-> FALSE]

accepts(p, r) ==
  LET state == p.cases[<<r.producer, r.subject>>]
      supervises == r.producer = supervisor /\ r.subject = suite
  IN /\ ~p.terminal /\ r.sequence = p.next[r.producer]
     /\ CASE r.event = "READY" -> supervises /\ r.detail = None /\ ~p.ready
          [] r.event = "DONE" -> p.ready /\ supervises /\ r.detail = "PASS" /\ Range(p.cases) \subseteq {"none", "passed"}
          [] r.event = "CASE_START" -> p.ready /\ r.detail = None /\ state = "none"
          [] r.event = "PASS" -> p.ready /\ state = "started"
          [] r.event = "TERMINAL" ->
               p.ready /\ r.producer = supervisor /\ r.detail \in {"RESTART", "POWER_OFF"}
               /\ state = "started" /\ p.operation = None
          [] OTHER -> FALSE

observe(p, r) ==
  IF p.error \/ ~accepts(p, r) THEN [p EXCEPT !.error = TRUE]
  ELSE LET q == [p EXCEPT !.next[r.producer] = @ + 1]
           k == <<r.producer, r.subject>>
       IN CASE r.event = "READY" -> [q EXCEPT !.ready = TRUE]
            [] r.event = "DONE" -> [q EXCEPT !.terminal = TRUE]
            [] r.event = "CASE_START" -> [q EXCEPT !.cases[k] = "started"]
            [] r.event = "PASS" -> [q EXCEPT !.cases[k] = "passed"]
            [] r.event = "TERMINAL" -> [q EXCEPT !.cases[k] = "terminal", !.operation = r.detail]

\* A READY that starts counting anew is the reboot's.
never_fresh(x, r) == FALSE
fresh_epoch(x, r) ==
  /\ case = "reboot" /\ x.epochs = 1 /\ x.protocol.ready
  /\ r.event = "READY" /\ r.sequence = 1 /\ r.producer = supervisor /\ r.subject = suite

observe_record(x, r) ==
  LET y == IF ~fresh_epoch(x, r) THEN x
           ELSE [x EXCEPT !.epochs = 2, !.protocol = IF @.operation = "RESTART" THEN Protocol ELSE [@ EXCEPT !.error = TRUE]]
  IN [y EXCEPT !.protocol = observe(@, r), !.pending = Append(@, r)]

\* StreamParser::push: a separator inside a record is an error, and starts a record.
push(x, token) ==
  LET y == IF x.collecting THEN observe_record(x, malformed) ELSE x
  IN IF token = partial THEN [y EXCEPT !.collecting = TRUE] ELSE observe_record([y EXCEPT !.collecting = FALSE], token)

Execution == [protocol |-> Protocol, epochs |-> 1, collecting |-> FALSE, pending |-> <<>>]
observe_chunk(x, tokens) == FoldLeft(push, x, tokens)

validate_complete_serial ==
  LET x == observe_chunk(Execution, log) IN
  /\ ~x.protocol.error /\ ~x.collecting /\ x.protocol.ready
  /\ CASE case = "protocol" -> x.protocol.terminal
       [] case = "poweroff" -> x.protocol.operation = "POWER_OFF"
       [] case = "reboot" -> x.epochs = 2

----------------------------------------------------------------------------
(* The guest.                                                              *)

Init ==
  /\ case \in {"protocol", "poweroff", "reboot"}
  /\ program = Script(case) /\ next_sequence = [p \in Producers |-> 1] /\ qemu = "running" /\ lines = 0
  /\ faults = 0 /\ emitted = <<>> /\ serial = <<>>
  /\ drain = "read" /\ chunk = <<>> /\ log = <<>> /\ channel = <<>> /\ sender = TRUE /\ receiver = TRUE
  /\ runner = 1 /\ execution = Execution /\ late = FALSE /\ failure = None /\ status = None

host == <<case, pump, receiver, runner, execution, late, failure, status>>
write(token) == serial' = Append(serial, token) /\ emitted' = Append(emitted, token)
numbered(r) == [producer |-> r.producer, sequence |-> next_sequence[r.producer], event |-> r.event,
                subject |-> r.subject, detail |-> r.detail]
counts(p) == next_sequence' = [next_sequence EXCEPT ![p] = @ + 1]
next_is(do) == qemu = "running" /\ program # <<>> /\ Head(program).do = do

Emit ==
  /\ next_is("emit") /\ program' = Tail(program)
  /\ write(numbered(Head(program).record)) /\ counts(Head(program).record.producer)
  /\ UNCHANGED <<host, qemu, lines, faults>>
ReadLine ==
  /\ next_is("read") /\ lines > 0 /\ lines' = lines - 1 /\ program' = Tail(program)
  /\ UNCHANGED <<host, serial, next_sequence, qemu, faults, emitted>>
PowerOff ==
  /\ next_is("off") /\ qemu' = "success" /\ program' = <<>>
  /\ UNCHANGED <<host, serial, next_sequence, lines, faults, emitted>>
Restart ==
  /\ next_is("restart") /\ program' = Tail(program) /\ next_sequence' = [p \in Producers |-> 1]
  /\ UNCHANGED <<host, serial, qemu, lines, faults, emitted>>

\* Misbehaviour: a scenario fails and parks; a fatal path aborts, other CPUs going on
\* or not; a record is lost, left out or cut off; the guest hangs or QEMU dies.
faulty == qemu = "running" /\ faults < MaxFaults /\ faults' = faults + 1 /\ UNCHANGED <<host, lines>>
Fail ==
  /\ faulty /\ next_is("emit") /\ program' = <<>> /\ UNCHANGED qemu
  /\ write(numbered([Head(program).record EXCEPT !.event = "FAIL"])) /\ counts(Head(program).record.producer)
Abort(halts) ==
  /\ faulty /\ program' = (IF halts THEN <<>> ELSE program) /\ UNCHANGED qemu
  /\ write(numbered(rec("kernel", "ABORT", suite, "reason"))) /\ counts("kernel")
Lose(counted) ==
  /\ faulty /\ next_is("emit") /\ program' = Tail(program) /\ UNCHANGED <<qemu, serial, emitted>>
  /\ IF counted THEN counts(Head(program).record.producer) ELSE UNCHANGED next_sequence
CutOff ==
  /\ faulty /\ next_is("emit") /\ program' = Tail(program) /\ UNCHANGED qemu
  /\ write(partial) /\ counts(Head(program).record.producer)
Hang == faulty /\ program # <<>> /\ program' = <<>> /\ UNCHANGED <<qemu, serial, emitted, next_sequence>>
Die == faulty /\ qemu' = "crashed" /\ UNCHANGED <<program, serial, emitted, next_sequence>>

Guest ==
  \/ Emit \/ ReadLine \/ PowerOff \/ Restart \/ Fail \/ CutOff \/ Hang \/ Die
  \/ \E halts \in BOOLEAN : Abort(halts)
  \/ \E counted \in BOOLEAN : Lose(counted)

----------------------------------------------------------------------------
(* The drain thread.                                                       *)

rest == <<case, guest, receiver, runner, execution, late, failure, status>>

DrainRead(n) ==
  /\ drain = "read" /\ n \in 1..Len(serial) /\ serial' = SubSeq(serial, n + 1, Len(serial))
  /\ log' = log \o SubSeq(serial, 1, n) /\ chunk' = SubSeq(serial, 1, n)
  /\ drain' = IF sender THEN "send" ELSE "read"
  /\ UNCHANGED <<rest, channel, sender>>
\* The bounded channel blocks its sender.  One without a receiver is given up, and the
\* log goes on.
DrainSend ==
  /\ drain = "send" /\ (receiver => Len(channel) < SERIAL_CHANNEL_CAPACITY)
  /\ IF receiver THEN channel' = Append(channel, chunk) /\ UNCHANGED sender
     ELSE sender' = FALSE /\ UNCHANGED channel
  /\ drain' = "read" /\ chunk' = <<>> /\ UNCHANGED <<rest, serial, log>>
DrainEnd ==
  /\ drain = "read" /\ serial = <<>> /\ qemu # "running"
  /\ drain' = "done" /\ sender' = FALSE /\ UNCHANGED <<rest, serial, chunk, log, channel>>
Drain == (\E n \in 1..Len(serial) : DrainRead(n)) \/ DrainSend \/ DrainEnd

----------------------------------------------------------------------------
(* The runner.                                                             *)

plan == Plan(case)
at_step(do) == runner \in DOMAIN plan /\ plan[runner].do = do
world == <<case, program, next_sequence, qemu, faults, emitted, serial, drain, chunk, log, sender, receiver, status>>
\* Behind the steps come the stages of the end: terminate, drop, join, report.
stage(k) == runner = Len(plan) + k
gives_up(f) == failure' = f /\ runner' = Len(plan) + 1
advances == runner' = runner + 1

SendLine ==
  /\ at_step("read")
  /\ IF late THEN gives_up("timed out") /\ UNCHANGED <<lines, late>>
     ELSE IF qemu # "running" THEN gives_up("failed") /\ UNCHANGED <<lines, late>>
     ELSE lines' = lines + 1 /\ advances /\ late' = FALSE /\ UNCHANGED failure
  /\ UNCHANGED <<world, channel, execution>>

\* wait_for: the oldest record is the expected one or an error.
matches(r, e) == r.producer = e.producer /\ r.event = e.event /\ r.subject = e.subject /\ r.detail = e.detail
Match ==
  /\ at_step("emit") /\ execution.pending # <<>>
  /\ IF ~matches(Head(execution.pending), plan[runner].record) \/ (runner = Len(plan) /\ case = "reboot" /\ execution.epochs # 2)
     THEN gives_up("failed") /\ UNCHANGED <<execution, late>>
     ELSE execution' = [execution EXCEPT !.pending = Tail(@)] /\ advances /\ late' = FALSE /\ UNCHANGED failure
  /\ UNCHANGED <<world, lines, channel>>

\* receive, and receive_allowing_exit while the exit of QEMU is awaited.
armed == execution.protocol.operation = "POWER_OFF"
waiting == (at_step("off") /\ armed /\ qemu = "running") \/ (at_step("emit") /\ execution.pending = <<>>)
Receive ==
  /\ waiting /\ ~late /\ channel # <<>>
  /\ channel' = Tail(channel)
  /\ LET x == observe_chunk(execution, Head(channel)) IN
     /\ execution' = x
     /\ IF x.protocol.error THEN gives_up("failed") ELSE UNCHANGED <<failure, runner>>
  /\ UNCHANGED <<world, lines, late>>
NothingReceived ==
  /\ at_step("emit") /\ execution.pending = <<>> /\ ~late /\ channel = <<>>
  /\ qemu # "running" \/ ~sender
  /\ gives_up("failed") /\ UNCHANGED <<world, lines, channel, execution, late>>
TimeOut ==
  /\ waiting /\ late
  /\ gives_up("timed out") /\ UNCHANGED <<world, lines, channel, execution, late>>
QemuExit ==
  /\ at_step("off")
  /\ IF ~armed THEN gives_up("failed")
     ELSE /\ qemu # "running"
          /\ IF qemu = "success" THEN advances /\ UNCHANGED failure ELSE gives_up("failed")
  /\ UNCHANGED <<world, lines, channel, execution, late>>
DeadlinePasses ==
  /\ runner \in DOMAIN plan /\ ~late /\ late' = TRUE
  /\ UNCHANGED <<world, lines, channel, execution, failure, runner>>

\* The end of run_case: QEMU is killed, perhaps inside a record, and reaped; the
\* receiver is dropped before the drain thread is joined; then the log is validated.
Terminate(inside) ==
  /\ stage(1) /\ advances
  /\ qemu' = IF qemu = "running" THEN "killed" ELSE qemu
  /\ inside => next_is("emit")
  /\ IF inside THEN write(partial) ELSE UNCHANGED <<serial, emitted>>
  /\ UNCHANGED <<case, program, next_sequence, lines, faults, pump, receiver, execution, late, failure, status>>
KeepReceiver ==
  /\ stage(2) /\ advances
  /\ UNCHANGED <<case, guest, serial, pump, receiver, execution, late, failure, status>>
DropReceiver ==
  /\ stage(2) /\ advances /\ receiver' = FALSE /\ channel' = <<>>
  /\ UNCHANGED <<case, guest, serial, drain, chunk, log, sender, execution, late, failure, status>>
JoinAndValidate ==
  /\ stage(3) /\ drain = "done" /\ advances
  /\ status' = IF failure # None THEN failure ELSE IF validate_complete_serial THEN "passed" ELSE "failed"
  /\ UNCHANGED <<case, guest, serial, pump, receiver, execution, late, failure>>

Runner ==
  \/ SendLine \/ Match \/ Receive \/ NothingReceived \/ TimeOut \/ QemuExit \/ DropReceiver \/ JoinAndValidate
  \/ \E inside \in BOOLEAN : Terminate(inside)
Next == Guest \/ Drain \/ Runner \/ DeadlinePasses
\* The host's threads run and time passes; the guest promises nothing.
FairSpec == Init /\ [][Next]_vars /\ WF_vars(Drain) /\ WF_vars(Runner) /\ WF_vars(DeadlinePasses)

----------------------------------------------------------------------------
(* Properties.                                                             *)

bare(r) == rec(r.producer, r.event, r.subject, r.detail)
expected == LET es == SelectSeq(plan, LAMBDA x : x.do = "emit") IN [i \in DOMAIN es |-> es[i].record]

\* A case passes only if the guest wrote every record the case expects, in order, never
\* reported a failure nor left a record unfinished, not even between the last record the
\* runner saw and its own death; and ended the way the case is about.
PassedIsEarned ==
  status = "passed" =>
    /\ IsPrefix(expected, [i \in DOMAIN emitted |-> bare(emitted[i])])
    /\ \A i \in DOMAIN emitted : emitted[i].event \notin {"FAIL", "ABORT", "partial"}
    /\ case = "poweroff" => qemu = "success"

\* A guest that does what its case is about is not failed: it passes or is out of time.
\* Only the exit of QEMU may overtake records that are still in the pipe.
FailedIsTrue == status = "failed" => faults > 0 \/ qemu = "success"

\* The log a developer reads is all that the guest wrote, whether the runner was still
\* listening or not, and QEMU is gone when the result is reported.
LogIsComplete == status # None => log = emitted /\ qemu # "running"

\* Every run is reported, however the guest hangs or floods the channel.
Reported == status # None
=============================================================================
