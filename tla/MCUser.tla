------------------------------- MODULE MCUser -------------------------------
(* System calls and their services, each on its own: a behaviour is one of  *)
(* the file system, the copies of user memory, the clock, the wake profiler *)
(* or the traps.                                                            *)
EXTENDS Integers, Sequences, FiniteSets

CONSTANTS
  None,
  Archives, RunArchives, Inputs, Passed, Flags, Counts, PATH_MAX, MAX_USER_COPY, Fd, Procs, First, MaxCalls,
  PAGE_SIZE, USER_TEXT_BASE, USER_STACK_TOP, MaxAddr, COPY_WORD_BYTES, Layouts, Texts, Limits, CopyMax,
  USER_STACK_SIZE, STACK_ALIGN, ArgLists,
  NANOSECONDS_PER_SECOND, MaxCounter, MaxNow, Frequencies, Seconds, Nanoseconds,
  Sleepers, Configs, Deadlines, MaxTime, MaxSleeps, MaxIrqs, idle,
  Users, FirstUser, Idle, MaxSvcs, Roots

VARIABLES
  unit,
  archive, ramfs, files, work, ret, got, calls,
  task, result,
  counter, frequency, before, request, deadline, slept, after,
  profile, window, current, ready, timers, now, irqs, sleeps, asked,
  cpu, ttbr, home, state, waits, saved, outer, root, roots, parent, zombies

ofFiles == <<archive, ramfs, files, work, ret, got, calls>>
ofCopies == <<task, result>>
ofClock == <<counter, frequency, before, request, deadline, slept, after>>
ofProfile == <<profile, window, ready, timers, now, irqs, sleeps, asked>>
ofTraps == <<cpu, ttbr, home, state, waits, saved, outer, root, roots, parent, zombies>>
vars == <<unit, ofFiles, ofCopies, ofClock, ofProfile, current, ofTraps>>

F == INSTANCE Files
U == INSTANCE UserCopy WITH MAX_USER_COPY <- CopyMax
K == INSTANCE Clock
R == INSTANCE Profile WITH Threads <- Sleepers, MaxNow <- MaxTime
T == INSTANCE Traps WITH
  CPUs <- {0, 1}, Boot <- 0, Threads <- Users, First <- FirstUser, MaxCalls <- MaxSvcs,
  Calls <- {"simple", "sleep", "read", "fork", "exec", "exit", "waitpid"}

noFiles ==
  archive = None /\ ramfs = None /\ files = None /\ work = None /\ ret = None /\ got = None /\ calls = None
noCopies == task = None /\ result = None
noClock ==
  /\ counter = None /\ frequency = None /\ before = None /\ request = None /\ deadline = None /\ slept = None
  /\ after = None
noProfile ==
  /\ profile = None /\ window = None /\ ready = None /\ timers = None /\ now = None /\ irqs = None
  /\ sleeps = None /\ asked = None

noTraps ==
  /\ cpu = None /\ ttbr = None /\ home = None /\ state = None /\ waits = None /\ saved = None /\ outer = None
  /\ root = None /\ roots = None /\ parent = None /\ zombies = None

Init ==
  \/ unit = "files" /\ F!Init /\ noCopies /\ noClock /\ noProfile /\ current = None /\ noTraps
  \/ unit = "copies" /\ U!Init /\ noFiles /\ noClock /\ noProfile /\ current = None /\ noTraps
  \/ unit = "clock" /\ K!Init /\ noFiles /\ noCopies /\ noProfile /\ current = None /\ noTraps
  \/ unit = "profile" /\ R!Init /\ noFiles /\ noCopies /\ noClock /\ noTraps
  \/ unit = "traps" /\ T!Init /\ noFiles /\ noCopies /\ noClock /\ noProfile

Next ==
  /\ UNCHANGED unit
  /\ \/ unit = "files" /\ F!Next /\ UNCHANGED <<ofCopies, ofClock, ofProfile, current, ofTraps>>
     \/ unit = "copies" /\ U!Next /\ UNCHANGED <<ofFiles, ofClock, ofProfile, current, ofTraps>>
     \/ unit = "clock" /\ K!Next /\ UNCHANGED <<ofFiles, ofCopies, ofProfile, current, ofTraps>>
     \/ unit = "profile" /\ R!Next /\ UNCHANGED <<ofFiles, ofCopies, ofClock, ofTraps>>
     \/ unit = "traps" /\ T!Next /\ UNCHANGED <<ofFiles, ofCopies, ofClock, ofProfile>>
Spec == Init /\ [][Next]_vars

----------------------------------------------------------------------------
(* The components' properties.                                             *)

\* Files: exactly the sound archives become a tree, a path resolves only through
\* directories that exist and its canonical form leads to the same node, and the reads of
\* a descriptor return its content without gap or repetition.
FilesAreFaithful == unit = "files" => F!IndexIsTree /\ F!ResolvesStepByStep /\ F!ReadsInOrder
\* UserCopy: a copy happens exactly if the whole range may be accessed and touches each
\* byte once, a string is returned exactly if it ends within the limit and is readable up
\* to its NUL, and the stack exec builds leads the program to its arguments.
CopiesAreExact == unit = "copies" => U!CopyIsExact /\ U!StringIsExact /\ U!ExecStackIsExact
\* Clock: a sleep lasts as long as was asked and not a count longer, the clock never goes
\* back nor jumps further than clock_getres reports, and a quantum is not cut short.
TimeIsExact ==
  unit = "clock" =>
    K!SleepIsLongEnough /\ K!DeadlineIsExact /\ K!ResolutionIsHonest /\ K!QuantumIsLongEnough
\* Profile: every counter value of a record was taken for that record's sleep, and the
\* header of a session accounts for every absolute sleep of its owner.
ProfileIsExact == unit = "profile" => R!RecordIsOneWait /\ R!AccountingIsExact
\* Traps: each user thread sees only its own instructions and the results of its own
\* calls, under its own root and kernel stack; no destroyed root stays installed.
ThreadsSeeThemselves == [][unit = "traps" => T!alone /\ T!OwnRoot']_vars
\* Files, Profile: a call that reports an error leaves descriptors, offsets and directory
\* alone, and a stopped profiling session does not change until its owner acts.
StateIsKept == [][(unit = "files" => F!no_effect) /\ (unit = "profile" => R!frozen_kept)]_vars

----------------------------------------------------------------------------
(* The instance.                                                           *)

entry(name, type) == [name |-> name, type |-> type, nlink |-> 1, data |-> IF type = "file" THEN <<1, 2>> ELSE <<>>]
MCEntries == {entry(<<1>>, "file"), entry(<<2>>, "dir"), entry(<<2>>, "file"), entry(<<2, 3>>, "file"),
              entry(<<2, 1>>, "dir"), entry(<<>>, "dir"), entry(<<2, -2>>, "dir"), entry(<<3>>, "link"),
              [entry(<<3>>, "file") EXCEPT !.nlink = 2]}
MCRunArchives == {<<entry(<<2, 3>>, "file"), entry(<<1>>, "file"), entry(<<2, 1>>, "dir")>>}
MCArchives == UNION {[1..n -> MCEntries] : n \in 0..3}
MCInputs == {<<0>>, <<1>>, <<0, 2>>, <<2, 0>>, <<2, 1, -2>>, <<0, 1, -2, 2>>, <<3, -2, 2>>, <<-2, 2, 3>>,
             <<0, 2, 3, 0>>, <<-1>>, <<0, 0>>}
MCPassed == {<<-2, 2, 3>>, <<0, 2>>, <<0, 1, -2, 2>>}
MCFlags == {{}, {"O_DIRECTORY"}, {"O_CREAT"}}

hole(p, perm) == [q \in 0..(MaxAddr \div PAGE_SIZE) |-> IF q = p THEN perm ELSE "rw"]
MCLayouts == {hole(p, perm) : p \in 1..5, perm \in {"none", "kernel", "r", "rw"}}
text(n) == [a \in 0..(MaxAddr + PAGE_SIZE) |-> IF a = n THEN 0 ELSE 1]
MCTexts == {text(n) : n \in {10, 15, 16, 23, 24, 39, MaxAddr}}
MCArgLists == UNION {[1..n -> {<<>>, <<1>>, <<1, 2>>, <<2, 2, 1, 1>>}] : n \in 0..2}

MCSeconds == {-1, 0, 1, 3}

\* Every phase, with room for two records; or the entry and the selection alone, with
\* room for one.
MCConfigs == {[selected |-> 0..13, capacity |-> 2], [selected |-> {0, 9}, capacity |-> 1]}

CONSTANTS i0, i1
MCIdle == [c \in {0, 1} |-> IF c = 0 THEN i0 ELSE i1]
=============================================================================
