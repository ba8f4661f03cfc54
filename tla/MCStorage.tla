----------------------------- MODULE MCStorage -----------------------------
(***************************************************************************)
(* Three parts of memory management, checked side by side: a behaviour is  *)
(* one of the frame allocator, of the user address spaces or of the kernel *)
(* tables, as unit says; the variables of the other two stay None.         *)
(***************************************************************************)
EXTENDS Integers, Sequences

CONSTANTS
  MemoryFrame, SpaceFrame, TableFrame, PAGE_SIZE, Entries, MaxRanges, MaxRegions, AddrLimit, HeapFrames, RunLengths, Aligns,
  Levels, Procs, First, StackPages, USER_TEXT_BASE, USER_STACK_TOP, MaxCalls,
  HighBase, Walked, MaxOps, MaxSpare, None, Junk, Reserved

VARIABLES
  unit,
  stage, boot, usable, frames, held, answer, panic,
  free, table, data, procs, pc, build, calls,
  platform, root, spare, op, ops, tlb, walks

range(start, end) == [start |-> start, end |-> end]
reg(s, n, k) == [start |-> s, size |-> n, kind |-> k]
Ram == {reg(0, 12, "Usable"), reg(0, 7, "Usable"), reg(0, 8, "Usable"), reg(3, 9, "Usable"), reg(8, 4, "Usable"), reg(2, 4, "Usable")}
Other == {reg(4, 2, "Reserved"), reg(3, 1, "Reserved"), reg(5, 0, "Reserved"), reg(9, 6, "Usable"), reg(0, 4, "Mmio")}
MCBootMaps == {<<a, b>> : a, b \in Ram \cup Other} \cup {<<a, b, c>> : a, b \in Ram, c \in Other}
Ranges == {range(0, 1), range(7, 9), range(5, 5), range(2, 4), range(1, 11)}
MCImages == {<<a>> : a \in Ranges} \cup {<<a, b>> : a, b \in Ranges}

ph(v, m, flags) ==
  [type |-> "PT_LOAD", vaddr |-> v, memsz |-> m, filesz |-> 1, offset |-> v, align |-> 2, flags |-> flags]
MCPrograms ==
  {[len |-> 9, headers |-> hs] : hs \in
    {<<ph(0, 2, "rx"), [ph(3, 1, "rw") EXCEPT !.type = "PT_NOTE"]>>,
     <<ph(1, 1, "rx"), ph(3, 2, "rw")>>,
     <<ph(0, 3, "rx"), ph(2, 1, "rw")>>,
     <<ph(0, 1, "rx"), [ph(3, 1, "rw") EXCEPT !.offset = 8]>>,
     <<[ph(4, 0, "rx") EXCEPT !.filesz = 0]>>}}

place(ram, irq, uart) == [ram |-> {ram}, irq |-> {irq}, uart |-> {uart}]
MCPlatforms == {place(0, 1, 3), place(0, 2, 3), place(2, 0, 3)}
MCRegions == {[va |-> 0, blocks |-> 3], [va |-> 2, blocks |-> 1]}

M == INSTANCE Memory WITH Frame <- MemoryFrame, BootMaps <- MCBootMaps, Images <- MCImages
S == INSTANCE AddressSpaces WITH Frame <- SpaceFrame, Programs <- MCPrograms
T == INSTANCE KernelTables WITH Frame <- TableFrame, Platforms <- MCPlatforms, Regions <- MCRegions

spaceOnly == <<data, procs, pc, build, calls>>
tableOnly == <<platform, root, spare, op, ops, tlb, walks>>
shared == <<free, table>>
frameOnly == <<stage, boot, usable, frames, held, answer, panic>>
vars == <<unit, frameOnly, shared, spaceOnly, tableOnly>>

Init ==
  \/ /\ unit = "frames" /\ M!Init /\ data = None /\ procs = None /\ pc = None /\ build = None /\ calls = None
     /\ free = None /\ table = None
     /\ platform = None /\ root = None /\ spare = None /\ op = None /\ ops = None /\ tlb = None /\ walks = None
  \/ /\ unit = "spaces" /\ S!Init
     /\ stage = None /\ boot = None /\ usable = None /\ frames = None /\ held = None /\ answer = None /\ panic = None
     /\ platform = None /\ root = None /\ spare = None /\ op = None /\ ops = None /\ tlb = None /\ walks = None
  \/ /\ unit = "tables" /\ T!Init /\ data = None /\ procs = None /\ pc = None /\ build = None /\ calls = None
     /\ stage = None /\ boot = None /\ usable = None /\ frames = None /\ held = None /\ answer = None /\ panic = None

Next ==
  \/ unit = "frames" /\ M!Next /\ UNCHANGED <<unit, shared, spaceOnly, tableOnly>>
  \/ unit = "spaces" /\ S!Next /\ UNCHANGED <<unit, frameOnly, tableOnly>>
  \/ unit = "tables" /\ T!Next /\ UNCHANGED <<unit, frameOnly, spaceOnly>>

Spec == Init /\ [][Next]_vars

\* Memory: the usable frames of every boot map are the whole frames of RAM that touch
\* nothing reserved, the free list is sorted and holds exactly those nobody owns, and
\* what was allocated can be freed without a panic.
MemoryIsExact == unit = "frames" => M!MapIsExact /\ M!FreeListIsExact /\ M!NoPanic
\* Memory: the free list implements Frames.
ImplementsFrames == [][unit = "frames" /\ stage = "run" => M!FrameStep]_<<frames, answer>>
\* AddressSpaces: every frame is free, or owned once, by what can give it back.
FramesConserved == unit = "spaces" => S!FramesConserved
\* AddressSpaces: a published image holds its program and zeroes, and nobody's data.
ImageIsExact == unit = "spaces" => S!ImageIsExact
\* KernelTables: no CPU can walk into a free frame, no table frame is lost when a map
\* runs out of frames, nobody keeps a stale or second translation after a call, and RAM
\* and devices are mapped as what they are.
TablesAreSound ==
  unit = "tables" =>
    T!NoWalkIntoFree /\ T!TablesConserved /\ T!TranslationsCurrent /\ T!DirectMapComplete
\* KernelTables: a call changes the translations as it promises, or not at all.
CallIsAtomic ==
  [][unit = "tables" /\ op # None /\ op' = None => T!mapping' = [va \in T!Va |-> T!promised(va)]]_vars
==========================================================================
