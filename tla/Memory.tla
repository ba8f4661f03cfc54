------------------------------ MODULE Memory ------------------------------
(***************************************************************************)
(* Physical memory from boot on: memory::init turns the regions of the     *)
(* device tree and the reserved images into ranges of usable frames, gives *)
(* them to the frame allocator and takes the kernel heap from it; then the *)
(* kernel allocates and frees frames and runs of frames, every call under  *)
(* the allocator's lock.                                                   *)
(***************************************************************************)
EXTENDS FrameAllocator, FiniteSets

CONSTANTS
  PAGE_SIZE,
  AddrLimit,        \* usize::MAX, small
  MaxRanges,        \* MAX_RAM_RANGES, MAX_RESERVED_RANGES, MAX_USABLE_RANGES
  MaxRegions,       \* MAX_PHYS_REGIONS
  HeapFrames,       \* KERNEL_HEAP_BOOTSTRAP_SIZE / PAGE_SIZE
  BootMaps,         \* the boot memory maps: sequences of [start, size, kind]
  Images,           \* the reserved ranges of kernel image, boot stack, DTB, initramfs
  RunLengths, Aligns \* what callers ask for

VARIABLES
  stage,         \* "boot", "mapped", "run" or "failed"
  boot,          \* the boot memory map and the images
  usable,        \* MEMORY_METADATA.usable_ranges
  frames,        \* the allocator
  held,          \* history: the runs that callers own
  answer,        \* the last allocation: [run, count, align], or None
  panic

vars == <<stage, boot, usable, frames, held, answer, panic>>

range(start, end) == [start |-> start, end |-> end]
Fail == None
failed(x) == x = Fail
MaxOf(a, b) == IF a > b THEN a ELSE b
MinOf(a, b) == IF a < b THEN a ELSE b

----------------------------------------------------------------------------
(* The memory map.                                                         *)

\* push_range: a full array is TooManyRanges.
push_range(list, r) ==
  IF failed(list) \/ Len(list) = MaxRanges THEN Fail ELSE Append(list, r)

\* collect_boot_ranges with phys_range_from_u64: empty regions and devices are
\* skipped, a region that wraps is refused.
collect(regions, kind) ==
  FoldLeft(LAMBDA list, r :
             IF r.size = 0 \/ failed(list) THEN list
             ELSE IF r.start + r.size > AddrLimit THEN Fail
             ELSE IF r.kind # kind THEN list ELSE push_range(list, range(r.start, r.start + r.size)),
           <<>>, regions)

\* sort_ranges, an insertion sort.
sort_ranges(list) ==
  FoldLeft(LAMBDA acc, r :
             LET above == SelectInSeq(acc, LAMBDA x : r.start < x.start)
             IN IF above = 0 THEN Append(acc, r) ELSE InsertAt(acc, above, r),
           <<>>, list)

\* merge_ranges: overlapping or touching ranges become one.
merge_ranges(list) ==
  FoldLeft(LAMBDA acc, r :
             IF acc = <<>> THEN <<r>>
             ELSE LET l == Last(acc) IN
                  IF (l.start < r.end /\ r.start < l.end) \/ l.end = r.start
                  THEN Front(acc) \o <<range(l.start, MaxOf(l.end, r.end))>>
                  ELSE Append(acc, r),
           <<>>, list)

clipped_to(r, outer) == range(MaxOf(r.start, outer.start), MinOf(r.end, outer.end))

align_up(value) ==
  IF value + PAGE_SIZE - 1 > AddrLimit THEN Fail
  ELSE ((value + PAGE_SIZE - 1) \div PAGE_SIZE) * PAGE_SIZE
align_down(value) == (value \div PAGE_SIZE) * PAGE_SIZE

\* push_usable_frame_range: only whole frames, joined to the range before.
push_usable_frame_range(list, r) ==
  LET start == align_up(r.start)
      end == align_down(r.end)
  IN IF failed(list) \/ failed(start) THEN Fail
     ELSE IF start >= end THEN list
     ELSE IF list # <<>> /\ Last(list).end >= start
     THEN Front(list) \o <<range(Last(list).start, MaxOf(Last(list).end, end))>>
     ELSE push_range(list, range(start, end))

\* push_phys_region: joined to a region of the same kind before it.
push_phys_region(list, r, kind) ==
  IF failed(list) THEN Fail
  ELSE IF list # <<>> /\ Last(list).kind = kind /\ Last(list).end >= r.start
  THEN [list EXCEPT ![Len(list)].end = MaxOf(@, r.end)]
  ELSE IF Len(list) = MaxRegions THEN Fail
  ELSE Append(list, [start |-> r.start, end |-> r.end, kind |-> kind])

\* build_memory_map, one range of RAM: the gaps between the reserved ranges.
push_gap(acc, end) ==
  IF acc.cursor >= end THEN acc
  ELSE [acc EXCEPT !.regions = push_phys_region(@, range(acc.cursor, end), "Usable"),
                   !.list = push_usable_frame_range(@, range(acc.cursor, end))]
usable_of(map, ram, reserved) ==
  LET step(acc, r) ==
        LET clipped == clipped_to(r, ram)
            gap == push_gap(acc, clipped.start)
        IN IF clipped.start >= clipped.end THEN acc
           ELSE [gap EXCEPT !.regions = push_phys_region(@, clipped, "Reserved"),
                            !.cursor = MaxOf(@, clipped.end)]
  IN push_gap(FoldLeft(step, [map EXCEPT !.cursor = ram.start], reserved), ram.end)

\* memory::init up to the allocator.
memory_map(regions, images) ==
  LET ram == collect(regions, "Usable")
      dtb == collect(regions, "Reserved")
      reserved == IF failed(dtb) THEN Fail ELSE FoldLeft(push_range, dtb, images)
  IN IF failed(ram) \/ failed(reserved) THEN Fail
     ELSE LET holes == merge_ranges(sort_ranges(reserved))
              map == FoldLeft(LAMBDA acc, r : usable_of(acc, r, holes),
                              [cursor |-> 0, list |-> <<>>, regions |-> <<>>], sort_ranges(ram))
              list == map.list
          IN IF failed(map.regions) \/ failed(list) \/ list = <<>> THEN Fail
             ELSE [k \in DOMAIN list |-> range(list[k].start \div PAGE_SIZE, list[k].end \div PAGE_SIZE)]

----------------------------------------------------------------------------
(* Boot.                                                                   *)

Init ==
  /\ stage = "boot" /\ boot \in [regions : BootMaps, images : Images]
  /\ usable = <<>> /\ frames = new /\ held = {} /\ answer = None /\ panic = FALSE

MapMemory ==
  LET list == memory_map(boot.regions, boot.images) IN
  /\ stage = "boot"
  /\ IF failed(list) THEN stage' = "failed" /\ usable' = usable
     ELSE stage' = "mapped" /\ usable' = list
  /\ UNCHANGED <<boot, frames, held, answer, panic>>

frames_of(runs) == UNION {r.first..(r.first + r.count - 1) : r \in runs}
\* The owner of a frame overwrites the link that was in it.
overwritten(fa, runs) ==
  [fa EXCEPT !.next = [f \in Frame |-> IF f \in frames_of(runs) THEN None ELSE @[f]]]

\* run_allocator_self_check: three frames out, and back in reverse.
self_check(fa) ==
  LET a == alloc_frame(fa)
      b == alloc_frame(a.fa)
      c == alloc_frame(b.fa)
      put(f, x) == free_contiguous(f, x, 1)
  IN IF None \in {a.frame, b.frame, c.frame} THEN Fail
     ELSE put(put(put(c.fa, c.frame), b.frame), a.frame)

\* The rest of memory::init: the allocator, the heap and its publication.
InitAllocator ==
  LET fa == init_from_ranges(usable)
      heap == alloc_contiguous_aligned(fa, HeapFrames, 1)
      checked == self_check(heap.fa)
  IN /\ stage = "mapped"
     /\ IF heap.run = None \/ failed(checked)
        THEN stage' = "failed" /\ UNCHANGED <<frames, held, usable>>
        ELSE stage' = "run" /\ held' = {heap.run} /\ frames' = overwritten(checked, held') /\ usable' = usable
     /\ boot' = [regions |-> <<>>, images |-> <<>>]
     /\ UNCHANGED <<answer, panic>>


----------------------------------------------------------------------------
(* The allocator's callers.                                                *)

AllocFrame ==
  LET a == alloc_frame(frames) IN
  /\ stage = "run"
  /\ answer' = [run |-> IF a.frame = None THEN None ELSE [first |-> a.frame, count |-> 1],
                count |-> 1, align |-> 1]
  /\ held' = held \cup ({answer'.run} \ {None})
  /\ frames' = overwritten(a.fa, held')
  /\ UNCHANGED <<stage, boot, usable, panic>>

AllocContiguousFrames(count, align) ==
  LET a == alloc_contiguous_aligned(frames, count, align) IN
  /\ stage = "run"
  /\ answer' = [run |-> a.run, count |-> count, align |-> align]
  /\ held' = held \cup ({a.run} \ {None})
  /\ frames' = overwritten(a.fa, held')
  /\ UNCHANGED <<stage, boot, usable, panic>>

\* free_frame and free_contiguous_frames panic on a range that is not inside one
\* usable range.
is_valid_usable_frame_range(r) ==
  \E k \in DOMAIN usable : r.first >= usable[k].start /\ r.first + r.count <= usable[k].end
FreeFrames(r) ==
  /\ stage = "run" /\ r \in held
  /\ panic' = (panic \/ ~is_valid_usable_frame_range(r))
  /\ frames' = free_contiguous(frames, r.first, r.count)
  /\ held' = held \ {r}
  /\ UNCHANGED <<stage, boot, usable, answer>>

Next ==
  \/ MapMemory \/ InitAllocator \/ AllocFrame
  \/ \E count \in RunLengths, align \in Aligns : AllocContiguousFrames(count, align)
  \/ \E r \in held : FreeFrames(r)

Spec == Init /\ [][Next]_vars

----------------------------------------------------------------------------
(* Properties.                                                             *)

listed == UNION {r.start..(r.end - 1) : r \in Range(usable)}

\* The usable frames of a boot memory map are exactly the frames that lie inside a
\* range of RAM and touch nothing reserved, however the ranges overlap, nest or
\* share frames.
bytes(r) == r.start..(r.end - 1)
of_kind(kind) == {range(r.start, r.start + r.size) : r \in {x \in Range(boot.regions) : x.kind = kind}}
MapIsExact ==
  stage = "mapped" =>
    LET page(f) == (f * PAGE_SIZE)..(f * PAGE_SIZE + PAGE_SIZE - 1)
        reserved == UNION {bytes(r) : r \in of_kind("Reserved") \cup Range(boot.images)}
    IN listed = {f \in Frame : /\ \E r \in of_kind("Usable") : page(f) \subseteq bytes(r)
                               /\ page(f) \cap reserved = {}}

\* The free list is sorted, and holds every usable frame that nobody owns, once;
\* its counter is its length; the heap and the callers own disjoint frames.
FreeListIsExact ==
  stage = "run" =>
    LET list == nodes(frames) IN
    /\ \A i, j \in DOMAIN list : i < j => list[i] < list[j]
    /\ Range(list) = listed \ frames_of(held) /\ frames_of(held) \subseteq listed
    /\ frames.count = Len(list)
    /\ \A r, s \in held : r # s => frames_of({r}) \cap frames_of({s}) = {}

\* Whatever was allocated can be freed: a run never crosses from one usable range
\* into the next, where free_contiguous_frames would panic.
NoPanic == ~panic

\* The list implements the set of frames its callers rely on: the lowest frame, the
\* lowest aligned run, and a refusal only if there is none.
Abstract == INSTANCE Frames WITH free <- Range(nodes(frames)), answer <- IF answer = None THEN None ELSE answer.run
FrameStep ==
  \/ answer' # None /\ Abstract!Alloc(answer'.count, answer'.align)
  \/ \E r \in held : Abstract!Free(r.first, r.count)
ImplementsFrames == [][stage = "run" => FrameStep]_<<frames, answer>>
==========================================================================
