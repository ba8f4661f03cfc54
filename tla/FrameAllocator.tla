-------------------------- MODULE FrameAllocator --------------------------
(***************************************************************************)
(* The physical frame allocator: a singly linked list of the free frames,  *)
(* sorted by address, whose links live in the free frames themselves.  The *)
(* operators take and return the allocator, fa = [head, next, count].      *)
(* Frames are numbered, so that an address is a frame number times         *)
(* PAGE_SIZE.                                                              *)
(***************************************************************************)
EXTENDS Integers, Sequences, SequencesExt, Functions

CONSTANTS
  Frame,       \* the frame numbers
  None

new == [head |-> None, next |-> [f \in Frame |-> None], count |-> 0]

\* The list, followed from its head.
nodes(fa) ==
  LET at[k \in 1..Cardinality(Frame)] ==
        IF k = 1 THEN fa.head
        ELSE IF at[k - 1] = None THEN None ELSE fa.next[at[k - 1]]
  IN SelectSeq([k \in 1..Cardinality(Frame) |-> at[k]], LAMBDA f : f # None)

\* The walk that stops at the first node that is not below frame.
seek(fa, frame) ==
  LET below == SelectInSeq(nodes(fa), LAMBDA f : f >= frame)
      before == IF below = 0 THEN Len(nodes(fa)) ELSE below - 1
  IN [prev |-> IF before = 0 THEN None ELSE nodes(fa)[before],
      current |-> IF below = 0 THEN None ELSE nodes(fa)[below]]

link(fa, prev, frame) ==
  IF prev = None THEN [fa EXCEPT !.head = frame] ELSE [fa EXCEPT !.next[prev] = frame]

insert_frame_sorted(fa, frame) ==
  LET at == seek(fa, frame) IN
  [link([fa EXCEPT !.next[frame] = at.current], at.prev, frame) EXCEPT !.count = @ + 1]

\* Ranges are [start, end] of frame numbers, inserted from the top down.
init_from_ranges(ranges) ==
  LET frames(r) == [k \in 1..(r.end - r.start) |-> r.start + k - 1]
  IN FoldRight(LAMBDA f, fa : insert_frame_sorted(fa, f),
               FlattenSeq([k \in DOMAIN ranges |-> frames(ranges[k])]), new)

alloc_frame(fa) ==
  [frame |-> fa.head,
   fa |-> IF fa.head = None THEN fa
          ELSE [fa EXCEPT !.head = fa.next[fa.head], !.count = @ - 1]]

scan_restarting(acc, frame, frames, align) ==
  LET contiguous == acc.last # None /\ frame = acc.last + 1
      r == IF contiguous THEN acc ELSE [acc EXCEPT !.start = None, !.before = None, !.len = 0]
  IN IF acc.len = frames THEN acc
     ELSE [(IF frame % align = 0 /\ (r.start = None \/ r.len = 1)
            THEN [r EXCEPT !.before = acc.last, !.start = frame, !.len = 1]
            ELSE IF r.start # None THEN [r EXCEPT !.len = @ + 1] ELSE r)
           EXCEPT !.last = frame]
\* One frame of the scan for a run: a gap in the list ends the run, an aligned
\* frame starts one.
scan(acc, frame, frames, align) ==
  LET contiguous == acc.last # None /\ frame = acc.last + 1
      r == IF contiguous THEN acc ELSE [acc EXCEPT !.start = None, !.before = None, !.len = 0]
  IN IF acc.len = frames THEN acc
     ELSE [(IF r.start = None /\ frame % align = 0
            THEN [r EXCEPT !.before = acc.last, !.start = frame, !.len = 1]
            ELSE IF r.start # None THEN [r EXCEPT !.len = @ + 1] ELSE r)
           EXCEPT !.last = frame]

\* The run is cut out of the list between the node before it and its last node.
splice_at_head(fa, found) == [fa EXCEPT !.head = fa.next[found.last]]
splice(fa, found) == link(fa, found.before, fa.next[found.last])

\* An alignment in frames; 0 is one below the page size.
is_power_of_two(n) == \E k \in 0..n : n = 2 ^ k
alloc_contiguous_aligned(fa, frames, align) ==
  LET start == [start |-> None, before |-> None, len |-> 0, last |-> None]
      found == FoldLeft(LAMBDA acc, f : scan(acc, f, frames, align), start, nodes(fa))
  IN IF frames = 0 \/ ~is_power_of_two(align) \/ found.len # frames THEN [run |-> None, fa |-> fa]
     ELSE [run |-> [first |-> found.start, count |-> frames],
           fa |-> [splice(fa, found) EXCEPT !.count = @ - frames]]

\* The links of the range are built from its end, then it is spliced in.
free_contiguous(fa, first, frames) ==
  LET at == seek(fa, first)
      range == first..(first + frames - 1)
      linked == [fa EXCEPT !.next = [f \in Frame |->
                   IF f \notin range THEN @[f]
                   ELSE IF f + 1 \in range THEN f + 1 ELSE at.current]]
  IN [link(linked, at.prev, first) EXCEPT !.count = @ + frames]
==========================================================================
