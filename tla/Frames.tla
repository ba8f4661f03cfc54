------------------------------ MODULE Frames ------------------------------
(***************************************************************************)
(* What the frame allocator promises, for its callers to build on: a set   *)
(* of free frames, from which it gives the lowest frame, or the lowest     *)
(* aligned run of frames, and refuses only if there is none or the         *)
(* alignment is not one.                                                   *)
(***************************************************************************)
EXTENDS Integers, FiniteSets, FiniteSetsExt

CONSTANTS Frame, None      \* Frame is a set of frame numbers

VARIABLES
  free,        \* the free frames
  answer       \* the last answer: a run of frames [first, count], or None

run(first, count) == first..(first + count - 1)
\* An alignment is a power of two of frames.
valid_align(align) == \E k \in 0..align : align = 2 ^ k
runs(F, count, align) == {f \in F : f % align = 0 /\ run(f, count) \subseteq F}

\* alloc_frame and alloc_contiguous_aligned.
lowest(F) == Min(F)
lowest_run(F, count, align) ==
  IF ~valid_align(align) \/ runs(F, count, align) = {} THEN None
  ELSE [first |-> Min(runs(F, count, align)), count |-> count]

Alloc(count, align) ==
  /\ answer' = lowest_run(free, count, align)
  /\ free' = IF answer' = None THEN free ELSE free \ run(answer'.first, count)

Free(first, count) ==
  /\ run(first, count) \cap free = {}
  /\ free' = free \cup run(first, count) /\ UNCHANGED answer
==========================================================================
