--------------------------- MODULE AddressSpaces ---------------------------
(***************************************************************************)
(* User address spaces down to the frame: exec, spawn and fork build a     *)
(* staged root, the image's segments and a stack from the frame allocator, *)
(* one allocation at a time and failing at any of them; a committed or     *)
(* abandoned image is taken apart again.  Builders on several CPUs share   *)
(* the frames.  The translation tables have Levels levels of Entries       *)
(* entries (the hardware: four of 512).  When a root may be destroyed is   *)
(* the subject of module Process; here it is how, and what becomes of the  *)
(* frames.                                                                 *)
(***************************************************************************)
EXTENDS Integers, Sequences, FiniteSets, SequencesExt, FiniteSetsExt, Functions

CONSTANTS
  Frame,       \* frame numbers
  Levels, Entries,
  Procs,       \* process slots
  First,       \* the slot of the first process
  Programs,    \* ELF images: [headers, len]
  PAGE_SIZE, USER_TEXT_BASE, USER_STACK_TOP,
  StackPages,
  MaxCalls,    \* bound: calls of exec, spawn and fork
  None, Reserved,
  Junk         \* what a frame holds before its owner writes it

VARIABLES
  free,        \* the free frames
  table,       \* per frame: the entries of a table, or Junk
  data,        \* per frame: which page's bytes it holds, or Junk
  procs,       \* per slot: None, Reserved, or [root, segs, stack]
  pc, build,   \* per slot: the builder's place, and what it holds so far
  calls

mem == <<table, data>>
vars == <<free, table, data, procs, pc, build, calls>>

F == INSTANCE Frames WITH answer <- None

Index == 0..(Entries - 1)
Pages == USER_STACK_TOP \div PAGE_SIZE
index(va, level) == (va \div (Entries ^ (Levels - 1 - level))) % Entries
cleared == [i \in Index |-> None]
stack_area == [va |-> Pages - StackPages, pages |-> StackPages, flags |-> "rw", valid |-> TRUE]

Nothing == [target |-> None, source |-> None, root |-> None, todo |-> <<>>, run |-> None,
            page |-> 0, done |-> <<>>, doomed |-> <<>>]

Init ==
  /\ free = Frame /\ table = [f \in Frame |-> Junk] /\ data = table
  /\ procs = [p \in Procs |-> IF p = First THEN Reserved ELSE None]
  /\ pc = [p \in Procs |-> IF p = First THEN "spawn" ELSE "user"]
  /\ build = [p \in Procs |-> Nothing] /\ calls = 0

goto(p, place, b) == pc' = [pc EXCEPT ![p] = place] /\ build' = [build EXCEPT ![p] = b]
image(x) == x \notin {None, Reserved}
release(frames) ==
  /\ free' = free \cup frames
  /\ table' = [f \in Frame |-> IF f \in frames THEN Junk ELSE table[f]]
  /\ data' = [f \in Frame |-> IF f \in frames THEN Junk ELSE data[f]]

----------------------------------------------------------------------------
(* The calls.                                                              *)

\* create_user_address_space.
create(p, b, fail) ==
  calls < MaxCalls /\ calls' = calls + 1 /\
  IF free = {} THEN fail /\ UNCHANGED <<free, mem>>
  ELSE LET root == F!lowest(free) IN
       /\ free' = free \ {root} /\ table' = [table EXCEPT ![root] = cleared] /\ data' = data
       /\ goto(p, "area", [b EXCEPT !.root = root])

\* load_segment: the pages of a PT_LOAD header, or a refusal.
valid_header(ph, file_len) ==
  /\ ph.filesz <= ph.memsz
  /\ ph.flags \in {"r", "rx", "rw"}
  /\ ph.align <= 1 \/ ph.vaddr % ph.align = ph.offset % ph.align
  /\ ph.offset + ph.filesz <= file_len
  /\ ph.vaddr >= USER_TEXT_BASE /\ ph.vaddr + ph.memsz <= USER_STACK_TOP
load_segment(ph, file_len) ==
  LET start == ph.vaddr \div PAGE_SIZE
      end == (ph.vaddr + ph.memsz + PAGE_SIZE - 1) \div PAGE_SIZE
  IN [va |-> start, pages |-> end - start, flags |-> ph.flags,
      valid |-> ph.type = "PT_LOAD" /\ valid_header(ph, file_len)]
\* load_segments: empty segments and foreign headers are skipped, a dynamic image is
\* refused when its header is met; the stack comes last.
areas(program) ==
  LET relevant == SelectSeq(program.headers,
        LAMBDA ph : ph.type \in {"PT_INTERP", "PT_DYNAMIC", "PT_TLS"} \/ (ph.type = "PT_LOAD" /\ ph.memsz > 0))
  IN Append([k \in DOMAIN relevant |-> load_segment(relevant[k], program.len)], stack_area)

Spawn(p, program) ==
  /\ pc[p] = "spawn"
  /\ create(p, [Nothing EXCEPT !.target = p, !.source = program, !.todo = areas(program)],
            goto(p, "user", Nothing))
  /\ procs' = [procs EXCEPT ![p] = IF pc'[p] = "user" THEN None ELSE @]
\* execve_current, stage_exec_image.
Exec(p, program) ==
  /\ pc[p] = "user" /\ image(procs[p])
  /\ create(p, [Nothing EXCEPT !.target = p, !.source = program, !.todo = areas(program)],
            goto(p, "user", Nothing))
  /\ UNCHANGED procs
\* fork_current: the slot first, then the root.
Fork(p, q) ==
  /\ pc[p] = "user" /\ image(procs[p]) /\ procs[q] = None /\ pc[q] = "user"
  /\ create(p, [Nothing EXCEPT !.target = q, !.source = p,
                               !.todo = [k \in 1..(Len(procs[p].segs) + 1) |->
                                          IF k <= Len(procs[p].segs) THEN procs[p].segs[k].area ELSE stack_area]],
            goto(p, "user", Nothing))
  /\ procs' = [procs EXCEPT ![q] = IF pc'[p] = "user" THEN None ELSE Reserved]

----------------------------------------------------------------------------
(* Loading one area: load_segment, clone_user_segment, OwnedUserStack.     *)

fill_stale(run, b) == data
\* What the pages of a new run hold: zeroed, then the segment's bytes; or the bytes
\* of the parent's pages.
fill(run, b) ==
  [f \in Frame |->
    IF f \notin F!run(run.first, run.count) THEN data[f]
    ELSE IF b.source \notin Procs THEN Head(b.todo).va + f - run.first
    ELSE LET parent == procs[b.source]
             old == IF Len(b.done) < Len(parent.segs) THEN parent.segs[Len(b.done) + 1].run ELSE parent.stack
         IN data[old.first + f - run.first]]

AllocArea(p) ==
  LET b == build[p]
      area == Head(b.todo)
      run == F!lowest_run(free, area.pages, 1)
  IN /\ UNCHANGED calls /\ pc[p] = "area" /\ b.todo # <<>>
     /\ IF ~area.valid \/ run = None \/ (Len(b.todo) = 1 /\ b.done = <<>>)
        THEN goto(p, "unwind", [b EXCEPT !.todo = <<>>]) /\ UNCHANGED <<free, mem>>
        ELSE /\ free' = free \ F!run(run.first, run.count)
             /\ data' = fill(run, b) /\ table' = table
             /\ goto(p, "map", [b EXCEPT !.run = run, !.page = 0])
     /\ UNCHANGED procs

\* The tables on the way to va that exist: the last of them, and its level.
walk(root, va) ==
  LET at[k \in 0..(Levels - 1)] ==
        IF k = 0 THEN [table |-> root, level |-> 0]
        ELSE LET w == at[k - 1]
                 next == table[w.table][index(va, w.level)]
             IN IF w.level < k - 1 \/ next = None THEN w ELSE [table |-> next.frame, level |-> k]
  IN at[Levels - 1]

\* A new table is cleared before it is linked.
install_table(parent, i, new) ==
  [table EXCEPT ![new] = cleared, ![parent][i] = [frame |-> new, flags |-> "table"]]

\* map_user_page, one step per allocation: ensure_user_l3_table adds the next
\* missing table, or the leaf is written; earlier pages and tables stay.
MapPage(p) ==
  LET b == build[p]
      va == Head(b.todo).va + b.page
      w == walk(b.root, va)
      i == index(va, w.level)
      entry == table[w.table][i]
      fail == goto(p, "unwind", [b EXCEPT !.todo = <<>>]) /\ UNCHANGED <<free, mem>>
  IN /\ UNCHANGED calls /\ pc[p] = "map" /\ b.page < b.run.count
     /\ IF w.level < Levels - 1
        THEN IF free = {} THEN fail
             ELSE LET new == F!lowest(free) IN
                  /\ free' = free \ {new}
                  /\ table' = install_table(w.table, i, new) /\ data' = data
                  /\ UNCHANGED <<pc, build>>
        ELSE IF entry # None THEN fail
        ELSE /\ table' = [table EXCEPT ![w.table][i] = [frame |-> b.run.first + b.page, flags |-> Head(b.todo).flags]]
             /\ goto(p, "map", [b EXCEPT !.page = @ + 1]) /\ UNCHANGED <<free, data>>
     /\ UNCHANGED procs

AreaDone(p) ==
  LET b == build[p] IN
  /\ UNCHANGED calls /\ pc[p] = "map" /\ b.page = b.run.count
  /\ goto(p, "area", [b EXCEPT !.todo = Tail(@), !.run = None, !.page = 0,
                               !.done = Append(@, [area |-> Head(b.todo), run |-> b.run])])
  /\ UNCHANGED <<free, mem, procs>>

\* Everything is built, and the last step still fails: the arguments do not fit the
\* stack, or there is no thread slot.
FailLate(p) ==
  /\ UNCHANGED calls /\ pc[p] = "area" /\ build[p].todo = <<>>
  /\ goto(p, "unwind", build[p]) /\ UNCHANGED <<free, mem, procs>>

\* The new image is published; exec takes the old one apart.
Publish(p) ==
  LET b == build[p]
      old == procs[b.target]
      new == [root |-> b.root, segs |-> Front(b.done), stack |-> Last(b.done).run]
  IN /\ UNCHANGED calls /\ pc[p] = "area" /\ b.todo = <<>>
     /\ procs' = [procs EXCEPT ![b.target] = new]
     /\ IF image(old)
        THEN goto(p, "cleanup", [Nothing EXCEPT !.root = old.root, !.run = old.stack, !.done = old.segs])
        ELSE goto(p, "user", Nothing)
     /\ UNCHANGED <<free, mem>>

----------------------------------------------------------------------------
(* Taking an image apart: a failed one, a replaced one, an exited one.     *)

UnwindKeepingRun(p) ==
  /\ UNCHANGED calls /\ pc[p] = "unwind"
  /\ UNCHANGED <<free, mem>>
  /\ goto(p, "cleanup", [build[p] EXCEPT !.run = None]) /\ UNCHANGED procs
\* The run that was being mapped is freed by the function that allocated it.
Unwind(p) ==
  LET run == build[p].run IN
  /\ UNCHANGED calls /\ pc[p] = "unwind"
  /\ IF run = None THEN UNCHANGED <<free, mem>> ELSE release(F!run(run.first, run.count))
  /\ goto(p, "cleanup", [build[p] EXCEPT !.run = None]) /\ UNCHANGED procs

\* Exit and reap: the stack goes with the thread, the rest with the process.
Exit(p) ==
  /\ UNCHANGED calls /\ pc[p] = "user" /\ image(procs[p])
  /\ goto(p, "cleanup", [Nothing EXCEPT !.root = procs[p].root, !.run = procs[p].stack, !.done = procs[p].segs])
  /\ procs' = [procs EXCEPT ![p] = None]
  /\ UNCHANGED <<free, mem>>

\* free_loaded_segments and OwnedUserStack::drop, one range at a time.
FreeRange(p) ==
  LET b == build[p] IN
  /\ UNCHANGED calls /\ pc[p] = "cleanup" /\ (b.run # None \/ b.done # <<>>)
  /\ IF b.run # None
     THEN release(F!run(b.run.first, b.run.count)) /\ goto(p, "cleanup", [b EXCEPT !.run = None])
     ELSE /\ release(F!run(Head(b.done).run.first, Head(b.done).run.count))
          /\ goto(p, "cleanup", [b EXCEPT !.done = Tail(@)])
  /\ UNCHANGED procs

\* The tables below a table, children before parents, leaves left alone.
tables_below(root) ==
  LET order[k \in 0..(Levels - 1), t \in {f \in Frame : table[f] # Junk}] ==
        IF k = 0 THEN <<t>>
        ELSE Append(FlattenSeq([i \in 1..Entries |->
                      LET entry == table[t][i - 1] IN
                      IF entry # None /\ entry.flags = "table" THEN order[k - 1, entry.frame] ELSE <<>>]), t)
  IN order[Levels - 1, root]

StartDestroy(p) ==
  LET b == build[p] IN
  /\ UNCHANGED calls /\ pc[p] = "cleanup" /\ b.run = None /\ b.done = <<>>
  /\ goto(p, "destroy", [Nothing EXCEPT !.target = b.target, !.doomed = tables_below(b.root)])
  /\ UNCHANGED <<free, mem, procs>>
\* The slot of a failed spawn or fork is freed last.
DestroyTable(p) ==
  LET b == build[p] IN
  /\ UNCHANGED calls /\ pc[p] = "destroy"
  /\ release({Head(b.doomed)})
  /\ IF Len(b.doomed) > 1
     THEN goto(p, "destroy", [b EXCEPT !.doomed = Tail(@)]) /\ UNCHANGED procs
     ELSE /\ goto(p, "user", Nothing)
          /\ procs' = [q \in Procs |-> IF q = b.target /\ procs[q] = Reserved THEN None ELSE procs[q]]

Next ==
  \E p \in Procs :
    \/ \E program \in Programs : Spawn(p, program) \/ Exec(p, program)
    \/ \E q \in Procs \ {p} : Fork(p, q)
    \/ AllocArea(p) \/ MapPage(p) \/ AreaDone(p) \/ FailLate(p) \/ Publish(p)
    \/ Unwind(p) \/ Exit(p) \/ FreeRange(p) \/ StartDestroy(p) \/ DestroyTable(p)

Spec == Init /\ [][Next]_vars

----------------------------------------------------------------------------
(* Properties.                                                             *)

run_frames(r) == IF r = None THEN {} ELSE F!run(r.first, r.count)
segs_frames(segs) == UNION {run_frames(segs[k].run) : k \in DOMAIN segs}
tree(root) == IF root = None THEN {} ELSE Range(tables_below(root))
\* What a slot's published image and its builder own, as disjoint parts.
parts(p) ==
  LET image_parts == IF image(procs[p])
        THEN <<tree(procs[p].root), segs_frames(procs[p].segs), run_frames(procs[p].stack)>> ELSE <<>>
      b == build[p]
  IN image_parts \o <<tree(b.root), segs_frames(b.done), run_frames(b.run), Range(b.doomed)>>

\* Frames are conserved: every frame is free, or a table of one root, or in one
\* segment or stack, of one process or builder.  A failure at any allocation, of
\* exec, fork or spawn, gives back all that was taken, tables included.
FramesConserved ==
  LET owned == UNION {UNION Range(parts(p)) : p \in Procs}
      count == FoldSet(LAMBDA p, n : n + FoldLeft(LAMBDA m, s : m + Cardinality(s), 0, parts(p)), 0, Procs)
  IN /\ free \cup owned = Frame /\ free \cap owned = {}
     /\ Cardinality(owned) = count

\* The mapping a walk of the tables finds.
lookup(root, va) ==
  LET w == walk(root, va) IN
  IF w.level = Levels - 1 THEN table[w.table][index(va, w.level)] ELSE None

\* A published process sees its segments and its stack, page by page and with their
\* permissions, in frames of its own, and nothing else; the pages hold what the
\* program or the parent put there, never what an earlier owner left.
ImageIsExact ==
  \A p \in Procs : image(procs[p]) /\ (pc[p] # "cleanup" \/ build[p].root # procs[p].root) =>
    LET x == procs[p]
        mapped == x.segs \o <<[area |-> stack_area, run |-> x.stack]>>
    IN \A va \in 0..(Pages - 1) :
         LET owner == {k \in DOMAIN mapped : va \in mapped[k].area.va..(mapped[k].area.va + mapped[k].area.pages - 1)}
             entry == lookup(x.root, va)
         IN IF owner = {} THEN entry = None
            ELSE LET s == mapped[CHOOSE k \in owner : TRUE] IN
                 /\ entry = [frame |-> s.run.first + va - s.area.va, flags |-> s.area.flags]
                 /\ data[entry.frame] = va
==========================================================================
