--------------------------- MODULE KernelTables ---------------------------
(***************************************************************************)
(* The kernel's translation tables: the switch from the boot tables to     *)
(* tables made of allocated frames, then map, unmap and protect of regions *)
(* of blocks.  One CPU at a time changes the tables, under KERNEL_VM_LOCK; *)
(* the table walkers of all CPUs read them at any moment and cache what    *)
(* they read, tables and translations alike, until they are told to forget *)
(* it.  Three levels of Entries entries (the hardware: 512); the addresses *)
(* are block numbers.                                                      *)
(***************************************************************************)
EXTENDS Integers, Sequences, FiniteSets, SequencesExt, FiniteSetsExt, Functions

CONSTANTS
  Frame, Entries,
  HighBase,     \* the first block of the direct map
  Platforms,    \* where RAM and devices are: [ram, irq, uart], sets of blocks
  Regions,      \* the regions callers map: [va, blocks]
  Walked,       \* bound: the blocks whose cached translations are followed
  MaxOps,       \* bound: map, unmap and protect calls
  MaxSpare,     \* bound: frames other parts of the kernel hold
  None

VARIABLES
  platform,
  root,         \* TTBR1; None until RUNTIME_TABLES_ACTIVE
  free,         \* the free frames
  table,        \* per frame: its entries, or None
  spare,        \* frames held by other parts of the kernel
  op,           \* the call that holds the lock, or None
  ops,          \* calls so far
  tlb, walks    \* what the CPUs have cached: translations, and tables

vars == <<platform, root, free, table, spare, op, ops, tlb, walks>>
caches == <<tlb, walks>>

Index == 0..(Entries - 1)
Va == 0..(Entries ^ 3 - 1)
index(va, level) == (va \div (Entries ^ (2 - level))) % Entries
cleared == [i \in Index |-> None]
table_desc(f) == [type |-> "table", frame |-> f]
block_desc(pa, attr, flags) == [type |-> "block", pa |-> pa, attr |-> attr, flags |-> flags]
is_table(e) == e # None /\ e.type = "table"
is_empty(t) == table[t] = cleared

Init ==
  /\ platform \in Platforms
  /\ root = None /\ free = Frame /\ table = [f \in Frame |-> None] /\ spare = {}
  /\ op = None /\ ops = 0 /\ tlb = {} /\ walks = {}

\* The tables that exist on the way to va: <<L0>>, <<L0, L1>> or <<L0, L1, L2>>.
path(va) ==
  LET l0e == table[root][index(va, 0)]
      l1e == table[l0e.frame][index(va, 1)]
  IN IF ~is_table(l0e) THEN <<root>>
     ELSE IF ~is_table(l1e) THEN <<root, l0e.frame>> ELSE <<root, l0e.frame, l1e.frame>>
\* translate_kernel_va.
translate(va) == LET p == path(va) IN IF Len(p) < 3 THEN None ELSE table[p[3]][index(va, 2)]

----------------------------------------------------------------------------
(* switch_to_runtime_kernel_tables, on the boot CPU.                       *)

\* The blocks a device or the RAM occupies, and the L1 slot of its first block.
slot(blocks) == index(HighBase + Min(blocks), 1)

nth_free == [n \in 1..5 |-> CHOOSE f \in free : Cardinality({g \in free : g <= f}) = n]
\* The frames in the order of their allocation.  A device shares the L2 table of the
\* RAM, or of the other device, when it is in the same slot.
l2_frames ==
  LET next == nth_free
      own_irq == slot(platform.irq) # slot(platform.ram)
      own_uart == slot(platform.uart) \notin {slot(platform.ram), slot(platform.irq)}
      ram == next[3 + Cardinality({b \in {<<1, own_irq>>, <<2, own_uart>>} : b[2]})]
      irq == IF own_irq THEN next[3] ELSE ram
      uart == IF own_uart THEN next[IF own_irq THEN 4 ELSE 3]
              ELSE IF slot(platform.uart) = slot(platform.ram) THEN ram ELSE irq
  IN [l0 |-> next[1], l1 |-> next[2], irq |-> irq, uart |-> uart, ram |-> ram]

\* The tables are cleared, linked and filled (map_l2_2m_blocks: RAM, interrupt
\* controller, UART, a later block over an earlier one), then TTBR1 is set.
SwitchToRuntime ==
  LET l2 == l2_frames
      blocks(part, t, i) == {pa \in platform[part] : l2[part] = t /\ index(HighBase + pa, 2) = i}
      entry(t, i) ==
        IF blocks("uart", t, i) # {} THEN block_desc(Max(blocks("uart", t, i)), "device", "rw")
        ELSE IF blocks("irq", t, i) # {} THEN block_desc(Max(blocks("irq", t, i)), "device", "rw")
        ELSE IF blocks("ram", t, i) # {} THEN block_desc(Max(blocks("ram", t, i)), "normal", "rwx")
        ELSE None
      l1_entry(i) == IF slot(platform.uart) = i THEN table_desc(l2.uart)
                     ELSE IF slot(platform.irq) = i THEN table_desc(l2.irq)
                     ELSE IF slot(platform.ram) = i THEN table_desc(l2.ram) ELSE None
  IN /\ root = None
     /\ root' = l2.l0
     /\ free' = free \ Range(l2)
     /\ table' = [f \in Frame |->
          IF f = l2.l0 THEN [cleared EXCEPT ![index(HighBase, 0)] = table_desc(l2.l1)]
          ELSE IF f = l2.l1 THEN [i \in Index |-> l1_entry(i)]
          ELSE IF f \in Range(l2) THEN [i \in Index |-> entry(f, i)] ELSE None]
     /\ UNCHANGED <<platform, spare, op, ops, caches>>

----------------------------------------------------------------------------
(* The calls.  op = [kind, va, blocks, flags, at, then, detached, before]. *)

region(o) == o.va..(o.va + o.blocks - 1)
mapping == [va \in Va |-> translate(va)]
begin(kind, r, flags, stage) ==
  /\ op = None /\ ops < MaxOps
  /\ ops' = ops + 1
  /\ op' = [kind |-> kind, va |-> r.va, blocks |-> r.blocks, flags |-> flags, at |-> 0, stage |-> stage,
            done |-> r.blocks, detached |-> <<>>, before |-> mapping]
  /\ UNCHANGED <<platform, root, free, table, spare, caches>>
steps(o) == op' = o /\ UNCHANGED <<platform, root, ops, spare>>
current == op.va + op.at

\* The preflight of each call: nothing is written if it fails.
Map(r) == root # None /\ (\A va \in region(r) : translate(va) = None) /\ begin("map", r, "rw", "map")
Unmap(r) == root # None /\ (\A va \in region(r) : translate(va) # None) /\ begin("unmap", r, "rw", "clear")
Protect(r, flags) == root # None /\ (\A va \in region(r) : translate(va) # None) /\ begin("protect", r, flags, "break")

\* flush_tlb_all: every CPU forgets, and the next stage begins.
flush == tlb' = {} /\ walks' = {}

\* map_kernel_region: ensure_l2_table adds a missing table at a time, then the block
\* is written.  Without a frame the tables of this block are reclaimed and the blocks
\* already mapped are rolled back.
MapBlock ==
  LET p == path(current)
      i == index(current, Len(p) - 1)
  IN /\ op # None /\ op.stage = "map" /\ op.at < op.blocks
     /\ IF Len(p) = 3
        THEN /\ table' = [table EXCEPT ![p[3]][i] = block_desc(current, "normal", op.flags)]
             /\ free' = free /\ steps([op EXCEPT !.at = @ + 1])
        ELSE IF free = {}
        THEN /\ steps(IF Len(p) = 1 THEN [op EXCEPT !.stage = "clear", !.done = op.at, !.at = 0]
                      ELSE [op EXCEPT !.stage = "reclaim failed"])
             /\ UNCHANGED <<free, table>>
        ELSE LET new == Min(free) IN
             /\ free' = free \ {new}
             /\ table' = [table EXCEPT ![new] = cleared, ![Last(p)][i] = table_desc(new)]
             /\ steps(op)
     /\ UNCHANGED caches
MapDone ==
  /\ op # None /\ op.stage = "map" /\ op.at = op.blocks
  /\ flush /\ steps(None) /\ UNCHANGED <<free, table>>

\* unmap_kernel_region, and rollback_kernel_map of the first op.done blocks: leaves
\* first, then everybody forgets them, then the tables.
ClearLeaf ==
  LET p == path(current) IN
  /\ op # None /\ op.stage = "clear" /\ op.at < op.done
  /\ table' = [table EXCEPT ![p[3]][index(current, 2)] = None]
  /\ steps([op EXCEPT !.at = @ + 1]) /\ UNCHANGED <<free, caches>>
Cleared ==
  /\ op # None /\ op.stage = "clear" /\ op.at = op.done
  /\ IF op.done = 0 THEN UNCHANGED caches ELSE flush
  /\ steps([op EXCEPT !.stage = "detach", !.at = 0]) /\ UNCHANGED <<free, table>>

\* detach_empty_tables_for_va: an empty L2, and then an empty L1, leave the tree.
detached(va) ==
  LET p == path(va)
      l2 == Len(p) = 3 /\ is_empty(p[3])
      l1_entries == IF l2 THEN [table[p[2]] EXCEPT ![index(va, 1)] = None] ELSE table[p[2]]
      l1 == Len(p) > 1 /\ l1_entries = cleared
  IN [frames |-> (IF l2 THEN <<p[3]>> ELSE <<>>) \o (IF l1 THEN <<p[2]>> ELSE <<>>),
      table |-> IF Len(p) = 1 THEN table
                ELSE [table EXCEPT ![p[2]] = l1_entries, ![root][index(va, 0)] = IF l1 THEN None ELSE @]]
Detach ==
  /\ op # None /\ (op.stage = "reclaim failed" \/ (op.stage = "detach" /\ op.at < op.done))
  /\ table' = detached(current).table
  /\ steps([op EXCEPT !.detached = detached(current).frames,
                      !.kind = IF op.stage = "detach" THEN @ ELSE "failing map",
                      !.stage = "forget"])
  /\ UNCHANGED <<free, caches>>
ForgetNothing ==
  /\ op # None /\ op.stage = "forget"
  /\ UNCHANGED caches
  /\ steps([op EXCEPT !.stage = "release"]) /\ UNCHANGED <<free, table>>
\* reclaim_detached_tables_for_va: every CPU forgets the detached tables before
\* their frames are free.
Forget ==
  /\ op # None /\ op.stage = "forget"
  /\ IF op.detached = <<>> THEN UNCHANGED caches ELSE flush
  /\ steps([op EXCEPT !.stage = "release"]) /\ UNCHANGED <<free, table>>
ReleaseTable ==
  /\ op # None /\ op.stage = "release"
  /\ IF op.detached # <<>>
     THEN /\ free' = free \cup {Head(op.detached)}
          /\ table' = [table EXCEPT ![Head(op.detached)] = None]
          /\ steps([op EXCEPT !.detached = Tail(@)])
     ELSE /\ UNCHANGED <<free, table>>
          /\ steps(IF op.kind = "failing map"
                   THEN [op EXCEPT !.kind = "map", !.stage = "clear", !.done = op.at, !.at = 0]
                   ELSE [op EXCEPT !.stage = "detach", !.at = @ + 1])
  /\ UNCHANGED caches
Reclaimed ==
  /\ op # None /\ op.stage = "detach" /\ op.at = op.done
  /\ steps(None) /\ UNCHANGED <<free, table, caches>>

\* protect_kernel_region: break, forget, make, block by block.
Break ==
  LET p == path(current)
      i == index(current, 2)
  IN /\ op # None /\ op.stage = "break" /\ op.at < op.blocks
     /\ table' = [table EXCEPT ![p[3]][i] = None]
     /\ steps([op EXCEPT !.stage = "broken", !.detached = <<table[p[3]][i]>>]) /\ UNCHANGED <<free, caches>>
ForgetBroken ==
  /\ op # None /\ op.stage = "broken"
  /\ flush /\ steps([op EXCEPT !.stage = "make"]) /\ UNCHANGED <<free, table>>
MakeAsBefore ==
  LET p == path(current) IN
  /\ op # None /\ op.stage = "make"
  /\ table' = [table EXCEPT ![p[3]][index(current, 2)] = Head(op.detached)]
  /\ steps([op EXCEPT !.stage = "break", !.at = @ + 1, !.detached = <<>>]) /\ UNCHANGED <<free, caches>>
Make ==
  LET p == path(current) IN
  /\ op # None /\ op.stage = "make"
  /\ table' = [table EXCEPT ![p[3]][index(current, 2)] = [Head(op.detached) EXCEPT !.flags = op.flags]]
  /\ steps([op EXCEPT !.stage = "break", !.at = @ + 1, !.detached = <<>>]) /\ UNCHANGED <<free, caches>>
Protected ==
  /\ op # None /\ op.stage = "break" /\ op.at = op.blocks
  /\ flush /\ steps(None) /\ UNCHANGED <<free, table>>

----------------------------------------------------------------------------
(* Around the calls.                                                       *)

\* A table walk on some CPU, for any reason: the tables and the block it meets may
\* be cached.
Walk(va) ==
  /\ root # None
  /\ walks' = walks \cup Range(Tail(path(va)))
  /\ tlb' = tlb \cup (IF translate(va) = None THEN {} ELSE {[va |-> va, desc |-> translate(va)]})
  /\ UNCHANGED <<platform, root, free, table, spare, op, ops>>
\* Other parts of the kernel allocate and free frames.
TakeFrame ==
  /\ free # {} /\ Cardinality(spare) < MaxSpare /\ root # None
  /\ free' = free \ {Min(free)} /\ spare' = spare \cup {Min(free)}
  /\ UNCHANGED <<platform, root, table, op, ops, caches>>
GiveFrame(f) ==
  /\ free' = free \cup {f} /\ spare' = spare \ {f}
  /\ UNCHANGED <<platform, root, table, op, ops, caches>>

Next ==
  \/ SwitchToRuntime
  \/ \E r \in Regions : \/ Map(r) \/ Unmap(r) \/ \E flags \in {"r", "rw"} : Protect(r, flags)
  \/ MapBlock \/ MapDone \/ ClearLeaf \/ Cleared \/ Detach \/ Forget \/ ReleaseTable \/ Reclaimed
  \/ Break \/ ForgetBroken \/ Make \/ Protected
  \/ \E va \in Walked : Walk(va)
  \/ TakeFrame \/ \E f \in spare : GiveFrame(f)

Spec == Init /\ [][Next]_vars

----------------------------------------------------------------------------
(* Properties.                                                             *)

reachable == IF root = None THEN {} ELSE UNION {Range(path(va)) : va \in Va}
held == IF op # None /\ op.stage \in {"forget", "release"} THEN Range(op.detached) ELSE {}

\* No CPU can walk into a frame that is free: neither from the root nor from a table
\* it has cached, at any moment of a call.
NoWalkIntoFree == (walks \cup reachable) \cap (free \cup spare) = {}

\* Frames are conserved, and outside a call every table but the root is in use: a
\* map that runs out of frames half way gives back the tables it added.
TablesConserved ==
  /\ root # None => reachable \cup held \cup free \cup spare = Frame
  /\ reachable \cap held = {} /\ held \cap free = {}
  /\ root # None /\ op = None => \A t \in reachable \ {root} : ~is_empty(t)

\* Outside a call nobody has a cached translation that the tables do not have, and
\* never do two CPUs have different translations of one block (break before make).
TranslationsCurrent ==
  /\ op = None => \A e \in tlb : translate(e.va) = e.desc
  /\ \A d, e \in tlb : d.va = e.va => d = e

promised(va) ==
  IF va \notin region(op) \/ (op.kind = "map" /\ op.stage = "detach") THEN op.before[va]
  ELSE CASE op.kind = "map" -> block_desc(va, "normal", op.flags)
         [] op.kind = "unmap" -> None
         [] op.kind = "protect" -> [op.before[va] EXCEPT !.flags = op.flags]
\* A call changes the translations of its region as it promises and no other; a map
\* that ran out of frames changes none.
CallIsAtomic == [][op # None /\ op' = None => mapping' = [va \in Va |-> promised(va)]]_vars

\* The direct map is complete from the first runtime table on: RAM as memory and
\* every device as a device, also when they share a slot of the L1 table.
DirectMapComplete ==
  root # None =>
    /\ \A pa \in platform.ram \ (platform.irq \cup platform.uart) :
         translate(HighBase + pa) = block_desc(pa, "normal", "rwx")
    /\ \A pa \in platform.irq \cup platform.uart :
         translate(HighBase + pa) = block_desc(pa, "device", "rw")
==========================================================================
