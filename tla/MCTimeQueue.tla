---------------------------- MODULE MCTimeQueue ----------------------------
(* Events of TimeQueue as sort keys <<kind, slot, generation, sequence>>.    *)
EXTENDS TimeQueue

ThreadSlots == 0..1
TwoWaits == {<<0, i, 1, q>> : i \in ThreadSlots, q \in 1..2}
SlotQuanta == {<<1, i, 1, 0>> : i \in ThreadSlots}
=============================================================================
