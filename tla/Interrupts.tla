----------------------------- MODULE Interrupts -----------------------------
(***************************************************************************)
(* Interrupt delivery under the two controllers: the GICv2 of the virtual  *)
(* board, with acknowledge and end-of-interrupt registers, and the BCM2837 *)
(* with pending bits and mailboxes.  CPUs publish work for each other and  *)
(* send scheduler IPIs while timers and the UART raise their lines.        *)
(***************************************************************************)
EXTENDS Integers, FiniteSets, FiniteSetsExt, Functions

CONSTANTS
  Cores,          \* CPUs; core 0 takes the UART interrupt
  MaxRaises,      \* bound: timer, UART and work events
  None

VARIABLES
  controller,     \* "gic" or "bcm"
  global, local,  \* the controller and each CPU's interface are initialized
  bound,          \* the CPU has a target in CPU_TARGETS
  sgi,            \* GIC: the CPUs whose scheduler SGI is pending at a CPU
  mailbox,        \* BCM: mailbox 0 of a CPU
  timer, uart,    \* levels of the devices' lines
  active,         \* GIC: the interrupt a CPU has acknowledged and not ended
  pc, token, events,      \* the handler of a CPU
  work, notified, sending, \* the scheduler's ingress, its coalescing bit, an IPI to be sent
  raises

setup == <<controller, global, local, bound>>
lines == <<sgi, mailbox, timer, uart>>
handler == <<active, pc, token, events>>
ingress == <<work, notified, sending>>
vars == <<setup, lines, handler, ingress, raises>>

nothing == [uart |-> FALSE, checkpoint |-> None]

Init ==
  /\ controller \in {"gic", "bcm"} /\ global = FALSE
  /\ local = [k \in Cores |-> FALSE] /\ bound = [k \in Cores |-> FALSE]
  /\ sgi = [k \in Cores |-> {}] /\ mailbox = [k \in Cores |-> FALSE]
  /\ timer = [k \in Cores |-> FALSE] /\ uart = FALSE
  /\ active = [k \in Cores |-> None] /\ token = [k \in Cores |-> None]
  /\ pc = [k \in Cores |-> "off"] /\ events = [k \in Cores |-> nothing]
  /\ work = [k \in Cores |-> FALSE] /\ notified = [k \in Cores |-> FALSE] /\ sending = [k \in Cores |-> None]
  /\ raises = 0

----------------------------------------------------------------------------
(* Setup.                                                                  *)

\* init_global: core 0 enables the distributor and routes the UART to itself.
InitGlobal ==
  /\ ~global /\ global' = TRUE
  /\ UNCHANGED <<controller, local, bound, lines, handler, ingress, raises>>

\* init_local: the private lines of a CPU; stale mailbox bits are cleared.
InitLocal(k) ==
  /\ global /\ ~local[k] /\ local' = [local EXCEPT ![k] = TRUE]
  /\ mailbox' = [mailbox EXCEPT ![k] = FALSE]
  /\ UNCHANGED <<controller, global, bound, sgi, timer, uart, handler, ingress, raises>>

\* bind_cpu, and the CPU enters its first thread with interrupts admitted.
BindCpu(k) ==
  /\ local[k] /\ ~bound[k] /\ bound' = [bound EXCEPT ![k] = TRUE]
  /\ pc' = [pc EXCEPT ![k] = "run"]
  /\ UNCHANGED <<controller, global, local, lines, active, token, events, ingress, raises>>

----------------------------------------------------------------------------
(* The environment.                                                        *)

raise == raises < MaxRaises /\ raises' = raises + 1

RaiseTimer(k) ==
  /\ bound[k] /\ raise /\ timer' = [timer EXCEPT ![k] = TRUE]
  /\ UNCHANGED <<setup, sgi, mailbox, uart, handler, ingress>>
RaiseUart ==
  /\ global /\ raise /\ uart' = TRUE
  /\ UNCHANGED <<setup, sgi, mailbox, timer, handler, ingress>>

\* The scheduler lock is held from a publication to its IPI, with interrupts masked.
lock_free == \A k \in Cores : sending[k] = None

\* A thread of j publishes a ready thread of k under the scheduler lock, or retires and
\* leaves itself to its own CPU; only the first of several asks for an IPI.
PublishWork(j, k) ==
  /\ pc[j] = "run" /\ bound[k] /\ lock_free /\ raise
  /\ work' = [work EXCEPT ![k] = TRUE] /\ notified' = [notified EXCEPT ![k] = TRUE]
  /\ sending' = IF notified[k] THEN sending ELSE [sending EXCEPT ![j] = k]
  /\ UNCHANGED <<setup, lines, handler>>

\* send_ipi: one write to the distributor or to the target's mailbox.
SendIpi(j) ==
  /\ sending[j] # None /\ sending' = [sending EXCEPT ![j] = None]
  /\ IF controller = "gic"
     THEN sgi' = [sgi EXCEPT ![sending[j]] = @ \cup {j}] /\ UNCHANGED mailbox
     ELSE mailbox' = [mailbox EXCEPT ![sending[j]] = TRUE] /\ UNCHANGED sgi
  /\ UNCHANGED <<setup, timer, uart, handler, work, notified, raises>>

----------------------------------------------------------------------------
(* The handler.                                                            *)

uart_at(k) == k = 0 /\ uart

\* The identifiers pending at the CPU interface, and the order of their priorities.
pending(k) ==
  (IF sgi[k] # {} THEN {"ipi"} ELSE {}) \cup (IF timer[k] THEN {"timer"} ELSE {}) \cup (IF uart_at(k) THEN {"uart"} ELSE {})
highest(ids) == IF "ipi" \in ids THEN "ipi" ELSE IF "timer" \in ids THEN "timer" ELSE "uart"

signalled(k) == IF controller = "gic" THEN pending(k) # {} /\ active[k] = None
                ELSE mailbox[k] \/ timer[k] \/ uart_at(k)

\* Reading the IAR takes the interrupt of highest priority, with the source of an SGI,
\* and makes it active; 1023 means there is none.
AcknowledgeGic(k) ==
  /\ pc[k] = "run" /\ sending[k] = None /\ controller = "gic"
  /\ IF active[k] # None \/ pending(k) = {} THEN UNCHANGED <<handler, sgi>>
     ELSE LET id == highest(pending(k)) IN
          \E source \in IF id = "ipi" THEN sgi[k] ELSE {k} :
            /\ token' = [token EXCEPT ![k] = [id |-> id, source |-> source]]
            /\ active' = [active EXCEPT ![k] = [id |-> id, source |-> source]]
            /\ sgi' = IF id = "ipi" THEN [sgi EXCEPT ![k] = @ \ {source}] ELSE sgi
            /\ events' = [events EXCEPT ![k] = IF id = "uart" THEN [uart |-> TRUE, checkpoint |-> None]
                                               ELSE [uart |-> FALSE, checkpoint |-> id]]
            /\ pc' = [pc EXCEPT ![k] = "uart"]
  /\ UNCHANGED <<setup, mailbox, timer, uart, ingress, raises>>

\* The pending word shows every source, and a timer goes before a mailbox, which then
\* waits for the next interrupt.
bcm_events(k) ==
  [uart |-> uart_at(k), checkpoint |-> IF timer[k] THEN "timer" ELSE IF mailbox[k] THEN "ipi" ELSE None]
AcknowledgeBcmClearing(k) ==
  /\ pc[k] = "run" /\ sending[k] = None /\ controller = "bcm"
  /\ events' = [events EXCEPT ![k] = bcm_events(k)]
  /\ pc' = [pc EXCEPT ![k] = IF mailbox[k] THEN "clear" ELSE "uart"]
  /\ UNCHANGED <<setup, lines, active, token, ingress, raises>>
AcknowledgeBcm(k) ==
  /\ pc[k] = "run" /\ sending[k] = None /\ controller = "bcm"
  /\ events' = [events EXCEPT ![k] = bcm_events(k)]
  /\ pc' = [pc EXCEPT ![k] = IF bcm_events(k).checkpoint = "ipi" THEN "clear" ELSE "uart"]
  /\ UNCHANGED <<setup, lines, active, token, ingress, raises>>

\* The mailbox that will be handled is cleared, with whatever arrived since the read,
\* before the scheduler's work.
ClearMailbox(k) ==
  /\ pc[k] = "clear" /\ pc' = [pc EXCEPT ![k] = "uart"]
  /\ mailbox' = [mailbox EXCEPT ![k] = FALSE]
  /\ UNCHANGED <<setup, sgi, timer, uart, active, token, events, ingress, raises>>

\* dispatch: the UART, then the timer or the scheduler's ingress under the scheduler
\* lock, then the end.
DispatchUart(k) ==
  /\ pc[k] = "uart" /\ pc' = [pc EXCEPT ![k] = "checkpoint"]
  /\ uart' = (uart /\ ~events[k].uart)
  /\ UNCHANGED <<setup, sgi, mailbox, timer, active, token, events, ingress, raises>>
DispatchCheckpoint(k) ==
  /\ pc[k] = "checkpoint" /\ pc' = [pc EXCEPT ![k] = "end"]
  /\ events[k].checkpoint = None \/ lock_free
  /\ timer' = [timer EXCEPT ![k] = @ /\ events[k].checkpoint # "timer"]
  /\ IF events[k].checkpoint = "ipi"
     THEN work' = [work EXCEPT ![k] = FALSE] /\ notified' = [notified EXCEPT ![k] = FALSE]
     ELSE UNCHANGED <<work, notified>>
  /\ UNCHANGED <<setup, sgi, mailbox, uart, active, token, events, sending, raises>>

\* Writing the EOIR ends the active interrupt it names, source included.
end_irq(k) == IF active[k] = token[k] THEN None ELSE active[k]
End(k) ==
  /\ pc[k] = "end" /\ pc' = [pc EXCEPT ![k] = "run"]
  /\ active' = [active EXCEPT ![k] = end_irq(k)]
  /\ token' = [token EXCEPT ![k] = None] /\ events' = [events EXCEPT ![k] = nothing]
  /\ UNCHANGED <<setup, lines, ingress, raises>>

Handle(k) == ClearMailbox(k) \/ DispatchUart(k) \/ DispatchCheckpoint(k) \/ End(k)
Acknowledge(k) == AcknowledgeGic(k) \/ AcknowledgeBcm(k)
Setup == InitGlobal \/ \E k \in Cores : InitLocal(k) \/ BindCpu(k)

\* The exception may be taken though its cause is gone: the spurious interrupt.
Next ==
  \/ Setup \/ RaiseUart
  \/ \E k \in Cores : RaiseTimer(k) \/ SendIpi(k) \/ Acknowledge(k) \/ Handle(k)
  \/ \E j, k \in Cores : PublishWork(j, k)
Spec == Init /\ [][Next]_vars

\* A CPU goes on once it runs, takes an interrupt that is signalled, and a sender writes
\* its register.
Taken(k) == signalled(k) /\ Acknowledge(k)
FairSpec ==
  /\ Spec /\ WF_vars(Setup)
  /\ \A k \in Cores : WF_vars(SendIpi(k)) /\ WF_vars(Handle(k)) /\ WF_vars(Taken(k))

----------------------------------------------------------------------------
(* Properties.                                                             *)

\* The coalescing bit is never set without an interrupt on its way: to be sent, pending
\* at the target, or acknowledged and not yet handled.  Otherwise published work would
\* wait for ever, since nobody sends another IPI.
NotifiedIsPending ==
  \A k \in Cores : notified[k] =>
    \/ \E j \in Cores : sending[j] = k
    \/ sgi[k] # {} \/ mailbox[k]
    \/ pc[k] \in {"clear", "uart", "checkpoint"} /\ events[k].checkpoint = "ipi"

AllServed == ~uart /\ \A k \in Cores : ~timer[k] /\ ~work[k] /\ active[k] = None

\* Whatever the order in which lines rise and interrupts nest behind one another, every
\* line falls and all work is taken once the environment is quiet.
InterruptsAreServed == <>[]AllServed
=============================================================================
