----------------------------- MODULE Console -----------------------------
(***************************************************************************)
(* The console: output through a bounded ring that one thread at a time    *)
(* drains into the UART, input from the UART's receive interrupt into a    *)
(* ring with one waiting reader.  Threads write messages and read stdin in *)
(* any order, as a shell that echoes does; the receive interrupt runs      *)
(* beside them.  A section under a console lock is one step, and so is     *)
(* every atomic access and every byte that goes to the device.             *)
(***************************************************************************)
EXTENDS Integers, Sequences, FiniteSets, SequencesExt, Waits

CONSTANTS
  TxCapacity,    \* CONSOLE_TX_CAPACITY
  Chunk,         \* CONSOLE_TX_DRAIN_CHUNK
  RxCapacity,    \* STDIN_RX_CAPACITY
  MaxRead,       \* bound: the largest count of a read
  Formats,       \* the messages: sequences of fragment lengths
  MaxMessages,   \* bound: messages written
  MaxBytes,      \* bound: bytes received
  None

ASSUME ConsoleConstants ==
  /\ TxCapacity \in Nat \ {0} /\ Chunk \in Nat \ {0} /\ RxCapacity \in Nat \ {0}
  /\ \A f \in Formats : f \in Seq(Nat \ {0})

VARIABLES
  uart_state,    \* UART_INIT_STATE
  tx,            \* CONSOLE_TX: [ring, head, tail, len]
  draining,      \* CONSOLE_DRAINING
  wire,          \* what the device has sent
  accepted,      \* history: the bytes of the accepted messages
  messages,      \* history: messages written so far
  stdin,         \* STDIN_RX: [ring, overflow, waiter, completed]
  fifo,          \* the receive FIFO of the device
  arrived,       \* history: bytes received so far; the nth byte is n
  delivered,     \* history: the bytes reads have returned
  irq,           \* the receive interrupt: the token it is to complete
  pc,            \* per thread: its place in a write or a read
  work,          \* per thread: the message, or the chunk being sent
  panic

output == <<uart_state, tx, draining, wire, accepted, messages>>
input == <<stdin, fifo, arrived, delivered, irq>>
vars == <<phase, seq, output, input, pc, work, panic>>

Init ==
  /\ WaitsInit
  /\ uart_state = "uninitialized"
  /\ tx = [ring |-> [i \in 0..(TxCapacity - 1) |-> None], head |-> 0, tail |-> 0, len |-> 0]
  /\ draining = FALSE /\ wire = <<>> /\ accepted = <<>> /\ messages = 0
  /\ stdin = [ring |-> <<>>, overflow |-> 0, waiter |-> None, completed |-> None]
  /\ fifo = <<>> /\ arrived = 0 /\ delivered = <<>> /\ irq = None
  /\ pc = [t \in Threads |-> "user"] /\ work = [t \in Threads |-> <<>>]
  /\ panic = FALSE

goto(t, place, w) == pc' = [pc EXCEPT ![t] = place] /\ work' = [work EXCEPT ![t] = w]
returns(t) == goto(t, "user", <<>>)

----------------------------------------------------------------------------
(* write_bytes and try_write_fmt.                                          *)

\* A byte names its message; the last byte of a message is its newline.
message(n, format) ==
  [k \in DOMAIN format |->
    [j \in 1..format[k] |-> [msg |-> n, newline |-> k = Len(format) /\ j = format[k]]]]
cr(byte) == [msg |-> byte.msg, newline |-> None]
\* putc_raw.
expand(byte) == IF byte.newline = TRUE THEN <<cr(byte), byte>> ELSE <<byte>>

Write(t, format) ==
  /\ pc[t] = "user" /\ messages < MaxMessages
  /\ messages' = messages + 1
  /\ goto(t, "init", message(messages', format))
  /\ UNCHANGED <<phase, seq, uart_state, tx, draining, wire, accepted, input, panic>>

\* init_once: ready already, or the winner of the exchange programs the device and
\* the others spin.
InitOnce(t) ==
  /\ pc[t] = "init"
  /\ \/ /\ uart_state = "uninitialized"
        /\ uart_state' = "initializing" /\ goto(t, "initialize", work[t])
     \/ /\ uart_state # "uninitialized"
        /\ uart_state' = uart_state
        /\ goto(t, IF uart_state = "ready" THEN "push" ELSE "spin", work[t])
  /\ UNCHANGED <<phase, seq, tx, draining, wire, accepted, messages, input, panic>>
Initialize(t) ==
  /\ pc[t] = "initialize"
  /\ uart_state' = "ready" /\ goto(t, "push", work[t])
  /\ UNCHANGED <<phase, seq, tx, draining, wire, accepted, messages, input, panic>>
Spin(t) ==
  /\ pc[t] = "spin" /\ uart_state # "initializing"
  /\ goto(t, "push", work[t])
  /\ UNCHANGED <<phase, seq, output, input, panic>>

push_unchecked(q, bytes) ==
  [q EXCEPT
    !.ring = [i \in DOMAIN @ |->
               LET k == (i - q.tail + TxCapacity) % TxCapacity IN
               IF k < Len(bytes) THEN bytes[k + 1] ELSE @[i]],
    !.tail = (@ + Len(bytes)) % TxCapacity,
    !.len = @ + Len(bytes)]
\* ConsoleTx::push, all or nothing.
push(q, bytes) == IF Len(bytes) > TxCapacity - q.len THEN q ELSE push_unchecked(q, bytes)
\* QueueWriter: the fragments up to the first that does not fit.
write_fragments(q, frags) ==
  FoldLeft(LAMBDA acc, frag :
             LET next == push(acc.queue, frag)
                 ok == acc.accepted /\ (next # acc.queue)
             IN [queue |-> IF acc.accepted THEN next ELSE acc.queue, accepted |-> ok],
           [queue |-> q, accepted |-> TRUE], frags)

PushKeepingTail(t) ==
  LET w == write_fragments(tx, work[t]) IN
  /\ pc[t] = "push"
  /\ tx' = IF w.accepted THEN w.queue ELSE [w.queue EXCEPT !.len = tx.len]
  /\ accepted' = IF w.accepted THEN accepted \o FlattenSeq(work[t]) ELSE accepted
  /\ IF w.accepted THEN goto(t, "drain", <<>>) ELSE returns(t)
  /\ UNCHANGED <<phase, seq, uart_state, draining, wire, messages, input, panic>>
\* A message that does not fit leaves the queue as it was.
Push(t) ==
  LET w == write_fragments(tx, work[t]) IN
  /\ pc[t] = "push"
  /\ tx' = IF w.accepted THEN w.queue ELSE [w.queue EXCEPT !.tail = tx.tail, !.len = tx.len]
  /\ accepted' = IF w.accepted THEN accepted \o FlattenSeq(work[t]) ELSE accepted
  /\ IF w.accepted THEN goto(t, "drain", <<>>) ELSE returns(t)
  /\ UNCHANGED <<phase, seq, uart_state, draining, wire, messages, input, panic>>

----------------------------------------------------------------------------
(* drain_console.                                                          *)

\* The exchange, on entry and again when the ring filled behind a drainer's back.
Claim(t) ==
  /\ pc[t] \in {"drain", "again"}
  /\ draining' = TRUE
  /\ IF draining THEN returns(t) ELSE goto(t, "pop", <<>>)
  /\ UNCHANGED <<phase, seq, uart_state, tx, wire, accepted, messages, input, panic>>

PopChunk(t) ==
  LET count == IF tx.len < Chunk THEN tx.len ELSE Chunk
      bytes == [k \in 1..count |-> tx.ring[(tx.head + k - 1) % TxCapacity]]
  IN /\ pc[t] = "pop"
     /\ tx' = [tx EXCEPT !.head = (@ + count) % TxCapacity, !.len = @ - count]
     /\ IF count = 0 THEN goto(t, "release", <<>>)
        ELSE goto(t, "send", FlattenSeq([k \in 1..count |-> expand(bytes[k])]))
     /\ UNCHANGED <<phase, seq, uart_state, draining, wire, accepted, messages, input, panic>>

\* console_putc_raw: one byte to the device.
Send(t) ==
  /\ pc[t] = "send"
  /\ wire' = Append(wire, Head(work[t]))
  /\ goto(t, IF Len(work[t]) = 1 THEN "pop" ELSE "send", Tail(work[t]))
  /\ UNCHANGED <<phase, seq, uart_state, tx, draining, accepted, messages, input, panic>>

Release(t) ==
  /\ pc[t] = "release"
  /\ draining' = FALSE /\ goto(t, "recheck", <<>>)
  /\ UNCHANGED <<phase, seq, uart_state, tx, wire, accepted, messages, input, panic>>
Recheck(t) ==
  /\ pc[t] = "recheck"
  /\ IF tx.len = 0 THEN returns(t) ELSE goto(t, "again", <<>>)
  /\ UNCHANGED <<phase, seq, output, input, panic>>

----------------------------------------------------------------------------
(* The receive interrupt: on_uart_irq drains the FIFO, byte by byte.       *)

ByteArrives ==
  /\ arrived < MaxBytes
  /\ arrived' = arrived + 1 /\ fifo' = Append(fifo, arrived')
  /\ UNCHANGED <<phase, seq, output, stdin, delivered, irq, pc, work, panic>>

\* StdinRx::push: the newest byte is dropped if the ring is full; the waiter is
\* taken under the lock and completed after it.
OnStdinByte ==
  /\ irq = None /\ fifo # <<>>
  /\ fifo' = Tail(fifo)
  /\ IF Len(stdin.ring) = RxCapacity
     THEN /\ stdin' = [stdin EXCEPT !.overflow = @ + 1] /\ irq' = irq
     ELSE /\ stdin' = [stdin EXCEPT !.ring = Append(@, Head(fifo)), !.waiter = None,
                                    !.completed = IF stdin.waiter # None THEN stdin.waiter ELSE @]
          /\ irq' = stdin.waiter
  /\ UNCHANGED <<phase, seq, output, arrived, delivered, pc, work, panic>>

CompleteReader ==
  /\ irq # None
  /\ complete_wait(irq, "Notified") /\ irq' = None
  /\ UNCHANGED <<output, stdin, fifo, arrived, delivered, pc, work, panic>>

----------------------------------------------------------------------------
(* sys_read_stdin.                                                         *)

Read(t, count) ==
  /\ pc[t] = "user" /\ seq[t] < MaxSeq
  /\ goto(t, "read", <<count>>)
  /\ UNCHANGED <<phase, seq, output, input, panic>>

\* take_completed: the token of this thread's last wait, if it was notified.
completed_by(t) == stdin.completed # None /\ stdin.completed.thread = t
pop_into(t) == SubSeq(stdin.ring, 1, IF work[t][1] < Len(stdin.ring) THEN work[t][1] ELSE Len(stdin.ring))
read_ring(t) ==
  /\ delivered' = delivered \o pop_into(t)
  /\ stdin' = [stdin EXCEPT !.ring = SubSeq(@, Len(pop_into(t)) + 1, Len(@)),
                            !.completed = IF completed_by(t) THEN None ELSE @]

\* read_stdin, up to the unlock; a taken token is then finished.
ReadStdinKeepingCompleted(t) ==
  /\ pc[t] \in {"read", "reread"}
  /\ delivered' = delivered \o pop_into(t)
  /\ stdin' = [stdin EXCEPT !.ring = SubSeq(@, Len(pop_into(t)) + 1, Len(@))]
  /\ IF pop_into(t) # <<>> THEN returns(t) ELSE goto(t, "block", work[t])
  /\ UNCHANGED <<phase, seq, output, fifo, arrived, irq, panic>>
ReadStdin(t) ==
  /\ pc[t] \in {"read", "reread"}
  /\ read_ring(t)
  /\ LET next == IF pop_into(t) # <<>> THEN "user"
                 ELSE IF pc[t] = "read" THEN "block" ELSE "EFAULT"
     IN IF completed_by(t) THEN goto(t, "finish", <<work[t][1], next, stdin.completed>>)
        ELSE goto(t, next, IF next = "block" THEN work[t] ELSE <<>>)
  /\ UNCHANGED <<phase, seq, output, fifo, arrived, irq, panic>>

\* finish_wait: finished, or stale after an early commit; NotCompleted panics.
FinishRead(t) ==
  LET next == work[t][2]
      owner == work[t][3].thread
      current == token(owner) = work[t][3]
  IN /\ pc[t] = "finish"
     /\ panic' = (panic \/ (current /\ phase[owner] \in {"Prepared", "Blocked"}))
     /\ IF current /\ phase[owner] \in Causes THEN finish_wait(owner) ELSE UNCHANGED <<phase, seq>>
     /\ goto(t, next, IF next = "block" THEN <<work[t][1]>> ELSE <<>>)
     /\ UNCHANGED <<output, input>>

BlockUnchecked(t) ==
  /\ pc[t] = "block" /\ stdin.completed = None /\ stdin.waiter = None
  /\ prepare_wait(t)
  /\ stdin' = [stdin EXCEPT !.waiter = token(t)']
  /\ goto(t, "prepared", work[t])
  /\ UNCHANGED <<output, fifo, arrived, delivered, irq, panic>>
\* block_current_stdin_read_if_empty, under the stdin lock: input came meanwhile;
\* another reader has the slot (the prepared wait is cancelled); or registered.
Block(t) ==
  /\ pc[t] = "block"
  /\ \/ /\ stdin.ring # <<>>
        /\ goto(t, "reread", work[t])
        /\ UNCHANGED <<phase, seq, stdin>>
     \/ /\ stdin.ring = <<>> /\ (stdin.completed # None \/ stdin.waiter # None)
        /\ seq[t] < MaxSeq /\ seq' = [seq EXCEPT ![t] = @ + 1] /\ phase' = phase
        /\ goto(t, "ENOTSUP", <<>>) /\ stdin' = stdin
     \/ /\ stdin.ring = <<>> /\ stdin.completed = None /\ stdin.waiter = None
        /\ prepare_wait(t)
        /\ stdin' = [stdin EXCEPT !.waiter = token(t)']
        /\ goto(t, "prepared", work[t])
  /\ UNCHANGED <<output, fifo, arrived, delivered, irq, panic>>

\* commit_wait; blocked or early, the system call is executed again.
CommitRead(t) ==
  /\ pc[t] = "prepared"
  /\ \/ commit_blocks(t) /\ goto(t, "blocked", work[t])
     \/ finish_wait(t) /\ goto(t, "read", work[t])
  /\ UNCHANGED <<output, input, panic>>
\* The woken reader runs again; its wait is finished by read_stdin.
ResumeRead(t) ==
  /\ pc[t] = "blocked" /\ phase[t] \in Causes
  /\ goto(t, "read", work[t])
  /\ UNCHANGED <<phase, seq, output, input, panic>>

\* The error goes back to user mode.
ReadFails(t) ==
  /\ pc[t] \in {"ENOTSUP", "EFAULT"} /\ returns(t)
  /\ UNCHANGED <<phase, seq, output, input, panic>>

----------------------------------------------------------------------------

Step(t) ==
  \/ InitOnce(t) \/ Initialize(t) \/ Spin(t) \/ Push(t)
  \/ Claim(t) \/ PopChunk(t) \/ Send(t) \/ Release(t) \/ Recheck(t)
  \/ ReadStdin(t) \/ FinishRead(t) \/ Block(t) \/ CommitRead(t) \/ ResumeRead(t)
  \/ ReadFails(t)
Interrupt == OnStdinByte \/ CompleteReader

Next ==
  \/ \E t \in Threads : \/ Step(t) \/ \E f \in Formats : Write(t, f)
                        \/ \E n \in 1..MaxRead : Read(t, n)
  \/ Interrupt \/ ByteArrives

Spec == Init /\ [][Next]_vars
\* Threads that can run do, and so does the receive interrupt: none of them stays
\* at a place it can leave.  Nobody need write, read or type.
Running == {"init", "initialize", "spin", "push", "drain", "pop", "send", "release",
            "recheck", "again", "read", "reread", "finish", "prepared",
            "ENOTSUP", "EFAULT"}
Fairness ==
  /\ []<>(irq = None) /\ []<>(fifo = <<>>)
  /\ \A t \in Threads :
       /\ \A place \in Running : []<>(pc[t] # place)
       /\ []<>(~(pc[t] = "block" /\ seq[t] < MaxSeq))
       /\ []<>(~(pc[t] = "blocked" /\ phase[t] \in Causes))
FairSpec == Spec /\ Fairness

----------------------------------------------------------------------------
(* Properties.                                                             *)

\* The rings, the tokens and the counters have their types.
TypeOK ==
  /\ uart_state \in {"uninitialized", "initializing", "ready"} /\ draining \in BOOLEAN
  /\ tx.head \in 0..(TxCapacity - 1) /\ tx.tail \in 0..(TxCapacity - 1) /\ tx.len \in 0..TxCapacity
  /\ Len(stdin.ring) <= RxCapacity /\ stdin.overflow \in 0..MaxBytes
  /\ {stdin.waiter, stdin.completed, irq} \subseteq Tokens \cup {None}
  /\ phase \in [Threads -> Phases] /\ seq \in [Threads -> 0..MaxSeq]

\* Messages are indivisible: the device has sent a prefix of the accepted messages
\* in the order in which they were queued, each byte once and newlines expanded,
\* whoever drained; a message that was refused half way leaves no trace.
WireIsAccepted ==
  /\ IsPrefix(wire, FlattenSeq([k \in DOMAIN accepted |-> expand(accepted[k])]))
  /\ tx.tail = (tx.head + tx.len) % TxCapacity

\* The device is programmed once, and before it sends.
UartReadyFirst ==
  /\ wire # <<>> => uart_state = "ready"
  /\ Cardinality({t \in Threads : pc[t] = "initialize"}) <= 1

\* Everything accepted is sent, also what is queued while a drainer gives up its
\* role: either it sees the new bytes or their writer becomes the drainer.
AcceptedIsSent == tx.len > 0 ~> tx.len = 0

\* Input is delivered in the order of arrival, and what is neither delivered nor
\* buffered was dropped at a full ring.
InputInOrder ==
  LET kept == delivered \o stdin.ring \o fifo IN
  /\ \A i, j \in DOMAIN kept : i < j => kept[i] < kept[j]
  /\ Len(kept) + stdin.overflow = arrived

\* No stdin wait is consumed before it is completed.
NoPanic == ~panic

\* A notification that a reader has not consumed is on its way to being consumed,
\* so that the slot does not stay closed: not to other readers, and not to the
\* reader itself, whose read would be refused because of its own token.
CompletedIsConsumed ==
  stdin.completed # None =>
    pc[stdin.completed.thread] \in {"prepared", "blocked", "read", "block", "reread"}

\* A reader that waits is woken by input, also by a byte that comes between its
\* look at the ring and the commit of its wait.
ReaderWakes ==
  \A t \in Threads :
    pc[t] \in {"prepared", "blocked"} /\ stdin.ring # <<>> ~> pc[t] \notin {"prepared", "blocked"}

\* Output: messages go out whole, in order and once, and nothing
\* is sent before the device is programmed.
OutputIsSound == WireIsAccepted /\ UartReadyFirst

\* Input reaches its readers in order and accounted for, and no notification is
\* forgotten in the slot.
StdinIsSound == TypeOK /\ NoPanic /\ InputInOrder /\ CompletedIsConsumed

\* The console goes on: what is accepted is sent, and who waits for input gets it.
ConsoleServes == AcceptedIsSent /\ ReaderWakes
==========================================================================
