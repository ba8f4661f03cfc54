--------------------------- MODULE MailboxProofs ---------------------------
(***************************************************************************)
(* The ring of a mailbox is a bounded first-in first-out queue, for any    *)
(* capacity, any messages and any threads, whatever waits and deadlines    *)
(* do.                                                                     *)
(***************************************************************************)
EXTENDS Mailbox, TLAPS

\* The slot of the k-th message.
slot(k) == (head + k - 1) % Capacity

Ring ==
  /\ buffer \in [0..(Capacity - 1) -> Msgs \cup {None}]
  /\ head \in 0..(Capacity - 1) /\ len \in 0..Capacity
  /\ tail = (head + len) % Capacity
  /\ \A k \in 1..len : buffer[slot(k)] \in Msgs

\* What a send is to store is in its call until it returns.
Arguments ==
  /\ DOMAIN pc = Threads /\ DOMAIN call = Threads
  /\ \A t \in Threads : pc[t] # "idle" /\ call[t].kind = "send" => call[t].msg \in Msgs

IInv == Ring /\ Arguments

\* An index that runs past the end once comes back at the start.
LEMMA Wrap ==
  ASSUME NEW x \in Nat, x < 2 * Capacity
  PROVE  x % Capacity = IF x < Capacity THEN x ELSE x - Capacity
BY MailboxConstants

LEMMA Contents ==
  ASSUME Ring
  PROVE  contents \in Seq(Msgs) /\ Len(contents) = len
BY DEF Ring, contents, slot

\* A message stored at tail is the last one, and overwrites none.
LEMMA Stored ==
  ASSUME Ring, NEW m \in Msgs, len < Capacity,
         buffer' = [buffer EXCEPT ![tail] = m], tail' = (tail + 1) % Capacity, len' = len + 1, head' = head
  PROVE  Ring' /\ contents' = Append(contents, m)
<1>1. Capacity \in Nat \ {0} /\ head \in 0..(Capacity - 1) /\ len \in 0..(Capacity - 1)
  BY MailboxConstants DEF Ring
<1>2. \A k \in 1..(len + 1) : slot(k) = IF head + k - 1 < Capacity THEN head + k - 1 ELSE head + k - 1 - Capacity
  BY <1>1, Wrap DEF slot
<1>3. tail = slot(len + 1) /\ tail \in 0..(Capacity - 1)
  BY <1>1, <1>2 DEF Ring, slot
<1>4. \A k \in 1..len : slot(k) # tail /\ slot(k) \in 0..(Capacity - 1)
  BY <1>1, <1>2, <1>3
<1>5. \A k \in 1..len : buffer'[slot(k)] = buffer[slot(k)]
  BY <1>4 DEF Ring
<1>6. buffer'[slot(len + 1)] = m
  BY <1>3 DEF Ring
<1>7. \A k : slot(k)' = slot(k)
  BY DEF slot
<1>8. tail' = (head + len + 1) % Capacity
  <2>1. tail = IF head + len < Capacity THEN head + len ELSE head + len - Capacity
    BY <1>1, <1>2, <1>3
  <2>2. (head + len + 1) % Capacity = IF head + len + 1 < Capacity THEN head + len + 1 ELSE head + len + 1 - Capacity
    BY <1>1, Wrap
  <2>3. (tail + 1) % Capacity = IF tail + 1 < Capacity THEN tail + 1 ELSE tail + 1 - Capacity
    BY <1>1, <1>3, Wrap
  <2> QED
    BY <1>1, <2>1, <2>2, <2>3
<1>9. Ring'
  <2>1. \A k \in 1..len' : buffer'[slot(k)'] \in Msgs
    BY <1>1, <1>5, <1>6, <1>7 DEF Ring
  <2>2. buffer' \in [0..(Capacity - 1) -> Msgs \cup {None}]
    BY <1>3 DEF Ring
  <2>3. tail' = (head' + len') % Capacity
    BY <1>1, <1>8
  <2> QED
    BY <1>1, <2>1, <2>2, <2>3 DEF Ring
<1>10. contents' = Append(contents, m)
  <2>1. /\ contents \in Seq(Msgs) /\ Len(contents) = len
        /\ contents' \in Seq(Msgs) /\ Len(contents') = len + 1
    BY <1>9, Contents DEF Ring, contents, slot
  <2>2. \A k \in 1..len : contents'[k] = contents[k]
    BY <1>1, <1>5, <1>7 DEF contents, slot
  <2>3. contents'[len + 1] = m
    BY <1>1, <1>6, <1>7 DEF contents, slot
  <2> QED
    BY <1>1, <2>1, <2>2, <2>3
<1> QED
  BY <1>9, <1>10

\* The message taken from head is the oldest, and the others move up.
LEMMA Taken ==
  ASSUME Ring, len # 0,
         buffer' = [buffer EXCEPT ![head] = None], head' = (head + 1) % Capacity, len' = len - 1, tail' = tail
  PROVE  Ring' /\ contents # <<>> /\ contents' = Tail(contents) /\ buffer[head] = Head(contents)
<1>1. Capacity \in Nat \ {0} /\ head \in 0..(Capacity - 1) /\ len \in 1..Capacity
  BY MailboxConstants DEF Ring
<1>2. \A k \in 1..len : slot(k) = IF head + k - 1 < Capacity THEN head + k - 1 ELSE head + k - 1 - Capacity
  BY <1>1, Wrap DEF slot
<1>3. head' = IF head + 1 < Capacity THEN head + 1 ELSE 0
  BY <1>1, Wrap
<1>4. \A k \in 1..(len - 1) : slot(k)' = slot(k + 1) /\ slot(k)' # head /\ slot(k)' \in 0..(Capacity - 1)
  <2> SUFFICES ASSUME NEW k \in 1..(len - 1)
               PROVE  slot(k)' = slot(k + 1) /\ slot(k)' # head /\ slot(k)' \in 0..(Capacity - 1)
    OBVIOUS
  <2>1. slot(k)' = IF head' + k - 1 < Capacity THEN head' + k - 1 ELSE head' + k - 1 - Capacity
    BY <1>1, <1>3, Wrap DEF slot
  <2>2. slot(k + 1) = IF head + k < Capacity THEN head + k ELSE head + k - Capacity
    BY <1>1, <1>2
  <2> QED
    BY <1>1, <1>3, <2>1, <2>2
<1>5. \A k \in 1..(len - 1) : buffer'[slot(k)'] = buffer[slot(k + 1)]
  BY <1>1, <1>4 DEF Ring
<1>6. tail' = (head' + len') % Capacity
  <2>1. (head + len) % Capacity = IF head + len < Capacity THEN head + len ELSE head + len - Capacity
    BY <1>1, Wrap
  <2>2. (head' + len') % Capacity = IF head' + len' < Capacity THEN head' + len' ELSE head' + len' - Capacity
    BY <1>1, <1>3, Wrap
  <2> QED
    BY <1>1, <1>3, <2>1, <2>2 DEF Ring
<1>7. Ring'
  <2>1. buffer' \in [0..(Capacity - 1) -> Msgs \cup {None}]
    BY <1>1 DEF Ring
  <2>2. \A k \in 1..len' : buffer'[slot(k)'] \in Msgs
    BY <1>1, <1>5 DEF Ring
  <2>3. head' \in 0..(Capacity - 1) /\ len' \in 0..Capacity
    BY <1>1, <1>3
  <2> QED
    BY <1>6, <2>1, <2>2, <2>3 DEF Ring
<1>8. /\ contents \in Seq(Msgs) /\ Len(contents) = len
      /\ contents' \in Seq(Msgs) /\ Len(contents') = len - 1
  BY <1>7, Contents DEF Ring, contents, slot
<1>9. contents[1] = buffer[head]
  BY <1>1, <1>2 DEF contents, slot
<1>10. \A k \in 1..(len - 1) : contents'[k] = contents[k + 1]
  BY <1>1, <1>5 DEF contents, slot
<1> QED
  BY <1>1, <1>7, <1>8, <1>9, <1>10

\* Steps that leave the ring alone.
LEMMA RingStays ==
  ASSUME Ring, UNCHANGED ring
  PROVE  Ring' /\ contents' = contents
BY DEF Ring, ring, contents, slot

\* goto keeps the arguments of a call that goes on.
LEMMA GotoKeeps ==
  ASSUME Arguments, NEW t \in Threads, pc[t] # "idle", NEW place, goto(t, place)
  PROVE  Arguments'
BY DEF Arguments, goto

LEMMA ClaimKeeps ==
  ASSUME Arguments, NEW t \in Threads, pc[t] # "idle", NEW kind, claim_waiter(t, kind)
  PROVE  Arguments'
BY GotoKeeps DEF claim_waiter

\* The queue that the ring implements takes a step or stutters.
FifoStep == F!Next \/ UNCHANGED <<contents, got>>

LEMMA StepHolds ==
  ASSUME IInv, [Next]_vars
  PROVE  IInv' /\ FifoStep
<1> USE DEF IInv
<1>1. ASSUME UNCHANGED <<ring, got>>, Arguments' PROVE IInv' /\ FifoStep
  BY <1>1, RingStays DEF FifoStep
<1>2. CASE UNCHANGED vars
  <2>1. Arguments'
    BY <1>2 DEF vars, locals, Arguments
  <2> QED
    BY <1>1, <1>2, <2>1 DEF vars, control, ring, locals
<1>3. ASSUME NEW t \in Threads, NEW kind \in Kinds, NEW m, kind = "send" => m \in Msgs, Call(t, kind, m)
      PROVE  IInv' /\ FifoStep
  <2>1. UNCHANGED ring
    BY <1>3 DEF Call, control, ring
  <2>2. Arguments'
    BY <1>3 DEF Call, Arguments, Kinds
  <2>3. F!Return(t)
    BY <1>3, <2>1, RingStays DEF Call, F!Return
  <2> QED
    BY <2>1, <2>2, <2>3, RingStays DEF FifoStep, F!Next
<1>4. ASSUME NEW t \in Threads, TrySend(t) PROVE IInv' /\ FifoStep
  <2>1. Arguments'
    BY <1>4, ClaimKeeps DEF TrySend
  <2>2. call[t].msg \in Msgs
    BY <1>4 DEF TrySend, Arguments
  <2>3. len < Capacity
    BY <1>4, MailboxConstants DEF TrySend, should_wait, Ring
  <2>4. Ring' /\ contents' = Append(contents, call[t].msg)
    BY <1>4, <2>2, <2>3, Stored DEF TrySend
  <2>5. F!Send(call[t].msg)
    BY <1>4, <2>3, <2>4, Contents DEF TrySend, F!Send
  <2> QED
    BY <2>1, <2>2, <2>4, <2>5 DEF FifoStep, F!Next
<1>5. ASSUME NEW t \in Threads, TryRecv(t) PROVE IInv' /\ FifoStep
  <2>1. Arguments'
    BY <1>5, ClaimKeeps DEF TryRecv
  <2>2. len # 0
    BY <1>5 DEF TryRecv, should_wait
  <2>3. Ring' /\ contents # <<>> /\ contents' = Tail(contents) /\ buffer[head] = Head(contents)
    BY <1>5, <2>2, Taken DEF TryRecv
  <2>4. F!Recv(t)
    BY <1>5, <2>3 DEF TryRecv, F!Recv
  <2> QED
    BY <2>1, <2>3, <2>4 DEF FifoStep, F!Next
<1>6. ASSUME NEW t \in Threads, TryFails(t) \/ CheckDeadline(t) \/ Resume(t) \/ CommitWait(t) \/ CancelDeadline(t)
                                \/ CompleteClaimed(t)
      PROVE  IInv' /\ FifoStep
  <2>1. UNCHANGED <<ring, got>> /\ pc[t] # "idle" /\ \E place : goto(t, place)
    BY <1>6 DEF TryFails, CheckDeadline, Resume, CommitWait, CancelDeadline, CompleteClaimed, control, ring
  <2> QED
    BY <1>1, <2>1, GotoKeeps
<1>7. ASSUME NEW t \in Threads, MailboxWait(t) \/ RemoveWaiter(t) PROVE IInv' /\ FifoStep
  <2>1. UNCHANGED <<ring, got>> /\ pc[t] # "idle" /\ \E place : goto(t, place)
    BY <1>7 DEF MailboxWait, RemoveWaiter
  <2> QED
    BY <1>1, <2>1, GotoKeeps
<1>8. ASSUME NEW t \in Threads, Reclaim(t) PROVE IInv' /\ FifoStep
  <2>1. UNCHANGED <<ring, got>> /\ Arguments'
    BY <1>8, ClaimKeeps DEF Reclaim
  <2> QED
    BY <1>1, <2>1
<1>9. ASSUME NEW t \in Threads, DeadlinePasses(t) PROVE IInv' /\ FifoStep
  <2>1. UNCHANGED <<ring, got>> /\ Arguments'
    BY <1>9 DEF DeadlinePasses, control, ring, Arguments
  <2> QED
    BY <1>1, <2>1
<1>10. ASSUME NEW tok, TakeExpired(tok) \/ CompleteTimeout(tok) PROVE IInv' /\ FifoStep
  <2>1. UNCHANGED <<ring, got>> /\ Arguments'
    BY <1>10 DEF TakeExpired, CompleteTimeout, control, ring, locals, Arguments
  <2> QED
    BY <1>1, <2>1
<1>11. ASSUME NEW t \in Threads, Step(t) PROVE IInv' /\ FifoStep
  BY <1>4, <1>5, <1>6, <1>7, <1>8, <1>11 DEF Step
<1>12. ASSUME NEW t \in Senders, NEW m \in Msgs, Call(t, "send", m) PROVE IInv' /\ FifoStep
  BY <1>3, <1>12, MailboxConstants DEF Kinds
<1>13. ASSUME NEW t \in Receivers, Call(t, "recv", None) PROVE IInv' /\ FifoStep
  BY <1>3, <1>13, MailboxConstants DEF Kinds
<1> QED
  BY <1>2, <1>9, <1>10, <1>11, <1>12, <1>13 DEF Next

LEMMA InitHolds ==
  ASSUME Init
  PROVE  IInv /\ F!Init
<1>1. contents = <<>>
  BY DEF Init, contents
<1>2. Ring
  <2>1. (head + len) % Capacity = 0
    BY MailboxConstants, Wrap DEF Init
  <2> QED
    BY <2>1, MailboxConstants DEF Init, Ring
<1> QED
  BY <1>1, <1>2 DEF Init, IInv, Arguments, F!Init

\* For any capacity, messages and threads: a mailbox neither loses, duplicates nor
\* reorders messages, holds no more than its capacity, and hands a receiver the oldest
\* one, whatever blocks, is woken or times out meanwhile.
THEOREM MailboxIsFifo == Spec => ImplementsFifo
<1>1. Init => IInv /\ F!Init
  BY InitHolds
<1>2. IInv /\ [Next]_vars => IInv' /\ [F!Next]_<<contents, got>>
  BY StepHolds DEF FifoStep
<1> QED
  BY <1>1, <1>2, PTL DEF Spec, ImplementsFifo, F!Spec

============================================================================
