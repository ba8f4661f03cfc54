------------------------------ MODULE Waits ------------------------------
(***************************************************************************)
(* What the scheduler promises the owners of conditions (mailboxes, stdin, *)
(* the process table) about waits.  A thread has at most one active wait;  *)
(* a token names one wait of one thread, for ever; the first completion    *)
(* decides the cause; and a completion that comes before the thread blocks *)
(* is not lost.  The scheduler implements this specification, and the      *)
(* owners are modelled on top of it.                                       *)
(***************************************************************************)
EXTENDS Naturals

CONSTANTS
  Threads,     \* the threads (of the scheduler: its slots, never two at once)
  MaxSeq       \* bound: waits of one thread

VARIABLES
  phase,       \* the phase of the thread's active wait, or "none"
  seq          \* the sequence of its latest wait

Phases == {"none", "Prepared", "Blocked", "sleeping", "Notified", "Timeout"}
Causes == {"Notified", "Timeout"}
token(t) == [thread |-> t, seq |-> seq[t]]
Tokens == [thread : Threads, seq : 1..MaxSeq]

WaitsInit == phase = [t \in Threads |-> "none"] /\ seq = [t \in Threads |-> 0]

----------------------------------------------------------------------------
(* The operations, for the owners to compose.                              *)

prepare_wait(t) ==
  /\ phase[t] = "none" /\ seq[t] < MaxSeq
  /\ phase' = [phase EXCEPT ![t] = "Prepared"]
  /\ seq' = [seq EXCEPT ![t] = @ + 1]

\* commit_wait blocks, or consumes the completion that came first (Early).
commit_blocks(t) ==
  phase[t] = "Prepared" /\ phase' = [phase EXCEPT ![t] = "Blocked"] /\ seq' = seq
finish_wait(t) ==
  phase[t] \in Causes /\ phase' = [phase EXCEPT ![t] = "none"] /\ seq' = seq

\* complete_wait answers WokeBlocked or CompletedPrepared exactly if it is the
\* first completion of this very wait; anything else changes nothing.
completes(tok) ==
  seq[tok.thread] = tok.seq /\ phase[tok.thread] \in {"Prepared", "Blocked"}
complete_wait(tok, cause) ==
  /\ phase' = IF completes(tok) THEN [phase EXCEPT ![tok.thread] = cause] ELSE phase
  /\ seq' = seq

----------------------------------------------------------------------------
(* The whole promise, thread by thread: one scheduler step may change the  *)
(* waits of several threads (a join prepares and commits its own wait and  *)
(* may finalize a thread that somebody else has joined).                   *)

Legal(t) ==
  LET from == phase[t]
      to == phase'[t]
  IN \/ from = "none" /\ to \in {"Prepared", "Blocked", "sleeping"} /\ seq'[t] = seq[t] + 1
     \/ /\ seq'[t] = seq[t]
        /\ \/ to = from
           \/ from = "Prepared" /\ to \in {"none", "Blocked"} \cup Causes
           \/ from = "Blocked" /\ to \in Causes
           \/ from = "sleeping" /\ to = "none"
           \/ from \in Causes /\ to = "none"

WaitsSpec == WaitsInit /\ [][\A t \in Threads : Legal(t)]_<<phase, seq>>
==========================================================================
