---------------------------- MODULE Deadlines ----------------------------
(***************************************************************************)
(* What one CPU's bounded time queue promises: a set of events, each with  *)
(* at most one deadline, and a timer interrupt that takes exactly the      *)
(* events whose deadline has passed, in the order of their deadlines.      *)
(***************************************************************************)
EXTENDS Naturals, Sequences, FiniteSets

CONSTANTS
  Events,           \* the identities an event may have
  KeyLess(_, _),    \* the order of events with equal deadlines
  MaxTime,          \* bound: the counter stops here
  None              \* model value: not queued

VARIABLES now, deadline, batch

Times == 0..MaxTime
queued == {e \in Events : deadline[e] # None}
due == {e \in queued : deadline[e] <= now}
before(e, f) == \/ deadline[e] < deadline[f]
                \/ deadline[e] = deadline[f] /\ KeyLess(e, f)

Init == now = 0 /\ deadline = [e \in Events |-> None] /\ batch = <<>>

Tick == now < MaxTime /\ now' = now + 1 /\ UNCHANGED <<deadline, batch>>

\* One operation gives at most one event a new deadline and cancels at most one
\* other (the quantum of a thread that goes to sleep, or that was switched out).
changed == {e \in Events : deadline'[e] # deadline[e]}
rescheduled == {e \in changed : deadline'[e] # None}
Update == Cardinality(rescheduled) <= 1 /\ Cardinality(changed \ rescheduled) <= 1

Operate == UNCHANGED <<now, batch>> /\ Update

Take ==
  /\ batch = <<>>
  /\ deadline' = [e \in Events |-> IF e \in due THEN None ELSE deadline[e]]
  /\ {batch'[k] : k \in DOMAIN batch'} = due
  /\ \A j, k \in DOMAIN batch' : j < k => before(batch'[j], batch'[k])
  /\ UNCHANGED now

\* The batch has been dispatched.  The quantum that comes with its return is
\* ensured: one that is pending already keeps its deadline.
Return ==
  /\ now' = now /\ batch' = <<>>
  /\ Update
  /\ \A e \in rescheduled : deadline[e] = None

Next == Tick \/ Operate \/ Take \/ Return

Spec == Init /\ [][Next]_<<now, deadline, batch>>
==========================================================================
