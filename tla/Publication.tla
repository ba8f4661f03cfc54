---------------------------- MODULE Publication ----------------------------
(***************************************************************************)
(* OncePublication: one of several publishers stores the value, readers on *)
(* any CPU take it without a lock.                                         *)
(***************************************************************************)
EXTENDS Naturals, FiniteSets

CONSTANTS Actors, None

VARIABLES
  init_lock, published,
  cell,      \* the storage: None while uninitialized, else whose value it holds
  doing,     \* of each actor: its place in publish
  outcome,   \* of each actor: what publish returned
  seen       \* of each actor: what get returned last

vars == <<init_lock, published, cell, doing, outcome, seen>>

Init ==
  /\ init_lock = FALSE /\ published = FALSE /\ cell = None
  /\ doing = [a \in Actors |-> "idle"] /\ outcome = [a \in Actors |-> None] /\ seen = [a \in Actors |-> None]

at(a, p) == doing[a] = p
go(a, p) == doing' = [doing EXCEPT ![a] = p]
returns(a, r) == go(a, "idle") /\ outcome' = [outcome EXCEPT ![a] = r]

PublishLock(a) ==
  /\ at(a, "idle") /\ outcome[a] = None /\ ~init_lock /\ init_lock' = TRUE /\ go(a, "check")
  /\ UNCHANGED <<published, cell, outcome, seen>>
\* A value that lost the race goes back to its caller.
PublishCheck(a) ==
  /\ at(a, "check")
  /\ IF published THEN init_lock' = FALSE /\ returns(a, "err") ELSE go(a, "write") /\ UNCHANGED <<init_lock, outcome>>
  /\ UNCHANGED <<published, cell, seen>>
PublishWrite(a) ==
  /\ at(a, "write") /\ cell' = a /\ go(a, "store")
  /\ UNCHANGED <<init_lock, published, outcome, seen>>
\* The Release store, and the unlock.
PublishStore(a) ==
  /\ at(a, "store") /\ published' = TRUE /\ go(a, "unlock")
  /\ UNCHANGED <<init_lock, cell, outcome, seen>>
PublishUnlock(a) ==
  /\ at(a, "unlock") /\ init_lock' = FALSE /\ returns(a, "ok")
  /\ UNCHANGED <<published, cell, seen>>

Get(a) ==
  /\ at(a, "idle") /\ seen' = [seen EXCEPT ![a] = IF published THEN [value |-> cell] ELSE None]
  /\ UNCHANGED <<init_lock, published, cell, doing, outcome>>

Next ==
  \E a \in Actors :
    PublishLock(a) \/ PublishCheck(a) \/ PublishWrite(a) \/ PublishStore(a) \/ PublishUnlock(a) \/ Get(a)
Spec == Init /\ [][Next]_vars

\* Every reader that finds the publication sees one and the same initialized value, that
\* of the only publisher whose publish succeeded or is about to.
PublishedOnce ==
  /\ \A a \in Actors : seen[a] # None => seen[a].value = cell /\ cell # None
  /\ Cardinality({a \in Actors : outcome[a] = "ok"}) <= 1
  /\ \A a \in Actors : outcome[a] = "ok" => published /\ cell = a
=============================================================================
