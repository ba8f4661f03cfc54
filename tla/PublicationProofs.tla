------------------------ MODULE PublicationProofs ------------------------
(***************************************************************************)
(* OncePublication publishes once, for any number of publishers and        *)
(* readers.                                                                *)
(***************************************************************************)
EXTENDS Publication, FiniteSetTheorems, TLAPS

\* The places of publish at which its caller holds the initialization lock.
Inside == {"check", "write", "store", "unlock"}

\* One publisher is inside at a time; the flag is raised only over a stored value, and
\* neither the flag nor the value changes any more.
IInv ==
  /\ published \in BOOLEAN
  /\ doing \in [Actors -> Inside \cup {"idle"}]
  /\ DOMAIN outcome = Actors /\ DOMAIN seen = Actors
  /\ \A a \in Actors : doing[a] \in Inside => init_lock
  /\ \A a, b \in Actors : doing[a] \in Inside /\ doing[b] \in Inside => a = b
  /\ \A a \in Actors : doing[a] \in {"write", "store"} => ~published
  /\ \A a \in Actors : doing[a] \in {"store", "unlock"} => cell = a
  /\ \A a \in Actors : doing[a] = "unlock" => published
  /\ published => cell \in Actors
  /\ \A a \in Actors : seen[a] # None => published /\ seen[a] = [value |-> cell]
  /\ \A a \in Actors : outcome[a] = "ok" => published /\ cell = a

LEMMA InitHolds ==
  ASSUME None # "ok", Init
  PROVE  IInv
BY DEF Init, IInv, Inside

LEMMA StepHolds ==
  ASSUME None # "ok", IInv, [Next]_vars
  PROVE  IInv'
<1>1. CASE UNCHANGED vars
  BY <1>1 DEF vars, IInv, Inside
<1>2. ASSUME NEW a \in Actors, PublishLock(a) PROVE IInv'
  BY <1>2 DEF PublishLock, at, go, IInv, Inside
<1>3. ASSUME NEW a \in Actors, PublishCheck(a) PROVE IInv'
  <2>1. CASE published
    BY <1>3, <2>1 DEF PublishCheck, returns, at, go, IInv, Inside
  <2>2. CASE ~published
    BY <1>3, <2>2 DEF PublishCheck, at, go, IInv, Inside
  <2> QED
    BY <2>1, <2>2
<1>4. ASSUME NEW a \in Actors, PublishWrite(a) PROVE IInv'
  BY <1>4 DEF PublishWrite, at, go, IInv, Inside
<1>5. ASSUME NEW a \in Actors, PublishStore(a) PROVE IInv'
  BY <1>5 DEF PublishStore, at, go, IInv, Inside
<1>6. ASSUME NEW a \in Actors, PublishUnlock(a) PROVE IInv'
  BY <1>6 DEF PublishUnlock, returns, at, go, IInv, Inside
<1>7. ASSUME NEW a \in Actors, Get(a) PROVE IInv'
  BY <1>7 DEF Get, at, IInv, Inside
<1> QED
  BY <1>1, <1>2, <1>3, <1>4, <1>5, <1>6, <1>7 DEF Next

LEMMA InvariantSuffices ==
  ASSUME None \notin Actors, IInv
  PROVE  PublishedOnce
<1> DEFINE winners == {a \in Actors : outcome[a] = "ok"}
<1>1. winners \subseteq {cell}
  BY DEF IInv
<1>2. IsFiniteSet({cell}) /\ Cardinality({cell}) = 1
  BY FS_Singleton
<1>3. Cardinality(winners) <= 1
  BY <1>1, <1>2, FS_Subset
<1> QED
  BY <1>3 DEF IInv, PublishedOnce

\* Whatever publishers and readers there are and however they interleave, the readers
\* that find an OncePublication published see the one value that was stored, and only
\* the publish that stored it succeeds.
THEOREM PublishesOnce ==
  ASSUME None \notin Actors \cup {"ok"}
  PROVE  Spec => []PublishedOnce
<1>1. Init => IInv
  BY InitHolds
<1>2. IInv /\ [Next]_vars => IInv'
  BY StepHolds
<1>3. IInv => PublishedOnce
  BY InvariantSuffices
<1> QED
  BY <1>1, <1>2, <1>3, PTL DEF Spec
============================================================================
