------------------------ MODULE EventProjectionProofs ------------------------
(* Proofs about EventProjection, for any number of versions: what the model  *)
(* shows when messages are lost, late or out of order, clean-ups remove what *)
(* it has not read, and a load runs beside the consumer.                     *)
EXTENDS EventProjection, FiniteSetTheorems, SequenceTheorems, LeastNumber, TLAPS

StoredEvent == [version : Version, snapshot : BOOLEAN]

Iteration == [by : {"none", "bus", "reload", "project"}, rest : Seq(StoredEvent),
              first : BOOLEAN, seeking : BOOLEAN]
Activity == [at : {"idle", "handling", "reload", "reloading", "loaded"}, version : Version,
             cursor : Seq(StoredEvent)]

-----------------------------------------------------------------------------
(* The inductive invariants.                                                 *)

(* The document of an aggregate at version `latest` whose clean-up has kept  *)
(* the events from version lo on: one event for each version, a snapshot     *)
(* last, and one first unless the document still holds its first event.      *)
KeptFrom(lo) ==
    /\ lo = 0 \/ Event(lo, TRUE) \in events
    /\ Event(latest, TRUE) \in events
    /\ \A e \in events : e.version >= lo
    /\ \A v \in lo .. latest : \E e \in events : e.version = v

StoreInv ==
    /\ latest \in -1 .. MaxVersion /\ latest >= StartVersion
    /\ events \subseteq [version : 0 .. latest, snapshot : BOOLEAN]
    /\ \A e, f \in events : e.version = f.version => e = f
    /\ \A e \in events : e.version >= StartVersion
    /\ latest # -1 => \E lo \in 0 .. latest : KeptFrom(lo)
    /\ bus \subseteq StartVersion + 1 .. latest

(* The shape of the state.                                                   *)
ShapeInv ==
    /\ am \in [version : Version, hasSnapshot : BOOLEAN]
    /\ content \in Version \cup {Empty, Torn}
    /\ iter \in Iteration
    /\ consumer \in Activity /\ consumer.at # "loaded"
    /\ loader \in Activity /\ loader.at \in {"idle", "loaded", "handling"}
    /\ seen \in -1 .. latest /\ astray \in BOOLEAN

(* The version the model has reached.                                        *)
Reached == IF am.hasSnapshot THEN am.version ELSE -1

(* What a query returns of a document at version n: consecutive versions     *)
(* that end with a snapshot.                                                 *)
Run(s, n) ==
    /\ s \in Seq(StoredEvent)
    /\ \A i \in 1 .. Len(s) : s[i].version \in 0 .. n
    /\ \A i \in 1 .. Len(s) - 1 : s[i + 1].version = s[i].version + 1
    /\ s # << >> => s[Len(s)].snapshot

(* What the bus delivers of it: messages in any order, never a snapshot.     *)
Messages(s, n) == \A i \in 1 .. Len(s) : ~s[i].snapshot /\ s[i].version \in 0 .. n

(* The highest version seen is reached, or still to come in the batch.       *)
Awaited(s) == seen <= Reached \/ \E i \in 1 .. Len(s) : s[i].version = seen

(* Past its first event and any gap, a load goes on from what was reached.   *)
Follows ==
    iter.first \/ iter.seeking \/ iter.rest = << >>
      \/ (am.hasSnapshot /\ iter.rest[1].version <= am.version + 1)

(* A load that started over from version 0 is on its way to its snapshot.    *)
Rebuilding ==
    /\ iter.by \in {"reload", "project"} /\ ~iter.first /\ ~iter.seeking
    /\ iter.rest # << >> /\ am.hasSnapshot /\ iter.rest[1].version = am.version + 1

ModelInv == am.version = 0 \/ am.version <= latest
ContentInv == astray \/ content = Reached \/ Rebuilding

(* The iteration under way: messages from the bus, or the events of a load.  *)
IterInv ==
    /\ consumer.at = "handling" <=> iter.by \in {"bus", "reload"}
    /\ loader.at = "handling" <=> iter.by = "project"
    /\ iter.by = "none" => iter.rest = << >>
    /\ iter.by = "bus" =>
        latest >= 0 /\ Messages(iter.rest, latest) /\ (iter.seeking \/ Awaited(iter.rest))
    /\ iter.by \in {"reload", "project"} => Run(iter.rest, latest) /\ Follows
    /\ iter.by = "reload" =>
        seen <= IF iter.rest = << >> THEN Reached ELSE iter.rest[Len(iter.rest)].version

(* What the consumer and the loader have read and not yet handled.           *)
CursorInv ==
    /\ consumer.at = "idle" => seen <= Reached
    /\ consumer.at = "reload" => consumer.version \in 0 .. latest
    /\ consumer.at = "reloading" =>
        /\ Run(consumer.cursor, latest) /\ consumer.cursor # << >>
        /\ seen <= consumer.cursor[Len(consumer.cursor)].version
    /\ loader.at = "loaded" => Run(loader.cursor, latest)

IInv == StoreInv /\ ShapeInv
ReadInv == ModelInv /\ ContentInv /\ IterInv /\ CursorInv

-----------------------------------------------------------------------------
(* The operators of the model.                                               *)

(* Counting the stored events below version k.                               *)
LEMMA CountBelow ==
    ASSUME StoreInv, NEW lo \in 0 .. latest, KeptFrom(lo), NEW b \in lo .. latest,
           NEW k \in b .. latest + 1
    PROVE  LET S == {f \in events : f.version >= b /\ f.version < k}
           IN IsFiniteSet(S) /\ Cardinality(S) = k - b
  <1> DEFINE S == {f \in events : f.version >= b /\ f.version < k}
             at == [j \in b .. k - 1 |-> CHOOSE f \in events : f.version = j]
  <1>1. \A j \in b .. k - 1 : at[j] \in events /\ at[j].version = j
    BY DEF KeptFrom, StoreInv
  <1>2. \A f \in S : f.version \in b .. k - 1 /\ at[f.version] = f
    <2> SUFFICES ASSUME NEW f \in S PROVE f.version \in b .. k - 1 /\ at[f.version] = f
      OBVIOUS
    <2>1. f.version \in b .. k - 1 /\ f \in events
      BY DEF StoreInv
    <2> QED
      BY <1>1, <2>1 DEF StoreInv
  <1> HIDE DEF at
  <1>3. at \in [b .. k - 1 -> S]
    BY <1>1 DEF at, StoreInv
  <1>4. at \in Bijection(b .. k - 1, S)
    BY <1>1, <1>2, <1>3 DEF Bijection, Injection, Surjection, IsInjective
  <1>5. IsFiniteSet(b .. k - 1) /\ Cardinality(b .. k - 1) = k - b
    <2>1. b \in Int /\ k - 1 \in Int /\ k >= b
      BY DEF StoreInv
    <2>2. IsFiniteSet(b .. k - 1) /\ Cardinality(b .. k - 1) = IF b > k - 1 THEN 0 ELSE (k - 1) - b + 1
      BY <2>1, FS_Interval
    <2> QED
      BY <2>1, <2>2
  <1> QED
    BY <1>4, <1>5, FS_Bijection DEF ExistsBijection

(* EventsFrom returns the stored events from a version on, or from the       *)
(* oldest one, in the order of their versions and up to the latest.          *)
LEMMA EventsFromRun ==
    ASSUME StoreInv, NEW lo \in 0 .. latest, KeptFrom(lo), NEW v \in 0 .. latest
    PROVE  LET b == IF v > lo THEN v ELSE lo
               s == EventsFrom(v)
           IN /\ s \in [1 .. latest - b + 1 -> events]
              /\ \A i \in 1 .. latest - b + 1 : s[i].version = b + i - 1
  <1> DEFINE b == IF v > lo THEN v ELSE lo
             kept == {e \in events : e.version >= v}
             at(i) == CHOOSE e \in kept : Cardinality({f \in kept : f.version < e.version}) = i - 1
             s == [i \in 1 .. Cardinality(kept) |-> at(i)]
  <1>1. EventsFrom(v) = s
    BY DEF EventsFrom
  <1>b. b \in lo .. latest /\ latest \in Int /\ lo \in Int
    BY DEF StoreInv
  <1>k. \A e \in events : e.version \in 0 .. latest /\ e.version >= lo
    BY DEF StoreInv, KeptFrom
  <1>2. kept = {f \in events : f.version >= b /\ f.version < latest + 1}
    BY <1>b, <1>k
  <1>3. \A e \in kept : e \in events /\ e.version \in b .. latest
    BY <1>b, <1>k
  <1>4. \A e \in kept : {f \in kept : f.version < e.version}
                            = {f \in events : f.version >= b /\ f.version < e.version}
    BY <1>3, <1>2, <1>b, <1>k
  <1> HIDE DEF kept, b
  <1>5. Cardinality(kept) = latest - b + 1
    <2>1. PICK k \in b .. latest + 1 : k = latest + 1
      BY <1>b
    <2>2. Cardinality({f \in events : f.version >= b /\ f.version < k}) = k - b
      BY <1>b, CountBelow
    <2>3. kept = {f \in events : f.version >= b /\ f.version < k}
      BY <1>2, <2>1
    <2>4. Cardinality(kept) = k - b
      BY <2>2, <2>3
    <2> QED
      BY <2>1, <2>4, <1>b
  <1>6. ASSUME NEW e \in kept
        PROVE  Cardinality({f \in kept : f.version < e.version}) = e.version - b
    <2>1. e.version \in b .. latest + 1
      BY <1>3, <1>b
    <2>2. Cardinality({f \in events : f.version >= b /\ f.version < e.version}) = e.version - b
      BY <1>b, <2>1, CountBelow
    <2> QED
      BY <1>4, <2>2
  <1>7. ASSUME NEW i \in 1 .. latest - b + 1
        PROVE  at(i) \in kept /\ at(i).version = b + i - 1
    <2>1. b + i - 1 \in lo .. latest /\ b + i - 1 < latest + 1 /\ b + i - 1 >= b
      BY <1>b
    <2>2. PICK e \in events : e.version = b + i - 1
      BY <2>1 DEF KeptFrom
    <2>3. e \in kept
      BY <1>2, <2>1, <2>2
    <2>4. Cardinality({f \in kept : f.version < e.version}) = i - 1
      BY <1>6, <1>b, <2>2, <2>3
    <2>5. at(i) \in kept /\ Cardinality({f \in kept : f.version < at(i).version}) = i - 1
      BY <2>3, <2>4
    <2> HIDE DEF at
    <2>6. at(i).version - b = i - 1 /\ at(i).version \in b .. latest
      BY <1>6, <1>3, <2>5
    <2> QED
      BY <2>5, <2>6, <1>b
  <1> HIDE DEF at
  <1>8. s \in [1 .. latest - b + 1 -> events]
    BY <1>3, <1>5, <1>7
  <1>9. \A i \in 1 .. latest - b + 1 : s[i].version = b + i - 1
    BY <1>5, <1>7
  <1> QED
    BY <1>1, <1>8, <1>9 DEF b

(* Whatever the version, what is read is a sequence of events.               *)
LEMMA EventsFromShape ==
    ASSUME StoreInv, NEW v \in 0 .. MaxVersion
    PROVE  EventsFrom(v) \in Seq(StoredEvent)
  <1>1. latest \in -1 .. MaxVersion /\ events \subseteq StoredEvent
    <2>1. latest \in -1 .. MaxVersion /\ 0 .. latest \subseteq Version
      BY ProjectionConstants DEF StoreInv, Version
    <2> QED
      BY <2>1 DEF StoreInv, StoredEvent
  <1>2. CASE v \in 0 .. latest
    <2>1. PICK lo \in 0 .. latest : KeptFrom(lo)
      BY <1>2, <1>1 DEF StoreInv
    <2>2. PICK n \in Nat : EventsFrom(v) \in [1 .. n -> events]
      <3>1. EventsFrom(v) \in [1 .. latest - (IF v > lo THEN v ELSE lo) + 1 -> events]
        BY <1>2, <2>1, EventsFromRun
      <3>2. latest - (IF v > lo THEN v ELSE lo) + 1 \in Nat
        BY <1>1, <1>2
      <3> QED
        BY <3>1, <3>2
    <2>3. EventsFrom(v) \in [1 .. n -> StoredEvent]
      BY <1>1, <2>2
    <2> QED
      BY <2>3
  <1>3. CASE v \notin 0 .. latest
    <2> DEFINE kept == {e \in events : e.version >= v}
               at(i) == CHOOSE e \in kept : Cardinality({f \in kept : f.version < e.version}) = i - 1
    <2>1. kept = {}
      BY <1>1, <1>3 DEF StoreInv
    <2>2. Cardinality(kept) = 0
      BY <2>1, FS_EmptySet
    <2>3. EventsFrom(v) = [i \in 1 .. Cardinality(kept) |-> at(i)]
      BY DEF EventsFrom
    <2> HIDE DEF at, kept
    <2>4. EventsFrom(v) \in [1 .. 0 -> StoredEvent]
      BY <2>2, <2>3
    <2> QED
      BY <2>4
  <1> QED
    BY <1>2, <1>3

LEMMA UpdateShape ==
    ASSUME am \in [version : Version, hasSnapshot : BOOLEAN], NEW e \in StoredEvent
    PROVE  Update(e).am \in [version : Version, hasSnapshot : BOOLEAN]
  BY DEF Update, Verdict, StoredEvent

LEMMA HighestOfBatch ==
    ASSUME StoreInv, seen \in -1 .. latest, NEW batch \in SUBSET bus
    PROVE  /\ Highest(batch) \in -1 .. latest
           /\ Highest(batch) \in batch \cup {seen}
           /\ \A w \in batch \cup {seen} : w <= Highest(batch)
  <1> DEFINE T == batch \cup {seen}
  <1>1. MaxVersion \in Nat /\ T \in SUBSET (-1 .. MaxVersion) /\ T # {} /\ T \subseteq -1 .. latest
    BY ProjectionConstants DEF StoreInv
  <1> HIDE DEF T
  <1>2. \E x \in T : \A y \in T : y <= x
    BY <1>1, Greatest
  <1>3. Highest(batch) = CHOOSE x \in T : \A y \in T : y <= x
    BY DEF Highest, T
  <1>4. Highest(batch) \in T /\ \A y \in T : y <= Highest(batch)
    BY <1>2, <1>3
  <1> QED
    BY <1>1, <1>4 DEF T

-----------------------------------------------------------------------------
(* The shape of the state.                                                   *)

LEMMA InitShape == Init => IInv
  <1> SUFFICES ASSUME Init PROVE IInv
    OBVIOUS
  <1>0. StartVersion \in -1 .. MaxVersion /\ MaxVersion \in Nat
    BY ProjectionConstants
  <1>1. /\ latest = StartVersion /\ bus = {}
        /\ events = {Event(v, TRUE) : v \in {StartVersion} \cap Nat}
    BY DEF Init
  <1>2. StoreInv
    <2>1. CASE StartVersion = -1
      <3>1. {StartVersion} \cap Nat = {}
        BY <2>1
      <3>2. events = {}
        BY <1>1, <3>1
      <3>3. latest \in -1 .. MaxVersion /\ latest >= StartVersion /\ latest = -1
        BY <1>0, <1>1, <2>1
      <3> HIDE DEF Init
      <3> QED
        BY <1>1, <3>2, <3>3 DEF StoreInv
    <2>2. CASE StartVersion # -1
      <3>1. {StartVersion} \cap Nat = {latest} /\ latest \in 0 .. MaxVersion /\ latest # -1
        BY <1>0, <1>1, <2>2
      <3>2. events = {Event(latest, TRUE)}
        BY <1>1, <3>1
      <3>3. /\ Event(latest, TRUE).version = latest
            /\ Event(latest, TRUE) \in [version : 0 .. latest, snapshot : BOOLEAN]
        BY <3>1 DEF Event
      <3>4. \A v \in latest .. latest : v = latest
        BY <3>1
      <3>5. /\ latest \in -1 .. MaxVersion /\ latest >= StartVersion /\ latest \in 0 .. latest
            /\ latest >= latest
        BY <1>0, <1>1, <3>1
      <3>6. KeptFrom(latest)
        <4>1. \A e \in events : e.version >= latest
          BY <3>2, <3>3, <3>5
        <4>2. \A v \in latest .. latest : \E e \in events : e.version = v
          BY <3>2, <3>3, <3>4
        <4> QED
          BY <4>1, <4>2, <3>2 DEF KeptFrom
      <3>7. \A e \in events : e.version >= StartVersion
        BY <3>2, <3>3, <3>5
      <3>8. events \subseteq [version : 0 .. latest, snapshot : BOOLEAN]
        BY <3>2, <3>3
      <3> QED
        BY <1>1, <3>2, <3>5, <3>6, <3>7, <3>8 DEF StoreInv
    <2> QED
      BY <2>1, <2>2
  <1>3. << >> \in Seq(StoredEvent)
    BY EmptySeq
  <1>4. ShapeInv
    <2>1. am \in [version : Version, hasSnapshot : BOOLEAN] /\ content \in Version \cup {Empty, Torn}
      BY <1>0 DEF Init, Version, Empty
    <2>2. iter \in Iteration /\ consumer \in Activity /\ loader \in Activity
          /\ consumer.at = "idle" /\ loader.at = "idle"
      BY <1>0, <1>3 DEF Init, NoIter, Idle, Iteration, Activity, Version
    <2>3. seen \in -1 .. latest /\ astray \in BOOLEAN
      <3>1. seen = -1
        BY Zenon DEF Init
      <3>2. astray \in BOOLEAN
        BY Zenon DEF Init
      <3> QED
        BY <1>0, <1>1, <3>1, <3>2
    <2> QED
      BY <2>1, <2>2, <2>3 DEF ShapeInv
  <1> QED
    BY <1>2, <1>4 DEF IInv

LEMMA CommitShape ==
    ASSUME IInv, NEW n \in 1 .. 2, Commit(n)
    PROVE  IInv'
  <1> DEFINE new == {Event(v, v = latest + n) : v \in latest + 1 .. latest + n}
  <1>1. /\ latest' = latest + n /\ latest' <= MaxVersion
        /\ events' = events \cup new
        /\ bus' = bus \cup (latest + 1 .. latest + n)
        /\ UNCHANGED <<am, content, iter, consumer, loader, seen, astray>>
    BY DEF Commit, projected, history
  <1>2. /\ \A e \in new : /\ e \in [version : 0 .. latest', snapshot : BOOLEAN]
                          /\ e.version > latest
                          /\ e.snapshot = (e.version = latest')
        /\ \A v \in latest + 1 .. latest' : \E e \in new : e.version = v
        /\ Event(latest', TRUE) \in new
    <2>1. latest \in Int /\ latest >= -1 /\ latest' \in Int /\ latest' > latest
      BY <1>1 DEF IInv, StoreInv
    <2>2. ASSUME NEW v \in latest + 1 .. latest'
          PROVE  /\ Event(v, v = latest + n) \in new
                 /\ Event(v, v = latest + n) \in [version : 0 .. latest', snapshot : BOOLEAN]
                 /\ Event(v, v = latest + n).version = v
                 /\ Event(v, v = latest + n).snapshot = (v = latest')
      BY <1>1, <2>1 DEF Event
    <2>3. Event(latest', TRUE) \in new
      <3>1. Event(latest', latest' = latest + n) \in new
        BY <2>1, <2>2
      <3>2. (latest' = latest + n) = TRUE
        BY <1>1
      <3> QED
        BY <3>1, <3>2
    <2>4. ASSUME NEW e \in new
          PROVE  \E v \in latest + 1 .. latest' : e = Event(v, v = latest + n)
      BY <1>1
    <2> HIDE DEF new
    <2>5. ASSUME NEW e \in new
          PROVE  /\ e \in [version : 0 .. latest', snapshot : BOOLEAN]
                 /\ e.version > latest
                 /\ e.snapshot = (e.version = latest')
      <3>1. PICK v \in latest + 1 .. latest' : e = Event(v, v = latest + n)
        BY <2>4
      <3> QED
        BY <3>1, <2>1, <2>2
    <2>6. \A v \in latest + 1 .. latest' : \E e \in new : e.version = v
      BY <2>2
    <2> QED
      BY <2>3, <2>5, <2>6
  <1>3. \A e, f \in new : e.version = f.version => e = f
    BY DEF Event
  <1> HIDE DEF new
  <1>4. latest \in Int /\ latest' \in -1 .. MaxVersion /\ latest' > latest /\ latest' >= 0 /\ latest >= StartVersion
    BY <1>1, ProjectionConstants DEF IInv, StoreInv
  <1>5. events' \subseteq [version : 0 .. latest', snapshot : BOOLEAN]
    BY <1>1, <1>2, <1>4 DEF IInv, StoreInv
  <1>6. \A e, f \in events' : e.version = f.version => e = f
    BY <1>1, <1>2, <1>3 DEF IInv, StoreInv
  <1>7. \A e \in events' : e.version >= StartVersion
    BY <1>1, <1>2, <1>4, ProjectionConstants DEF IInv, StoreInv
  <1>8. bus' \subseteq StartVersion + 1 .. latest'
    BY <1>1, <1>4, ProjectionConstants DEF IInv, StoreInv
  <1>9. \E lo \in 0 .. latest' : KeptFrom(lo)'
    <2>1. CASE latest = -1
      <3>1. events = {}
        BY <2>1 DEF IInv, StoreInv
      <3>2. KeptFrom(0)'
        BY <1>1, <1>2, <1>4, <2>1, <3>1 DEF KeptFrom, Event
      <3> QED
        BY <1>4, <3>2
    <2>2. CASE latest # -1
      <3>1. PICK lo \in 0 .. latest : KeptFrom(lo)
        BY <2>2 DEF IInv, StoreInv
      <3>2. KeptFrom(lo)'
        BY <1>1, <1>2, <1>4, <3>1, <2>2 DEF KeptFrom, Event
      <3> QED
        BY <1>4, <3>1, <3>2
    <2> QED
      BY <2>1, <2>2
  <1>10. StoreInv'
    BY <1>4, <1>5, <1>6, <1>7, <1>8, <1>9, ProjectionConstants DEF StoreInv
  <1>11. ShapeInv'
    BY <1>1, <1>4 DEF IInv, ShapeInv, StoreInv
  <1> QED
    BY <1>10, <1>11 DEF IInv

LEMMA CleanUpShape ==
    ASSUME IInv, NEW v \in Version, CleanUp(v)
    PROVE  IInv'
  <1>1. /\ Event(v, TRUE) \in events
        /\ events' = {e \in events : e.version >= v}
        /\ UNCHANGED <<latest, bus, am, content, iter, consumer, loader, seen, astray>>
    BY DEF CleanUp, projected, history
  <1>2. Event(v, TRUE).version = v /\ v \in 0 .. latest /\ latest # -1
    BY <1>1 DEF Event, IInv, StoreInv
  <1>3. PICK lo \in 0 .. latest : KeptFrom(lo)
    BY <1>2 DEF IInv, StoreInv
  <1>4. lo <= v
    BY <1>1, <1>2, <1>3 DEF KeptFrom
  <1>5. Event(latest, TRUE) \in events' /\ Event(v, TRUE) \in events'
    BY <1>1, <1>2, <1>3 DEF KeptFrom, Event
  <1>6. KeptFrom(v)'
    BY <1>1, <1>2, <1>3, <1>4, <1>5 DEF KeptFrom, Event
  <1>7. StoreInv'
    BY <1>1, <1>2, <1>6 DEF IInv, StoreInv
  <1> QED
    BY <1>1, <1>7 DEF IInv, ShapeInv

(* The steps that leave the document alone.                                  *)
LEMMA SameDocument ==
    ASSUME StoreInv, UNCHANGED <<events, latest>>, bus' \subseteq bus
    PROVE  StoreInv'
  BY DEF StoreInv, KeptFrom

LEMMA ActivityShape ==
    ASSUME NEW at \in {"idle", "handling"}
    PROVE  Idle \in Activity /\ [Idle EXCEPT !.at = at] \in Activity /\ NoIter \in Iteration
           /\ [Idle EXCEPT !.at = at].at = at
  <1>1. << >> \in Seq(StoredEvent) /\ 0 \in Version
    BY EmptySeq, ProjectionConstants DEF Version
  <1> QED
    BY <1>1 DEF Idle, Activity, NoIter, Iteration

LEMMA NextEventShape ==
    ASSUME IInv, NextEvent
    PROVE  IInv'
  <1>1. iter \in Iteration /\ iter.rest # << >> /\ iter.rest \in Seq(StoredEvent)
    BY DEF NextEvent, IInv, ShapeInv, Iteration
  <1>2. Head(iter.rest) \in StoredEvent /\ Tail(iter.rest) \in Seq(StoredEvent)
    BY <1>1, HeadTailProperties
  <1>3. \A b \in BOOLEAN : Advance(b) => iter' \in Iteration
    BY <1>1, <1>2 DEF Advance, Iteration
  <1>4. iter' \in Iteration
    BY <1>3 DEF NextEvent, SkipToSnapshot, Ignore, Gap, Apply
  <1>5. /\ am' \in [version : Version, hasSnapshot : BOOLEAN]
        /\ content' \in Version \cup {Empty, Torn}
    <2>1. CASE UNCHANGED projected
      BY <2>1 DEF projected, IInv, ShapeInv
    <2>2. CASE Apply
      <3>1. am' = Update(Head(iter.rest)).am /\ content' = Handle(Head(iter.rest))
        BY <2>2 DEF Apply
      <3>2. am \in [version : Version, hasSnapshot : BOOLEAN]
        BY DEF IInv, ShapeInv
      <3>3. Update(Head(iter.rest)).am \in [version : Version, hasSnapshot : BOOLEAN]
        BY <1>2, <3>2, UpdateShape
      <3>4. content' \in Version \cup {Torn}
        BY <3>1, <1>2 DEF Handle, StoredEvent
      <3> QED
        BY <3>1, <3>3, <3>4
    <2> QED
      BY <2>1, <2>2 DEF NextEvent, SkipToSnapshot, Ignore, Gap
  <1>6. UNCHANGED <<events, latest, bus, consumer, loader>>
    BY DEF NextEvent, store
  <1>7. StoreInv'
    BY <1>6, SameDocument DEF IInv
  <1>8. seen' \in -1 .. latest /\ astray' \in BOOLEAN
    <2>0. seen \in -1 .. latest /\ -1 \in -1 .. latest /\ astray \in BOOLEAN
      BY DEF IInv, ShapeInv, StoreInv
    <2>1. CASE UNCHANGED history
      BY <2>0, <2>1 DEF history
    <2>2. CASE Apply
      <3>1. seen' \in {-1, seen}
        BY <2>2 DEF Apply
      <3>2. astray' = (~Head(iter.rest).snapshot /\ (astray \/ Lapse(Head(iter.rest))))
        BY <2>2, Zenon DEF Apply
      <3>3. astray' \in BOOLEAN
        BY <3>2, Zenon
      <3> QED
        BY <2>0, <3>1, <3>3
    <2> QED
      BY <2>1, <2>2 DEF NextEvent, SkipToSnapshot, Ignore, Gap
  <1> QED
    BY <1>4, <1>5, <1>6, <1>7, <1>8 DEF IInv, ShapeInv

LEMMA ConsumeShape ==
    ASSUME IInv, NEW batch \in Batches, Consume(batch)
    PROVE  IInv'
  <1>1. PICK n \in 1 .. MaxBatch : batch \in [1 .. n -> bus]
    BY DEF Batches
  <1> DEFINE versions == {batch[i] : i \in DOMAIN batch}
             rest == [i \in DOMAIN batch |-> Event(batch[i], FALSE)]
  <1>2. versions \in SUBSET bus /\ bus \subseteq Version
    BY <1>1, ProjectionConstants DEF IInv, StoreInv, Version
  <1>3. rest \in Seq(StoredEvent)
    <2>1. n \in Nat
      BY ProjectionConstants
    <2>2. rest \in [1 .. n -> StoredEvent]
      BY <1>1, <1>2 DEF Event, StoredEvent
    <2> HIDE DEF rest
    <2> QED
      BY <2>1, <2>2
  <1>4. /\ iter' = [by |-> "bus", rest |-> rest, first |-> TRUE, seeking |-> FALSE]
        /\ bus' = bus \ versions
        /\ seen' = Highest(versions)
        /\ consumer' = [Idle EXCEPT !.at = "handling"]
        /\ UNCHANGED <<events, latest, am, content, loader, astray>>
    BY DEF Consume, Begin, projected
  <1> HIDE DEF versions, rest
  <1>5. seen' \in -1 .. latest
    BY <1>2, <1>4, HighestOfBatch DEF IInv, ShapeInv
  <1>6. iter' \in Iteration
    BY <1>3, <1>4 DEF Iteration
  <1>7. consumer' \in Activity /\ consumer'.at = "handling"
    BY <1>4, ActivityShape
  <1>8. StoreInv'
    BY <1>4, SameDocument DEF IInv
  <1> QED
    BY <1>4, <1>5, <1>6, <1>7, <1>8 DEF IInv, ShapeInv

LEMMA LoadShape ==
    ASSUME IInv, LoadFromVersion \/ Project
    PROVE  IInv'
  <1>0. IInv /\ UNCHANGED <<events, latest, bus, am, content, iter, seen, astray>>
    BY DEF LoadFromVersion, Project, store, projected, history
  <1>1. StoreInv'
    BY <1>0, SameDocument DEF IInv
  <1>2. CASE LoadFromVersion
    <2>1. consumer.version \in 0 .. MaxVersion
      BY DEF IInv, ShapeInv, Activity, Version
    <2>2. EventsFrom(consumer.version) \in Seq(StoredEvent)
      BY <2>1, EventsFromShape DEF IInv
    <2>3. consumer' \in Activity /\ consumer'.at = "reloading" /\ UNCHANGED loader
      BY <1>2, <2>2, ProjectionConstants DEF LoadFromVersion, Activity, Version
    <2> QED
      BY <1>0, <1>1, <2>3 DEF IInv, ShapeInv
  <1>3. CASE Project
    <2>1. latest \in 0 .. MaxVersion
      BY <1>3 DEF Project, IInv, StoreInv
    <2>2. EventsFrom(latest) \in Seq(StoredEvent)
      BY <2>1, EventsFromShape DEF IInv
    <2>3. loader' \in Activity /\ loader'.at = "loaded" /\ UNCHANGED consumer
      BY <1>3, <2>2, ProjectionConstants DEF Project, Activity, Version
    <2> QED
      BY <1>0, <1>1, <2>3 DEF IInv, ShapeInv
  <1> QED
    BY <1>2, <1>3

LEMMA HandleShape ==
    ASSUME IInv, HandleReload \/ HandleSnapshot
    PROVE  IInv'
  <1>0. IInv /\ UNCHANGED <<events, latest, bus, am, content, seen, astray>>
    BY DEF HandleReload, HandleSnapshot, store, projected, history
  <1>1. StoreInv'
    BY <1>0, SameDocument DEF IInv
  <1>2. consumer.cursor \in Seq(StoredEvent) /\ loader.cursor \in Seq(StoredEvent)
    BY DEF IInv, ShapeInv, Activity
  <1>3. iter' \in Iteration
    <2>1. ASSUME NEW by \in {"reload", "project"}, NEW s \in Seq(StoredEvent), Begin(by, s)
          PROVE  iter' \in Iteration
      BY <2>1 DEF Begin, Iteration
    <2> QED
      BY <1>2, <2>1 DEF HandleReload, HandleSnapshot
  <1>4. CASE HandleReload
    <2>1. consumer' \in Activity /\ consumer'.at = "handling" /\ UNCHANGED loader
      BY <1>4, ActivityShape DEF HandleReload
    <2> QED
      BY <1>0, <1>1, <1>3, <2>1 DEF IInv, ShapeInv
  <1>5. CASE HandleSnapshot
    <2>1. loader' \in Activity /\ loader'.at = "handling" /\ UNCHANGED consumer
      BY <1>5, ActivityShape DEF HandleSnapshot
    <2> QED
      BY <1>0, <1>1, <1>3, <2>1 DEF IInv, ShapeInv
  <1> QED
    BY <1>4, <1>5

LEMMA EndShape ==
    ASSUME IInv, Handled \/ Reloaded \/ Projected
    PROVE  IInv'
  <1>0. IInv /\ UNCHANGED <<events, latest, bus, am, content, astray>> /\ seen' \in {-1, seen}
    BY DEF Handled, Reloaded, Projected, store, projected, history
  <1>s. seen' \in -1 .. latest
    BY <1>0 DEF IInv, ShapeInv, StoreInv
  <1>1. StoreInv'
    BY <1>0, SameDocument DEF IInv
  <1>2. Idle \in Activity /\ Idle.at = "idle" /\ NoIter \in Iteration
    BY ActivityShape DEF Idle
  <1>3. iter' \in Iteration
    BY <1>2 DEF Handled, Reloaded, Projected, End
  <1>4. [at |-> "reload", version |-> am.version, cursor |-> << >>] \in Activity
    BY EmptySeq DEF Activity, IInv, ShapeInv
  <1>5. CASE Handled
    <2>1. consumer' \in {[at |-> "reload", version |-> am.version, cursor |-> << >>], Idle}
          /\ UNCHANGED loader
      BY <1>5 DEF Handled
    <2> QED
      BY <1>0, <1>s, <1>1, <1>2, <1>3, <1>4, <2>1 DEF IInv, ShapeInv
  <1>6. CASE Reloaded
    BY <1>0, <1>s, <1>1, <1>2, <1>3, <1>6 DEF IInv, ShapeInv, Reloaded
  <1>7. CASE Projected
    BY <1>0, <1>s, <1>1, <1>2, <1>3, <1>7 DEF IInv, ShapeInv, Projected
  <1> QED
    BY <1>5, <1>6, <1>7

LEMMA NextShape == IInv /\ [Next]_vars => IInv'
  <1> SUFFICES ASSUME IInv, [Next]_vars PROVE IInv'
    OBVIOUS
  <1>1. CASE ReloadFails
    <2>1. StoreInv'
      BY <1>1, SameDocument DEF IInv, ReloadFails, store
    <2>2. Idle \in Activity /\ Idle.at = "idle"
      BY ActivityShape DEF Idle
    <2> QED
      BY <1>1, <2>1, <2>2 DEF IInv, StoreInv, ShapeInv, ReloadFails, projected, store
  <1>2. ASSUME NEW v \in Version, Lose(v) PROVE IInv'
    <2>1. StoreInv'
      BY <1>2, SameDocument DEF IInv, Lose
    <2> QED
      BY <1>2, <2>1 DEF IInv, ShapeInv, Lose, projected, history
  <1>3. CASE UNCHANGED vars
    <2>1. StoreInv'
      BY <1>3, SameDocument DEF IInv, vars, store
    <2> QED
      BY <1>3, <2>1 DEF IInv, ShapeInv, vars, store, projected, history
  <1> QED
    BY <1>1, <1>2, <1>3, CommitShape, CleanUpShape, NextEventShape, ConsumeShape, LoadShape,
       HandleShape, EndShape DEF Next, Work

LEMMA Shape == Spec => []IInv
  BY InitShape, NextShape, PTL DEF Spec

(* For every number of versions and size of batches, and for a new or a      *)
(* known aggregate: messages carry versions the document has reached, and    *)
(* Update and Handle leave the model at a stored version, empty or torn.     *)
THEOREM TypeCorrect == Spec => []TypeOK
  <1>1. IInv => TypeOK
    BY ProjectionConstants
       DEF IInv, StoreInv, ShapeInv, TypeOK, Iteration, Activity, Version
  <1> QED
    BY <1>1, Shape, PTL


-----------------------------------------------------------------------------
(* One event of an iteration.                                                *)

(* The three answers of aggregateModel.Update.                               *)
Accepted(e) ==
    \/ e.version = 0
    \/ e.snapshot /\ (~am.hasSnapshot \/ e.version > am.version)
    \/ am.hasSnapshot /\ am.version + 1 = e.version
Past(e) == am.hasSnapshot /\ am.version >= e.version
Ahead(e) == ~e.snapshot /\ e.version # 0 /\ (am.hasSnapshot => e.version > am.version + 1)

LEMMA UpdateCases ==
    ASSUME am \in [version : Version, hasSnapshot : BOOLEAN], NEW e \in StoredEvent
    PROVE  \/ /\ Accepted(e) /\ ~Update(e).ignore /\ ~Update(e).reload
              /\ Update(e).am = [version |-> e.version, hasSnapshot |-> TRUE]
           \/ Past(e) /\ Update(e).ignore /\ ~Update(e).reload
           \/ Ahead(e) /\ ~Update(e).ignore /\ Update(e).reload /\ Update(e).am = am
  <1>1. e.version \in Int /\ am.version \in Int /\ e.snapshot \in BOOLEAN /\ am.hasSnapshot \in BOOLEAN
    BY ProjectionConstants DEF StoredEvent, Version
  <1> DEFINE model == [version |-> e.version, hasSnapshot |-> TRUE]
             first == e.version = 0 \/ (e.snapshot /\ (~am.hasSnapshot \/ e.version > am.version))
             next == am.hasSnapshot /\ am.version + 1 = e.version
  <1>2. Update(e) = IF first THEN Verdict(FALSE, FALSE, model)
                    ELSE IF next THEN Verdict(FALSE, FALSE, model)
                    ELSE IF Past(e) THEN Verdict(TRUE, FALSE, am) ELSE Verdict(FALSE, TRUE, am)
    BY DEF Update, Past
  <1>3. first \/ next => Accepted(e)
    BY DEF Accepted
  <1>4. ~(first \/ next) /\ ~Past(e) => Ahead(e)
    BY <1>1 DEF Past, Ahead
  <1> HIDE DEF first, next, model
  <1>5. CASE first \/ next
    <2>1. Update(e) = Verdict(FALSE, FALSE, model)
      BY <1>2, <1>5
    <2>2. ~Update(e).ignore /\ ~Update(e).reload /\ Update(e).am = model
      BY <2>1 DEF Verdict
    <2> QED
      BY <1>3, <1>5, <2>2 DEF model
  <1>6. CASE ~(first \/ next) /\ Past(e)
    <2>1. Update(e) = Verdict(TRUE, FALSE, am)
      BY <1>2, <1>6
    <2>2. Update(e).ignore /\ ~Update(e).reload
      BY <2>1 DEF Verdict
    <2> QED
      BY <1>6, <2>2
  <1>7. CASE ~(first \/ next) /\ ~Past(e)
    <2>1. Update(e) = Verdict(FALSE, TRUE, am)
      BY <1>2, <1>7
    <2>2. ~Update(e).ignore /\ Update(e).reload /\ Update(e).am = am
      BY <2>1 DEF Verdict
    <2> QED
      BY <1>4, <1>7, <2>2
  <1> QED
    BY <1>5, <1>6, <1>7

(* The four outcomes for the event: passed over in search of a snapshot,     *)
(* ignored, applied, or applied although the model cannot follow it.         *)
Skipped(e) ==
    /\ iter'.seeking /\ ~e.snapshot /\ (iter.seeking \/ iter.first)
    /\ UNCHANGED <<am, content, seen, astray>>
Ignored(e) ==
    /\ ~iter'.seeking /\ (iter.seeking => e.snapshot)
    /\ Past(e) /\ UNCHANGED <<am, content, seen, astray>>
Restarts(e) == iter.by # "reload" /\ e.version = 0 /\ am.hasSnapshot
Taken(e) ==
    /\ ~iter'.seeking /\ (iter.seeking => e.snapshot)
    /\ Accepted(e)
    /\ am'.hasSnapshot /\ am'.version = e.version /\ content' = Handle(e)
    /\ (Restarts(e) /\ seen' = -1) \/ (~Restarts(e) /\ seen' = seen)
    /\ astray' \/ e.snapshot \/ (~astray /\ ~Restarts(e))
Strayed(e) ==
    /\ ~iter'.seeking /\ ~iter.seeking /\ ~iter.first
    /\ Ahead(e) /\ UNCHANGED am
    /\ iter.by = "reload" \/ (astray' /\ seen' = -1)

LEMMA EventOutcome ==
    ASSUME IInv, NextEvent, NEW e, e = Head(iter.rest)
    PROVE  /\ iter'.by = iter.by /\ iter'.rest = Tail(iter.rest) /\ ~iter'.first
           /\ Skipped(e) \/ Ignored(e) \/ Taken(e) \/ Strayed(e)
  <1>0. iter.rest # << >> /\ iter.rest \in Seq(StoredEvent)
    BY DEF NextEvent, IInv, ShapeInv, Iteration
  <1>1. e \in StoredEvent
    BY <1>0, HeadTailProperties
  <1>2. am \in [version : Version, hasSnapshot : BOOLEAN]
    BY DEF IInv, ShapeInv
  <1>a. ASSUME NEW b, Advance(b)
        PROVE  /\ iter'.by = iter.by /\ iter'.rest = Tail(iter.rest) /\ ~iter'.first
               /\ iter'.seeking = b
    BY <1>a DEF Advance
  <1>3. CASE SkipToSnapshot
    <2>1. iter.seeking /\ ~e.snapshot /\ Advance(TRUE) /\ UNCHANGED <<am, content, seen, astray>>
      BY <1>3 DEF SkipToSnapshot, projected, history
    <2> QED
      BY <1>a, <2>1 DEF Skipped
  <1>4. CASE ~(iter.seeking /\ ~e.snapshot) /\ Ignore
    <2>1. Update(e).ignore /\ Advance(FALSE) /\ UNCHANGED <<am, content, seen, astray>>
      BY <1>4 DEF Ignore, projected, history
    <2>2. Past(e)
      BY <1>1, <1>2, <2>1, UpdateCases
    <2> QED
      BY <1>a, <1>4, <2>1, <2>2 DEF Ignored
  <1>5. CASE Gap
    <2>1. Update(e).reload /\ iter.first /\ Advance(TRUE) /\ UNCHANGED <<am, content, seen, astray>>
      BY <1>5 DEF Gap, projected, history
    <2>2. Ahead(e)
      BY <1>1, <1>2, <2>1, UpdateCases
    <2> QED
      BY <1>a, <2>1, <2>2 DEF Skipped, Ahead
  <1>6. CASE ~(iter.seeking /\ ~e.snapshot) /\ Apply
    <2>1. /\ ~Update(e).ignore /\ ~(Update(e).reload /\ iter.first)
          /\ am' = Update(e).am /\ content' = Handle(e) /\ Advance(FALSE)
          /\ seen' = IF Lapse(e) THEN -1 ELSE seen
      BY <1>6 DEF Apply
    <2>2. astray' = (~e.snapshot /\ (astray \/ Lapse(e)))
      BY <1>6, Zenon DEF Apply
    <2>3. CASE Update(e).reload
      <3>1. Ahead(e) /\ am' = am /\ ~iter.first
        BY <1>1, <1>2, <2>1, <2>3, UpdateCases
      <3>2. iter.by # "reload" => Lapse(e)
        BY <2>3 DEF Lapse
      <3>3. iter.by = "reload" \/ (astray' /\ seen' = -1)
        <4>1. iter.by = "reload" \/ seen' = -1
          BY <2>1, <3>2
        <4>2. iter.by = "reload" \/ astray'
          BY <2>2, <3>1, <3>2, Zenon DEF Ahead
        <4> QED
          BY <4>1, <4>2
      <3> QED
        BY <1>a, <1>6, <2>1, <3>1, <3>3 DEF Strayed, Ahead
    <2>4. CASE ~Update(e).reload
      <3>1. Accepted(e) /\ am' = [version |-> e.version, hasSnapshot |-> TRUE]
        BY <1>1, <1>2, <2>1, <2>4, UpdateCases
      <3>2. Lapse(e) <=> Restarts(e)
        BY <2>4, Zenon DEF Lapse, Restarts
      <3>3. (Restarts(e) /\ seen' = -1) \/ (~Restarts(e) /\ seen' = seen)
        BY <2>1, <3>2
      <3>4. astray' \/ e.snapshot \/ (~astray /\ ~Restarts(e))
        BY <2>2, <3>2, Zenon
      <3>5. am'.hasSnapshot /\ am'.version = e.version
        BY <3>1
      <3> QED
        BY <1>a, <1>6, <2>1, <3>1, <3>3, <3>4, <3>5 DEF Taken
    <2> QED
      BY <2>3, <2>4
  <1> QED
    BY <1>3, <1>4, <1>5, <1>6 DEF NextEvent

(* The tail of what a load has read.                                         *)
LEMMA TailOfRun ==
    ASSUME NEW s \in Seq(StoredEvent), s # << >>, NEW n \in Int, Run(s, n)
    PROVE  /\ Run(Tail(s), n) /\ s[1].version \in 0 .. n
           /\ Tail(s) = << >> => s[1].snapshot /\ s[Len(s)] = s[1]
           /\ Tail(s) # << >> => /\ Tail(s)[1].version = s[1].version + 1
                                 /\ Tail(s)[Len(Tail(s))] = s[Len(s)]
  <1>1. /\ Tail(s) \in Seq(StoredEvent) /\ Len(Tail(s)) = Len(s) - 1
        /\ \A i \in 1 .. Len(Tail(s)) : Tail(s)[i] = s[i + 1]
        /\ Len(s) \in Nat /\ Len(s) >= 1
    BY HeadTailProperties, LenProperties
  <1>2. s[1].version \in 0 .. n
    BY <1>1 DEF Run
  <1>3. CASE Len(s) = 1
    <2>1. Tail(s) = << >>
      <3>1. Len(Tail(s)) = 0
        BY <1>1, <1>3
      <3> QED
        BY <1>1, <3>1, EmptySeq
    <2>2. s[1].snapshot /\ s[Len(s)] = s[1]
      BY <1>3 DEF Run
    <2>3. Run(Tail(s), n)
      BY <2>1, EmptySeq DEF Run
    <2> QED
      BY <1>2, <2>1, <2>2, <2>3
  <1>4. CASE Len(s) > 1
    <2> DEFINE t == Tail(s)
    <2>1. t # << >> /\ t[1] = s[2] /\ t[Len(t)] = s[Len(s)]
      <3>1. 1 \in 1 .. Len(t) /\ Len(t) \in 1 .. Len(t) /\ Len(t) + 1 = Len(s) /\ Len(t) # 0
        BY <1>1, <1>4
      <3>2. t # << >>
        BY <3>1, EmptySeq
      <3>3. t[1] = s[1 + 1] /\ t[Len(t)] = s[Len(t) + 1]
        BY <1>1, <3>1
      <3> QED
        BY <3>1, <3>2, <3>3
    <2>2. s[2].version = s[1].version + 1
      BY <1>4 DEF Run
    <2>3. t[Len(t)].snapshot
      BY <2>1 DEF Run
    <2>4. \A i \in 1 .. Len(t) : t[i].version \in 0 .. n
      BY <1>1 DEF Run
    <2>5. \A i \in 1 .. Len(t) - 1 : t[i + 1].version = t[i].version + 1
      BY <1>1 DEF Run
    <2>6. Run(t, n)
      <3> HIDE DEF t
      <3> QED
        BY <1>1, <2>3, <2>4, <2>5 DEF Run, t
    <2> QED
      BY <1>2, <2>1, <2>2, <2>6
  <1> QED
    BY <1>1, <1>3, <1>4

LEMMA TailOfMessages ==
    ASSUME NEW s \in Seq(StoredEvent), s # << >>, NEW n \in Int, Messages(s, n)
    PROVE  /\ Messages(Tail(s), n) /\ ~s[1].snapshot /\ s[1].version \in 0 .. n
           /\ \A i \in 1 .. Len(s) : i = 1 \/ (i - 1 \in 1 .. Len(Tail(s)) /\ Tail(s)[i - 1] = s[i])
  <1>1. /\ Tail(s) \in Seq(StoredEvent) /\ Len(Tail(s)) = Len(s) - 1
        /\ \A i \in 1 .. Len(Tail(s)) : Tail(s)[i] = s[i + 1]
        /\ Len(s) \in Nat /\ Len(s) >= 1
    BY HeadTailProperties, LenProperties
  <1>2. \A i \in 1 .. Len(Tail(s)) : i + 1 \in 1 .. Len(s)
    BY <1>1
  <1>3. Messages(Tail(s), n)
    BY <1>1, <1>2 DEF Messages
  <1>4. 1 \in 1 .. Len(s)
    BY <1>1
  <1>5. ~s[1].snapshot /\ s[1].version \in 0 .. n
    BY <1>4 DEF Messages
  <1>6. ASSUME NEW i \in 1 .. Len(s), i # 1
        PROVE  i - 1 \in 1 .. Len(Tail(s)) /\ Tail(s)[i - 1] = s[i]
    <2>1. i - 1 \in 1 .. Len(Tail(s)) /\ (i - 1) + 1 = i
      BY <1>1, <1>6
    <2> QED
      BY <1>1, <2>1
  <1> QED
    BY <1>3, <1>5, <1>6

(* The facts about the state that the steps below use.                       *)
LEMMA Numbers ==
    ASSUME IInv
    PROVE  /\ MaxVersion \in Nat /\ latest \in Int /\ latest >= -1 /\ latest <= MaxVersion
           /\ am.version \in Int /\ am.version >= 0 /\ am.hasSnapshot \in BOOLEAN
           /\ seen \in Int /\ seen >= -1 /\ seen <= latest
           /\ Reached \in Int /\ Reached >= -1
           /\ am.hasSnapshot => Reached = am.version
           /\ ~am.hasSnapshot => Reached = -1
           /\ iter.rest \in Seq(StoredEvent) /\ iter \in Iteration
  BY ProjectionConstants DEF IInv, StoreInv, ShapeInv, Iteration, Reached, Version

(* An event that is applied never takes the model back, unless the versions  *)
(* seen are given up on or a reload is under way.                            *)
LEMMA TakenGrows ==
    ASSUME IInv, NEW e \in StoredEvent, Taken(e)
    PROVE  /\ Reached' = e.version /\ e.version \in Int /\ e.version >= 0
           /\ iter.by = "reload" \/ seen' = -1 \/ (seen' = seen /\ Reached' >= Reached)
           /\ iter.by = "reload" => seen' = seen
           /\ seen' \in {-1, seen}
  <1>1. e.version \in Int /\ e.version >= 0
    BY ProjectionConstants DEF StoredEvent, Version
  <1>2. Reached' = e.version
    BY DEF Taken, Reached
  <1>3. seen' \in {-1, seen} /\ (iter.by = "reload" => seen' = seen)
    BY DEF Taken, Restarts
  <1>4. ASSUME iter.by # "reload", seen' # -1 PROVE seen' = seen /\ Reached' >= Reached
    <2>1. seen' = seen /\ Accepted(e) /\ ~(e.version = 0 /\ am.hasSnapshot)
      BY <1>4 DEF Taken, Restarts
    <2>2. CASE am.hasSnapshot
      <3>1. e.version >= am.version
        BY <1>1, <2>1, <2>2, Numbers DEF Accepted
      <3> QED
        BY <1>2, <2>1, <2>2, <3>1, Numbers
    <2>3. CASE ~am.hasSnapshot
      BY <1>1, <1>2, <2>1, <2>3, Numbers
    <2> QED
      BY <2>2, <2>3
  <1> QED
    BY <1>1, <1>2, <1>3, <1>4

(* An event of a load: the model never meets one it cannot follow, except as *)
(* the first, and has everything once the snapshot at the end is handled.    *)
LEMMA LoadEvent ==
    ASSUME IInv, ReadInv, NextEvent, iter.by \in {"reload", "project"}
    PROVE  ContentInv' /\ IterInv' /\ ModelInv'
  <1> DEFINE s == iter.rest
             e == Head(s)
             t == Tail(s)
  <1>0. s # << >> /\ s \in Seq(StoredEvent) /\ latest \in Int /\ seen \in Int /\ am.version \in Int
    BY Numbers DEF NextEvent
  <1>1. e \in StoredEvent /\ e = s[1]
    BY <1>0, HeadTailProperties
  <1>2. IterInv /\ ContentInv /\ ModelInv
    BY DEF ReadInv
  <1>3. Run(s, latest) /\ Follows
    BY <1>2 DEF IterInv
  <1>4. /\ Run(t, latest) /\ e.version \in 0 .. latest
        /\ t = << >> => e.snapshot /\ s[Len(s)] = e
        /\ t # << >> => t[1].version = e.version + 1 /\ t[Len(t)] = s[Len(s)]
    BY <1>0, <1>1, <1>3, TailOfRun
  <1>5. /\ iter'.by = iter.by /\ iter'.rest = t /\ ~iter'.first
        /\ Skipped(e) \/ Ignored(e) \/ Taken(e) \/ Strayed(e)
    BY EventOutcome
  <1>6. UNCHANGED <<latest, consumer, loader>>
    BY DEF NextEvent, store
  <1>7. iter.by = "reload" => seen <= s[Len(s)].version
    BY <1>0, <1>2 DEF IterInv
  <1>8. Follows => iter.first \/ iter.seeking \/ (am.hasSnapshot /\ e.version <= am.version + 1)
    BY <1>0, <1>1 DEF Follows
  <1>9. Rebuilding => ~iter.first /\ ~iter.seeking /\ e.version = am.version + 1
    BY <1>1 DEF Rebuilding
  <1> HIDE DEF e, t, s
  <1>10. ~Strayed(e)
    BY <1>0, <1>3, <1>4, <1>8 DEF Strayed, Ahead
  <1>11. e.version \in Int
    BY <1>0, <1>4
  (* The rest follows from what is reached. *)
  <1>12. Follows'
    <2>1. CASE Skipped(e)
      BY <2>1 DEF Follows, Skipped
    <2>2. CASE Ignored(e)
      BY <1>0, <1>4, <1>5, <1>11, <2>2 DEF Follows, Ignored, Past
    <2>3. CASE Taken(e)
      BY <1>0, <1>4, <1>5, <1>11, <2>3 DEF Follows, Taken
    <2> QED
      BY <1>5, <1>10, <2>1, <2>2, <2>3
  <1>13. ContentInv'
    <2>1. CASE Skipped(e)
      <3>1. Reached' = Reached /\ content' = content /\ astray' = astray /\ ~Rebuilding
        BY <1>9, <2>1 DEF Skipped, Reached
      <3> QED
        BY <1>2, <3>1 DEF ContentInv
    <2>2. CASE Ignored(e)
      <3>1. Reached' = Reached /\ content' = content /\ astray' = astray /\ ~Rebuilding
        BY <1>0, <1>9, <1>11, <2>2 DEF Ignored, Past, Reached
      <3> QED
        BY <1>2, <3>1 DEF ContentInv
    <2>3. CASE Taken(e) /\ e.snapshot
      <3>1. content' = e.version
        BY <2>3 DEF Taken, Handle
      <3>2. Reached' = e.version
        BY <1>1, <2>3, TakenGrows
      <3> QED
        BY <3>1, <3>2 DEF ContentInv
    <2>4. CASE Taken(e) /\ ~e.snapshot
      <3>1. t # << >> /\ am'.hasSnapshot /\ t[1].version = am'.version + 1 /\ ~iter'.seeking
        BY <1>4, <2>4 DEF Taken
      <3>2. Rebuilding'
        BY <1>5, <3>1 DEF Rebuilding
      <3> QED
        BY <3>2 DEF ContentInv
    <2> QED
      BY <1>5, <1>10, <2>1, <2>2, <2>3, <2>4
  <1>14. iter.by = "reload" =>
            seen' <= IF t = << >> THEN Reached' ELSE t[Len(t)].version
    <2> SUFFICES ASSUME iter.by = "reload"
                 PROVE  seen' <= IF t = << >> THEN Reached' ELSE t[Len(t)].version
      OBVIOUS
    <2>1. seen' = seen
      BY <1>1, <1>5, <1>10, TakenGrows DEF Skipped, Ignored
    <2>2. CASE t # << >>
      BY <1>4, <1>7, <2>1, <2>2
    <2>3. CASE t = << >>
      <3>1. e.snapshot /\ seen <= e.version
        BY <1>4, <1>7, <2>3
      <3>2. CASE Ignored(e)
        <4>1. Reached' = am.version /\ am.version >= e.version
          BY <3>2 DEF Ignored, Past, Reached
        <4> QED
          BY <1>0, <1>11, <2>1, <2>3, <3>1, <4>1
      <3>3. CASE Taken(e)
        <4>1. Reached' = e.version
          BY <1>1, <3>3, TakenGrows
        <4> QED
          BY <2>1, <2>3, <3>1, <4>1
      <3> QED
        BY <1>5, <1>10, <3>1, <3>2, <3>3 DEF Skipped
    <2> QED
      BY <2>2, <2>3
  <1>15. IterInv'
    <2>1. Run(iter'.rest, latest')
      BY <1>4, <1>5, <1>6
    <2>2. iter'.by = "reload" =>
            seen' <= IF iter'.rest = << >> THEN Reached' ELSE iter'.rest[Len(iter'.rest)].version
      BY <1>5, <1>14
    <2> QED
      BY <1>2, <1>5, <1>6, <1>12, <2>1, <2>2 DEF IterInv
  <1>16. ModelInv'
    BY <1>0, <1>2, <1>4, <1>5, <1>6, <1>10 DEF ModelInv, Skipped, Ignored, Taken
  <1> QED
    BY <1>13, <1>15, <1>16

(* A message: it is applied to the state it follows, or the model goes       *)
(* astray, or the search for a snapshot ends in a reload.                    *)
LEMMA MessageEvent ==
    ASSUME IInv, ReadInv, NextEvent, iter.by = "bus"
    PROVE  ContentInv' /\ IterInv' /\ ModelInv'
  <1> DEFINE s == iter.rest
             e == Head(s)
             t == Tail(s)
  <1>0. s # << >> /\ s \in Seq(StoredEvent) /\ latest \in Int /\ seen \in Int /\ am.version \in Int
    BY Numbers DEF NextEvent
  <1>1. e \in StoredEvent /\ e = s[1]
    BY <1>0, HeadTailProperties
  <1>2. IterInv /\ ContentInv /\ ModelInv
    BY DEF ReadInv
  <1>3. Messages(s, latest) /\ (iter.seeking \/ Awaited(s)) /\ latest >= 0
    BY <1>2 DEF IterInv
  <1>4. /\ Messages(t, latest) /\ ~e.snapshot /\ e.version \in 0 .. latest
        /\ \A i \in 1 .. Len(s) : i = 1 \/ (i - 1 \in 1 .. Len(t) /\ t[i - 1] = s[i])
    BY <1>0, <1>1, <1>3, TailOfMessages
  <1>5. /\ iter'.by = iter.by /\ iter'.rest = t /\ ~iter'.first
        /\ Skipped(e) \/ Ignored(e) \/ Taken(e) \/ Strayed(e)
    BY EventOutcome
  <1>6. UNCHANGED <<latest, consumer, loader>>
    BY DEF NextEvent, store
  <1>7. astray \/ content = Reached
    BY <1>2 DEF ContentInv, Rebuilding
  <1>8. Awaited(s) => seen <= Reached \/ seen = e.version \/ \E i \in 1 .. Len(t) : t[i].version = seen
    <2> SUFFICES ASSUME NEW i \in 1 .. Len(s), s[i].version = seen
                 PROVE  seen = e.version \/ \E j \in 1 .. Len(t) : t[j].version = seen
      BY DEF Awaited
    <2>1. CASE i = 1
      BY <1>1, <2>1
    <2>2. CASE i # 1
      <3>1. i - 1 \in 1 .. Len(t) /\ t[i - 1].version = seen
        BY <1>4, <2>2
      <3> QED
        BY <3>1
    <2> QED
      BY <2>1, <2>2
  <1> HIDE DEF e, t, s
  <1>9. e.version \in Int
    BY <1>0, <1>4
  <1>10. iter'.seeking \/ seen' <= Reached' \/ \E i \in 1 .. Len(t) : t[i].version = seen'
    <2>1. CASE Skipped(e)
      BY <2>1 DEF Skipped
    <2>2. CASE Ignored(e)
      <3>1. Awaited(s)
        BY <1>3, <1>4, <2>2 DEF Ignored
      <3>2. Reached' = am.version /\ am.version >= e.version /\ seen' = seen /\ Reached' = Reached
        BY <2>2 DEF Ignored, Past, Reached
      <3>3. seen = e.version => seen <= am.version
        BY <1>0, <1>9, <3>2
      <3> QED
        BY <1>8, <3>1, <3>2, <3>3
    <2>3. CASE Taken(e)
      <3>1. Awaited(s)
        BY <1>3, <1>4, <2>3 DEF Taken
      <3>2. /\ Reached' = e.version /\ e.version >= 0
            /\ seen' = -1 \/ (seen' = seen /\ Reached' >= Reached)
        BY <1>1, <2>3, TakenGrows
      <3>3. CASE seen' = -1
        BY <1>9, <3>2, <3>3
      <3>4. CASE seen' = seen /\ Reached' >= Reached
        <4>1. Reached \in Int
          BY Numbers
        <4>2. seen <= Reached \/ seen = e.version => seen' <= Reached'
          BY <1>0, <1>9, <3>2, <3>4, <4>1
        <4> QED
          BY <1>8, <3>1, <3>4, <4>2
      <3> QED
        BY <3>2, <3>3, <3>4
    <2>4. CASE Strayed(e)
      <3>1. seen' = -1 /\ Reached' = Reached
        BY <2>4 DEF Strayed, Reached
      <3> QED
        BY <3>1, Numbers
    <2> QED
      BY <1>5, <2>1, <2>2, <2>3, <2>4
  <1>11. ContentInv'
    <2>1. CASE Skipped(e) \/ Ignored(e)
      <3>1. Reached' = Reached /\ content' = content /\ astray' = astray
        BY <2>1 DEF Skipped, Ignored, Reached
      <3> QED
        BY <1>7, <3>1 DEF ContentInv
    <2>2. CASE Taken(e)
      <3> SUFFICES ASSUME ~astray' PROVE content' = Reached'
        BY DEF ContentInv
      <3>1. Reached' = e.version /\ content' = Handle(e)
        BY <1>1, <2>2, TakenGrows DEF Taken
      <3>2. content = Reached /\ Accepted(e) /\ ~(e.version = 0 /\ am.hasSnapshot)
        BY <1>4, <1>7, <2>2 DEF Taken, Restarts
      <3>3. content = e.version - 1
        <4>1. CASE am.hasSnapshot
          BY <1>0, <1>4, <1>9, <3>2, <4>1 DEF Accepted, Reached
        <4>2. CASE ~am.hasSnapshot
          BY <1>4, <3>2, <4>2 DEF Accepted, Reached
        <4> QED
          BY <4>1, <4>2
      <3> QED
        BY <3>1, <3>3 DEF Handle
    <2>3. CASE Strayed(e)
      BY <2>3 DEF Strayed, ContentInv
    <2> QED
      BY <1>5, <2>1, <2>2, <2>3
  <1>12. IterInv'
    <2>1. Messages(iter'.rest, latest') /\ latest' >= 0
      BY <1>3, <1>4, <1>5, <1>6
    <2>2. iter'.seeking \/ Awaited(iter.rest)'
      BY <1>5, <1>10 DEF Awaited
    <2> QED
      BY <1>2, <1>5, <1>6, <2>1, <2>2 DEF IterInv
  <1>13. ModelInv'
    BY <1>0, <1>2, <1>4, <1>5, <1>6 DEF ModelInv, Skipped, Ignored, Taken, Strayed
  <1> QED
    BY <1>11, <1>12, <1>13

LEMMA NextEventRead ==
    ASSUME IInv, ReadInv, NextEvent
    PROVE  ReadInv'
  <1> DEFINE e == Head(iter.rest)
  <1>0. iter.rest # << >> /\ iter.rest \in Seq(StoredEvent) /\ iter \in Iteration
        /\ UNCHANGED <<latest, consumer, loader>>
    BY Numbers DEF NextEvent, store
  <1>1. e \in StoredEvent
    BY <1>0, HeadTailProperties
  <1>2. IterInv /\ CursorInv
    BY DEF ReadInv
  <1>3. iter.by \in {"bus", "reload", "project"}
    BY <1>0, <1>2 DEF IterInv, Iteration
  <1>4. Skipped(e) \/ Ignored(e) \/ Taken(e) \/ Strayed(e)
    BY EventOutcome
  <1> HIDE DEF e
  <1>5. consumer.at # "handling" => iter.by = "project"
    BY <1>2, <1>3 DEF IterInv
  <1>6. ASSUME iter.by = "project"
        PROVE  seen' = -1 \/ (seen' = seen /\ Reached' >= Reached)
    <2>0. Reached \in Int
      BY Numbers
    <2>1. CASE Skipped(e) \/ Ignored(e)
      <3>1. seen' = seen /\ Reached' = Reached
        BY <2>1 DEF Skipped, Ignored, Reached
      <3> QED
        BY <2>0, <3>1
    <2>2. CASE Taken(e)
      BY <1>1, <1>6, <2>2, TakenGrows
    <2>3. CASE Strayed(e)
      BY <1>6, <2>3 DEF Strayed
    <2> QED
      BY <1>4, <2>1, <2>2, <2>3
  <1>7. CursorInv'
    <2> SUFFICES ASSUME consumer.at # "handling"
                 PROVE  /\ consumer.at = "idle" => seen' <= Reached'
                        /\ consumer.at = "reloading" =>
                            seen' <= consumer.cursor[Len(consumer.cursor)].version
      BY <1>0, <1>2 DEF CursorInv
    <2>1. seen' = -1 \/ (seen' = seen /\ Reached' >= Reached)
      BY <1>5, <1>6
    <2>2. Reached \in Int /\ Reached' \in Int /\ Reached' >= -1 /\ seen \in Int
      <3>1. IInv'
        BY NextEventShape
      <3>2. Reached' \in Int /\ Reached' >= -1
        <4>1. am' \in [version : Version, hasSnapshot : BOOLEAN]
          BY <3>1 DEF IInv, ShapeInv
        <4> QED
          BY <4>1, ProjectionConstants DEF Reached, Version
      <3> QED
        BY <3>2, Numbers
    <2>3. consumer.at = "idle" => seen' <= Reached'
      BY <1>2, <2>1, <2>2 DEF CursorInv
    <2>4. consumer.at = "reloading" => seen' <= consumer.cursor[Len(consumer.cursor)].version
      <3> SUFFICES ASSUME consumer.at = "reloading"
                   PROVE  seen' <= consumer.cursor[Len(consumer.cursor)].version
        OBVIOUS
      <3> DEFINE c == consumer.cursor
      <3>1. Run(c, latest) /\ c # << >> /\ seen <= c[Len(c)].version
        BY <1>2 DEF CursorInv
      <3>2. c[Len(c)].version \in 0 .. latest
        <4>1. c \in Seq(StoredEvent)
          BY <3>1 DEF Run
        <4>2. Len(c) \in 1 .. Len(c)
          BY <3>1, <4>1, EmptySeq, LenProperties
        <4> QED
          BY <3>1, <4>2 DEF Run
      <3> HIDE DEF c
      <3>3. -1 <= c[Len(c)].version
        BY <3>2, Numbers
      <3> QED
        BY <2>1, <3>1, <3>3 DEF c
    <2> QED
      BY <2>3, <2>4
  <1> QED
    BY <1>3, <1>7, LoadEvent, MessageEvent DEF ReadInv

-----------------------------------------------------------------------------
(* The other steps.                                                          *)

LEMMA InitRead == Init => ReadInv
  <1> SUFFICES ASSUME Init PROVE ReadInv
    OBVIOUS
  <1>0. StartVersion \in Int /\ StartVersion >= -1
    BY ProjectionConstants
  <1>1. /\ latest = StartVersion /\ content = StartVersion /\ seen = -1
        /\ am.version = IF StartVersion = -1 THEN 0 ELSE StartVersion
        /\ am.hasSnapshot = (StartVersion # -1)
    <2>1. latest = StartVersion /\ content = StartVersion /\ seen = -1
      BY Zenon DEF Init
    <2>2. am = [version |-> IF StartVersion = -1 THEN 0 ELSE StartVersion,
                hasSnapshot |-> StartVersion # -1]
      BY Zenon DEF Init
    <2> QED
      BY <2>1, <2>2
  <1>2. iter.by = "none" /\ iter.rest = << >> /\ consumer.at = "idle" /\ loader.at = "idle"
    BY DEF Init, NoIter, Idle
  <1> HIDE DEF Init
  <1>3. Reached = StartVersion
    BY <1>0, <1>1 DEF Reached
  <1> QED
    BY <1>0, <1>1, <1>2, <1>3 DEF ReadInv, ModelInv, ContentInv, IterInv, CursorInv

LEMMA ConsumeRead ==
    ASSUME IInv, ReadInv, NEW batch \in Batches, Consume(batch)
    PROVE  ReadInv'
  <1>1. PICK n \in 1 .. MaxBatch : batch \in [1 .. n -> bus]
    BY DEF Batches
  <1> DEFINE versions == {batch[i] : i \in DOMAIN batch}
             rest == [i \in DOMAIN batch |-> Event(batch[i], FALSE)]
  <1>2. versions \in SUBSET bus /\ bus \subseteq 0 .. latest
    BY <1>1, ProjectionConstants DEF IInv, StoreInv
  <1>3. n \in Nat /\ n >= 1 /\ batch[1] \in bus /\ latest \in Int /\ latest >= 0
    <2>1. n \in Nat /\ n >= 1
      BY ProjectionConstants
    <2>2. batch[1] \in bus
      BY <1>1, <2>1
    <2>3. batch[1] \in 0 .. latest /\ latest \in Int
      BY <1>2, <2>2, Numbers
    <2>4. latest >= 0
      BY <2>3
    <2> QED
      BY <2>1, <2>2, <2>3, <2>4
  <1>4. rest \in [1 .. n -> StoredEvent] /\ \A i \in 1 .. n : rest[i] = Event(batch[i], FALSE)
    <2>1. 0 .. latest \subseteq Version
      BY Numbers DEF Version
    <2> QED
      BY <1>1, <1>2, <2>1 DEF Event, StoredEvent
  <1>5. /\ iter = NoIter /\ consumer.at = "idle"
        /\ iter' = [by |-> "bus", rest |-> rest, first |-> TRUE, seeking |-> FALSE]
        /\ seen' = Highest(versions)
        /\ consumer'.at = "handling"
        /\ UNCHANGED <<latest, am, content, loader, astray>>
    BY DEF Consume, Begin, projected, Idle
  <1>6. seen' \in versions \cup {seen}
    BY <1>2, <1>5, HighestOfBatch DEF IInv, ShapeInv
  <1>7. \A v \in versions : \E i \in 1 .. n : v = batch[i]
    BY <1>1
  <1> HIDE DEF versions, rest
  <1>8. rest \in Seq(StoredEvent) /\ Len(rest) = n
    BY <1>3, <1>4
  <1>9. Messages(rest, latest)
    <2> SUFFICES ASSUME NEW i \in 1 .. n
                 PROVE  ~rest[i].snapshot /\ rest[i].version \in 0 .. latest
      BY <1>8 DEF Messages
    <2>1. rest[i] = Event(batch[i], FALSE) /\ batch[i] \in 0 .. latest
      BY <1>1, <1>2, <1>4
    <2> QED
      BY <2>1 DEF Event
  <1>10. Reached' = Reached /\ seen <= Reached
    BY <1>5 DEF Reached, ReadInv, CursorInv
  <1>11. Awaited(iter.rest)'
    <2>1. CASE seen' = seen
      BY <1>10, <2>1 DEF Awaited
    <2>2. CASE seen' \in versions
      <3>1. PICK i \in 1 .. n : seen' = batch[i]
        BY <1>7, <2>2
      <3>2. rest[i].version = seen'
        BY <1>4, <3>1 DEF Event
      <3>3. iter'.rest = rest /\ i \in 1 .. Len(rest)
        BY <1>5, <1>8
      <3> QED
        BY <3>2, <3>3 DEF Awaited
    <2> QED
      BY <1>6, <2>1, <2>2
  <1>12. IterInv'
    BY <1>3, <1>5, <1>9, <1>11 DEF ReadInv, IterInv, NoIter
  <1>13. ContentInv'
    BY <1>5, <1>10 DEF ReadInv, ContentInv, Rebuilding, NoIter
  <1>14. CursorInv'
    BY <1>5 DEF ReadInv, CursorInv
  <1> QED
    BY <1>5, <1>12, <1>13, <1>14 DEF ReadInv, ModelInv

(* The end of an iteration: with a gap the consumer reloads from the version *)
(* the model is at, or gives up on what it saw, and otherwise the model has  *)
(* it.                                                                       *)
LEMMA EndRead ==
    ASSUME IInv, ReadInv, Handled \/ Reloaded \/ Projected
    PROVE  ReadInv'
  <1>1. /\ iter.rest = << >> /\ iter'.by = "none" /\ iter'.rest = << >>
        /\ UNCHANGED <<latest, am, content, astray>>
    BY DEF Handled, Reloaded, Projected, End, NoIter, store, projected, history
  <1>2. Reached' = Reached /\ ModelInv' /\ ContentInv'
    BY <1>1 DEF Reached, ReadInv, ModelInv, ContentInv, Rebuilding
  <1>3. CASE Handled
    <2>1. iter.by = "bus" /\ UNCHANGED loader
      BY <1>3 DEF Handled, End
    <2>2. latest >= 0 /\ (iter.seeking \/ seen <= Reached)
      <3>1. latest >= 0 /\ (iter.seeking \/ Awaited(iter.rest))
        BY <2>1 DEF ReadInv, IterInv
      <3>2. Len(iter.rest) = 0
        BY <1>1
      <3>3. Awaited(iter.rest) => seen <= Reached
        BY <3>2 DEF Awaited
      <3> QED
        BY <3>1, <3>3
    <2>3. \/ consumer'.at = "reload" /\ consumer'.version = am.version
          \/ consumer'.at = "idle" /\ seen' = -1
          \/ consumer'.at = "idle" /\ ~iter.seeking /\ seen' = seen
      BY <1>3 DEF Handled, Idle
    <2>4. am.version \in 0 .. latest
      BY <2>2, Numbers DEF ReadInv, ModelInv
    <2>5. consumer'.at = "idle" => seen' <= Reached'
      BY <1>2, <2>2, <2>3, Numbers
    <2> QED
      BY <1>1, <1>2, <2>1, <2>3, <2>4, <2>5 DEF ReadInv, IterInv, CursorInv
  <1>4. CASE Reloaded
    <2>1. iter.by = "reload" /\ UNCHANGED <<loader, seen>> /\ consumer'.at = "idle"
      BY <1>4 DEF Reloaded, End, Idle, history
    <2>2. seen <= Reached
      BY <1>1, <2>1 DEF ReadInv, IterInv
    <2> QED
      BY <1>1, <1>2, <2>1, <2>2 DEF ReadInv, IterInv, CursorInv
  <1>5. CASE Projected
    <2>1. iter.by = "project" /\ UNCHANGED <<consumer, seen>> /\ loader'.at = "idle"
      BY <1>5 DEF Projected, End, Idle, history
    <2> QED
      BY <1>1, <1>2, <2>1 DEF ReadInv, IterInv, CursorInv
  <1> QED
    BY <1>3, <1>4, <1>5

LEMMA HandleRead ==
    ASSUME IInv, ReadInv, HandleReload \/ HandleSnapshot
    PROVE  ReadInv'
  <1>1. iter = NoIter /\ iter'.first /\ UNCHANGED <<latest, am, content, seen, astray>>
    BY DEF HandleReload, HandleSnapshot, Begin, store, projected, history
  <1>2. /\ Reached' = Reached /\ ModelInv' /\ ContentInv' /\ Follows'
        /\ iter.by = "none"
    BY <1>1 DEF Reached, ReadInv, ModelInv, ContentInv, Rebuilding, Follows, NoIter
  <1>3. CASE HandleReload
    <2>1. /\ consumer.at = "reloading" /\ consumer'.at = "handling" /\ UNCHANGED loader
          /\ iter'.by = "reload" /\ iter'.rest = consumer.cursor
      BY <1>3 DEF HandleReload, Begin, Idle
    <2> QED
      BY <1>1, <1>2, <2>1 DEF ReadInv, IterInv, CursorInv
  <1>4. CASE HandleSnapshot
    <2>1. /\ loader.at = "loaded" /\ loader'.at = "handling" /\ UNCHANGED consumer
          /\ iter'.by = "project" /\ iter'.rest = loader.cursor
      BY <1>4 DEF HandleSnapshot, Begin, Idle
    <2> QED
      BY <1>1, <1>2, <2>1 DEF ReadInv, IterInv, CursorInv
  <1> QED
    BY <1>3, <1>4

(* What a query returns: consecutive events up to the latest, which is a     *)
(* snapshot.                                                                 *)
LEMMA ReadRun ==
    ASSUME IInv, NEW v \in 0 .. latest
    PROVE  LET s == EventsFrom(v)
           IN Run(s, latest) /\ s # << >> /\ s[Len(s)].version = latest
  <1>0. latest \in 0 .. MaxVersion /\ MaxVersion \in Nat /\ latest # -1
    BY Numbers
  <1>1. PICK lo \in 0 .. latest : KeptFrom(lo)
    BY <1>0 DEF IInv, StoreInv
  <1> DEFINE b == IF v > lo THEN v ELSE lo
             n == latest - b + 1
             s == EventsFrom(v)
  <1>2. s \in [1 .. n -> events] /\ \A i \in 1 .. n : s[i].version = b + i - 1
    BY <1>1, EventsFromRun DEF IInv
  <1>3. b \in 0 .. latest /\ n \in Nat \ {0}
    BY <1>0, <1>1
  <1>4. events \subseteq StoredEvent /\ \A e, f \in events : e.version = f.version => e = f
    <2>1. 0 .. latest \subseteq Version
      BY <1>0 DEF Version
    <2> QED
      BY <2>1 DEF IInv, StoreInv, StoredEvent
  <1>5. n \in 1 .. n /\ b + n - 1 = latest
    BY <1>0, <1>3
  <1>6. \A i \in 1 .. n : b + i - 1 \in 0 .. latest
    BY <1>0, <1>3
  <1> HIDE DEF s, n, b
  <1>7. s \in Seq(StoredEvent) /\ Len(s) = n /\ s # << >>
    <2>1. s \in [1 .. n -> StoredEvent]
      BY <1>2, <1>4
    <2>2. s \in Seq(StoredEvent) /\ Len(s) = n
      BY <2>1, <1>3
    <2>3. s # << >>
      BY <1>3, <2>2, EmptySeq
    <2> QED
      BY <2>2, <2>3
  <1>8. s[n].version = latest /\ s[n] \in events
    BY <1>2, <1>5
  <1>9. s[n].snapshot
    <2>1. Event(latest, TRUE) \in events /\ Event(latest, TRUE).version = latest
      BY <1>1 DEF KeptFrom, Event
    <2>2. s[n] = Event(latest, TRUE)
      BY <1>4, <1>8, <2>1
    <2> QED
      BY <2>2 DEF Event
  <1>10. \A i \in 1 .. n - 1 : s[i + 1].version = s[i].version + 1
    <2> SUFFICES ASSUME NEW i \in 1 .. n - 1 PROVE s[i + 1].version = s[i].version + 1
      OBVIOUS
    <2>1. i \in 1 .. n /\ i + 1 \in 1 .. n
      BY <1>3
    <2> QED
      BY <1>2, <1>3, <2>1
  <1>11. Run(s, latest)
    BY <1>2, <1>6, <1>7, <1>9, <1>10 DEF Run
  <1> QED
    BY <1>7, <1>8, <1>11 DEF s

LEMMA LoadRead ==
    ASSUME IInv, ReadInv, LoadFromVersion \/ Project
    PROVE  ReadInv'
  <1>0. latest \in Int /\ seen <= latest
    BY Numbers
  <1>1. UNCHANGED <<latest, am, content, iter, seen, astray>>
    BY DEF LoadFromVersion, Project, store, projected, history
  <1>2. Reached' = Reached /\ ModelInv' /\ ContentInv'
    BY <1>1 DEF Reached, ReadInv, ModelInv, ContentInv, Rebuilding
  <1>3. CASE LoadFromVersion
    <2> DEFINE s == EventsFrom(consumer.version)
    <2>1. /\ consumer.at = "reload" /\ consumer'.at = "reloading" /\ consumer'.cursor = s
          /\ UNCHANGED loader
      BY <1>3 DEF LoadFromVersion
    <2>2. consumer.version \in 0 .. latest
      BY <2>1 DEF ReadInv, CursorInv
    <2>3. Run(s, latest) /\ s # << >> /\ s[Len(s)].version = latest
      BY <2>2, ReadRun
    <2> HIDE DEF s
    <2>4. IterInv'
      BY <1>1, <1>2, <2>1 DEF ReadInv, IterInv, Awaited, Follows
    <2>5. CursorInv'
      BY <1>0, <1>1, <1>2, <2>1, <2>3 DEF ReadInv, CursorInv
    <2> QED
      BY <1>2, <2>4, <2>5 DEF ReadInv
  <1>4. CASE Project
    <2>1. /\ loader.at = "idle" /\ loader'.at = "loaded" /\ loader'.cursor = EventsFrom(latest)
          /\ UNCHANGED consumer
      BY <1>4 DEF Project
    <2>2. Run(EventsFrom(latest), latest)
      <3>1. latest \in 0 .. latest
        BY <1>0, <1>4 DEF Project, IInv, StoreInv
      <3> QED
        BY <3>1, ReadRun
    <2>3. IterInv'
      BY <1>1, <1>2, <2>1 DEF ReadInv, IterInv, Awaited, Follows
    <2>4. CursorInv'
      BY <1>1, <1>2, <2>1, <2>2 DEF ReadInv, CursorInv
    <2> QED
      BY <1>2, <2>3, <2>4 DEF ReadInv
  <1> QED
    BY <1>3, <1>4

LEMMA RunLater ==
    ASSUME NEW s, NEW n \in Int, NEW m \in Int, n <= m
    PROVE  (Run(s, n) => Run(s, m)) /\ (Messages(s, n) => Messages(s, m))
  BY DEF Run, Messages

(* Steps of the store and the bus, a failed reload, and stuttering ones:     *)
(* what was read stays good while the document grows.                        *)
LEMMA OtherRead ==
    ASSUME IInv, ReadInv, latest' \in Int, latest <= latest',
           UNCHANGED <<am, content, iter, loader, astray>>,
           \/ UNCHANGED <<consumer, seen>>
           \/ consumer.at = "reload" /\ consumer'.at = "idle" /\ seen' = -1
    PROVE  ReadInv'
  <1> DEFINE n == latest'
  <1>0. latest \in Int /\ n \in Int /\ latest <= n
    BY Numbers
  <1>1. Reached' = Reached /\ Reached >= -1 /\ (Follows' <=> Follows) /\ (Rebuilding' <=> Rebuilding)
    BY Numbers DEF Reached, Follows, Rebuilding
  <1>2. ModelInv /\ ContentInv /\ IterInv /\ CursorInv
    BY DEF ReadInv
  <1>3. ModelInv' /\ ContentInv'
    <2>1. am.version \in Int
      BY Numbers
    <2>2. ModelInv'
      BY <1>0, <1>2, <2>1 DEF ModelInv
    <2>3. ContentInv'
      BY <1>1, <1>2 DEF ContentInv
    <2> QED
      BY <2>2, <2>3
  <1> HIDE DEF n
  <1>4. /\ iter.by = "bus" => n >= 0 /\ Messages(iter.rest, n)
        /\ iter.by \in {"reload", "project"} => Run(iter.rest, n)
        /\ consumer.at = "reload" => consumer.version \in 0 .. n
        /\ consumer.at = "reloading" => Run(consumer.cursor, n)
        /\ loader.at = "loaded" => Run(loader.cursor, n)
    BY <1>0, <1>2, RunLater DEF IterInv, CursorInv
  <1>5. CASE UNCHANGED <<consumer, seen>>
    <2>1. IterInv'
      BY <1>1, <1>2, <1>4, <1>5 DEF IterInv, Awaited, n
    <2>2. CursorInv'
      BY <1>1, <1>2, <1>4, <1>5 DEF CursorInv, n
    <2> QED
      BY <1>3, <2>1, <2>2 DEF ReadInv
  <1>6. CASE consumer.at = "reload" /\ consumer'.at = "idle" /\ seen' = -1
    <2>1. iter.by \notin {"bus", "reload"}
      BY <1>2, <1>6 DEF IterInv
    <2>2. IterInv'
      BY <1>1, <1>2, <1>4, <1>6, <2>1 DEF IterInv, n
    <2>3. CursorInv'
      BY <1>1, <1>2, <1>4, <1>6 DEF CursorInv, n
    <2> QED
      BY <1>3, <2>2, <2>3 DEF ReadInv
  <1> QED
    BY <1>5, <1>6

LEMMA NextRead == IInv /\ ReadInv /\ [Next]_vars => ReadInv'
  <1> SUFFICES ASSUME IInv, ReadInv, [Next]_vars PROVE ReadInv'
    OBVIOUS
  <1>0. latest \in Int
    BY Numbers
  <1>1. CASE ReloadFails
    <2>1. /\ consumer.at = "reload" /\ consumer'.at = "idle" /\ seen' = -1
          /\ UNCHANGED <<latest, am, content, iter, loader, astray>>
      BY <1>1 DEF ReloadFails, Idle, store, projected
    <2> QED
      BY <1>0, <2>1, OtherRead
  <1>2. ASSUME NEW n \in 1 .. 2, Commit(n) PROVE ReadInv'
    <2>1. latest' = latest + n /\ UNCHANGED <<am, content, iter, consumer, loader, seen, astray>>
      BY <1>2 DEF Commit, projected, history
    <2>2. latest' \in Int /\ latest <= latest'
      BY <1>0, <2>1
    <2> QED
      BY <2>1, <2>2, OtherRead
  <1>3. ASSUME NEW v \in Version, CleanUp(v) \/ Lose(v) PROVE ReadInv'
    <2>1. UNCHANGED <<latest, am, content, iter, consumer, loader, seen, astray>>
      BY <1>3 DEF CleanUp, Lose, projected, history
    <2>2. latest' \in Int /\ latest <= latest'
      BY <1>0, <2>1
    <2> QED
      BY <2>1, <2>2, OtherRead
  <1>4. CASE UNCHANGED vars
    <2>1. UNCHANGED <<latest, am, content, iter, consumer, loader, seen, astray>>
      BY <1>4 DEF vars, store, projected, history
    <2>2. latest' \in Int /\ latest <= latest'
      BY <1>0, <2>1
    <2> QED
      BY <2>1, <2>2, OtherRead
  <1> QED
    BY <1>1, <1>2, <1>3, <1>4, NextEventRead, ConsumeRead, EndRead, HandleRead, LoadRead
       DEF Next, Work

LEMMA Reads == Spec => [](IInv /\ ReadInv)
  <1>1. Init => IInv /\ ReadInv
    BY InitShape, InitRead
  <1>2. (IInv /\ ReadInv) /\ [Next]_vars => (IInv /\ ReadInv)'
    BY NextShape, NextRead
  <1> QED
    BY <1>1, <1>2, PTL DEF Spec

(* For every number of versions, every size of the batches the pool hands to *)
(* HandleWithReload, and a new or a known aggregate: readers of an unlocked  *)
(* model see the state of the version aggregateModel.Update believes to be   *)
(* at, whatever messages were lost, late or out of order, whatever a         *)
(* clean-up had removed when a gap was reloaded, and whatever a concurrent   *)
(* load brought. The exceptions are those of Lapse, until the next snapshot. *)
THEOREM ReadersSeeTheirVersion == Spec => []Consistent
  <1>1. IInv /\ ReadInv => Consistent
    <2> SUFFICES ASSUME ReadInv, iter.by = "none", ~astray PROVE content = Reached
      BY DEF Consistent, Unlocked, Reached, Empty
    <2> QED
      BY DEF ReadInv, ContentInv, Rebuilding
  <1> QED
    BY <1>1, Reads, PTL

(* HandleWithReload is complete: once the consumer is idle, the model is at  *)
(* least at every version it has taken from the bus, unless it gave up on it *)
(* after a database error, on an empty model or in a lapse.                  *)
THEOREM SeenVersionsAreApplied == Spec => []SeenIsApplied
  <1>1. IInv /\ ReadInv => SeenIsApplied
    BY DEF ReadInv, CursorInv, SeenIsApplied, Reached
  <1> QED
    BY <1>1, Reads, PTL

(* No load that was read before newer messages were applied and no late      *)
(* message takes the model back to an older version, except to version 0,    *)
(* which aggregateModel.Update always accepts.                               *)
THEOREM NeverBack == Spec => BackOnlyToStart
  <1> DEFINE back == [am.hasSnapshot =>
                         am'.hasSnapshot /\ (am'.version >= am.version \/ am'.version = 0)]_vars
  <1>1. IInv /\ [Next]_vars => back
    <2> SUFFICES ASSUME IInv, [Next]_vars, am.hasSnapshot
                 PROVE  am'.hasSnapshot /\ (am'.version >= am.version \/ am'.version = 0)
      OBVIOUS
    <2>0. am.version \in Int /\ iter.rest \in Seq(StoredEvent)
      BY Numbers
    <2>1. CASE UNCHANGED am
      BY <2>0, <2>1
    <2>2. CASE NextEvent
      <3> DEFINE e == Head(iter.rest)
      <3>1. e \in StoredEvent
        BY <2>0, <2>2, HeadTailProperties DEF NextEvent
      <3>2. Skipped(e) \/ Ignored(e) \/ Taken(e) \/ Strayed(e)
        BY <2>2, EventOutcome
      <3> HIDE DEF e
      <3>3. UNCHANGED am \/ Taken(e)
        BY <3>2 DEF Skipped, Ignored, Strayed
      <3>4. CASE Taken(e)
        <4>1. e.version \in Int
          BY <3>1, ProjectionConstants DEF StoredEvent, Version
        <4> QED
          BY <2>0, <3>4, <4>1 DEF Taken, Accepted
      <3> QED
        BY <2>1, <3>3, <3>4
    <2> QED
      BY <2>1, <2>2 DEF Next, Work, Consume, Handled, Reloaded, Projected, HandleReload,
         HandleSnapshot, LoadFromVersion, Project, ReloadFails, Commit, CleanUp, Lose,
         vars, projected
  <1> QED
    BY <1>1, Shape, PTL DEF Spec, BackOnlyToStart
=============================================================================
