--------------------------- MODULE EventProjection ---------------------------
(***************************************************************************)
(* The read side: one aggregate's model in the projection of the            *)
(* resource-directory (cqrs/eventstore/projection.go), kept up to date by   *)
(* two activities that share it:                                            *)
(*   - the consumer handles the aggregate's messages from the event bus, in *)
(*     batches, and reloads from the event store when it sees a gap         *)
(*     (HandleWithReload; GoroutinePoolHandler runs one consumer per        *)
(*     aggregate),                                                          *)
(*   - the loader projects the latest snapshot from the event store         *)
(*     (Register and ForceUpdate, one at a time under the device's mutex).  *)
(* The store and the bus are what Aggregate.tla leaves: the document ends   *)
(* with a snapshot, clean-ups remove what precedes some snapshot, messages  *)
(* are published after they were stored, in any order, and may be lost.     *)
(*                                                                          *)
(* The user's model is abstracted to the version of the state it shows.     *)
(***************************************************************************)
EXTENDS Integers, Sequences, FiniteSets

CONSTANTS MaxVersion,     \* commands stop once a version would exceed this
          MaxBatch,       \* the most messages the consumer takes at a time
          StartVersion,   \* the version stored and projected at the start, -1 if none
          FailsWhenEmpty  \* does Handle fail on a model without data (resourceProjection)?

ASSUME ProjectionConstants ==
  /\ MaxVersion \in Nat
  /\ MaxBatch \in Nat \ {0}
  /\ StartVersion \in -1 .. MaxVersion
  /\ FailsWhenEmpty \in BOOLEAN

VARIABLES
  events,    \* the events of the aggregate's document
  latest,    \* version of the last stored event, -1 before the first
  bus,       \* messages published or about to be, not delivered yet
  am,        \* aggregateModel: the version it believes to be at
  content,   \* the version of the state the user's model shows
  iter,      \* the iteration that holds the model's lock
  consumer,  \* the event bus consumer
  loader,    \* the Register or ForceUpdate under way
  seen,      \* history: highest version delivered and not given up on
  astray     \* history: has the model been left to events it cannot follow?

store == <<events, latest, bus>>
projected == <<am, content>>
history == <<seen, astray>>
vars == <<store, projected, iter, consumer, loader, history>>

Version == 0 .. MaxVersion

Empty == -1  \* a model without data
Torn == -2   \* events were applied to a state they do not follow

Event(v, snapshot) == [version |-> v, snapshot |-> snapshot]

NoIter == [by |-> "none", rest |-> << >>, first |-> FALSE, seeking |-> FALSE]
Idle == [at |-> "idle", version |-> 0, cursor |-> << >>]

\* The aggregate is new, or a projection has loaded its latest snapshot.
Init ==
  /\ latest = StartVersion
  /\ events = {Event(v, TRUE) : v \in {StartVersion} \cap Nat}
  /\ bus = {}
  /\ am = [version |-> IF StartVersion = -1 THEN 0 ELSE StartVersion,
           hasSnapshot |-> StartVersion # -1]
  /\ content = StartVersion
  /\ iter = NoIter
  /\ consumer = Idle
  /\ loader = Idle
  /\ seen = -1 /\ astray = FALSE

----------------------------------------------------------------------------
(* The event store and the bus *)

\* Mutant: messages carry the version after their event's.
CommitPublishesNext(n) ==
  /\ latest + n <= MaxVersion
  /\ latest' = latest + n
  /\ events' = events \cup {Event(v, v = latest + n) : v \in latest + 1 .. latest + n}
  /\ bus' = bus \cup (latest + 2 .. latest + n + 1)
  /\ UNCHANGED <<projected, iter, consumer, loader, history>>

\* A command stores n events; the last one is kept as a snapshot.
Commit(n) ==
  /\ latest + n <= MaxVersion
  /\ latest' = latest + n
  /\ events' = events \cup {Event(v, v = latest + n) : v \in latest + 1 .. latest + n}
  /\ bus' = bus \cup (latest + 1 .. latest + n)
  /\ UNCHANGED <<projected, iter, consumer, loader, history>>

\* The clean-up of a handler that stored a snapshot at version v.
CleanUp(v) ==
  /\ Event(v, TRUE) \in events
  /\ events' = {e \in events : e.version >= v}
  /\ events' # events
  /\ UNCHANGED <<latest, bus, projected, iter, consumer, loader, history>>

Lose(v) ==
  /\ v \in bus
  /\ bus' = bus \ {v}
  /\ UNCHANGED <<events, latest, projected, iter, consumer, loader, history>>

\* The stored events from version v on, in order.
EventsFrom(v) ==
  LET kept == {e \in events : e.version >= v}
      at(i) == CHOOSE e \in kept : Cardinality({f \in kept : f.version < e.version}) = i - 1
  IN [i \in 1 .. Cardinality(kept) |-> at(i)]

----------------------------------------------------------------------------
(* One iteration over events, under the model's lock *)

\* What to do with an event, and the version afterwards.
Verdict(ignore, reload, model) == [ignore |-> ignore, reload |-> reload, am |-> model]

\* Mutant: every newer event is accepted, with or without a gap.
UpdateAcceptsNewer(e) ==
  IF ~am.hasSnapshot \/ e.version > am.version
  THEN Verdict(FALSE, FALSE, [version |-> e.version, hasSnapshot |-> TRUE])
  ELSE Verdict(TRUE, FALSE, am)

\* Mutant: every snapshot is accepted, older ones too.
UpdateAcceptsSnapshots(e) ==
  LET accepted == Verdict(FALSE, FALSE, [version |-> e.version, hasSnapshot |-> TRUE])
  IN IF e.version = 0 \/ e.snapshot \/ (am.hasSnapshot /\ am.version + 1 = e.version)
     THEN accepted
     ELSE IF am.hasSnapshot /\ am.version >= e.version
     THEN Verdict(TRUE, FALSE, am)
     ELSE Verdict(FALSE, TRUE, am)

\* aggregateModel.Update
Update(e) ==
  LET accepted == Verdict(FALSE, FALSE, [version |-> e.version, hasSnapshot |-> TRUE])
  IN IF e.version = 0 \/ (e.snapshot /\ (~am.hasSnapshot \/ e.version > am.version))
     THEN accepted
     ELSE IF am.hasSnapshot /\ am.version + 1 = e.version
     THEN accepted
     ELSE IF am.hasSnapshot /\ am.version >= e.version
     THEN Verdict(TRUE, FALSE, am)
     ELSE Verdict(FALSE, TRUE, am)

\* The user's model: a snapshot replaces everything, another event changes the
\* state it follows.
Handle(e) ==
  IF e.snapshot \/ content = e.version - 1 THEN e.version ELSE Torn

Begin(by, batch) ==
  /\ iter = NoIter
  /\ iter' = [by |-> by, rest |-> batch, first |-> TRUE, seeking |-> FALSE]

Advance(seeking) ==
  iter' = [by |-> iter.by, rest |-> Tail(iter.rest), first |-> FALSE, seeking |-> seeking]

\* RewindToSnapshot: after a gap, skip to a snapshot.
SkipToSnapshot ==
  /\ iter.seeking /\ ~Head(iter.rest).snapshot
  /\ Advance(TRUE)
  /\ UNCHANGED <<projected, history>>

\* Next, RewindIgnore
Ignore ==
  /\ Update(Head(iter.rest)).ignore
  /\ Advance(FALSE)
  /\ UNCHANGED <<projected, history>>

\* Only the first event of an iteration can ask for a reload ...
Gap ==
  /\ Update(Head(iter.rest)).reload
  /\ iter.first
  /\ Advance(TRUE)
  /\ UNCHANGED <<projected, history>>

\* History: the two events that Update lets through although the model is not
\* at the version before them, and after which nothing will be reloaded: one
\* whose reload request is dropped, and one of version 0 that comes to a model
\* with data.  (In a reload the events up to the latest follow.)
Lapse(e) ==
  /\ iter.by # "reload"
  /\ Update(e).reload \/ (e.version = 0 /\ am.hasSnapshot)

\* ... RewindIgnore drops the request of a later one and hands the event out.
Apply ==
  LET e == Head(iter.rest)
      u == Update(e)
  IN /\ ~u.ignore
     /\ ~(u.reload /\ iter.first)
     /\ am' = u.am
     /\ content' = Handle(e)
     /\ Advance(FALSE)
     /\ seen' = IF Lapse(e) THEN -1 ELSE seen
     /\ astray' = (~e.snapshot /\ (astray \/ Lapse(e)))

NextEvent ==
  /\ iter.rest # << >>
  /\ \/ SkipToSnapshot
     \/ ~(iter.seeking /\ ~Head(iter.rest).snapshot) /\ (Ignore \/ Gap \/ Apply)
  /\ UNCHANGED <<store, consumer, loader>>

\* The iteration of `by` is over.
End(by) ==
  /\ iter.by = by
  /\ iter.rest = << >>
  /\ iter' = NoIter

----------------------------------------------------------------------------
(* The consumer *)

Highest(batch) == CHOOSE v \in batch \cup {seen} : \A w \in batch \cup {seen} : w <= v

\* The queue of the aggregate is handed to HandleWithReload.
Consume(batch) ==
  /\ consumer.at = "idle"
  /\ Begin("bus", [i \in DOMAIN batch |-> Event(batch[i], FALSE)])
  /\ bus' = bus \ {batch[i] : i \in DOMAIN batch}
  /\ seen' = Highest({batch[i] : i \in DOMAIN batch})
  /\ consumer' = [Idle EXCEPT !.at = "handling"]
  /\ UNCHANGED <<events, latest, projected, loader, astray>>

\* Mutant: Handle instead of HandleWithReload, the reload queries are dropped.
HandledWithoutReload ==
  /\ End("bus")
  /\ consumer' = Idle
  /\ UNCHANGED <<store, projected, loader, history>>

\* The end of handle: a gap makes a reload query, unless the user's Handle
\* failed because the model has no data: then nothing is reloaded.
Handled ==
  LET fails == FailsWhenEmpty /\ content = Empty
  IN /\ End("bus")
     /\ consumer' = IF iter.seeking /\ ~fails
                    THEN [at |-> "reload", version |-> am.version, cursor |-> << >>]
                    ELSE Idle
     /\ seen' = IF iter.seeking /\ fails THEN -1 ELSE seen
     /\ UNCHANGED <<store, projected, loader, astray>>

\* Mutant: LoadUpToVersion in place of LoadFromVersion.
LoadUpToVersion ==
  /\ consumer.at = "reload"
  /\ consumer' = [at |-> "reloading", version |-> 0,
                  cursor |-> SelectSeq(EventsFrom(0), LAMBDA e : e.version < consumer.version)]
  /\ UNCHANGED <<store, projected, iter, loader, history>>

LoadFromVersion ==
  /\ consumer.at = "reload"
  /\ consumer' = [at |-> "reloading", version |-> 0, cursor |-> EventsFrom(consumer.version)]
  /\ UNCHANGED <<store, projected, iter, loader, history>>

\* A database error: the consumer gives up on what it has seen.
ReloadFails ==
  /\ consumer.at = "reload"
  /\ consumer' = Idle
  /\ seen' = -1
  /\ UNCHANGED <<store, projected, iter, loader, astray>>

HandleReload ==
  /\ consumer.at = "reloading"
  /\ Begin("reload", consumer.cursor)
  /\ consumer' = [Idle EXCEPT !.at = "handling"]
  /\ UNCHANGED <<store, projected, loader, history>>

Reloaded ==
  /\ End("reload")
  /\ consumer' = Idle
  /\ UNCHANGED <<store, projected, loader, history>>

----------------------------------------------------------------------------
(* The loader *)

\* LoadFromSnapshot: the document holds a snapshot at its latest version.
Project ==
  /\ loader.at = "idle"
  /\ events # {}
  /\ loader' = [at |-> "loaded", version |-> 0, cursor |-> EventsFrom(latest)]
  /\ UNCHANGED <<store, projected, iter, consumer, history>>

HandleSnapshot ==
  /\ loader.at = "loaded"
  /\ Begin("project", loader.cursor)
  /\ loader' = [Idle EXCEPT !.at = "handling"]
  /\ UNCHANGED <<store, projected, consumer, history>>

Projected ==
  /\ End("project")
  /\ loader' = Idle
  /\ UNCHANGED <<store, projected, consumer, history>>

----------------------------------------------------------------------------

Batches ==
  UNION {{b \in [1 .. n -> bus] : \A i, j \in 1 .. n : b[i] = b[j] => i = j} : n \in 1 .. MaxBatch}

Work ==
  \/ NextEvent \/ Handled \/ LoadFromVersion \/ HandleReload \/ Reloaded
  \/ HandleSnapshot \/ Projected

Next ==
  \/ Work
  \/ \E batch \in Batches : Consume(batch)
  \/ Project
  \/ ReloadFails
  \/ \E n \in 1 .. 2 : Commit(n)
  \/ \E v \in Version : CleanUp(v) \/ Lose(v)

\* Goroutines are scheduled, locks are granted, and the database answers.
Fairness == WF_vars(NextEvent \/ Handled \/ Reloaded \/ Projected)
              /\ SF_vars(HandleReload) /\ WF_vars(LoadFromVersion)

Spec == Init /\ [][Next]_vars
FairSpec == Spec /\ Fairness

----------------------------------------------------------------------------
(* Type invariant: events and messages have versions the document has       *)
(* reached; the model, the consumer and the loader are where they can be.   *)
TypeOK ==
  /\ latest \in -1 .. MaxVersion
  /\ events \subseteq [version : 0 .. latest, snapshot : BOOLEAN]
  /\ bus \subseteq 0 .. latest
  /\ am \in [version : Version, hasSnapshot : BOOLEAN]
  /\ content \in Version \cup {Empty, Torn}
  /\ iter.by \in {"none", "bus", "reload", "project"}
  /\ iter.first \in BOOLEAN /\ iter.seeking \in BOOLEAN
  /\ consumer.at \in {"idle", "handling", "reload", "reloading"}
  /\ consumer.version \in Version
  /\ loader.at \in {"idle", "loaded", "handling"}
  /\ seen \in -1 .. MaxVersion /\ astray \in BOOLEAN

Unlocked == iter.by = "none"

(* Whenever the lock is free, readers see the state of the version the      *)
(* projection believes to be at: no message that comes early, late or after *)
(* a concurrent load is applied to a state it does not follow, and none is  *)
(* applied twice (aggregateModel.Update under the lock of the model).  The  *)
(* exceptions, until the next snapshot, are the two of Lapse.               *)
Consistent ==
  Unlocked /\ ~astray => content = IF am.hasSnapshot THEN am.version ELSE Empty

(* A version seen on the bus is reflected once the consumer is done, also   *)
(* when the messages before it were lost or are late: either they were      *)
(* applied one by one or the gap was reloaded (HandleWithReload).  Versions *)
(* are given up on in a lapse, when the reload fails, and when Handle fails *)
(* on the empty model of a projection that has loaded nothing yet.          *)
SeenIsApplied ==
  consumer.at = "idle" => seen <= IF am.hasSnapshot THEN am.version ELSE -1

(* The projection goes back to no version but the first: a snapshot that    *)
(* was read before newer messages were applied, a reload that is overtaken  *)
(* by a load, or a late message is ignored ("ignore event - it was already  *)
(* applied"), unless it is of version 0, which Update always accepts.       *)
BackOnlyToStart ==
  [][am.hasSnapshot => am'.hasSnapshot /\ (am'.version >= am.version \/ am'.version = 0)]_vars

(* The projection never goes back: an event that was applied already is     *)
(* ignored.  The code does not keep this for version 0.                     *)
VersionNeverRegresses ==
  [][am.hasSnapshot => am'.hasSnapshot /\ am'.version >= am.version]_vars

(* An event whose version is more than one ahead is never applied, however  *)
(* the messages are batched: the projection reloads instead (Update: "need  *)
(* to reload").                                                             *)
GapsReloaded == content # Torn

(* Every version that reaches the consumer is eventually shown, unless it   *)
(* is given up on (HandleWithReload).                                       *)
CatchesUp ==
  \A v \in Version : seen >= v ~> (am.hasSnapshot /\ am.version >= v) \/ seen < v
=============================================================================
