------------------------------ MODULE Aggregate ------------------------------
(***************************************************************************)
(* Command handling of the resource-aggregate service for one aggregate     *)
(* (cqrs/aggregate, service/aggregate.go, the PublishEvents of              *)
(* service/grpcApi.go) over the MongoDB event store                         *)
(* (cqrs/eventstore/mongodb).                                               *)
(*                                                                          *)
(* Handlers run concurrently, in one process or in several replicas, and    *)
(* share nothing but the aggregate's document.  A handler loads the latest  *)
(* snapshot, judges its command in memory, stores the new events with an    *)
(* optimistic version check, removes what the new snapshot replaces and     *)
(* publishes its events; a lost race makes it start over.  Any step can     *)
(* fail, and a handler can die between two steps.                           *)
(*                                                                          *)
(* The aggregate's rules (Go interface AggregateModel) are a parameter, so  *)
(* what is shown here holds for every kind of aggregate.                    *)
(***************************************************************************)
EXTENDS Integers, Sequences

CONSTANTS Handler,                \* request handlers, one per received command
          Command,                \* the commands callers may send
          NoCommand,              \* not a command
          InitialState,           \* the state of an aggregate without events
          HandleCommand(_, _, _), \* (state, command, now) -> [ok, events, state]
          Forced(_),              \* commands whose events wantToPublish may withhold
          SharedModel,            \* does factoryModel return one object for all attempts?
          MaxEvents,              \* the most events one command can produce
          MaxRetry,               \* ConcurrencyExceptionMaxRetry
          MaxTime,                \* the clock stops here
          MaxDeletes              \* how often the device is deleted (DeleteDevices)

ASSUME AggregateConstants ==
  /\ SharedModel \in BOOLEAN
  /\ MaxEvents \in Nat
  /\ MaxRetry \in Nat
  /\ MaxTime \in Nat
  /\ MaxDeletes \in Nat

VARIABLES
  \* the aggregate's document in the event store
  doc,
  \* the handlers: position, command, number of retries, the in-memory model,
  \* the version it was loaded at (-1: nothing was loaded), the time at which
  \* the command was judged, the stored events not yet published and the
  \* version of the snapshot stored with them
  pc, cmd, retries, model, lastVersion, judgedAt, unpublished, savedVersion,
  \* messages on the event bus, the clock, deletions of the device
  bus, now, deletes,
  \* history: every event stored so far
  log

request == <<cmd, retries>>
attempt == <<model, lastVersion, judgedAt>>
outbox == <<unpublished, savedVersion>>
world == <<bus, now, deletes>>
vars == <<doc, log, pc, request, attempt, outbox, world>>

\* Aggregate without a document.
NoDoc == [latestVersion |-> -1, firstVersion |-> 0, latestSnapshotVersion |-> 0, events |-> {}]

Init ==
  /\ doc = NoDoc
  /\ log = {}
  /\ pc = [h \in Handler |-> "idle"]
  /\ cmd = [h \in Handler |-> NoCommand]
  /\ retries = [h \in Handler |-> 0]
  /\ model = [h \in Handler |-> InitialState]
  /\ lastVersion = [h \in Handler |-> -1]
  /\ judgedAt = [h \in Handler |-> 0]
  /\ unpublished = [h \in Handler |-> {}]
  /\ savedVersion = [h \in Handler |-> 0]
  /\ bus = {}
  /\ now = 0
  /\ deletes = 0

----------------------------------------------------------------------------
(* The event store *)

\* LoadFromSnapshot: the events of the document from its latest snapshot on.
LoadFromSnapshot == {e \in doc.events : e.version >= doc.latestSnapshotVersion}

\* Mutant: the filter accepts every document that is not behind.
NotBehind(v) ==
  IF v = 0 THEN doc.latestVersion = -1 ELSE doc.latestVersion >= v - 1

\* May events starting at version v be stored?  Version 0 inserts the document
\* (its key collides when there is one), others extend the document whose
\* latest version precedes v.
NoConcurrency(v) ==
  IF v = 0 THEN doc.latestVersion = -1 ELSE doc.latestVersion = v - 1

\* The n events of a command, numbered from version v on.
Numbered(events, v, n) == {[version |-> v + i - 1, event |-> events[i]] : i \in 1 .. n}

\* All events but the last, which the snapshot of the new state replaces.
SavedEvents(r, v, n) ==
  {[version |-> v + i - 1, snapshot |-> FALSE, value |-> r.events[i]] : i \in 1 .. n - 1}
    \cup {[version |-> v + n - 1, snapshot |-> TRUE, value |-> r.state]}

Save(r, v, n) ==
  /\ doc' = [latestVersion |-> v + n - 1,
             firstVersion |-> IF v = 0 THEN 0 ELSE doc.firstVersion,
             latestSnapshotVersion |-> v + n - 1,
             events |-> doc.events \cup SavedEvents(r, v, n)]
  /\ log' = log \cup Numbered(r.events, v, n)

----------------------------------------------------------------------------
(* Command handlers.  What a step leaves behind is only what later steps can *)
(* read: variables that go out of scope in the code return to their initial *)
(* value.                                                                   *)

Goto(h, place) == pc' = [pc EXCEPT ![h] = place]

ForgetAttempt(h) ==
  /\ model' = [model EXCEPT ![h] = InitialState]
  /\ lastVersion' = [lastVersion EXCEPT ![h] = -1]
  /\ judgedAt' = [judgedAt EXCEPT ![h] = 0]

\* The request is over; the caller got the outcome, or nothing at all.
Finish(h, outcome) ==
  /\ Goto(h, outcome)
  /\ cmd' = [cmd EXCEPT ![h] = NoCommand]
  /\ retries' = [retries EXCEPT ![h] = 0]
  /\ ForgetAttempt(h)
  /\ unpublished' = [unpublished EXCEPT ![h] = {}]
  /\ savedVersion' = [savedVersion EXCEPT ![h] = 0]

\* A request arrives; an Aggregate is created for it.
Receive(h, c) ==
  /\ pc[h] = "idle"
  /\ cmd' = [cmd EXCEPT ![h] = c]
  /\ Goto(h, "load")
  /\ UNCHANGED <<doc, log, retries, attempt, outbox, world>>

\* NewAggregateModel.  Without a document the model stays as the factory
\* returned it: new, or, for a shared object, as the previous attempt left it.
LoadNothing(h) ==
  /\ doc.latestVersion = -1
  /\ Goto(h, "loaded")
  /\ UNCHANGED <<request, attempt, outbox>>

LoadSnapshot(h) ==
  /\ \E e \in LoadFromSnapshot :
       /\ e.snapshot
       /\ model' = [model EXCEPT ![h] = e.value]
       /\ lastVersion' = [lastVersion EXCEPT ![h] = e.version]
  /\ Goto(h, "loaded")
  /\ UNCHANGED <<request, judgedAt, outbox>>

\* A document without events is an error (parseDocument).
LoadFails(h) ==
  /\ doc.latestVersion >= 0
  /\ LoadFromSnapshot = {}
  /\ Finish(h, "failed")

Load(h) ==
  /\ pc[h] = "load"
  /\ LoadNothing(h) \/ LoadSnapshot(h) \/ LoadFails(h)
  /\ UNCHANGED <<doc, log, world>>

\* The model handles the command, on the clock of this moment.
HandleInMemory(h) ==
  /\ pc[h] = "loaded"
  /\ judgedAt' = [judgedAt EXCEPT ![h] = now]
  /\ Goto(h, "handle")
  /\ UNCHANGED <<doc, log, request, model, lastVersion, outbox, world>>

\* HandleCommandWithAggregateModelWrapper, by what it comes to.
Judge(h) == HandleCommand(model[h], cmd[h], judgedAt[h])

\* Mutant: the version is read when the events are stored, not with the state.
VersionAtSave(h) == doc.latestVersion + 1

NewVersion(h) == lastVersion[h] + 1

Reject(h) ==
  /\ pc[h] = "handle"
  /\ ~Judge(h).ok
  /\ Finish(h, "failed")
  /\ UNCHANGED <<doc, log, world>>

NothingToDo(h) ==
  /\ pc[h] = "handle"
  /\ Judge(h).ok
  /\ Judge(h).events = << >>
  /\ Finish(h, "ok")
  /\ UNCHANGED <<doc, log, world>>

\* The command yields n events.
Yields(h, n) ==
  /\ pc[h] = "handle"
  /\ Judge(h).ok
  /\ n = Len(Judge(h).events)

SaveOk(h) ==
  \E n \in 1 .. MaxEvents :
    /\ Yields(h, n)
    /\ NoConcurrency(NewVersion(h))
    /\ Save(Judge(h), NewVersion(h), n)
    /\ unpublished' = [unpublished EXCEPT ![h] = Numbered(Judge(h).events, NewVersion(h), n)]
    /\ savedVersion' = [savedVersion EXCEPT ![h] = NewVersion(h) + n - 1]
    /\ ForgetAttempt(h)
    /\ Goto(h, "removeDocuments")
    /\ UNCHANGED <<request, world>>

\* The database reports an error although it stored the events.
SaveUnknown(h) ==
  \E n \in 1 .. MaxEvents :
    /\ Yields(h, n)
    /\ NoConcurrency(NewVersion(h))
    /\ Save(Judge(h), NewVersion(h), n)
    /\ Finish(h, "failed")
    /\ UNCHANGED world

\* Mutant: the lost race is taken for a success.
ExceptionIgnored(h) ==
  \E n \in 1 .. MaxEvents :
    /\ Yields(h, n)
    /\ ~NoConcurrency(NewVersion(h))
    /\ unpublished' = [unpublished EXCEPT ![h] = Numbered(Judge(h).events, NewVersion(h), n)]
    /\ ForgetAttempt(h)
    /\ Goto(h, "publish")
    /\ UNCHANGED <<doc, log, request, savedVersion, world>>

\* Mutant: the same events are saved again until that succeeds.
SaveAgain(h) ==
  \E n \in 1 .. MaxEvents :
    /\ Yields(h, n)
    /\ ~NoConcurrency(NewVersion(h))
    /\ UNCHANGED vars

\* Another handler was faster.  A shared model keeps the effect of the command.
ConcurrencyException(h) ==
  \E n \in 1 .. MaxEvents :
    /\ Yields(h, n)
    /\ ~NoConcurrency(NewVersion(h))
    /\ model' = [model EXCEPT ![h] = IF SharedModel THEN Judge(h).state ELSE InitialState]
    /\ lastVersion' = [lastVersion EXCEPT ![h] = -1]
    /\ judgedAt' = [judgedAt EXCEPT ![h] = 0]
    /\ Goto(h, "retry")
    /\ UNCHANGED <<doc, log, request, outbox, world>>

\* Mutant: one retry too many.
RetryOnceMore(h) ==
  /\ pc[h] = "retry"
  /\ retries[h] <= MaxRetry
  /\ retries' = [retries EXCEPT ![h] = @ + 1]
  /\ Goto(h, "load")
  /\ UNCHANGED <<doc, log, cmd, attempt, outbox, world>>

\* HandleRetry
Retry(h) ==
  /\ pc[h] = "retry"
  /\ retries[h] < MaxRetry
  /\ retries' = [retries EXCEPT ![h] = @ + 1]
  /\ Goto(h, "load")
  /\ UNCHANGED <<doc, log, cmd, attempt, outbox, world>>

RetryReachedLimit(h) ==
  /\ pc[h] = "retry"
  /\ retries[h] >= MaxRetry
  /\ Finish(h, "failed")
  /\ UNCHANGED <<doc, log, world>>

----------------------------------------------------------------------------
(* cleanUpToSnapshot, after the events of handler h were stored: two         *)
(* database commands, whose failure is only logged                          *)

RemoveDocumentsUpToVersion(h) ==
  /\ pc[h] = "removeDocuments"
  /\ doc' = IF doc.latestVersion < savedVersion[h] THEN NoDoc ELSE doc
  /\ Goto(h, "removeEvents")
  /\ UNCHANGED <<log, request, attempt, outbox, world>>

\* Mutant: the events up to and including the version are pulled.
RemoveEventsThroughVersion(h) ==
  /\ pc[h] = "removeEvents"
  /\ doc' = IF doc.latestVersion >= 0 /\ doc.firstVersion < savedVersion[h]
            THEN [latestVersion |-> doc.latestVersion,
                  firstVersion |-> savedVersion[h],
                  latestSnapshotVersion |-> doc.latestSnapshotVersion,
                  events |-> {e \in doc.events : e.version > savedVersion[h]}]
            ELSE doc
  /\ Goto(h, "publish")
  /\ UNCHANGED <<log, request, attempt, outbox, world>>

RemoveEventsUpToVersion(h) ==
  /\ pc[h] = "removeEvents"
  /\ doc' = IF doc.latestVersion >= 0 /\ doc.firstVersion < savedVersion[h]
            THEN [latestVersion |-> doc.latestVersion,
                  firstVersion |-> savedVersion[h],
                  latestSnapshotVersion |-> doc.latestSnapshotVersion,
                  events |-> {e \in doc.events : e.version >= savedVersion[h]}]
            ELSE doc
  /\ Goto(h, "publish")
  /\ UNCHANGED <<log, request, attempt, outbox, world>>

CleanUpFails(h) ==
  /\ pc[h] \in {"removeDocuments", "removeEvents"}
  /\ Goto(h, "publish")
  /\ UNCHANGED <<doc, log, request, attempt, outbox, world>>

----------------------------------------------------------------------------
(* PublishEvents: one event after the other, an error is only logged *)

PublishEvent(h) ==
  /\ pc[h] = "publish"
  /\ \E m \in unpublished[h] :
       /\ \A k \in unpublished[h] : m.version <= k.version
       /\ bus' = bus \cup {m} \/ UNCHANGED bus
       /\ unpublished' = [unpublished EXCEPT ![h] = @ \ {m}]
  /\ UNCHANGED <<doc, log, pc, request, attempt, savedVersion, now, deletes>>

Reply(h) ==
  /\ pc[h] = "publish"
  /\ unpublished[h] = {}
  /\ Finish(h, "ok")
  /\ UNCHANGED <<doc, log, world>>

\* wantToPublish: the resource of a forced request may not be in the links.
Withhold(h) ==
  /\ pc[h] = "publish"
  /\ Forced(cmd[h])
  /\ Finish(h, "ok")
  /\ UNCHANGED <<doc, log, world>>

\* A database error, the end of the request's context, or the death of the
\* process, between any two steps.
Abort(h) ==
  /\ pc[h] \notin {"idle", "ok", "failed"}
  /\ Finish(h, "failed")
  /\ UNCHANGED <<doc, log, world>>

----------------------------------------------------------------------------
(* Environment *)

DeleteDevices ==
  /\ deletes < MaxDeletes
  /\ doc' = NoDoc
  /\ deletes' = deletes + 1
  /\ UNCHANGED <<log, pc, request, attempt, outbox, bus, now>>

Tick ==
  /\ now < MaxTime
  /\ now' = now + 1
  /\ UNCHANGED <<doc, log, pc, request, attempt, outbox, bus, deletes>>

\* The steps a running handler takes of its own accord.
Step(h) ==
  \/ Load(h) \/ HandleInMemory(h)
  \/ Reject(h) \/ NothingToDo(h) \/ SaveOk(h) \/ ConcurrencyException(h)
  \/ Retry(h) \/ RetryReachedLimit(h)
  \/ RemoveDocumentsUpToVersion(h) \/ RemoveEventsUpToVersion(h)
  \/ PublishEvent(h) \/ Reply(h)

Mishap(h) == SaveUnknown(h) \/ CleanUpFails(h) \/ Withhold(h) \/ Abort(h)

Next ==
  \/ \E h \in Handler : Step(h) \/ Mishap(h) \/ \E c \in Command : Receive(h, c)
  \/ DeleteDevices
  \/ Tick

\* Goroutines are scheduled, and database and bus calls return or time out.
Fairness == \A h \in Handler : WF_vars(Step(h))

Spec == Init /\ [][Next]_vars
FairSpec == Spec /\ Fairness

----------------------------------------------------------------------------
(* Type invariant: versions are numbers, the first attempt is followed by at *)
(* most MaxRetry more (NewDefaultRetryFunc).                                *)
TypeOK ==
  /\ doc.latestVersion \in Nat \cup {-1}
  /\ doc.firstVersion \in Nat
  /\ doc.latestSnapshotVersion \in Nat
  /\ \A e \in doc.events : e.version \in Nat /\ e.snapshot \in BOOLEAN
  /\ pc \in [Handler -> {"idle", "load", "loaded", "handle", "retry", "removeDocuments",
                         "removeEvents", "publish", "ok", "failed"}]
  /\ cmd \in [Handler -> Command \cup {NoCommand}]
  /\ retries \in [Handler -> 0 .. MaxRetry]
  /\ lastVersion \in [Handler -> Nat \cup {-1}]
  /\ judgedAt \in [Handler -> 0 .. now]
  /\ DOMAIN model = Handler
  /\ DOMAIN unpublished = Handler
  /\ savedVersion \in [Handler -> Nat]
  /\ now \in 0 .. MaxTime
  /\ deletes \in 0 .. MaxDeletes

\* The latest snapshot, from which everything else is rebuilt, can be loaded.
Loadable ==
  doc.latestVersion >= 0 =>
    /\ doc.latestSnapshotVersion = doc.latestVersion
    /\ \E e \in doc.events : e.version = doc.latestVersion /\ e.snapshot

(* The clean-up that every handler runs after its own save, early or late,  *)
(* completely or not, never removes the snapshot the aggregate is loaded    *)
(* from, as long as the device is not deleted meanwhile                     *)
(* (cleanUpToSnapshot, RemoveUpToVersion).                                  *)
LoadableUntilDeleted == deletes = 0 => Loadable

(* The same whether or not the device is deleted: the clean-up "removes     *)
(* events up to latest snapshot" and so keeps that snapshot.                *)
LatestSnapshotKept == Loadable

(* Subscribers never receive an event that lost the race for its version:   *)
(* what is on the bus was stored first, under the same version              *)
(* (HandleCommand returns events only after Save said Ok; PublishEvents).   *)
PublishedWereStored == bus \subseteq log

\* The state a reader of the store sees.
StoredState ==
  IF doc.latestVersion = -1
  THEN InitialState
  ELSE (CHOOSE e \in doc.events : e.version = doc.latestVersion).value

Linear == INSTANCE LinearAggregate WITH version <- doc.latestVersion, state <- StoredState

(* Optimistic concurrency works: however handlers interleave, fail and      *)
(* retry, the store goes through the states a single handler executing the  *)
(* commands one by one would produce, with consecutive versions; no command *)
(* is judged on a state other than the one its events are appended to, and  *)
(* no stored command is overwritten (Save's latestVersion filter).          *)
Linearizable == Linear!Spec

(* Every request is answered: conflicts are retried at most MaxRetry times, *)
(* and no handler waits for another (HandleCommand's loop).                 *)
EveryCommandAnswered ==
  \A h \in Handler : pc[h] # "idle" ~> pc[h] \in {"ok", "failed"}
=============================================================================
