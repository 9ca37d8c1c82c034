--------------------------- MODULE AggregateProofs ---------------------------
(***************************************************************************)
(* Proofs about Aggregate, for any number of handlers, any commands and any *)
(* rules of the aggregate.                                                  *)
(***************************************************************************)
EXTENDS Aggregate, TLAPS

----------------------------------------------------------------------------
(* The inductive invariant.  Everything but the outbox is promised only until *)
(* the device is deleted.                                                   *)

\* The document ends with the snapshot it is loaded from.
DocInv ==
  /\ doc.latestVersion = -1 => doc.events = {}
  /\ doc.latestVersion >= 0 =>
       /\ doc.latestSnapshotVersion = doc.latestVersion
       /\ \E e \in doc.events : e.version = doc.latestVersion
       /\ \A e \in doc.events : e.version <= doc.latestVersion
       /\ \A e \in doc.events : e.version = doc.latestVersion => e.snapshot
       /\ \A e, f \in doc.events :
            e.version = doc.latestVersion /\ f.version = doc.latestVersion => e = f

\* What an attempt knows of the store: the state it was loaded with is still
\* the stored one unless a later version was stored, and a handler that lost
\* a race will find a document.
AttemptInv ==
  \A h \in Handler :
    /\ pc[h] = "idle" => model[h] = InitialState /\ lastVersion[h] = -1
    /\ pc[h] = "retry" => lastVersion[h] = -1 /\ doc.latestVersion >= 0
    /\ pc[h] = "load" =>
         lastVersion[h] = -1 /\ (doc.latestVersion = -1 => model[h] = InitialState)
    /\ pc[h] \in {"loaded", "handle"} =>
         /\ lastVersion[h] <= doc.latestVersion
         /\ lastVersion[h] = -1 => model[h] = InitialState
         /\ \A e \in doc.events :
              lastVersion[h] = doc.latestVersion /\ e.version = doc.latestVersion
                => model[h] = e.value

\* A handler only removes what precedes its own snapshot.
CleanUpInv ==
  \A h \in Handler :
    pc[h] \in {"removeDocuments", "removeEvents"} => savedVersion[h] <= doc.latestVersion

StoreInv == deletes = 0 => DocInv /\ AttemptInv /\ CleanUpInv

\* What is published, or about to be, was stored.
OutboxInv ==
  /\ bus \subseteq log
  /\ \A h \in Handler : unpublished[h] \subseteq log

\* A handler at work has a command.
RequestInv ==
  \A h \in Handler : pc[h] \in {"load", "loaded", "handle", "retry"} => cmd[h] \in Command

IInv == TypeOK /\ StoreInv /\ OutboxInv /\ RequestInv

----------------------------------------------------------------------------
(* Initial states *)

LEMMA InitInv == Init => IInv
  <1> SUFFICES ASSUME Init PROVE IInv
    OBVIOUS
  <1>1. TypeOK
    BY AggregateConstants DEF Init, TypeOK, NoDoc
  <1>2. StoreInv
    BY DEF Init, StoreInv, DocInv, AttemptInv, CleanUpInv, NoDoc
  <1>3. OutboxInv /\ RequestInv
    BY DEF Init, OutboxInv, RequestInv
  <1> QED
    BY <1>1, <1>2, <1>3 DEF IInv

----------------------------------------------------------------------------
(* Types *)

\* Versions counted from the loaded one stay versions.
LEMMA VersionType ==
  ASSUME TypeOK, NEW h \in Handler, NEW n \in 1 .. MaxEvents
  PROVE  /\ NewVersion(h) \in Nat
         /\ n \in Nat \ {0}
         /\ NewVersion(h) + n - 1 \in Nat
  BY AggregateConstants DEF TypeOK, NewVersion

\* What the end of a request leaves is typed.
LEMMA FinishType ==
  ASSUME TypeOK, NEW h \in Handler,
         NEW outcome \in {"ok", "failed"}, Finish(h, outcome)
  PROVE  /\ pc' \in [Handler -> {"idle", "load", "loaded", "handle", "retry", "removeDocuments",
                                 "removeEvents", "publish", "ok", "failed"}]
         /\ cmd' \in [Handler -> Command \cup {NoCommand}]
         /\ retries' \in [Handler -> 0 .. MaxRetry]
         /\ lastVersion' \in [Handler -> Nat \cup {-1}]
         /\ judgedAt' \in [Handler -> 0 .. now]
         /\ DOMAIN model' = Handler
         /\ DOMAIN unpublished' = Handler
         /\ savedVersion' \in [Handler -> Nat]
  BY AggregateConstants DEF TypeOK, Finish, ForgetAttempt, Goto

\* The snapshot of the new state is the last of the saved events, and the only
\* one with the last version.
LEMMA SavedEventsEndWithSnapshot ==
  ASSUME NEW r, NEW v \in Nat, NEW n \in Nat \ {0}
  PROVE  LET last == [version |-> v + n - 1, snapshot |-> TRUE, value |-> r.state]
         IN /\ last \in SavedEvents(r, v, n)
            /\ \A e \in SavedEvents(r, v, n) :
                 /\ e.version \in v .. v + n - 1
                 /\ e.snapshot \in BOOLEAN
                 /\ e.version = v + n - 1 => e = last
  <1> DEFINE last == [version |-> v + n - 1, snapshot |-> TRUE, value |-> r.state]
             early(i) == [version |-> v + i - 1, snapshot |-> FALSE, value |-> r.events[i]]
  <1>1. SavedEvents(r, v, n) = {early(i) : i \in 1 .. n - 1} \cup {last}
    BY DEF SavedEvents
  <1>2. last.version \in v .. v + n - 1 /\ last.snapshot \in BOOLEAN
    OBVIOUS
  <1>3. \A i \in 1 .. n - 1 : /\ early(i).version \in v .. v + n - 2
                              /\ early(i).snapshot \in BOOLEAN
    OBVIOUS
  <1> HIDE DEF last, early
  <1>4. ASSUME NEW e \in SavedEvents(r, v, n)
        PROVE  /\ e.version \in v .. v + n - 1
               /\ e.snapshot \in BOOLEAN
               /\ e.version = v + n - 1 => e = last
    <2>1. CASE e = last
      BY <2>1, <1>2
    <2>2. CASE e # last
      <3>1. PICK i \in 1 .. n - 1 : e = early(i)
        BY <1>1, <2>2
      <3>2. e.version \in v .. v + n - 2 /\ e.snapshot \in BOOLEAN
        BY <3>1, <1>3
      <3> QED
        BY <3>2
    <2> QED
      BY <2>1, <2>2
  <1> QED
    BY <1>1, <1>4 DEF last

\* What Save leaves is typed.
LEMMA SaveType ==
  ASSUME TypeOK, NEW h \in Handler, NEW n \in 1 .. MaxEvents,
         Save(Judge(h), NewVersion(h), n)
  PROVE  /\ doc'.latestVersion \in Nat \cup {-1}
         /\ doc'.firstVersion \in Nat
         /\ doc'.latestSnapshotVersion \in Nat
         /\ \A e \in doc'.events : e.version \in Nat /\ e.snapshot \in BOOLEAN
  <1> DEFINE v == NewVersion(h)
  <1>1. v \in Nat /\ n \in Nat \ {0} /\ v + n - 1 \in Nat
    BY VersionType
  <1> HIDE DEF v
  <1>2. Save(Judge(h), v, n)
    BY DEF v
  <1>3. \A e \in SavedEvents(Judge(h), v, n) :
          e.version \in v .. v + n - 1 /\ e.snapshot \in BOOLEAN
    BY <1>1, SavedEventsEndWithSnapshot
  <1>4. \A e \in SavedEvents(Judge(h), v, n) : e.version \in Nat /\ e.snapshot \in BOOLEAN
    BY <1>1, <1>3
  <1> QED
    BY <1>1, <1>2, <1>4 DEF Save, TypeOK

LEMMA TypeStep == TypeOK /\ [Next]_vars => TypeOK'
  <1> SUFFICES ASSUME TypeOK, [Next]_vars PROVE TypeOK'
    OBVIOUS
  <1> USE AggregateConstants
  <1>1. ASSUME NEW h \in Handler, NEW c \in Command, Receive(h, c) PROVE TypeOK'
    BY <1>1 DEF TypeOK, Receive, Goto, attempt, outbox, world
  <1>2. ASSUME NEW h \in Handler, Load(h) PROVE TypeOK'
    <2>1. CASE LoadNothing(h) \/ LoadSnapshot(h)
      BY <1>2, <2>1 DEF TypeOK, Load, LoadNothing, LoadSnapshot, LoadFromSnapshot, Goto,
                        request, attempt, outbox, world
    <2>2. CASE LoadFails(h)
      BY <1>2, <2>2, FinishType DEF TypeOK, Load, LoadFails, world
    <2> QED
      BY <1>2, <2>1, <2>2 DEF Load
  <1>3. ASSUME NEW h \in Handler,
               Reject(h) \/ NothingToDo(h) \/ RetryReachedLimit(h) \/ Reply(h)
                 \/ Withhold(h) \/ Abort(h)
        PROVE  TypeOK'
    <2>1. PICK outcome \in {"ok", "failed"} : Finish(h, outcome)
      BY <1>3 DEF Reject, NothingToDo, RetryReachedLimit, Reply, Withhold, Abort
    <2>2. UNCHANGED <<doc, world>>
      BY <1>3 DEF Reject, NothingToDo, RetryReachedLimit, Reply, Withhold, Abort
    <2> QED
      BY <2>1, <2>2, FinishType DEF TypeOK, world
  <1>4. ASSUME NEW h \in Handler, SaveOk(h) PROVE TypeOK'
    <2>1. PICK n \in 1 .. MaxEvents : SaveOk(h)!(n)
      BY <1>4 DEF SaveOk
    <2>2. NewVersion(h) + n - 1 \in Nat
      BY VersionType
    <2> HIDE DEF NewVersion
    <2> QED
      BY <2>1, <2>2, SaveType DEF TypeOK, ForgetAttempt, Goto, request, world
  <1>5. ASSUME NEW h \in Handler, SaveUnknown(h) PROVE TypeOK'
    <2>1. PICK n \in 1 .. MaxEvents : SaveUnknown(h)!(n)
      BY <1>5 DEF SaveUnknown
    <2> QED
      BY <2>1, SaveType, FinishType DEF TypeOK, world
  <1>6. ASSUME NEW h \in Handler, ConcurrencyException(h) PROVE TypeOK'
    BY <1>6 DEF TypeOK, ConcurrencyException, Goto, request, outbox, world
  <1>7. ASSUME NEW h \in Handler, Retry(h) PROVE TypeOK'
    BY <1>7 DEF TypeOK, Retry, Goto, attempt, outbox, world
  <1>8. ASSUME NEW h \in Handler, RemoveDocumentsUpToVersion(h) PROVE TypeOK'
    BY <1>8 DEF TypeOK, RemoveDocumentsUpToVersion, NoDoc, Goto, request, attempt, outbox, world
  <1>9. ASSUME NEW h \in Handler, RemoveEventsUpToVersion(h) PROVE TypeOK'
    BY <1>9 DEF TypeOK, RemoveEventsUpToVersion, Goto, request, attempt, outbox, world
  <1>10. ASSUME NEW h \in Handler, CleanUpFails(h) PROVE TypeOK'
    BY <1>10 DEF TypeOK, CleanUpFails, Goto, request, attempt, outbox, world
  <1>11. ASSUME NEW h \in Handler, PublishEvent(h) PROVE TypeOK'
    BY <1>11 DEF TypeOK, PublishEvent, request, attempt
  <1>12. CASE DeleteDevices
    BY <1>12 DEF TypeOK, DeleteDevices, NoDoc, request, attempt, outbox
  <1>13. CASE Tick
    <2>1. 0 .. now \subseteq 0 .. now'
      BY <1>13 DEF TypeOK, Tick
    <2> QED
      BY <1>13, <2>1 DEF TypeOK, Tick, request, attempt, outbox
  <1>14. CASE UNCHANGED vars
    BY <1>14 DEF TypeOK, vars, request, attempt, outbox, world
  <1>15. ASSUME NEW h \in Handler, HandleInMemory(h) PROVE TypeOK'
    BY <1>15 DEF TypeOK, HandleInMemory, Goto, request, outbox, world
  <1> QED
    BY <1>1, <1>2, <1>3, <1>4, <1>5, <1>6, <1>7, <1>8, <1>9, <1>10, <1>11, <1>12, <1>13, <1>14,
       <1>15
       DEF Next, Step, Mishap

(* Every request keeps to the protocol's types, in particular to at most    *)
(* MaxRetry retries after lost races (NewDefaultRetryFunc).                 *)
THEOREM TypeCorrect == Spec => []TypeOK
  <1>1. Init => TypeOK
    BY InitInv DEF IInv
  <1> QED
    BY <1>1, TypeStep, PTL DEF Spec
----------------------------------------------------------------------------
(* The outbox and the requests *)

LEMMA OutboxStep == TypeOK /\ OutboxInv /\ [Next]_vars => OutboxInv'
  <1> SUFFICES ASSUME TypeOK, OutboxInv, [Next]_vars PROVE OutboxInv'
    OBVIOUS
  <1>1. ASSUME NEW h \in Handler, SaveOk(h) PROVE OutboxInv'
    <2>1. PICK n \in 1 .. MaxEvents : SaveOk(h)!(n)
      BY <1>1 DEF SaveOk
    <2> DEFINE new == Numbered(Judge(h).events, NewVersion(h), n)
    <2>2. /\ log' = log \cup new
          /\ unpublished' = [unpublished EXCEPT ![h] = new]
          /\ bus' = bus
      BY <2>1 DEF Save, world
    <2> HIDE DEF new
    <2> QED
      BY <2>2 DEF OutboxInv, TypeOK
  <1>2. ASSUME NEW h \in Handler, SaveUnknown(h) PROVE OutboxInv'
    BY <1>2 DEF OutboxInv, TypeOK, SaveUnknown, Save, Finish, world
  <1>3. ASSUME NEW h \in Handler, PublishEvent(h) PROVE OutboxInv'
    BY <1>3 DEF OutboxInv, TypeOK, PublishEvent
  <1>4. ASSUME NEW h \in Handler,
               Reject(h) \/ NothingToDo(h) \/ RetryReachedLimit(h) \/ Reply(h)
                 \/ Withhold(h) \/ Abort(h) \/ (Load(h) /\ LoadFails(h))
        PROVE  OutboxInv'
    BY <1>4 DEF OutboxInv, TypeOK, Finish, world, Load, LoadFails,
                Reject, NothingToDo, RetryReachedLimit, Reply, Withhold, Abort
  <1>5. CASE UNCHANGED <<bus, log, unpublished>>
    BY <1>5 DEF OutboxInv
  <1> QED
    BY <1>1, <1>2, <1>3, <1>4, <1>5
       DEF Next, Step, Mishap, Receive, Load, LoadNothing, LoadSnapshot, HandleInMemory,
           ConcurrencyException, Retry,
           RemoveDocumentsUpToVersion, RemoveEventsUpToVersion, CleanUpFails,
           DeleteDevices, Tick, vars, outbox, world

LEMMA RequestStep == TypeOK /\ RequestInv /\ [Next]_vars => RequestInv'
  <1> SUFFICES ASSUME TypeOK, RequestInv, [Next]_vars PROVE RequestInv'
    OBVIOUS
  <1>1. ASSUME NEW h \in Handler, NEW c \in Command, Receive(h, c) PROVE RequestInv'
    BY <1>1 DEF RequestInv, TypeOK, Receive, Goto
  <1>2. ASSUME NEW h \in Handler,
               \/ Load(h) /\ (LoadNothing(h) \/ LoadSnapshot(h))
               \/ HandleInMemory(h) \/ ConcurrencyException(h) \/ Retry(h)
        PROVE  RequestInv'
    BY <1>2 DEF RequestInv, TypeOK, Load, LoadNothing, LoadSnapshot, HandleInMemory,
                ConcurrencyException, Yields, Retry, Goto, request
  <1>3. ASSUME NEW h \in Handler,
               SaveOk(h) \/ RemoveDocumentsUpToVersion(h)
                 \/ RemoveEventsUpToVersion(h) \/ CleanUpFails(h)
        PROVE  RequestInv'
    BY <1>3 DEF RequestInv, TypeOK, SaveOk, RemoveDocumentsUpToVersion,
                RemoveEventsUpToVersion, CleanUpFails, Goto, request
  <1>4. ASSUME NEW h \in Handler,
               Reject(h) \/ NothingToDo(h) \/ RetryReachedLimit(h) \/ Reply(h)
                 \/ Withhold(h) \/ Abort(h) \/ SaveUnknown(h) \/ LoadFails(h)
        PROVE  RequestInv'
    <2>1. PICK outcome \in {"ok", "failed"} : Finish(h, outcome)
      BY <1>4 DEF Reject, NothingToDo, RetryReachedLimit, Reply, Withhold, Abort, SaveUnknown,
                  LoadFails
    <2> QED
      BY <2>1 DEF RequestInv, TypeOK, Finish, Goto
  <1>5. CASE UNCHANGED <<pc, cmd>>
    BY <1>5 DEF RequestInv
  <1> QED
    BY <1>1, <1>2, <1>3, <1>4, <1>5
       DEF Next, Step, Mishap, Load, PublishEvent, DeleteDevices, Tick, vars, request

(* Every message on the bus was stored before, under the same version,      *)
(* whatever fails in between (HandleCommand, PublishEvents).                *)
THEOREM PublishedStored == Spec => []PublishedWereStored
  <1>1. Init => TypeOK /\ OutboxInv
    BY InitInv DEF IInv
  <1>2. TypeOK /\ OutboxInv /\ [Next]_vars => (TypeOK /\ OutboxInv)'
    BY TypeStep, OutboxStep
  <1>3. OutboxInv => PublishedWereStored
    BY DEF OutboxInv, PublishedWereStored
  <1> QED
    BY <1>1, <1>2, <1>3, PTL DEF Spec
----------------------------------------------------------------------------
(* The store *)

\* A save that passes the version check appends to the version the handler has
\* loaded, and the document ends with the snapshot of the state it judged.
LEMMA SaveAppends ==
  ASSUME TypeOK, DocInv, NEW h \in Handler, NEW n \in 1 .. MaxEvents,
         NoConcurrency(NewVersion(h)),
         Save(Judge(h), NewVersion(h), n)
  PROVE  /\ lastVersion[h] = doc.latestVersion
         /\ doc'.latestVersion = doc.latestVersion + n
         /\ doc'.latestVersion \in Nat
         /\ doc'.latestVersion > doc.latestVersion
         /\ DocInv'
         /\ \A e \in doc'.events :
              e.version = doc'.latestVersion => e.value = Judge(h).state
  <1> DEFINE v == NewVersion(h)
             last == [version |-> v + n - 1, snapshot |-> TRUE, value |-> Judge(h).state]
  <1>1. v \in Nat /\ n \in Nat \ {0} /\ v + n - 1 \in Nat
    BY VersionType
  <1>2. lastVersion[h] = doc.latestVersion /\ v = doc.latestVersion + 1
    BY DEF NoConcurrency, NewVersion, TypeOK
  <1>3. /\ last.version = v + n - 1
        /\ last.snapshot
        /\ last.value = Judge(h).state
    OBVIOUS
  <1>4. /\ doc'.latestVersion = v + n - 1
        /\ doc'.latestSnapshotVersion = v + n - 1
        /\ doc'.events = doc.events \cup SavedEvents(Judge(h), v, n)
    BY DEF Save
  <1>5. /\ last \in SavedEvents(Judge(h), v, n)
        /\ \A e \in SavedEvents(Judge(h), v, n) :
             e.version \in v .. v + n - 1 /\ (e.version = v + n - 1 => e = last)
    <2> HIDE DEF v
    <2> QED
      BY <1>1, SavedEventsEndWithSnapshot
  <1>6. \A e \in doc.events : e.version \in Nat /\ e.version < v
    BY <1>2 DEF DocInv, TypeOK
  <1> HIDE DEF v, last
  <1>7. \A e \in doc'.events :
          e.version \in Nat /\ e.version <= v + n - 1 /\ (e.version = v + n - 1 => e = last)
    BY <1>1, <1>4, <1>5, <1>6
  <1>8. last \in doc'.events
    BY <1>4, <1>5
  <1>9. doc'.latestVersion = doc.latestVersion + n /\ doc'.latestVersion > doc.latestVersion
    BY <1>1, <1>2, <1>4 DEF TypeOK
  <1>10. DocInv'
    BY <1>1, <1>3, <1>4, <1>7, <1>8 DEF DocInv
  <1> QED
    BY <1>1, <1>2, <1>3, <1>4, <1>7, <1>9, <1>10

\* The save of one handler invalidates the attempts of the others, and never
\* their clean-up.
LEMMA SaveKeepsOthers ==
  ASSUME TypeOK, AttemptInv, CleanUpInv, NEW g \in Handler,
         doc'.latestVersion \in Nat, doc'.latestVersion > doc.latestVersion,
         pc'[g] = pc[g], model'[g] = model[g], lastVersion'[g] = lastVersion[g],
         savedVersion'[g] = savedVersion[g]
  PROVE  AttemptInv!(g)' /\ CleanUpInv!(g)'
  BY DEF TypeOK, AttemptInv, CleanUpInv

\* A handler whose request is over promises nothing, and the others are as
\* before.
LEMMA FinishStore ==
  ASSUME TypeOK, AttemptInv, CleanUpInv, NEW h \in Handler,
         NEW outcome \in {"ok", "failed"}, Finish(h, outcome), doc' = doc
  PROVE  AttemptInv' /\ CleanUpInv'
  <1>1. ASSUME NEW g \in Handler PROVE AttemptInv!(g)' /\ CleanUpInv!(g)'
    BY <1>1 DEF TypeOK, AttemptInv, CleanUpInv, Finish, ForgetAttempt, Goto
  <1> QED
    BY <1>1 DEF AttemptInv, CleanUpInv

LEMMA StoreStep == IInv /\ [Next]_vars => StoreInv'
  <1> SUFFICES ASSUME IInv, [Next]_vars, deletes' = 0
               PROVE  (DocInv /\ AttemptInv /\ CleanUpInv)'
    BY DEF StoreInv
  <1> USE DEF IInv
  <1>0. deletes = 0 /\ ~DeleteDevices
    BY DEF TypeOK, Next, Step, Mishap, DeleteDevices, Tick, Receive, Load, HandleInMemory,
           Reject, NothingToDo,
           SaveOk, SaveUnknown, ConcurrencyException, Retry, RetryReachedLimit,
           RemoveDocumentsUpToVersion, RemoveEventsUpToVersion, CleanUpFails, PublishEvent,
           Reply, Withhold, Abort, vars, world
  <1>a. DocInv /\ AttemptInv /\ CleanUpInv
    BY <1>0 DEF StoreInv
  <1>1. ASSUME NEW h \in Handler, NEW c \in Command, Receive(h, c)
        PROVE  (DocInv /\ AttemptInv /\ CleanUpInv)'
    <2>1. DocInv'
      BY <1>a, <1>1 DEF DocInv, Receive
    <2>2. AttemptInv'
      BY <1>a, <1>1 DEF AttemptInv, TypeOK, Receive, Goto, attempt
    <2>3. CleanUpInv'
      BY <1>a, <1>1 DEF CleanUpInv, TypeOK, Receive, Goto, outbox
    <2> QED
      BY <2>1, <2>2, <2>3
  <1>2. ASSUME NEW h \in Handler, Load(h)
        PROVE  (DocInv /\ AttemptInv /\ CleanUpInv)'
    <2>1. DocInv'
      BY <1>a, <1>2 DEF DocInv, Load
    <2>2. CASE LoadNothing(h)
      <3>1. CleanUpInv'
        BY <1>a, <1>2, <2>2 DEF CleanUpInv, TypeOK, Load, LoadNothing, Goto, outbox
      <3>2. AttemptInv'
        BY <1>a, <1>2, <2>2 DEF AttemptInv, DocInv, TypeOK, Load, LoadNothing, Goto, attempt
      <3> QED
        BY <2>1, <3>1, <3>2
    <2>3. CASE LoadSnapshot(h)
      <3>1. PICK e \in LoadFromSnapshot :
              /\ model' = [model EXCEPT ![h] = e.value]
              /\ lastVersion' = [lastVersion EXCEPT ![h] = e.version]
        BY <2>3 DEF LoadSnapshot
      <3>2. /\ e \in doc.events
            /\ e.version \in Nat
            /\ doc.latestVersion >= 0
            /\ e.version = doc.latestVersion
        BY <3>1, <1>a DEF LoadFromSnapshot, DocInv, TypeOK
      <3>3. \A f \in doc.events : f.version = doc.latestVersion => f = e
        BY <3>2, <1>a DEF DocInv
      <3>4. AttemptInv'
        BY <1>a, <1>2, <2>3, <3>1, <3>2, <3>3 DEF AttemptInv, TypeOK, Load, LoadSnapshot, Goto
      <3>5. CleanUpInv'
        BY <1>a, <1>2, <2>3 DEF CleanUpInv, TypeOK, Load, LoadSnapshot, Goto, outbox
      <3> QED
        BY <2>1, <3>4, <3>5
    <2>4. CASE LoadFails(h)
      BY <1>a, <1>2, <2>1, <2>4, FinishStore DEF Load, LoadFails
    <2> QED
      BY <1>2, <2>2, <2>3, <2>4 DEF Load
  <1>3. ASSUME NEW h \in Handler,
               Reject(h) \/ NothingToDo(h) \/ RetryReachedLimit(h) \/ Reply(h)
                 \/ Withhold(h) \/ Abort(h)
        PROVE  (DocInv /\ AttemptInv /\ CleanUpInv)'
    <2>1. PICK outcome \in {"ok", "failed"} : Finish(h, outcome)
      BY <1>3 DEF Reject, NothingToDo, RetryReachedLimit, Reply, Withhold, Abort
    <2>2. doc' = doc
      BY <1>3 DEF Reject, NothingToDo, RetryReachedLimit, Reply, Withhold, Abort
    <2> QED
      BY <1>a, <2>1, <2>2, FinishStore DEF DocInv
  <1>4. ASSUME NEW h \in Handler, SaveOk(h)
        PROVE  (DocInv /\ AttemptInv /\ CleanUpInv)'
    <2>1. PICK n \in 1 .. MaxEvents : SaveOk(h)!(n)
      BY <1>4 DEF SaveOk
    <2>2. /\ doc'.latestVersion > doc.latestVersion
          /\ doc'.latestVersion \in Nat
          /\ DocInv'
      BY <1>a, <2>1, SaveAppends
    <2>3. ASSUME NEW g \in Handler PROVE AttemptInv!(g)' /\ CleanUpInv!(g)'
      <3>1. CASE g = h
        <4>1. pc'[h] = "removeDocuments"
          BY <2>1 DEF Goto, TypeOK
        <4>2. savedVersion'[h] = doc'.latestVersion
          BY <2>1 DEF Save, TypeOK
        <4> QED
          BY <2>2, <3>1, <4>1, <4>2
      <3>2. CASE g # h
        BY <1>a, <2>1, <2>2, <3>2, SaveKeepsOthers DEF ForgetAttempt, Goto, TypeOK
      <3> QED
        BY <3>1, <3>2
    <2> QED
      BY <2>2, <2>3 DEF AttemptInv, CleanUpInv
  <1>5. ASSUME NEW h \in Handler, SaveUnknown(h)
        PROVE  (DocInv /\ AttemptInv /\ CleanUpInv)'
    <2>1. PICK n \in 1 .. MaxEvents : SaveUnknown(h)!(n)
      BY <1>5 DEF SaveUnknown
    <2>2. /\ doc'.latestVersion > doc.latestVersion
          /\ doc'.latestVersion \in Nat
          /\ DocInv'
      BY <1>a, <2>1, SaveAppends
    <2>3. ASSUME NEW g \in Handler PROVE AttemptInv!(g)' /\ CleanUpInv!(g)'
      <3>1. CASE g = h
        BY <2>1, <3>1 DEF Finish, Goto, TypeOK
      <3>2. CASE g # h
        BY <1>a, <2>1, <2>2, <3>2, SaveKeepsOthers DEF Finish, ForgetAttempt, Goto, TypeOK
      <3> QED
        BY <3>1, <3>2
    <2> QED
      BY <2>2, <2>3 DEF AttemptInv, CleanUpInv
  <1>6. ASSUME NEW h \in Handler, ConcurrencyException(h)
        PROVE  (DocInv /\ AttemptInv /\ CleanUpInv)'
    <2>1. pc[h] = "handle" /\ ~NoConcurrency(NewVersion(h))
      BY <1>6 DEF ConcurrencyException, Yields
    <2>2. lastVersion[h] <= doc.latestVersion /\ lastVersion[h] # doc.latestVersion
      BY <1>a, <2>1 DEF AttemptInv, NoConcurrency, NewVersion, TypeOK
    <2>3. doc.latestVersion >= 0
      BY <2>2 DEF TypeOK
    <2>4. DocInv'
      BY <1>a, <1>6 DEF DocInv, ConcurrencyException
    <2>5. AttemptInv'
      BY <1>a, <1>6, <2>3 DEF AttemptInv, TypeOK, ConcurrencyException, Goto
    <2>6. CleanUpInv'
      BY <1>a, <1>6 DEF CleanUpInv, TypeOK, ConcurrencyException, Goto, outbox
    <2> QED
      BY <2>4, <2>5, <2>6
  <1>7. ASSUME NEW h \in Handler, Retry(h)
        PROVE  (DocInv /\ AttemptInv /\ CleanUpInv)'
    <2>1. DocInv'
      BY <1>a, <1>7 DEF DocInv, Retry
    <2>2. AttemptInv'
      BY <1>a, <1>7 DEF AttemptInv, TypeOK, Retry, Goto, attempt
    <2>3. CleanUpInv'
      BY <1>a, <1>7 DEF CleanUpInv, TypeOK, Retry, Goto, outbox
    <2> QED
      BY <2>1, <2>2, <2>3
  <1>8. ASSUME NEW h \in Handler, RemoveDocumentsUpToVersion(h)
        PROVE  (DocInv /\ AttemptInv /\ CleanUpInv)'
    <2>1. doc' = doc
      BY <1>a, <1>8 DEF CleanUpInv, TypeOK, RemoveDocumentsUpToVersion
    <2>2. DocInv'
      BY <1>a, <2>1 DEF DocInv
    <2>3. AttemptInv'
      BY <1>a, <1>8, <2>1 DEF AttemptInv, TypeOK, RemoveDocumentsUpToVersion, Goto, attempt
    <2>4. CleanUpInv'
      BY <1>a, <1>8, <2>1 DEF CleanUpInv, TypeOK, RemoveDocumentsUpToVersion, Goto, outbox
    <2> QED
      BY <2>2, <2>3, <2>4
  <1>9. ASSUME NEW h \in Handler, RemoveEventsUpToVersion(h)
        PROVE  (DocInv /\ AttemptInv /\ CleanUpInv)'
    <2>1. savedVersion[h] <= doc.latestVersion
      BY <1>a, <1>9 DEF CleanUpInv, RemoveEventsUpToVersion
    <2>2. /\ doc'.latestVersion = doc.latestVersion
          /\ doc'.latestSnapshotVersion = doc.latestSnapshotVersion
          /\ doc'.events \subseteq doc.events
          /\ \A e \in doc.events : e.version >= doc.latestVersion => e \in doc'.events
      BY <1>9, <2>1 DEF RemoveEventsUpToVersion, TypeOK
    <2>3. DocInv'
      BY <1>a, <2>2 DEF DocInv, TypeOK
    <2>4. AttemptInv'
      BY <1>a, <1>9, <2>2 DEF AttemptInv, TypeOK, RemoveEventsUpToVersion, Goto, attempt
    <2>5. CleanUpInv'
      BY <1>a, <1>9, <2>2 DEF CleanUpInv, TypeOK, RemoveEventsUpToVersion, Goto, outbox
    <2> QED
      BY <2>3, <2>4, <2>5
  <1>10. ASSUME NEW h \in Handler, CleanUpFails(h)
         PROVE  (DocInv /\ AttemptInv /\ CleanUpInv)'
    <2>1. DocInv'
      BY <1>a, <1>10 DEF DocInv, CleanUpFails
    <2>2. AttemptInv'
      BY <1>a, <1>10 DEF AttemptInv, TypeOK, CleanUpFails, Goto, attempt
    <2>3. CleanUpInv'
      BY <1>a, <1>10 DEF CleanUpInv, TypeOK, CleanUpFails, Goto, outbox
    <2> QED
      BY <2>1, <2>2, <2>3
  <1>11. ASSUME UNCHANGED <<doc, pc, attempt, savedVersion>>
         PROVE  (DocInv /\ AttemptInv /\ CleanUpInv)'
    BY <1>a, <1>11 DEF DocInv, AttemptInv, CleanUpInv, attempt
  <1>12. (\E h \in Handler : PublishEvent(h)) \/ Tick \/ UNCHANGED vars
           => UNCHANGED <<doc, pc, attempt, savedVersion>>
    BY DEF PublishEvent, Tick, vars, outbox
  <1>13. ASSUME NEW h \in Handler, HandleInMemory(h)
         PROVE  (DocInv /\ AttemptInv /\ CleanUpInv)'
    <2>1. DocInv'
      BY <1>a, <1>13 DEF DocInv, HandleInMemory
    <2>2. AttemptInv'
      BY <1>a, <1>13 DEF AttemptInv, TypeOK, HandleInMemory, Goto
    <2>3. CleanUpInv'
      BY <1>a, <1>13 DEF CleanUpInv, TypeOK, HandleInMemory, Goto, outbox
    <2> QED
      BY <2>1, <2>2, <2>3
  <1> QED
    BY <1>0, <1>1, <1>2, <1>3, <1>4, <1>5, <1>6, <1>7, <1>8, <1>9, <1>10, <1>11, <1>12, <1>13
       DEF Next, Step, Mishap

LEMMA Invariance == Spec => []IInv
  <1>1. IInv /\ [Next]_vars => IInv'
    BY TypeStep, StoreStep, OutboxStep, RequestStep DEF IInv
  <1> QED
    BY <1>1, InitInv, PTL DEF Spec

(* The clean-up never removes the snapshot the aggregate is loaded from, as *)
(* long as the device is not deleted under a running handler                *)
(* (cleanUpToSnapshot, RemoveUpToVersion).                                  *)
THEOREM SnapshotKeptUntilDeleted == Spec => []LoadableUntilDeleted
  <1>1. IInv => LoadableUntilDeleted
    BY DEF IInv, StoreInv, DocInv, LoadableUntilDeleted, Loadable
  <1> QED
    BY <1>1, Invariance, PTL
----------------------------------------------------------------------------
(* Refinement *)

\* Whoever reads the last event of the document reads the stored state.
LEMMA StoredStateIs ==
  ASSUME DocInv, doc.latestVersion \in Nat, NEW e \in doc.events, e.version = doc.latestVersion
  PROVE  StoredState = e.value
  <1> DEFINE P(f) == f \in doc.events /\ f.version = doc.latestVersion
  <1>1. P(e)
    OBVIOUS
  <1>2. \A f : P(f) => f = e
    BY DEF DocInv
  <1>3. (CHOOSE f \in doc.events : f.version = doc.latestVersion) = e
    BY <1>1, <1>2
  <1>4. doc.latestVersion # -1
    OBVIOUS
  <1>5. StoredState = (CHOOSE f \in doc.events : f.version = doc.latestVersion).value
    BY <1>4, Zenon DEF StoredState
  <1> QED
    BY <1>3, <1>5, Zenon

\* The same in the state a step leads to.
LEMMA StoredStateBecomes ==
  ASSUME DocInv', doc'.latestVersion \in Nat, NEW e \in doc'.events,
         e.version = doc'.latestVersion
  PROVE  StoredState' = e.value
  <1> DEFINE P(f) == f \in doc'.events /\ f.version = doc'.latestVersion
  <1>1. P(e)
    OBVIOUS
  <1>2. \A f : P(f) => f = e
    BY DEF DocInv
  <1>3. (CHOOSE f \in doc'.events : f.version = doc'.latestVersion) = e
    BY <1>1, <1>2
  <1>4. doc'.latestVersion # -1
    OBVIOUS
  <1>5. StoredState' = (CHOOSE f \in doc'.events : f.version = doc'.latestVersion).value
    BY <1>4, Zenon DEF StoredState
  <1> QED
    BY <1>3, <1>5, Zenon

\* A handler that passes the version check has judged its command on the
\* stored state: its save is the abstract execution of the command.
LEMMA SaveExecutes ==
  ASSUME IInv, deletes = 0, NEW h \in Handler, NEW n \in 1 .. MaxEvents,
         Yields(h, n), NoConcurrency(NewVersion(h)), Save(Judge(h), NewVersion(h), n),
         UNCHANGED world
  PROVE  Linear!Execute(cmd[h])
  <1>1. TypeOK /\ DocInv /\ AttemptInv
    BY DEF IInv, StoreInv
  <1>2. /\ lastVersion[h] = doc.latestVersion
        /\ doc'.latestVersion = doc.latestVersion + n
        /\ doc'.latestVersion \in Nat
        /\ DocInv'
        /\ \A e \in doc'.events : e.version = doc'.latestVersion => e.value = Judge(h).state
    BY <1>1, SaveAppends
  <1>3. model[h] = StoredState
    <2>1. CASE doc.latestVersion = -1
      BY <1>1, <1>2, <2>1 DEF AttemptInv, Yields, StoredState
    <2>2. CASE doc.latestVersion # -1
      <3>1. doc.latestVersion \in Nat
        BY <1>1, <2>2 DEF TypeOK
      <3>2. PICK e \in doc.events : e.version = doc.latestVersion
        BY <1>1, <3>1 DEF DocInv
      <3>3. model[h] = e.value
        BY <1>1, <1>2, <3>2 DEF AttemptInv, Yields
      <3> QED
        BY <1>1, <3>1, <3>2, <3>3, StoredStateIs
    <2> QED
      BY <2>1, <2>2
  <1>4. Judge(h) = HandleCommand(StoredState, cmd[h], judgedAt[h])
    BY <1>3 DEF Judge
  <1>t. judgedAt[h] \in 0 .. now
    BY <1>1 DEF TypeOK
  <1>5. StoredState' = Judge(h).state
    <2>1. PICK e \in doc'.events : e.version = doc'.latestVersion
      BY <1>2 DEF DocInv
    <2> QED
      BY <1>2, <2>1, StoredStateBecomes
  <1>6. NewVersion(h) = doc.latestVersion + 1
    BY <1>2 DEF NewVersion
  <1>7. log' = log \cup Linear!Numbered(Judge(h).events, doc.latestVersion + 1, n)
    BY <1>6 DEF Save, Numbered, Linear!Numbered
  <1>8. Judge(h).ok /\ n = Len(Judge(h).events)
    BY DEF Yields
  <1>9. UNCHANGED <<now, deletes>>
    BY DEF world
  <1> HIDE DEF StoredState, Judge
  <1> QED
    BY <1>2, <1>4, <1>t, <1>5, <1>7, <1>8, <1>9 DEF Linear!Execute

\* A clean-up keeps the stored state.
LEMMA RemoveKeepsState ==
  ASSUME IInv, deletes = 0, NEW h \in Handler,
         RemoveDocumentsUpToVersion(h) \/ RemoveEventsUpToVersion(h), DocInv'
  PROVE  doc'.latestVersion = doc.latestVersion /\ StoredState' = StoredState
  <1>1. TypeOK /\ DocInv /\ CleanUpInv
    BY DEF IInv, StoreInv
  <1>2. savedVersion[h] <= doc.latestVersion
    BY <1>1 DEF CleanUpInv, RemoveDocumentsUpToVersion, RemoveEventsUpToVersion
  <1>3. CASE RemoveDocumentsUpToVersion(h)
    <2>1. doc' = doc
      BY <1>1, <1>2, <1>3 DEF RemoveDocumentsUpToVersion, TypeOK
    <2> QED
      BY <2>1 DEF StoredState
  <1>4. CASE RemoveEventsUpToVersion(h)
    <2>1. doc.latestVersion \in Nat
      BY <1>1, <1>2 DEF TypeOK
    <2>2. /\ doc'.latestVersion = doc.latestVersion
          /\ \A e \in doc.events : e.version >= doc.latestVersion => e \in doc'.events
      BY <1>1, <1>2, <1>4 DEF RemoveEventsUpToVersion, TypeOK
    <2>3. PICK e \in doc.events : e.version = doc.latestVersion
      BY <1>1, <2>1 DEF DocInv
    <2>4. e \in doc'.events /\ e.version = doc'.latestVersion
      BY <2>1, <2>2, <2>3
    <2>5. StoredState = e.value
      BY <1>1, <2>1, <2>3, StoredStateIs
    <2>6. StoredState' = e.value
      BY <2>1, <2>2, <2>4, StoredStateBecomes
    <2> QED
      BY <2>2, <2>5, <2>6
  <1> QED
    BY <1>3, <1>4

LEMMA LinearStep == IInv /\ IInv' /\ [Next]_vars => [Linear!Next]_(Linear!vars)
  <1> SUFFICES ASSUME IInv, IInv', [Next]_vars
               PROVE  Linear!Next \/ UNCHANGED Linear!vars
    BY DEF Linear!vars
  <1>1. CASE deletes' # 0
    <2>1. deletes' \in Nat
      BY AggregateConstants DEF IInv, TypeOK
    <2> QED
      BY <1>1, <2>1 DEF Linear!Next, Linear!Deleted
  <1>2. CASE deletes' = 0
    <2>0. deletes = 0 /\ ~DeleteDevices
      BY <1>2 DEF IInv, TypeOK, Next, Step, Mishap, DeleteDevices, Tick, Receive, Load,
             HandleInMemory, Reject, NothingToDo, SaveOk, SaveUnknown, ConcurrencyException, Retry, RetryReachedLimit,
             RemoveDocumentsUpToVersion, RemoveEventsUpToVersion, CleanUpFails, PublishEvent,
             Reply, Withhold, Abort, vars, world
    <2>1. ASSUME NEW h \in Handler, SaveOk(h) \/ SaveUnknown(h) PROVE Linear!Next
      <3>1. PICK n \in 1 .. MaxEvents :
              /\ Yields(h, n)
              /\ NoConcurrency(NewVersion(h))
              /\ Save(Judge(h), NewVersion(h), n)
              /\ UNCHANGED world
        BY <2>1 DEF SaveOk, SaveUnknown
      <3>2. Linear!Execute(cmd[h])
        BY <2>0, <3>1, SaveExecutes
      <3>3. cmd[h] \in Command
        BY <3>1 DEF Yields, IInv, RequestInv
      <3> QED
        BY <3>2, <3>3 DEF Linear!Next
    <2>2. CASE Tick
      <3>1. StoredState' = StoredState
        BY <2>2 DEF Tick, StoredState
      <3> QED
        BY <2>2, <3>1 DEF Linear!Next, Linear!Tick, Tick
    <2>3. ASSUME NEW h \in Handler,
                 RemoveDocumentsUpToVersion(h) \/ RemoveEventsUpToVersion(h)
          PROVE  UNCHANGED Linear!vars
      <3>1. DocInv'
        BY <1>2 DEF IInv, StoreInv
      <3>2. UNCHANGED <<log, now, deletes>>
        BY <2>3 DEF RemoveDocumentsUpToVersion, RemoveEventsUpToVersion, world
      <3> QED
        BY <2>0, <2>3, <3>1, <3>2, RemoveKeepsState DEF Linear!vars
    <2>4. CASE UNCHANGED <<doc, log, now, deletes>>
      BY <2>4 DEF Linear!vars, StoredState
    <2> QED
      BY <2>0, <2>1, <2>2, <2>3, <2>4
         DEF Next, Step, Mishap, Receive, Load, HandleInMemory, Reject, NothingToDo,
             ConcurrencyException,
             Retry, RetryReachedLimit, CleanUpFails, PublishEvent, Reply, Withhold, Abort,
             vars, world
  <1> QED
    BY <1>1, <1>2

(* The concurrent command handling implements the sequential aggregate: the *)
(* store goes through the states of a single handler that executes commands *)
(* one by one, until the device is deleted (Save's version check with the   *)
(* retry loop of HandleCommand).                                            *)
THEOREM Refinement == Spec => Linearizable
  <1>1. Init => Linear!Init
    BY DEF Init, NoDoc, Linear!Init, StoredState
  <1> QED
    BY <1>1, LinearStep, Invariance, PTL DEF Spec, Linearizable, Linear!Spec
=============================================================================
