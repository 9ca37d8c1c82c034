------------------------- MODULE DeviceMetadataState -------------------------
(***************************************************************************)
(* The rules of a device's status: events.DeviceMetadataSnapshotTaken of    *)
(* the resource-aggregate service.  A state is what the snapshot event      *)
(* holds: the connection of the device, its twin (the copy of the device's  *)
(* resources kept in the hub) and the changes of the twin's settings that   *)
(* the device's gateway has not confirmed yet.                              *)
(*                                                                          *)
(* Data are abstracted: protocol, local endpoints, owner and trace fields   *)
(* are left out.  Times are small numbers, 0 is the unset time.             *)
(***************************************************************************)
EXTENDS Integers, Sequences

None == "none"

\* TwinSynchronization is a pointer in the code; set tells whether it is nil,
\* conn and seq are its CommandMetadata.
NoTwin == [set |-> FALSE, state |-> "OUT_OF_SYNC", conn |-> None, seq |-> 0,
           syncingAt |-> 0, inSyncAt |-> 0, forceAt |-> 0]

\* exists: has an event been stored (is the version of the next one not 0)?
\* updated: DeviceMetadataUpdated without the twin; seq: of the EventMetadata.
NewDeviceMetadataSnapshotTaken ==
  [exists |-> FALSE,
   updated |-> [online |-> FALSE, id |-> None, svc |-> None, at |-> 0, twinEnabled |-> TRUE,
                canceled |-> FALSE, user |-> None, corr |-> None],
   twin |-> NoTwin,
   seq |-> 0,
   pendings |-> << >>]

----------------------------------------------------------------------------
(* Commands *)

Connect(conn, seq, svc, at) ==
  [type |-> "connection", online |-> TRUE, conn |-> conn, seq |-> seq, svc |-> svc, at |-> at]
Disconnect(conn, seq) ==
  [type |-> "connection", online |-> FALSE, conn |-> conn, seq |-> seq, svc |-> None, at |-> 0]
Synchronization(conn, seq, state, at) ==
  [type |-> "synchronization", conn |-> conn, seq |-> seq, state |-> state, at |-> at]
\* what: "enable", "disable" or "force" the synchronization of the twin
ChangeTwin(what, id, ttl) == [type |-> "change", what |-> what, id |-> id, ttl |-> ttl]
ConfirmTwin(what, id, conn, seq) ==
  [type |-> "confirm", what |-> what, id |-> id, conn |-> conn, seq |-> seq]
CancelUpdates(filter) == [type |-> "cancel", filter |-> filter]
\* The service the device was connected to has expired.
UpdateDeviceToOffline(svc) == [type |-> "expired", svc |-> svc]

DeviceAccepted(events, state) == [ok |-> TRUE, events |-> events, state |-> state]
DeviceRejected(state) == [ok |-> FALSE, events |-> << >>, state |-> state]

----------------------------------------------------------------------------
(* Events *)

UpdateExpired(p, now) == p.validUntil # 0 /\ now > p.validUntil

Ids(pendings) == {pendings[i].id : i \in DOMAIN pendings}

FirstWith(id, pendings) ==
  CHOOSE i \in DOMAIN pendings :
    pendings[i].id = id /\ \A j \in 1 .. i - 1 : pendings[j].id # id

\* Mutant: the first update goes instead of the confirmed one.
DropFirst(pendings, id) == IF id \notin Ids(pendings) THEN pendings ELSE Tail(pendings)

DropUpdate(pendings, id) ==
  IF id \notin Ids(pendings) THEN pendings
  ELSE SubSeq(pendings, 1, FirstWith(id, pendings) - 1)
         \o SubSeq(pendings, FirstWith(id, pendings) + 1, Len(pendings))

\* Mutant: the correlation id does not count either.
EqualWithoutId(u, v) == [u EXCEPT !.svc = v.svc, !.at = v.at, !.corr = v.corr] = v

\* DeviceMetadataUpdated.Equal.  Neither the service nor the time of the
\* connection counts, of the twin neither the sequence number.
EqualUpdated(u, v) == [u EXCEPT !.svc = v.svc, !.at = v.at] = v

EqualTwin(s, t) == [s EXCEPT !.seq = t.seq, !.set = t.set] = t

UpdatedEvent(u, twin) == [type |-> "updated", updated |-> u, twin |-> twin]

\* HandleDeviceMetadataUpdated of the event (u, twin).  inPlace: the caller
\* built the event from the model's own TwinSynchronization and has changed it
\* already, so Equal compares that object with itself.
HandleDeviceMetadataUpdated(state, u, twin, seq, confirm, inPlace) ==
  LET rest == DropUpdate(state.pendings, u.corr)
      same == EqualUpdated(state.updated, u) /\ (inPlace \/ EqualTwin(state.twin, twin))
  IN CASE confirm /\ u.corr \notin Ids(state.pendings) -> DeviceRejected(state)
       [] (confirm => u.corr \in Ids(state.pendings)) /\ same ->
            DeviceAccepted(<< >>, [state EXCEPT !.pendings = rest])
       [] OTHER ->
            DeviceAccepted(<<UpdatedEvent(u, twin)>>,
                           [exists |-> TRUE, updated |-> u, twin |-> twin, seq |-> seq,
                            pendings |-> rest])

NoLiveUpdate(state, id, now) ==
  \A i \in DOMAIN state.pendings :
    UpdateExpired(state.pendings[i], now) \/ state.pendings[i].id # id

HandleDeviceMetadataUpdatePending(state, p, seq, now) ==
  IF NoLiveUpdate(state, p.id, now)
  THEN DeviceAccepted(<<[type |-> "pending", id |-> p.id]>>,
                      [state EXCEPT !.exists = TRUE, !.seq = seq, !.pendings = Append(@, p)])
  ELSE DeviceRejected(state)

----------------------------------------------------------------------------
(* The connection *)

\* Mutant: a new connection of an online device is taken for the old one.
TwinKeptWhileOnline(state, cmd) ==
  IF cmd.online /\ state.updated.online
  THEN [state.twin EXCEPT !.set = TRUE]
  ELSE [state.twin EXCEPT !.set = TRUE, !.conn = cmd.conn, !.seq = cmd.seq,
                          !.state = IF state.updated.twinEnabled THEN "OUT_OF_SYNC" ELSE "DISABLED"]

\* getTwinSynchronizationForConnectedDevice, ...ForDisconnectedDevice: a new
\* connection, or the end of one, puts the twin out of sync.
TwinAfter(state, cmd) ==
  IF cmd.online /\ cmd.conn = state.updated.id /\ state.updated.online
  THEN [state.twin EXCEPT !.set = TRUE]
  ELSE [state.twin EXCEPT !.set = TRUE, !.conn = cmd.conn, !.seq = cmd.seq,
                          !.state = IF state.updated.twinEnabled THEN "OUT_OF_SYNC" ELSE "DISABLED"]

\* Mutant: any connection may report the device offline.
AnyMayDisconnect(state, cmd) == cmd.conn # None /\ (cmd.online \/ state.exists)

\* A connection has an id; only the one that is online may report its end, and
\* only of a device that has been seen.
MayChangeConnection(state, cmd) ==
  /\ cmd.conn # None
  /\ cmd.online \/ (state.exists /\ (state.updated.online => cmd.conn = state.updated.id))

LaterOf(a, b) == IF a < b THEN b ELSE a

\* Mutant: the connection is stored as the service.
ServiceIsConnection(state, cmd) == IF cmd.online THEN cmd.conn ELSE None

\* Mutant: an offline device keeps its service.
ServiceKept(state, cmd) == IF cmd.online THEN cmd.svc ELSE state.updated.svc

\* The service id of an offline device is set to empty.
ServiceAfter(state, cmd) == IF cmd.online THEN cmd.svc ELSE None

updateDeviceConnection(state, cmd, user) ==
  IF MayChangeConnection(state, cmd)
  THEN HandleDeviceMetadataUpdated(
         state,
         [state.updated EXCEPT !.online = cmd.online, !.id = cmd.conn, !.svc = ServiceAfter(state, cmd),
                               !.at = LaterOf(@, cmd.at), !.canceled = FALSE,
                               !.user = user, !.corr = None],
         TwinAfter(state, cmd), cmd.seq, FALSE, state.twin.set)
  ELSE DeviceRejected(state)

\* The request of an expired service.  It ends the connection in the device's
\* stead, unless the device has moved on to another service.
updateToOfflineRequest(state, cmd) ==
  IF state.updated.svc # cmd.svc
  THEN DeviceAccepted(<< >>, state)
  ELSE updateDeviceConnection(state, Disconnect(state.updated.id, state.seq + 1), "service")

----------------------------------------------------------------------------
(* The twin *)

\* prepareTwinSynchronizationToSyncing, ...ToInSync: is the report newer than
\* what the twin knows of this synchronization?  Of DISABLED nobody asks.
NewsToTwin(twin, cmd) ==
  \/ cmd.state = "SYNCING" /\ ~(twin.state = "SYNCING" /\ cmd.at > twin.syncingAt)
  \/ /\ cmd.state = "IN_SYNC"
     /\ ~(twin.state = "IN_SYNC" /\ cmd.at < twin.inSyncAt)
     /\ ~(twin.state = "SYNCING" /\ cmd.at < twin.syncingAt)
  \/ cmd.state = "DISABLED"

\* Is the report one of the connection the twin belongs to?
OfTwinConnection(state, cmd) ==
  cmd.conn # None /\ cmd.conn = state.twin.conn /\ state.exists

\* Otherwise the report is an error.
MayReport(state, cmd) ==
  /\ cmd.state # "OUT_OF_SYNC"
  /\ cmd.state \in {"SYNCING", "IN_SYNC"} => state.updated.twinEnabled /\ cmd.at > 0

\* Mutant: reports are taken in the order they arrive.
SequenceIgnored(state, cmd) == FALSE

OutOfSequence(state, cmd) == cmd.seq <= state.twin.seq

\* The times of the twin after a report: it brings its own, and keeps the other
\* one of the twin.  A report of DISABLED brings none and keeps none.
ReportedAt(cmd, own, kept) ==
  CASE cmd.state = own -> cmd.at
    [] cmd.state # own /\ cmd.state # "DISABLED" -> kept
    [] cmd.state # own /\ cmd.state = "DISABLED" -> 0

\* An old report is no error, whatever it says.
updateDeviceTwinSynchronization(state, cmd) ==
  LET reported == [state.twin EXCEPT
                     !.state = cmd.state, !.seq = cmd.seq, !.forceAt = 0,
                     !.syncingAt = ReportedAt(cmd, "SYNCING", state.twin.syncingAt),
                     !.inSyncAt = ReportedAt(cmd, "IN_SYNC", state.twin.inSyncAt)]
      u == [state.updated EXCEPT !.canceled = FALSE, !.user = "device", !.corr = None]
  IN CASE OfTwinConnection(state, cmd) /\ OutOfSequence(state, cmd) ->
            DeviceAccepted(<< >>, state)
       [] OfTwinConnection(state, cmd) /\ ~OutOfSequence(state, cmd) /\ MayReport(state, cmd) ->
            IF NewsToTwin(state.twin, cmd)
            THEN HandleDeviceMetadataUpdated(state, u, reported, cmd.seq, FALSE, FALSE)
            ELSE DeviceAccepted(<< >>, state)
       [] OTHER -> DeviceRejected(state)

\* updateDeviceTwinEnabled, updateDeviceTwinForceSynchronization
updateDeviceTwin(state, cmd, now) ==
  IF state.exists
  THEN HandleDeviceMetadataUpdatePending(
         state,
         [id |-> cmd.id, validUntil |-> IF cmd.ttl = 0 THEN 0 ELSE now + cmd.ttl], 0, now)
  ELSE DeviceRejected(state)

\* updateTwinEnabled, updateTwinForceSynchronization: the gateway has done what
\* the update asked for.
confirmDeviceMetadataUpdate(state, cmd, now) ==
  LET twin == IF state.twin.set THEN state.twin
              ELSE [NoTwin EXCEPT !.set = TRUE, !.conn = cmd.conn, !.seq = cmd.seq]
      state1 == CASE cmd.what = "force" -> "OUT_OF_SYNC"
                  [] cmd.what # "force" /\ cmd.conn # state.twin.conn -> twin.state
                  [] cmd.what = "enable" /\ cmd.conn = state.twin.conn ->
                       IF twin.state = "DISABLED" THEN "OUT_OF_SYNC" ELSE twin.state
                  [] cmd.what = "disable" /\ cmd.conn = state.twin.conn -> "DISABLED"
      forceAt1 == IF cmd.what = "force" THEN now ELSE twin.forceAt
      u == [state.updated EXCEPT !.twinEnabled = (cmd.what # "disable"),
                                 !.canceled = FALSE, !.user = "device", !.corr = cmd.id]
  IN HandleDeviceMetadataUpdated(
       state, u, [twin EXCEPT !.state = state1, !.forceAt = forceAt1],
       cmd.seq, TRUE, state.twin.set)

----------------------------------------------------------------------------
(* Cancelling updates.  `range` fixes array and length of the list; each     *)
(* cancellation shifts the same array under the running loop.               *)

ShiftLeft(array, i, n) ==
  [j \in DOMAIN array |-> IF i <= j /\ j < n THEN array[j + 1] ELSE array[j]]

CanceledUpdate(state, id) ==
  [state.updated EXCEPT !.canceled = TRUE, !.user = "client", !.corr = id]

\* Cancels the update the i-th cell of the array names now, if it is live.
cancelUpdate(before, i, filter) ==
  LET live == before.state.pendings
      id == before.array[i].id
      r == HandleDeviceMetadataUpdated(
             before.state, CanceledUpdate(before.state, id), before.state.twin, 0, TRUE, TRUE)
  IN IF (filter = {} \/ id \in filter) /\ r.ok
     THEN [array |-> ShiftLeft(before.array, FirstWith(id, live), Len(live)),
           state |-> r.state, events |-> before.events \o r.events]
     ELSE before

CancelPendingMetadataUpdatesRequest(state, cmd) ==
  LET list == state.pendings
      loop[i \in 0 .. Len(list)] ==
        IF i = 0 THEN [array |-> list, state |-> state, events |-> << >>]
        ELSE cancelUpdate(loop[i - 1], i, cmd.filter)
      done == loop[Len(list)]
  IN IF done.events = << >> THEN DeviceRejected(state)
     ELSE DeviceAccepted(done.events, done.state)

DeviceHandleCommand(state, cmd, now) ==
  CASE cmd.type = "connection" -> updateDeviceConnection(state, cmd, "device")
    [] cmd.type = "expired" -> updateToOfflineRequest(state, cmd)
    [] cmd.type = "synchronization" -> updateDeviceTwinSynchronization(state, cmd)
    [] cmd.type = "change" -> updateDeviceTwin(state, cmd, now)
    [] cmd.type = "confirm" -> confirmDeviceMetadataUpdate(state, cmd, now)
    [] cmd.type = "cancel" -> CancelPendingMetadataUpdatesRequest(state, cmd)
=============================================================================
