--------------------------- MODULE DeviceMetadata ---------------------------
(***************************************************************************)
(* The status of one device under arbitrary sequences of commands:          *)
(* LinearAggregate with the rules of DeviceMetadataState, and what those    *)
(* rules guarantee about the connection, the twin and pending updates.      *)
(***************************************************************************)
EXTENDS DeviceMetadataState, FiniteSets

CONSTANTS Command,    \* the commands gateways, clients and the hub may send
          MaxEvents,  \* the most events one command can produce
          MaxTime,    \* the clock stops here
          MaxVersion  \* commands stop once a version would exceed this

\* What the gRPC requests can hold.
ASSUME DeviceConstants ==
  /\ MaxEvents \in Nat /\ MaxTime \in Nat /\ MaxVersion \in Nat
  /\ \A c \in Command :
       \/ c.type = "connection" /\ c.online \in BOOLEAN /\ c.seq \in Nat /\ c.at \in Nat
       \/ /\ c.type = "synchronization" /\ c.seq \in Nat /\ c.at \in Nat
          /\ c.state \in {"OUT_OF_SYNC", "SYNCING", "IN_SYNC", "DISABLED"}
       \/ c.type = "change" /\ c.ttl \in Nat
       \/ c.type = "confirm" /\ c.what \in {"enable", "disable", "force"} /\ c.seq \in Nat
       \/ c.type \in {"cancel", "expired"}

VARIABLES version, state, log, now, deletes

INSTANCE LinearAggregate
  WITH InitialState <- NewDeviceMetadataSnapshotTaken, HandleCommand <- DeviceHandleCommand

DeviceNext ==
  \/ Tick
  \/ /\ version < MaxVersion
     /\ \E c \in Command : Execute(c) /\ version' <= MaxVersion

DeviceSpec == Init /\ [][DeviceNext]_vars

Of(type) == {c \in Command : c.type = type}
Conns == {c.conn : c \in Of("connection")}
UpdateIds == {c.id : c \in Of("change")}

(* Type invariant: connections, services and updates are those of commands, *)
(* and a device is known once an event was stored.                          *)
TypeOK ==
  /\ version \in -1 .. MaxVersion /\ now \in 0 .. MaxTime
  /\ state.exists = (version >= 0)
  /\ state.updated.id \in Conns \cup {None}
  /\ state.updated.svc \in {c.svc : c \in Of("connection")} \cup {None}
  /\ state.twin.state \in {"OUT_OF_SYNC", "SYNCING", "IN_SYNC", "DISABLED"}
  /\ state.twin.conn \in Conns \cup {None}
  /\ Ids(state.pendings) \subseteq UpdateIds

----------------------------------------------------------------------------
(* The connection *)

(* The service a device is stored under is one that the connection it is    *)
(* online over has named, and an offline device is stored under none.  The  *)
(* expiry of a service finds its devices by this field and repeats until it *)
(* finds none: a device that kept the service of an ended connection would  *)
(* keep handleExpiredService busy forever, and one stored under the service *)
(* of another connection would be taken offline with it.  A connection that *)
(* names no service (cloud2cloud) is online under none, and ends only by    *)
(* its own report (updateDeviceConnection, ServiceID).                      *)
ServiceOfConnection ==
  /\ ~state.updated.online => state.updated.svc = None
  /\ state.updated.online =>
       \E c \in Of("connection") :
         c.online /\ c.conn = state.updated.id /\ c.svc = state.updated.svc

(* A report that a connection has ended, handled after the device has come  *)
(* back over another connection, does not take the device offline           *)
(* (getTwinSynchronizationForDisconnectedDevice).                           *)
OnlineEndedByOwnConnection ==
  [][(state.updated.online /\ ~state'.updated.online)
        => state'.updated.id = state.updated.id]_vars

----------------------------------------------------------------------------
(* The twin *)

Synchronizing == state.twin.state \in {"SYNCING", "IN_SYNC"}

(* What is synchronized is the device's current connection: after a         *)
(* reconnection the twin is out of sync until that connection reports       *)
(* otherwise, whatever reports of earlier connections arrive                *)
(* (updateDeviceTwinSynchronization, updateDeviceConnection).               *)
TwinOfConnection == Synchronizing => state.twin.conn = state.updated.id

EndedByHub == \E e \in log : e.event.type = "updated" /\ e.event.updated.user = "service"

(* The twin of an offline device is not in sync: a report overtaken by the  *)
(* end of its own connection is dropped by its sequence number.  This ends  *)
(* where the hub itself ends a connection (updateToOfflineRequest), because *)
(* the sequence number it invents is not the gateway's.                     *)
SynchronizedIsOnline == Synchronizing => state.updated.online \/ EndedByHub

----------------------------------------------------------------------------
(* Updates of the twin's settings *)

Waiting(id) == {i \in DOMAIN state.pendings : state.pendings[i].id = id}

Answers(id, r) == r.ok /\ Len(r.state.pendings) < Len(state.pendings) /\ r.events # << >>

(* A waiting update can be confirmed by the gateway and cancelled by a      *)
(* user, unless the last event carries the same correlation id: that one    *)
(* may be Equal to the answer, which is then not stored, and the update     *)
(* waits on (HandleDeviceMetadataUpdated).                                  *)
UpdatesAnswerable ==
  \A i \in DOMAIN state.pendings :
    LET id == state.pendings[i].id
    IN id # state.updated.corr =>
         /\ \A what \in {"enable", "disable", "force"} :
              Answers(id, DeviceHandleCommand(
                            state, ConfirmTwin(what, id, state.updated.id, state.seq + 1), now))
         /\ Answers(id, DeviceHandleCommand(state, CancelUpdates({id}), now))

(* An update leaves the list only with an event that names it, so whoever   *)
(* waits for the answer hears of it; cancelling several at once, while the  *)
(* list shifts under the loop, is no exception.  Again, an update with the  *)
(* id of the last event may go in silence                                   *)
(* (CancelPendingMetadataUpdatesRequest, HandleDeviceMetadataUpdated).      *)
UpdatesLeaveAnswered ==
  [][\A id \in UpdateIds :
       (id # state.updated.corr /\ Cardinality(Waiting(id)') < Cardinality(Waiting(id))) =>
         \E e \in log' \ log : e.event.type = "updated" /\ e.event.updated.corr = id]_vars
=============================================================================
