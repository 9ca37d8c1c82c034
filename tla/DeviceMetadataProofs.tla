------------------------ MODULE DeviceMetadataProofs ------------------------
(* Proofs about DeviceMetadata, for any commands gateways, clients and the   *)
(* hub may send, any number of events, any time and any version.             *)
EXTENDS DeviceMetadata, SequenceTheorems, Counting, LeastNumber, TLAPS

Services == {c.svc : c \in Of("connection")} \cup {None}
Updated == [online : BOOLEAN, id : Conns \cup {None}, svc : Services, at : Nat,
            twinEnabled : BOOLEAN, canceled : BOOLEAN,
            user : {None, "device", "service", "client"}, corr : UpdateIds \cup {None}]
TwinState == {"OUT_OF_SYNC", "SYNCING", "IN_SYNC", "DISABLED"}
Twin == [set : BOOLEAN, state : TwinState, conn : Conns \cup {None}, seq : Nat,
         syncingAt : Nat, inSyncAt : Nat, forceAt : Nat]
Pend == [id : UpdateIds, validUntil : Nat]
State == [exists : BOOLEAN, updated : Updated, twin : Twin, seq : Nat, pendings : Seq(Pend)]

(* The inductive invariant, of a state: the twin of a device that has been   *)
(* seen is that of the connection stored last, whichever way that one ended. *)
StateInv(st) ==
    /\ st \in State
    /\ st.exists => st.twin.set /\ st.twin.conn = st.updated.id
    /\ ~st.exists => st = NewDeviceMetadataSnapshotTaken

Serviced(st) ==
    /\ ~st.updated.online => st.updated.svc = None
    /\ st.updated.online =>
         \E c \in Of("connection") :
           c.online /\ c.conn = st.updated.id /\ c.svc = st.updated.svc

(* The twin of an offline device is not synchronized, and no report that is  *)
(* still to come can make it so.                                             *)
Quiet(st) ==
    (st.exists /\ ~st.updated.online) =>
        /\ st.twin.state \notin {"SYNCING", "IN_SYNC"}
        /\ \A c \in Of("synchronization") : c.conn = st.twin.conn => c.seq <= st.twin.seq

(* Gateways number the reports of a connection by its own counter, and that  *)
(* of its end after the others (session.OnClose).                            *)
EndNumberedLast ==
    \A c \in Of("synchronization"), d \in Of("connection") :
        ~d.online /\ c.conn = d.conn => c.seq <= d.seq

ByHub(events) ==
    \E i \in 1 .. Len(events) : events[i].type = "updated" /\ events[i].updated.user = "service"

(* What a command that leaves a trace keeps.                                 *)
Keeps(st, r) ==
    /\ StateInv(r.state) /\ r.state.exists
    /\ st.updated.online /\ ~r.state.updated.online => r.state.updated.id = st.updated.id
    /\ Serviced(st) => Serviced(r.state)
    /\ EndNumberedLast /\ Quiet(st) => Quiet(r.state) \/ ByHub(r.events)

-----------------------------------------------------------------------------
(* Pending updates.                                                          *)

LEMMA DropUpdateIs ==
    ASSUME NEW l \in Seq(Pend), NEW id
    PROVE  DropUpdate(l, id) \in Seq(Pend)
  <1>1. CASE id \notin Ids(l)
    BY <1>1 DEF DropUpdate
  <1>2. CASE id \in Ids(l)
    <2> DEFINE T == {i \in 1 .. Len(l) : l[i].id = id}
               at == FirstWith(id, l)
    <2>1. T \in SUBSET Nat /\ T # {}
      BY <1>2 DEF Ids
    <2>2. PICK x \in T : \A y \in T : x <= y
      BY <2>1, Least
    <2>3. x \in DOMAIN l /\ l[x].id = id /\ \A j \in 1 .. x - 1 : l[j].id # id
      BY <2>2
    <2>4. at \in 1 .. Len(l)
      BY <2>3 DEF FirstWith
    <2> HIDE DEF at
    <2>5. SubSeq(l, 1, at - 1) \in Seq(Pend) /\ SubSeq(l, at + 1, Len(l)) \in Seq(Pend)
      BY <2>4
    <2> QED
      BY <1>2, <2>5 DEF DropUpdate, at
  <1> QED
    BY <1>1, <1>2

LEMMA IdsAre ==
    ASSUME NEW l \in Seq(Pend)
    PROVE  Ids(l) \subseteq UpdateIds
  <1>1. ASSUME NEW i \in DOMAIN l PROVE l[i].id \in UpdateIds
    <2>1. PICK e \in Pend : e = l[i]
      OBVIOUS
    <2>2. e.id \in UpdateIds
      BY DEF Pend
    <2> QED
      BY <2>1, <2>2
  <1> QED
    BY <1>1 DEF Ids

LEMMA UnseenIs ==
    ASSUME NEW st, StateInv(st)
    PROVE  /\ ~st.exists => /\ ~st.updated.online /\ st.pendings = << >>
                            /\ st.updated.svc = None /\ st.twin.state = "OUT_OF_SYNC"
           /\ st.updated \in Updated /\ st.twin \in Twin /\ st.pendings \in Seq(Pend)
           /\ st.exists \in BOOLEAN /\ st.seq \in Nat
  BY DEF StateInv, State, NewDeviceMetadataSnapshotTaken, NoTwin

-----------------------------------------------------------------------------
(* HandleDeviceMetadataUpdated.                                              *)

(* An event is stored: the event and the state after it.                     *)
LEMMA Stored ==
    ASSUME NEW st, NEW u, NEW tw, NEW sq, NEW confirm \in BOOLEAN, NEW inPlace \in BOOLEAN,
           NEW r, r = HandleDeviceMetadataUpdated(st, u, tw, sq, confirm, inPlace),
           r.ok, r.events # << >>
    PROVE  /\ r.events = <<UpdatedEvent(u, tw)>>
           /\ r.state.exists /\ r.state.updated = u /\ r.state.twin = tw
           /\ r.state = [exists |-> TRUE, updated |-> u, twin |-> tw, seq |-> sq,
                         pendings |-> DropUpdate(st.pendings, u.corr)]
  <1> DEFINE rest == DropUpdate(st.pendings, u.corr)
             same == EqualUpdated(st.updated, u) /\ (inPlace \/ EqualTwin(st.twin, tw))
             new == [exists |-> TRUE, updated |-> u, twin |-> tw, seq |-> sq, pendings |-> rest]
             found == u.corr \in Ids(st.pendings)
  <1>1. r = CASE confirm /\ ~found -> DeviceRejected(st)
              [] (confirm => found) /\ same -> DeviceAccepted(<< >>, [st EXCEPT !.pendings = rest])
              [] OTHER -> DeviceAccepted(<<UpdatedEvent(u, tw)>>, new)
    BY DEF HandleDeviceMetadataUpdated
  <1>2. /\ ~DeviceRejected(st).ok
        /\ DeviceAccepted(<< >>, [st EXCEPT !.pendings = rest]).events = << >>
    BY DEF DeviceRejected, DeviceAccepted
  <1> HIDE DEF rest, same, new, found
  <1>3. r = DeviceAccepted(<<UpdatedEvent(u, tw)>>, new)
    <2>1. CASE confirm /\ ~found
      <3>1. r = DeviceRejected(st)
        BY <1>1, <2>1
      <3> QED
        BY <1>2, <3>1
    <2>2. CASE (confirm => found) /\ same
      <3>1. r = DeviceAccepted(<< >>, [st EXCEPT !.pendings = rest])
        BY <1>1, <2>2
      <3> QED
        BY <1>2, <3>1
    <2>3. CASE (confirm => found) /\ ~same
      BY <1>1, <2>3
    <2> QED
      BY <2>1, <2>2, <2>3
  <1>4. r.events = <<UpdatedEvent(u, tw)>> /\ r.state = new
    BY <1>3 DEF DeviceAccepted
  <1>5. new.exists /\ new.updated = u /\ new.twin = tw
    BY DEF new
  <1> QED
    BY <1>4, <1>5 DEF new, rest

(* The answer to an update is stored only if that one waits.                 *)
LEMMA StoredNamed ==
    ASSUME NEW st, NEW u, NEW tw, NEW sq, NEW confirm \in BOOLEAN, NEW inPlace \in BOOLEAN,
           NEW r, r = HandleDeviceMetadataUpdated(st, u, tw, sq, confirm, inPlace),
           r.ok, confirm
    PROVE  u.corr \in Ids(st.pendings)
  BY DEF HandleDeviceMetadataUpdated, DeviceRejected

(* Updates that are typed keep the state typed.                              *)
LEMMA StoredTyped ==
    ASSUME NEW st, StateInv(st), NEW u \in Updated, NEW tw \in Twin, NEW sq \in Nat,
           NEW confirm \in BOOLEAN, NEW inPlace \in BOOLEAN,
           NEW r, r = HandleDeviceMetadataUpdated(st, u, tw, sq, confirm, inPlace),
           r.ok, r.events # << >>, tw.set, tw.conn = u.id
    PROVE  /\ StateInv(r.state) /\ r.state.exists /\ r.state.updated = u /\ r.state.twin = tw
           /\ r.events = <<UpdatedEvent(u, tw)>>
  <1> DEFINE rest == DropUpdate(st.pendings, u.corr)
  <1>1. /\ r.events = <<UpdatedEvent(u, tw)>>
        /\ r.state.exists /\ r.state.updated = u /\ r.state.twin = tw
        /\ r.state = [exists |-> TRUE, updated |-> u, twin |-> tw, seq |-> sq, pendings |-> rest]
    BY Stored
  <1>2. rest \in Seq(Pend)
    BY DropUpdateIs, UnseenIs
  <1> HIDE DEF rest
  <1>3. r.state \in State
    BY <1>1, <1>2 DEF State
  <1> QED
    BY <1>1, <1>3 DEF StateInv

-----------------------------------------------------------------------------
(* The connection.                                                           *)

LEMMA ConnectionStored ==
    ASSUME NEW st, StateInv(st), NEW cmd, NEW user \in {"device", "service"},
           cmd.online \in BOOLEAN, cmd.conn \in Conns \cup {None}, cmd.seq \in Nat,
           cmd.svc \in Services, cmd.at \in Nat,
           NEW r, r = updateDeviceConnection(st, cmd, user), r.ok, r.events # << >>
    PROVE  /\ StateInv(r.state) /\ r.state.exists
           /\ st.updated.online /\ ~r.state.updated.online => r.state.updated.id = st.updated.id
           /\ r.state.updated.online = cmd.online /\ r.state.updated.id = cmd.conn
           /\ r.state.updated.svc = IF cmd.online THEN cmd.svc ELSE None
           /\ ~cmd.online => /\ r.state.twin.state \in {"OUT_OF_SYNC", "DISABLED"}
                             /\ r.state.twin.conn = cmd.conn /\ r.state.twin.seq = cmd.seq
           /\ r.events[1].type = "updated" /\ r.events[1].updated.user = user /\ Len(r.events) = 1
  <1> DEFINE u == [st.updated EXCEPT !.online = cmd.online, !.id = cmd.conn,
                       !.svc = ServiceAfter(st, cmd), !.at = LaterOf(st.updated.at, cmd.at),
                       !.canceled = FALSE, !.user = user, !.corr = None]
             tw == TwinAfter(st, cmd)
  <1>0. st.updated \in Updated /\ st.twin \in Twin
    BY UnseenIs
  <1>1. /\ u \in Updated /\ u.online = cmd.online /\ u.id = cmd.conn /\ u.user = user
        /\ u.svc = IF cmd.online THEN cmd.svc ELSE None
    <2>1. LaterOf(st.updated.at, cmd.at) \in Nat
      BY <1>0 DEF LaterOf, Updated
    <2>2. ServiceAfter(st, cmd) = (IF cmd.online THEN cmd.svc ELSE None) /\ ServiceAfter(st, cmd) \in Services
      BY DEF ServiceAfter, Services
    <2> QED
      BY <1>0, <2>1, <2>2 DEF Updated
  <1>2. MayChangeConnection(st, cmd)
    BY DEF updateDeviceConnection, DeviceRejected
  <1>3. r = HandleDeviceMetadataUpdated(st, u, tw, cmd.seq, FALSE, st.twin.set)
    BY <1>2 DEF updateDeviceConnection
  <1>4. /\ tw \in Twin /\ tw.set /\ tw.conn = cmd.conn
        /\ ~cmd.online => tw.state \in {"OUT_OF_SYNC", "DISABLED"} /\ tw.seq = cmd.seq
    <2>1. CASE cmd.online /\ cmd.conn = st.updated.id /\ st.updated.online
      <3>1. st.exists /\ st.twin.conn = st.updated.id
        BY <2>1, UnseenIs DEF StateInv
      <3>2. tw = [st.twin EXCEPT !.set = TRUE]
        BY <2>1 DEF TwinAfter
      <3> HIDE DEF tw
      <3> QED
        BY <1>0, <2>1, <3>1, <3>2 DEF Twin
    <2>2. CASE ~(cmd.online /\ cmd.conn = st.updated.id /\ st.updated.online)
      <3> DEFINE s == IF st.updated.twinEnabled THEN "OUT_OF_SYNC" ELSE "DISABLED"
      <3>1. tw = [st.twin EXCEPT !.set = TRUE, !.conn = cmd.conn, !.seq = cmd.seq, !.state = s]
        BY <2>2 DEF TwinAfter
      <3>2. s \in {"OUT_OF_SYNC", "DISABLED"}
        OBVIOUS
      <3> HIDE DEF s, tw
      <3> QED
        BY <1>0, <3>1, <3>2 DEF Twin, TwinState
    <2> QED
      BY <2>1, <2>2
  <1>5. st.twin.set \in BOOLEAN
    BY <1>0 DEF Twin
  <1> HIDE DEF u, tw
  <1>6. /\ StateInv(r.state) /\ r.state.exists /\ r.state.updated = u /\ r.state.twin = tw
        /\ r.events = <<UpdatedEvent(u, tw)>>
    <2>1. PICK no \in BOOLEAN, set \in BOOLEAN : no = FALSE /\ set = st.twin.set
      BY <1>5, Zenon
    <2>2. r = HandleDeviceMetadataUpdated(st, u, tw, cmd.seq, no, set)
      BY <1>3, <2>1, Zenon
    <2>3. u \in Updated /\ tw \in Twin /\ tw.set /\ tw.conn = u.id
      BY <1>1, <1>4
    <2> QED
      BY <2>2, <2>3, StoredTyped
  <1>7. st.updated.online /\ ~cmd.online => cmd.conn = st.updated.id
    BY <1>2 DEF MayChangeConnection
  <1>8. r.events[1].type = "updated" /\ r.events[1].updated.user = user /\ Len(r.events) = 1
    BY <1>1, <1>6 DEF UpdatedEvent
  <1> QED
    BY <1>1, <1>4, <1>6, <1>7, <1>8

LEMMA ReportHandled ==
    ASSUME NEW st, StateInv(st), NEW c \in Command, c.type = "connection",
           NEW r, r = updateDeviceConnection(st, c, "device"), r.ok, r.events # << >>
    PROVE  Keeps(st, r)
  <1>1. /\ c \in Of("connection") /\ c.online \in BOOLEAN /\ c.conn \in Conns \cup {None}
        /\ c.seq \in Nat /\ c.at \in Nat /\ c.svc \in Services
    BY DeviceConstants DEF Of, Conns, Services
  <1>2. /\ StateInv(r.state) /\ r.state.exists
        /\ st.updated.online /\ ~r.state.updated.online => r.state.updated.id = st.updated.id
        /\ r.state.updated.online = c.online /\ r.state.updated.id = c.conn
        /\ r.state.updated.svc = IF c.online THEN c.svc ELSE None
        /\ ~c.online => /\ r.state.twin.state \in {"OUT_OF_SYNC", "DISABLED"}
                        /\ r.state.twin.conn = c.conn /\ r.state.twin.seq = c.seq
    BY <1>1, ConnectionStored
  <1>3. Serviced(r.state)
    BY <1>1, <1>2 DEF Serviced
  <1>4. EndNumberedLast => Quiet(r.state)
    BY <1>1, <1>2 DEF EndNumberedLast, Quiet
  <1> QED
    BY <1>2, <1>3, <1>4 DEF Keeps

LEMMA ExpiryHandled ==
    ASSUME NEW st, StateInv(st), NEW c \in Command, c.type = "expired",
           NEW r, r = updateToOfflineRequest(st, c), r.ok, r.events # << >>
    PROVE  Keeps(st, r)
  <1> DEFINE d == Disconnect(st.updated.id, st.seq + 1)
  <1>1. r = updateDeviceConnection(st, d, "service")
    BY DEF updateToOfflineRequest, DeviceAccepted
  <1>2. /\ ~d.online /\ d.conn = st.updated.id /\ d.seq = st.seq + 1
        /\ d.svc = None /\ d.at = 0
    BY DEF Disconnect
  <1>3. d.online \in BOOLEAN /\ d.conn \in Conns \cup {None} /\ d.seq \in Nat /\ d.svc \in Services /\ d.at \in Nat
    <2>1. st.updated.id \in Conns \cup {None} /\ st.seq \in Nat
      <3>1. st.updated \in Updated /\ st.seq \in Nat
        BY UnseenIs
      <3> QED
        BY <3>1 DEF Updated
    <2>2. None \in Services
      BY DEF Services
    <2>3. d.online \in BOOLEAN
      BY DEF Disconnect
    <2> HIDE DEF d
    <2>4. d.conn \in Conns \cup {None} /\ d.seq \in Nat /\ d.svc \in Services /\ d.at \in Nat
      BY <1>2, <2>1, <2>2
    <2> QED
      BY <2>3, <2>4
  <1> HIDE DEF d
  <1>4. /\ StateInv(r.state) /\ r.state.exists
        /\ st.updated.online /\ ~r.state.updated.online => r.state.updated.id = st.updated.id
        /\ r.state.updated.online = d.online
        /\ r.state.updated.svc = IF d.online THEN d.svc ELSE None
        /\ r.events[1].type = "updated" /\ r.events[1].updated.user = "service" /\ Len(r.events) = 1
    BY <1>1, <1>3, ConnectionStored
  <1>5. ByHub(r.events)
    BY <1>4 DEF ByHub
  <1>6. Serviced(r.state)
    BY <1>2, <1>4 DEF Serviced
  <1> QED
    BY <1>4, <1>5, <1>6 DEF Keeps

-----------------------------------------------------------------------------
(* The twin.                                                                 *)

(* Events that leave the connection alone.                                   *)
LEMMA ConnectionKept ==
    ASSUME NEW st, NEW r, StateInv(r.state), r.state.exists,
           r.state.updated.online <=> st.updated.online,
           r.state.updated.svc = st.updated.svc, r.state.updated.id = st.updated.id,
           EndNumberedLast /\ Quiet(st) => Quiet(r.state)
    PROVE  Keeps(st, r)
  <1>1. Serviced(st) => Serviced(r.state)
    BY DEF Serviced
  <1> QED
    BY <1>1 DEF Keeps

LEMMA SynchronizationHandled ==
    ASSUME NEW st, StateInv(st), NEW c \in Command, c.type = "synchronization",
           NEW r, r = updateDeviceTwinSynchronization(st, c), r.ok, r.events # << >>
    PROVE  Keeps(st, r)
  <1> DEFINE syncingAt == ReportedAt(c, "SYNCING", st.twin.syncingAt)
             inSyncAt == ReportedAt(c, "IN_SYNC", st.twin.inSyncAt)
             tw == [st.twin EXCEPT
                      !.state = c.state, !.seq = c.seq, !.forceAt = 0,
                      !.syncingAt = syncingAt, !.inSyncAt = inSyncAt]
             u == [st.updated EXCEPT !.canceled = FALSE, !.user = "device", !.corr = None]
  <1>0. /\ st.updated \in Updated /\ st.twin \in Twin /\ c \in Of("synchronization")
        /\ c.seq \in Nat /\ c.at \in Nat
    BY UnseenIs, DeviceConstants DEF Of
  <1>1. /\ OfTwinConnection(st, c) /\ ~OutOfSequence(st, c) /\ NewsToTwin(st.twin, c)
        /\ r = HandleDeviceMetadataUpdated(st, u, tw, c.seq, FALSE, FALSE)
    BY DEF updateDeviceTwinSynchronization, DeviceAccepted, DeviceRejected
  <1>2. st.exists /\ c.conn = st.twin.conn /\ c.state \in {"SYNCING", "IN_SYNC", "DISABLED"}
    BY <1>1 DEF OfTwinConnection, NewsToTwin
  <1>t. syncingAt \in Nat /\ inSyncAt \in Nat
    BY <1>0 DEF ReportedAt, Twin
  <1>3. st.twin.set /\ st.twin.conn = st.updated.id
    BY <1>2 DEF StateInv
  <1>4. /\ u \in Updated /\ u.id = st.updated.id /\ u.svc = st.updated.svc
        /\ u.online <=> st.updated.online
    BY <1>0 DEF Updated
  <1>5. tw \in Twin /\ tw.set /\ tw.conn = st.twin.conn
    <2> HIDE DEF syncingAt, inSyncAt
    <2> QED
      BY <1>0, <1>2, <1>3, <1>t DEF Twin, TwinState
  <1> HIDE DEF u, tw
  <1>6. StateInv(r.state) /\ r.state.exists /\ r.state.updated = u /\ r.state.twin = tw
    <2>1. PICK no \in BOOLEAN : no = FALSE
      BY Zenon
    <2>2. r = HandleDeviceMetadataUpdated(st, u, tw, c.seq, no, no)
      BY <1>1, <2>1, Zenon
    <2>3. tw.conn = u.id
      BY <1>3, <1>4, <1>5
    <2> QED
      BY <1>0, <1>4, <1>5, <2>2, <2>3, StoredTyped
  <1>7. Quiet(st) => Quiet(r.state)
    <2>1. Quiet(st) => st.updated.online
      BY <1>0, <1>1, <1>2 DEF Quiet, OutOfSequence
    <2> QED
      BY <1>4, <1>6, <2>1 DEF Quiet
  <1> QED
    BY <1>4, <1>6, <1>7, ConnectionKept

LEMMA ChangeHandled ==
    ASSUME NEW st, StateInv(st), NEW c \in Command, c.type = "change", NEW t \in Nat,
           NEW r, r = updateDeviceTwin(st, c, t), r.ok, r.events # << >>
    PROVE  Keeps(st, r)
  <1> DEFINE p == [id |-> c.id, validUntil |-> IF c.ttl = 0 THEN 0 ELSE t + c.ttl]
  <1>0. st.pendings \in Seq(Pend) /\ st \in State
    BY UnseenIs DEF StateInv
  <1>1. p \in Pend
    <2>1. c.id \in UpdateIds /\ c.ttl \in Nat
      BY DeviceConstants DEF UpdateIds, Of
    <2> QED
      BY <2>1 DEF Pend
  <1>2. /\ st.exists
        /\ r.state = [st EXCEPT !.exists = TRUE, !.seq = 0, !.pendings = Append(st.pendings, p)]
    BY DEF updateDeviceTwin, HandleDeviceMetadataUpdatePending, DeviceAccepted, DeviceRejected
  <1> HIDE DEF p
  <1>3. Append(st.pendings, p) \in Seq(Pend)
    BY <1>0, <1>1
  <1>4. /\ r.state \in State /\ r.state.exists /\ r.state.updated = st.updated
        /\ r.state.twin = st.twin
    <2>1. PICK l \in Seq(Pend) : l = Append(st.pendings, p)
      BY <1>3
    <2>2. PICK new : new = [st EXCEPT !.exists = TRUE, !.seq = 0, !.pendings = l]
      OBVIOUS
    <2>3. new \in State
      BY <1>0, <2>2 DEF State
    <2>4. new.exists /\ new.updated = st.updated /\ new.twin = st.twin
      BY <1>0, <2>2 DEF State
    <2>5. r.state = new
      BY <1>2, <2>1, <2>2
    <2> QED
      BY <2>3, <2>4, <2>5
  <1>5. StateInv(r.state)
    BY <1>2, <1>4 DEF StateInv
  <1>6. Quiet(st) => Quiet(r.state)
    BY <1>2, <1>4 DEF Quiet
  <1> QED
    BY <1>4, <1>5, <1>6, ConnectionKept

(* A device with waiting updates has been seen.                              *)
LEMMA WaitingSeen ==
    ASSUME NEW st, StateInv(st), NEW id \in Ids(st.pendings)
    PROVE  st.exists /\ st.twin.set /\ st.twin.conn = st.updated.id /\ id \in UpdateIds
  <1>1. st.pendings # << >>
    BY DEF Ids
  <1>2. st.exists
    BY <1>1, UnseenIs
  <1>3. st.pendings \in Seq(Pend)
    BY UnseenIs
  <1> QED
    BY <1>2, <1>3, IdsAre DEF StateInv

LEMMA ConfirmationHandled ==
    ASSUME NEW st, StateInv(st), NEW c \in Command, c.type = "confirm", NEW t \in Nat,
           NEW r, r = confirmDeviceMetadataUpdate(st, c, t), r.ok, r.events # << >>
    PROVE  Keeps(st, r)
  <1> DEFINE twin == IF st.twin.set THEN st.twin
                     ELSE [NoTwin EXCEPT !.set = TRUE, !.conn = c.conn, !.seq = c.seq]
             state1 == CASE c.what = "force" -> "OUT_OF_SYNC"
                         [] c.what # "force" /\ c.conn # st.twin.conn -> twin.state
                         [] c.what = "enable" /\ c.conn = st.twin.conn ->
                              IF twin.state = "DISABLED" THEN "OUT_OF_SYNC" ELSE twin.state
                         [] c.what = "disable" /\ c.conn = st.twin.conn -> "DISABLED"
             forceAt1 == IF c.what = "force" THEN t ELSE twin.forceAt
             enabled == c.what # "disable"
             u == [st.updated EXCEPT !.twinEnabled = enabled,
                                     !.canceled = FALSE, !.user = "device", !.corr = c.id]
             tw == [twin EXCEPT !.state = state1, !.forceAt = forceAt1]
  <1>0. /\ st.updated \in Updated /\ st.twin \in Twin /\ c.seq \in Nat
        /\ c.what \in {"enable", "disable", "force"}
    BY UnseenIs, DeviceConstants
  <1>1. r = HandleDeviceMetadataUpdated(st, u, tw, c.seq, TRUE, st.twin.set)
    BY Zenon DEF confirmDeviceMetadataUpdate
  <1>2. PICK yes \in BOOLEAN, set \in BOOLEAN : yes = TRUE /\ set = st.twin.set
    <2>1. st.twin.set \in BOOLEAN
      BY <1>0 DEF Twin
    <2> QED
      BY <2>1, Zenon
  <1>3. r = HandleDeviceMetadataUpdated(st, u, tw, c.seq, yes, set)
    BY <1>1, <1>2, Zenon
  <1>4. u.corr = c.id /\ u.id = st.updated.id /\ u.svc = st.updated.svc
        /\ (u.online <=> st.updated.online)
    BY <1>0 DEF Updated
  <1> HIDE DEF u, tw
  <1>5. c.id \in Ids(st.pendings)
    <2>1. yes
      BY <1>2
    <2>2. u.corr \in Ids(st.pendings)
      BY <1>3, <2>1, StoredNamed
    <2> QED
      BY <1>4, <2>1, <2>2
  <1>6. st.exists /\ st.twin.set /\ st.twin.conn = st.updated.id /\ c.id \in UpdateIds
    BY <1>5, WaitingSeen
  <1>7. twin = st.twin /\ state1 \in {st.twin.state, "OUT_OF_SYNC", "DISABLED"} /\ forceAt1 \in Nat
    <2>1. twin = st.twin
      BY <1>6
    <2> HIDE DEF twin
    <2>2. state1 \in {twin.state, "OUT_OF_SYNC", "DISABLED"}
      BY <1>0
    <2>3. forceAt1 \in Nat
      BY <1>0, <2>1 DEF Twin
    <2> QED
      BY <2>1, <2>2, <2>3
  <1>8. u \in Updated
    <2>1. enabled \in BOOLEAN
      OBVIOUS
    <2> HIDE DEF enabled
    <2> QED
      BY <1>0, <1>6, <2>1 DEF Updated, u
  <1>9. tw \in Twin /\ tw.set /\ tw.conn = st.twin.conn /\ tw.seq = st.twin.seq /\ tw.state = state1
    <2>1. tw = [st.twin EXCEPT !.state = state1, !.forceAt = forceAt1]
      BY <1>7 DEF tw
    <2> HIDE DEF twin, state1, forceAt1
    <2>2. st.twin.state \in TwinState /\ {"OUT_OF_SYNC", "DISABLED"} \subseteq TwinState
      BY <1>0 DEF Twin, TwinState
    <2> QED
      BY <1>0, <1>6, <1>7, <2>1, <2>2 DEF Twin
  <1>10. StateInv(r.state) /\ r.state.exists /\ r.state.updated = u /\ r.state.twin = tw
    <2>1. tw.conn = u.id
      BY <1>4, <1>6, <1>9
    <2> QED
      BY <1>0, <1>3, <1>8, <1>9, <2>1, StoredTyped
  <1>11. Quiet(st) => Quiet(r.state)
    <2> HIDE DEF state1
    <2> QED
      BY <1>4, <1>6, <1>7, <1>9, <1>10 DEF Quiet
  <1> QED
    BY <1>4, <1>10, <1>11, ConnectionKept

-----------------------------------------------------------------------------
(* The loop that cancels updates while their list shifts under it.           *)

(* An answer that is Equal to the last event only ends the wait.             *)
LEMMA Silent ==
    ASSUME NEW st, NEW u, NEW tw, NEW sq, NEW confirm \in BOOLEAN, NEW inPlace \in BOOLEAN,
           NEW r, r = HandleDeviceMetadataUpdated(st, u, tw, sq, confirm, inPlace),
           r.ok, r.events = << >>, StateInv(st), st.exists
    PROVE  /\ StateInv(r.state) /\ r.state.exists /\ r.state.updated = st.updated
           /\ r.state.twin = st.twin
  <1> DEFINE rest == DropUpdate(st.pendings, u.corr)
             same == EqualUpdated(st.updated, u) /\ (inPlace \/ EqualTwin(st.twin, tw))
             found == u.corr \in Ids(st.pendings)
             new == [exists |-> TRUE, updated |-> u, twin |-> tw, seq |-> sq, pendings |-> rest]
  <1>1. r = CASE confirm /\ ~found -> DeviceRejected(st)
              [] (confirm => found) /\ same -> DeviceAccepted(<< >>, [st EXCEPT !.pendings = rest])
              [] OTHER -> DeviceAccepted(<<UpdatedEvent(u, tw)>>, new)
    BY DEF HandleDeviceMetadataUpdated
  <1> HIDE DEF rest, same, new, found
  <1>2. /\ ~DeviceRejected(st).ok
        /\ DeviceAccepted(<<UpdatedEvent(u, tw)>>, new).events # << >>
        /\ DeviceAccepted(<< >>, [st EXCEPT !.pendings = rest]).state = [st EXCEPT !.pendings = rest]
    BY DEF DeviceRejected, DeviceAccepted
  <1>3. r.state = [st EXCEPT !.pendings = rest]
    <2>1. CASE confirm /\ ~found
      BY <1>1, <1>2, <2>1
    <2>2. CASE (confirm => found) /\ same
      <3>1. r = DeviceAccepted(<< >>, [st EXCEPT !.pendings = rest])
        BY <1>1, <2>2
      <3> QED
        BY <1>2, <3>1
    <2>3. CASE (confirm => found) /\ ~same
      BY <1>1, <1>2, <2>3
    <2> QED
      BY <2>1, <2>2, <2>3
  <1>4. rest \in Seq(Pend) /\ st \in State
    BY DropUpdateIs, UnseenIs DEF rest, StateInv
  <1>5. PICK left : left = [st EXCEPT !.pendings = rest]
    OBVIOUS
  <1>6. /\ left \in State /\ left.exists = st.exists /\ left.updated = st.updated
        /\ left.twin = st.twin
    BY <1>4, <1>5 DEF State
  <1>7. StateInv(left) /\ left.exists
    BY <1>6 DEF StateInv
  <1> QED
    BY <1>3, <1>5, <1>6, <1>7

(* What all rounds leave alone.                                              *)
Round(b, st) ==
    /\ StateInv(b) /\ b.exists /\ b.twin = st.twin
    /\ b.updated.online <=> st.updated.online
    /\ b.updated.id = st.updated.id /\ b.updated.svc = st.updated.svc

LEMMA RoundStep ==
    ASSUME NEW st, NEW b, Round(b.state, st), NEW i, NEW filter
    PROVE  Round(cancelUpdate(b, i, filter).state, st)
  <1> DEFINE s == b.state
             id == b.array[i].id
             u == CanceledUpdate(s, id)
             q == HandleDeviceMetadataUpdated(s, u, s.twin, 0, TRUE, TRUE)
             next == [array |-> ShiftLeft(b.array, FirstWith(id, s.pendings), Len(s.pendings)),
                      state |-> q.state, events |-> b.events \o q.events]
  <1>1. cancelUpdate(b, i, filter) = IF (filter = {} \/ id \in filter) /\ q.ok THEN next ELSE b
    BY DEF cancelUpdate
  <1>2. next.state = q.state
    OBVIOUS
  <1> HIDE DEF next
  <1>3. CASE ~q.ok
    BY <1>1, <1>3
  <1>4. CASE q.ok
    <2>1. PICK yes \in BOOLEAN : yes = TRUE
      BY Zenon
    <2>2. PICK r : r = q
      OBVIOUS
    <2>3. r = HandleDeviceMetadataUpdated(s, u, s.twin, 0, yes, yes) /\ r.ok /\ yes
      BY <1>4, <2>1, <2>2, Zenon
    <2>4. StateInv(s) /\ s.updated \in Updated /\ s.twin \in Twin /\ s.pendings \in Seq(Pend)
      BY UnseenIs DEF Round
    <2>5. /\ u.corr = id /\ u.id = s.updated.id /\ u.svc = s.updated.svc
          /\ u.online <=> s.updated.online
      BY <2>4 DEF CanceledUpdate, Updated
    <2>6. id \in Ids(s.pendings)
      <3> HIDE DEF q, u, id
      <3>1. u.corr \in Ids(s.pendings)
        BY <2>3, StoredNamed
      <3> QED
        BY <2>5, <3>1
    <2>7. s.exists /\ s.twin.set /\ s.twin.conn = s.updated.id /\ id \in UpdateIds
      BY <2>4, <2>6, WaitingSeen
    <2>8. u \in Updated
      <3> HIDE DEF id
      <3> QED
        BY <2>4, <2>7 DEF CanceledUpdate, Updated
    <2> HIDE DEF q, u, id
    <2>9. CASE r.events = << >>
      <3>1. StateInv(r.state) /\ r.state.exists /\ r.state.updated = s.updated /\ r.state.twin = s.twin
        <4> HIDE DEF s
        <4>1. PICK tw, zero : tw = s.twin /\ zero = 0
          OBVIOUS
        <4>2. /\ r = HandleDeviceMetadataUpdated(s, u, tw, zero, yes, yes)
              /\ r.ok /\ r.events = << >>
          BY <2>3, <2>9, <4>1
        <4> QED
          BY <2>4, <2>7, <4>2, Silent
      <3> QED
        BY <1>1, <1>2, <2>2, <3>1 DEF Round
    <2>10. CASE r.events # << >>
      <3>1. StateInv(r.state) /\ r.state.exists /\ r.state.updated = u /\ r.state.twin = s.twin
        <4> HIDE DEF s
        <4>1. s.twin.conn = u.id /\ s.twin.set /\ s.twin \in Twin /\ StateInv(s)
          BY <2>4, <2>5, <2>7
        <4>2. PICK tw, zero : tw = s.twin /\ zero = 0
          OBVIOUS
        <4>3. /\ r = HandleDeviceMetadataUpdated(s, u, tw, zero, yes, yes)
              /\ r.ok /\ r.events # << >>
          BY <2>3, <2>10, <4>2
        <4> QED
          BY <2>8, <4>1, <4>2, <4>3, StoredTyped
      <3> QED
        BY <1>1, <1>2, <2>2, <2>5, <3>1 DEF Round
    <2> QED
      BY <2>9, <2>10
  <1> QED
    BY <1>3, <1>4

Start(st) == [array |-> st.pendings, state |-> st, events |-> << >>]

(* f holds the states of the first m rounds of the loop.                     *)
Rounds(f, m, st, filter) ==
    f = [i \in 0 .. m |-> IF i = 0 THEN Start(st) ELSE cancelUpdate(f[i - 1], i, filter)]

LEMMA LoopExists ==
    ASSUME NEW st, NEW filter, NEW m \in Nat
    PROVE  \E f : Rounds(f, m, st, filter)
  <1> DEFINE T == {k \in Nat : ~ \E f : Rounds(f, k, st, filter)}
  <1> SUFFICES ASSUME T # {} PROVE FALSE
    OBVIOUS
  <1>1. PICK k \in T : \A j \in T : k <= j
    <2>1. T \in SUBSET Nat
      OBVIOUS
    <2> QED
      BY <2>1, Least
  <1>2. k \in Nat /\ ~ \E f : Rounds(f, k, st, filter)
    OBVIOUS
  <1>3. CASE k = 0
    <2> DEFINE f == [i \in 0 .. 0 |-> Start(st)]
    <2>1. \A i \in 0 .. 0 : i = 0
      OBVIOUS
    <2>2. Rounds(f, 0, st, filter)
      BY <2>1 DEF Rounds
    <2> QED
      BY <1>2, <1>3, <2>2
  <1>4. CASE k # 0
    <2>1. k - 1 \in Nat /\ k - 1 \notin T
      BY <1>1, <1>2, <1>4
    <2>2. PICK f : Rounds(f, k - 1, st, filter)
      BY <2>1
    <2> DEFINE h == [i \in 0 .. k |-> IF i = k THEN cancelUpdate(f[k - 1], k, filter) ELSE f[i]]
    <2>3. \A i \in 0 .. k - 1 : /\ i \in 0 .. k /\ i # k
                                /\ f[i] = IF i = 0 THEN Start(st) ELSE cancelUpdate(f[i - 1], i, filter)
      BY <1>2, <2>2 DEF Rounds
    <2>4. \A i \in 0 .. k : h[i] = IF i = 0 THEN Start(st) ELSE cancelUpdate(h[i - 1], i, filter)
      <3> SUFFICES ASSUME NEW i \in 0 .. k
                   PROVE  h[i] = IF i = 0 THEN Start(st) ELSE cancelUpdate(h[i - 1], i, filter)
        OBVIOUS
      <3>1. CASE i = 0
        BY <1>2, <1>4, <2>3, <3>1
      <3>2. CASE i # 0
        <4>1. i - 1 \in 0 .. k - 1 /\ h[i - 1] = f[i - 1]
          BY <1>2, <3>2
        <4>2. h[i] = cancelUpdate(f[i - 1], i, filter)
          BY <1>2, <2>3, <3>2
        <4> QED
          BY <3>2, <4>1, <4>2
      <3> QED
        BY <3>1, <3>2
    <2>5. h = [i \in 0 .. k |-> h[i]]
      OBVIOUS
    <2> HIDE DEF h
    <2>6. Rounds(h, k, st, filter)
      BY <2>4, <2>5 DEF Rounds
    <2> QED
      BY <1>2, <2>6
  <1> QED
    BY <1>3, <1>4

LEMMA LoopIs ==
    ASSUME NEW st, StateInv(st), NEW c
    PROVE  \E f : /\ Rounds(f, Len(st.pendings), st, c.filter)
                  /\ CancelPendingMetadataUpdatesRequest(st, c) =
                       LET done == f[Len(st.pendings)]
                       IN IF done.events = << >> THEN DeviceRejected(st)
                          ELSE DeviceAccepted(done.events, done.state)
  <1> DEFINE m == Len(st.pendings)
             F == CHOOSE f : f = [i \in 0 .. m |->
                                    IF i = 0 THEN [array |-> st.pendings, state |-> st, events |-> << >>]
                                    ELSE cancelUpdate(f[i - 1], i, c.filter)]
  <1>1. CancelPendingMetadataUpdatesRequest(st, c) =
            IF F[m].events = << >> THEN DeviceRejected(st) ELSE DeviceAccepted(F[m].events, F[m].state)
    BY Zenon DEF CancelPendingMetadataUpdatesRequest
  <1>2. \E f : f = [i \in 0 .. m |->
                      IF i = 0 THEN [array |-> st.pendings, state |-> st, events |-> << >>]
                      ELSE cancelUpdate(f[i - 1], i, c.filter)]
    <2>1. m \in Nat
      BY UnseenIs
    <2>2. \E f : Rounds(f, m, st, c.filter)
      BY <2>1, LoopExists
    <2> QED
      BY <2>2, Zenon DEF Rounds, Start
  <1>3. F = [i \in 0 .. m |->
               IF i = 0 THEN [array |-> st.pendings, state |-> st, events |-> << >>]
               ELSE cancelUpdate(F[i - 1], i, c.filter)]
    BY <1>2, Zenon
  <1> HIDE DEF F
  <1>4. Rounds(F, m, st, c.filter)
    BY <1>3, Zenon DEF Rounds, Start
  <1> QED
    BY <1>1, <1>4

LEMMA RoundsAre ==
    ASSUME NEW st, StateInv(st), st.exists, NEW f, NEW m \in Nat, NEW filter,
           Rounds(f, m, st, filter)
    PROVE  \A i \in 0 .. m : Round(f[i].state, st)
  <1> DEFINE T == {i \in 0 .. m : ~Round(f[i].state, st)}
  <1> SUFFICES ASSUME T # {} PROVE FALSE
    OBVIOUS
  <1>1. PICK k \in T : \A j \in T : k <= j
    <2>1. T \in SUBSET Nat
      OBVIOUS
    <2> QED
      BY <2>1, Least
  <1>2. k \in 0 .. m /\ ~Round(f[k].state, st)
    OBVIOUS
  <1>3. f[k] = IF k = 0 THEN Start(st) ELSE cancelUpdate(f[k - 1], k, filter)
    BY <1>2 DEF Rounds
  <1>4. CASE k = 0
    <2>1. f[k].state = st
      BY <1>3, <1>4 DEF Start
    <2>2. Round(st, st)
      BY DEF Round
    <2> QED
      BY <1>2, <2>1, <2>2
  <1>5. CASE k # 0
    <2>1. k - 1 \in 0 .. m /\ k - 1 \notin T
      BY <1>1, <1>2, <1>5
    <2>2. Round(f[k - 1].state, st)
      BY <2>1
    <2>3. Round(cancelUpdate(f[k - 1], k, filter).state, st)
      BY <2>2, RoundStep
    <2> QED
      BY <1>2, <1>3, <1>5, <2>3
  <1> QED
    BY <1>4, <1>5

LEMMA CancellationHandled ==
    ASSUME NEW st, StateInv(st), NEW c,
           NEW r, r = CancelPendingMetadataUpdatesRequest(st, c), r.ok, r.events # << >>
    PROVE  Keeps(st, r)
  <1> DEFINE m == Len(st.pendings)
  <1>1. PICK f : /\ Rounds(f, m, st, c.filter)
                 /\ CancelPendingMetadataUpdatesRequest(st, c) =
                      IF f[m].events = << >> THEN DeviceRejected(st)
                      ELSE DeviceAccepted(f[m].events, f[m].state)
    BY LoopIs
  <1>2. m \in Nat
    BY UnseenIs
  <1>3. f[m].events # << >> /\ r.state = f[m].state
    BY <1>1 DEF DeviceRejected, DeviceAccepted
  <1>4. st.exists
    <2> SUFFICES ASSUME ~st.exists PROVE FALSE
      OBVIOUS
    <2>1. m = 0
      BY UnseenIs
    <2>2. f[0] = Start(st)
      BY <2>1, <1>1 DEF Rounds
    <2> QED
      BY <1>3, <2>1, <2>2 DEF Start
  <1> HIDE DEF m
  <1>5. Round(r.state, st)
    <2>1. m \in 0 .. m
      BY <1>2
    <2> QED
      BY <1>1, <1>2, <1>3, <1>4, <2>1, RoundsAre
  <1>6. Quiet(st) => Quiet(r.state)
    BY <1>4, <1>5 DEF Round, Quiet
  <1> QED
    BY <1>5, <1>6, ConnectionKept DEF Round

-----------------------------------------------------------------------------
(* Commands.                                                                 *)

LEMMA CommandHandled ==
    ASSUME NEW st, StateInv(st), NEW c \in Command, NEW t \in Nat,
           NEW r, r = DeviceHandleCommand(st, c, t), r.ok, r.events # << >>
    PROVE  Keeps(st, r)
  <1>1. c.type \in {"connection", "expired", "synchronization", "change", "confirm", "cancel"}
    BY DeviceConstants
  <1>2. CASE c.type = "connection"
    BY <1>2, ReportHandled DEF DeviceHandleCommand
  <1>3. CASE c.type = "expired"
    BY <1>3, ExpiryHandled DEF DeviceHandleCommand
  <1>4. CASE c.type = "synchronization"
    BY <1>4, SynchronizationHandled DEF DeviceHandleCommand
  <1>5. CASE c.type = "change"
    BY <1>5, ChangeHandled DEF DeviceHandleCommand
  <1>6. CASE c.type = "confirm"
    BY <1>6, ConfirmationHandled DEF DeviceHandleCommand
  <1>7. CASE c.type = "cancel"
    BY <1>7, CancellationHandled DEF DeviceHandleCommand
  <1> QED
    BY <1>1, <1>2, <1>3, <1>4, <1>5, <1>6, <1>7

-----------------------------------------------------------------------------
(* Invariance.                                                               *)

IInv ==
    /\ version \in -1 .. MaxVersion
    /\ now \in 0 .. MaxTime
    /\ state.exists <=> version >= 0
    /\ StateInv(state)

ServiceInv == Serviced(state)
TwinInv == Quiet(state) \/ EndedByHub

LEMMA Initially ==
    ASSUME Init
    PROVE  IInv /\ ServiceInv /\ TwinInv
  <1> DEFINE new == NewDeviceMetadataSnapshotTaken
  <1>1. state = new /\ version = -1 /\ now = 0
    BY DEF Init
  <1>2. new \in State
    <2>1. new.updated \in Updated
      BY DEF NewDeviceMetadataSnapshotTaken, Updated, Services
    <2>2. new.twin \in Twin
      BY DEF NewDeviceMetadataSnapshotTaken, NoTwin, Twin, TwinState
    <2>3. << >> \in Seq(Pend)
      OBVIOUS
    <2>4. new = [exists |-> FALSE, updated |-> new.updated, twin |-> new.twin, seq |-> 0, pendings |-> << >>]
      BY DEF NewDeviceMetadataSnapshotTaken
    <2>5. PICK u \in Updated, tw \in Twin, l \in Seq(Pend), no \in BOOLEAN :
              u = new.updated /\ tw = new.twin /\ l = << >> /\ no = FALSE
      BY <2>1, <2>2, <2>3, Zenon
    <2>6. [exists |-> no, updated |-> u, twin |-> tw, seq |-> 0, pendings |-> l] \in State
      BY DEF State
    <2> QED
      BY <2>4, <2>5, <2>6, Zenon
  <1>3. ~new.exists /\ ~new.updated.online /\ new.updated.svc = None
    BY DEF NewDeviceMetadataSnapshotTaken
  <1> HIDE DEF new
  <1>4. StateInv(new)
    BY <1>2, <1>3 DEF StateInv, new
  <1>5. Serviced(new) /\ Quiet(new)
    BY <1>3 DEF Serviced, Quiet
  <1>6. version \in -1 .. MaxVersion /\ now \in 0 .. MaxTime /\ ~(version >= 0)
    BY <1>1, DeviceConstants
  <1> QED
    BY <1>1, <1>3, <1>4, <1>5, <1>6 DEF IInv, ServiceInv, TwinInv

(* What a command that leaves a trace does.                                  *)
LEMMA Executed ==
    ASSUME NEW c, Execute(c)
    PROVE  \E t \in 0 .. now, n \in 1 .. MaxEvents :
              /\ DeviceHandleCommand(state, c, t).ok
              /\ n = Len(DeviceHandleCommand(state, c, t).events)
              /\ version' = version + n
              /\ state' = DeviceHandleCommand(state, c, t).state
              /\ log' = log \cup Numbered(DeviceHandleCommand(state, c, t).events, version + 1, n)
              /\ now' = now
  BY DEF Execute

(* A step keeps the device's state, or is a command that leaves a trace.     *)
LEMMA Steps ==
    ASSUME IInv, [DeviceNext]_vars
    PROVE  /\ IInv' /\ log \subseteq log'
           /\ \/ state' = state
              \/ \E r : Keeps(state, r) /\ state' = r.state /\ (ByHub(r.events) => EndedByHub')
  <1>0. /\ version \in -1 .. MaxVersion /\ now \in 0 .. MaxTime /\ now \in Nat
        /\ MaxVersion \in Nat /\ MaxTime \in Nat /\ MaxEvents \in Nat
    BY DeviceConstants DEF IInv
  <1>1. CASE UNCHANGED vars
    BY <1>1 DEF IInv, vars
  <1>2. CASE Tick
    <2>1. now' = now + 1 /\ now < MaxTime /\ UNCHANGED <<version, state, log>>
      BY <1>2 DEF Tick
    <2>2. now' \in 0 .. MaxTime
      BY <1>0, <2>1
    <2> QED
      BY <2>1, <2>2 DEF IInv
  <1>3. ASSUME NEW c \in Command, Execute(c), version' <= MaxVersion
        PROVE  /\ IInv' /\ log \subseteq log'
               /\ \E r : Keeps(state, r) /\ state' = r.state /\ (ByHub(r.events) => EndedByHub')
    <2>1. PICK t \in 0 .. now, n \in 1 .. MaxEvents :
              /\ DeviceHandleCommand(state, c, t).ok
              /\ n = Len(DeviceHandleCommand(state, c, t).events)
              /\ version' = version + n
              /\ state' = DeviceHandleCommand(state, c, t).state
              /\ log' = log \cup Numbered(DeviceHandleCommand(state, c, t).events, version + 1, n)
              /\ now' = now
      BY <1>3, Executed
    <2>2. PICK r : r = DeviceHandleCommand(state, c, t)
      OBVIOUS
    <2>3. /\ r.ok /\ n = Len(r.events) /\ state' = r.state /\ version' = version + n /\ now' = now
          /\ log' = log \cup Numbered(r.events, version + 1, n)
      BY <2>1, <2>2
    <2>4. r.events # << >>
      <3>1. n # 0 /\ Len(<< >>) = 0
        BY <1>0
      <3> QED
        BY <2>3, <3>1
    <2>5. Keeps(state, r)
      <3>1. StateInv(state) /\ t \in Nat
        BY <1>0 DEF IInv
      <3> QED
        BY <2>2, <2>3, <2>4, <3>1, CommandHandled
    <2>6. ByHub(r.events) => EndedByHub'
      <3> SUFFICES ASSUME ByHub(r.events) PROVE EndedByHub'
        OBVIOUS
      <3>1. PICK i \in 1 .. n : r.events[i].type = "updated" /\ r.events[i].updated.user = "service"
        BY <2>3 DEF ByHub
      <3> DEFINE e == [version |-> version + 1 + i - 1, event |-> r.events[i]]
      <3>2. e \in log'
        BY <2>3 DEF Numbered
      <3>3. e.event = r.events[i]
        OBVIOUS
      <3> HIDE DEF e
      <3> QED
        BY <3>1, <3>2, <3>3 DEF EndedByHub
    <2>7. StateInv(state') /\ state'.exists
      BY <2>3, <2>5 DEF Keeps
    <2>8. version' \in -1 .. MaxVersion /\ version' >= 0
      BY <1>0, <1>3, <2>3
    <2>9. IInv'
      BY <1>0, <2>3, <2>7, <2>8 DEF IInv
    <2> QED
      BY <2>3, <2>5, <2>6, <2>9
  <1> QED
    BY <1>1, <1>2, <1>3 DEF DeviceNext

LEMMA Invariance == DeviceSpec => []IInv
  <1>1. Init => IInv
    BY Initially
  <1>2. IInv /\ [DeviceNext]_vars => IInv'
    BY Steps
  <1> QED
    BY <1>1, <1>2, PTL DEF DeviceSpec

-----------------------------------------------------------------------------
(* The theorems.                                                             *)

(* Whatever commands arrive, the connection, the service and the updates a   *)
(* device's status holds are those of commands, and the device is known from *)
(* its first event on (DeviceMetadataSnapshotTaken).                         *)
THEOREM TypeCorrect == DeviceSpec => []TypeOK
  <1>1. IInv => TypeOK
    <2> SUFFICES ASSUME IInv PROVE TypeOK
      OBVIOUS
    <2>1. /\ state.updated \in Updated /\ state.twin \in Twin /\ state.pendings \in Seq(Pend)
          /\ state.exists \in BOOLEAN
      BY UnseenIs DEF IInv
    <2>2. Ids(state.pendings) \subseteq UpdateIds
      BY <2>1, IdsAre
    <2>3. state.updated.id \in Conns \cup {None} /\ state.updated.svc \in Services
      BY <2>1 DEF Updated
    <2>4. state.twin.state \in TwinState /\ state.twin.conn \in Conns \cup {None}
      BY <2>1 DEF Twin
    <2>5. state.exists = (version >= 0)
      BY <2>1 DEF IInv
    <2> QED
      BY <2>2, <2>3, <2>4, <2>5 DEF IInv, TypeOK, Services, TwinState
  <1> QED
    BY <1>1, Invariance, PTL

(* A synchronized twin is that of the device's current connection, whatever  *)
(* reports of earlier connections, confirmations, cancellations and expiries *)
(* of services arrive in whatever order: once a device has been seen, its    *)
(* twin is that of the connection stored last                                *)
(* (updateDeviceConnection, updateDeviceTwinSynchronization).                *)
THEOREM TwinsFollowConnections == DeviceSpec => []TwinOfConnection
  <1>1. IInv => TwinOfConnection
    <2> SUFFICES ASSUME IInv PROVE TwinOfConnection
      OBVIOUS
    <2>1. Synchronizing => state.exists
      BY UnseenIs DEF IInv, Synchronizing
    <2> QED
      BY <2>1 DEF IInv, StateInv, TwinOfConnection
  <1> QED
    BY <1>1, Invariance, PTL

(* Only the connection a device is online over, or the expiry of its         *)
(* service, which names that connection, takes the device offline            *)
(* (getTwinSynchronizationForDisconnectedDevice, updateToOfflineRequest).    *)
THEOREM ConnectionsEndTheirOwn == DeviceSpec => OnlineEndedByOwnConnection
  <1>1. IInv /\ [DeviceNext]_vars =>
          [(state.updated.online /\ ~state'.updated.online)
             => state'.updated.id = state.updated.id]_vars
    <2> SUFFICES ASSUME IInv, [DeviceNext]_vars, state.updated.online, ~state'.updated.online
                 PROVE  state'.updated.id = state.updated.id
      OBVIOUS
    <2>1. PICK r : Keeps(state, r) /\ state' = r.state
      BY Steps
    <2> QED
      BY <2>1 DEF Keeps
  <1> QED
    BY <1>1, Invariance, PTL DEF DeviceSpec, OnlineEndedByOwnConnection

(* Whatever the connections, with or without a service: an offline device is *)
(* stored under no service and an online one under what its own connection   *)
(* has named, so that the expiry of a service finds the devices that are     *)
(* online over it, no others, and, once done, does not find them again       *)
(* (updateDeviceConnection, ServiceID).                                      *)
THEOREM ServicesAreOfConnections == DeviceSpec => []ServiceOfConnection
  <1>1. Init => ServiceInv
    BY Initially
  <1>2. IInv /\ ServiceInv /\ [DeviceNext]_vars => ServiceInv'
    <2> SUFFICES ASSUME IInv, Serviced(state), [DeviceNext]_vars PROVE Serviced(state')
      BY DEF ServiceInv
    <2>1. CASE state' = state
      BY <2>1
    <2>2. CASE \E r : Keeps(state, r) /\ state' = r.state
      BY <2>2 DEF Keeps
    <2> QED
      BY <2>1, <2>2, Steps
  <1>3. ServiceInv => ServiceOfConnection
    BY DEF ServiceInv, Serviced, ServiceOfConnection
  <1> QED
    BY <1>1, <1>2, <1>3, Invariance, PTL DEF DeviceSpec

(* As the report of its end is the last a connection's gateway numbers, the  *)
(* twin of an offline device is never synchronized, however late its reports *)
(* arrive, until the hub itself ends a connection with a number of its own   *)
(* (updateDeviceTwinSynchronization, updateToOfflineRequest).  The invariant *)
(* says more than the twin's state: that no report still to come is newer    *)
(* than the end of the connection.                                           *)
THEOREM SynchronizedTwinsAreOnline ==
    ASSUME EndNumberedLast
    PROVE  DeviceSpec => []SynchronizedIsOnline
  <1>1. Init => TwinInv
    BY Initially
  <1>2. IInv /\ TwinInv /\ [DeviceNext]_vars => TwinInv'
    <2> SUFFICES ASSUME IInv, Quiet(state) \/ EndedByHub, [DeviceNext]_vars
                 PROVE  Quiet(state') \/ EndedByHub'
      BY DEF TwinInv
    <2>1. CASE EndedByHub
      <3>1. log \subseteq log'
        BY Steps
      <3> QED
        BY <2>1, <3>1 DEF EndedByHub
    <2>2. CASE Quiet(state)
      <3>1. CASE state' = state
        BY <2>2, <3>1
      <3>2. CASE \E r : Keeps(state, r) /\ state' = r.state /\ (ByHub(r.events) => EndedByHub')
        BY <2>2, <3>2 DEF Keeps
      <3> QED
        BY <3>1, <3>2, Steps
    <2> QED
      BY <2>1, <2>2
  <1>3. IInv /\ TwinInv => SynchronizedIsOnline
    <2> SUFFICES ASSUME IInv, Quiet(state), Synchronizing PROVE state.updated.online
      BY DEF SynchronizedIsOnline, TwinInv
    <2>1. state.exists
      BY UnseenIs DEF IInv, Synchronizing
    <2> QED
      BY <2>1 DEF Quiet, Synchronizing
  <1> QED
    BY <1>1, <1>2, <1>3, Invariance, PTL DEF DeviceSpec

-----------------------------------------------------------------------------
(* Updates can be answered.                                                  *)

(* What the answers to updates leave in the event store.                     *)
Answer == {UpdatedEvent(u, tw) : u \in Updated, tw \in Twin}

LEMMA DropLength ==
    ASSUME NEW l \in Seq(Pend), NEW id
    PROVE  /\ Len(DropUpdate(l, id)) <= Len(l)
           /\ id \in Ids(l) => Len(DropUpdate(l, id)) = Len(l) - 1
  <1>1. CASE id \notin Ids(l)
    BY <1>1 DEF DropUpdate
  <1>2. CASE id \in Ids(l)
    <2> DEFINE T == {i \in 1 .. Len(l) : l[i].id = id}
               at == FirstWith(id, l)
    <2>1. T \in SUBSET Nat /\ T # {}
      BY <1>2 DEF Ids
    <2>2. PICK x \in T : \A y \in T : x <= y
      BY <2>1, Least
    <2>3. x \in DOMAIN l /\ l[x].id = id /\ \A j \in 1 .. x - 1 : l[j].id # id
      BY <2>2
    <2>4. at \in 1 .. Len(l) /\ Len(l) \in Nat
      BY <2>3 DEF FirstWith
    <2> HIDE DEF at
    <2>5. PICK a \in Seq(Pend), b \in Seq(Pend) :
              a = SubSeq(l, 1, at - 1) /\ b = SubSeq(l, at + 1, Len(l))
      <3>1. SubSeq(l, 1, at - 1) \in Seq(Pend) /\ SubSeq(l, at + 1, Len(l)) \in Seq(Pend)
        BY <2>4
      <3> QED
        BY <3>1, Zenon
    <2>6. Len(a) = at - 1 /\ Len(b) = Len(l) - at
      BY <2>4, <2>5
    <2>7. Len(a \o b) = Len(l) - 1
      BY <2>4, <2>6
    <2>8. DropUpdate(l, id) = a \o b
      BY <1>2, <2>5 DEF DropUpdate, at
    <2> QED
      BY <2>4, <2>7, <2>8
  <1> QED
    BY <1>1, <1>2

(* Whether or not an answer is stored, the update it names stops waiting.    *)
LEMMA Outcome ==
    ASSUME NEW st \in State, NEW u \in Updated, NEW tw \in Twin, NEW sq,
           NEW confirm \in BOOLEAN, NEW inPlace \in BOOLEAN,
           NEW r, r = HandleDeviceMetadataUpdated(st, u, tw, sq, confirm, inPlace), r.ok
    PROVE  r.state.pendings = DropUpdate(st.pendings, u.corr) /\ r.events \in Seq(Answer)
  <1> DEFINE rest == DropUpdate(st.pendings, u.corr)
             same == EqualUpdated(st.updated, u) /\ (inPlace \/ EqualTwin(st.twin, tw))
             found == u.corr \in Ids(st.pendings)
             kept == [st EXCEPT !.pendings = rest]
             new == [exists |-> TRUE, updated |-> u, twin |-> tw, seq |-> sq, pendings |-> rest]
  <1>1. r = CASE confirm /\ ~found -> DeviceRejected(st)
              [] (confirm => found) /\ same -> DeviceAccepted(<< >>, kept)
              [] OTHER -> DeviceAccepted(<<UpdatedEvent(u, tw)>>, new)
    BY DEF HandleDeviceMetadataUpdated
  <1>2. kept.pendings = rest /\ new.pendings = rest
    BY DEF State
  <1> HIDE DEF rest, same, new, found, kept
  <1>3. /\ ~DeviceRejected(st).ok
        /\ DeviceAccepted(<<UpdatedEvent(u, tw)>>, new).events = <<UpdatedEvent(u, tw)>>
        /\ DeviceAccepted(<<UpdatedEvent(u, tw)>>, new).state = new
        /\ DeviceAccepted(<< >>, kept).events = << >>
        /\ DeviceAccepted(<< >>, kept).state = kept
    BY DEF DeviceRejected, DeviceAccepted
  <1>4. << >> \in Seq(Answer) /\ <<UpdatedEvent(u, tw)>> \in Seq(Answer)
    <2>1. PICK a \in Answer : a = UpdatedEvent(u, tw)
      BY DEF Answer
    <2>2. << >> \in Seq(Answer) /\ <<a>> \in Seq(Answer)
      OBVIOUS
    <2> QED
      BY <2>1, <2>2
  <1>5. CASE confirm /\ ~found
    <2>1. r = DeviceRejected(st)
      BY <1>1, <1>5
    <2> QED
      BY <1>3, <2>1
  <1>6. CASE (confirm => found) /\ same
    <2>1. r = DeviceAccepted(<< >>, kept)
      BY <1>1, <1>6
    <2> QED
      BY <1>2, <1>3, <1>4, <2>1 DEF rest
  <1>7. CASE (confirm => found) /\ ~same
    <2>1. r = DeviceAccepted(<<UpdatedEvent(u, tw)>>, new)
      BY <1>1, <1>7
    <2> QED
      BY <1>2, <1>3, <1>4, <2>1 DEF rest
  <1> QED
    BY <1>5, <1>6, <1>7

(* The answer to a waiting update is stored unless the last event has the    *)
(* same correlation id.                                                      *)
LEMMA AnswerStored ==
    ASSUME NEW st \in State, NEW u \in Updated, NEW tw, NEW sq,
           NEW confirm \in BOOLEAN, NEW inPlace \in BOOLEAN,
           u.corr \in Ids(st.pendings), u.corr # st.updated.corr,
           NEW r, r = HandleDeviceMetadataUpdated(st, u, tw, sq, confirm, inPlace)
    PROVE  r.ok /\ r.events # << >>
  <1> DEFINE rest == DropUpdate(st.pendings, u.corr)
             same == EqualUpdated(st.updated, u) /\ (inPlace \/ EqualTwin(st.twin, tw))
             found == u.corr \in Ids(st.pendings)
             kept == [st EXCEPT !.pendings = rest]
             new == [exists |-> TRUE, updated |-> u, twin |-> tw, seq |-> sq, pendings |-> rest]
  <1>1. r = CASE confirm /\ ~found -> DeviceRejected(st)
              [] (confirm => found) /\ same -> DeviceAccepted(<< >>, kept)
              [] OTHER -> DeviceAccepted(<<UpdatedEvent(u, tw)>>, new)
    BY DEF HandleDeviceMetadataUpdated
  <1>2. ~EqualUpdated(st.updated, u)
    <2>1. PICK v \in Updated : v = st.updated
      BY DEF State
    <2>2. v.corr # u.corr
      BY <2>1
    <2>3. ~EqualUpdated(v, u)
      BY <2>2 DEF EqualUpdated, Updated
    <2> QED
      BY <2>1, <2>3
  <1>3. ~same /\ found
    BY <1>2
  <1> HIDE DEF rest, same, new, found, kept
  <1>4. r = DeviceAccepted(<<UpdatedEvent(u, tw)>>, new)
    BY <1>1, <1>3
  <1> QED
    BY <1>4 DEF DeviceAccepted

LEMMA ConfirmationAnswers ==
    ASSUME NEW st, StateInv(st), NEW t \in Nat, NEW id \in Ids(st.pendings),
           id # st.updated.corr, NEW what \in {"enable", "disable", "force"}, NEW conn, NEW seq,
           NEW r, r = DeviceHandleCommand(st, ConfirmTwin(what, id, conn, seq), t)
    PROVE  r.ok /\ Len(r.state.pendings) < Len(st.pendings) /\ r.events # << >>
  <1> DEFINE c == ConfirmTwin(what, id, conn, seq)
             twin == IF st.twin.set THEN st.twin
                     ELSE [NoTwin EXCEPT !.set = TRUE, !.conn = c.conn, !.seq = c.seq]
             state1 == CASE c.what = "force" -> "OUT_OF_SYNC"
                         [] c.what # "force" /\ c.conn # st.twin.conn -> twin.state
                         [] c.what = "enable" /\ c.conn = st.twin.conn ->
                              IF twin.state = "DISABLED" THEN "OUT_OF_SYNC" ELSE twin.state
                         [] c.what = "disable" /\ c.conn = st.twin.conn -> "DISABLED"
             forceAt1 == IF c.what = "force" THEN t ELSE twin.forceAt
             enabled == c.what # "disable"
             u == [st.updated EXCEPT !.twinEnabled = enabled,
                                     !.canceled = FALSE, !.user = "device", !.corr = c.id]
             tw == [twin EXCEPT !.state = state1, !.forceAt = forceAt1]
  <1>0. /\ c.type = "confirm" /\ c.id = id
        /\ st \in State /\ st.updated \in Updated /\ st.twin \in Twin /\ st.pendings \in Seq(Pend)
    BY UnseenIs DEF ConfirmTwin, StateInv
  <1>1. r = confirmDeviceMetadataUpdate(st, c, t)
    BY <1>0 DEF DeviceHandleCommand
  <1>2. r = HandleDeviceMetadataUpdated(st, u, tw, c.seq, TRUE, st.twin.set)
    <2> HIDE DEF c
    <2> QED
      BY <1>1, Zenon DEF confirmDeviceMetadataUpdate
  <1>3. PICK yes \in BOOLEAN, set \in BOOLEAN : yes = TRUE /\ set = st.twin.set
    <2>1. st.twin.set \in BOOLEAN
      BY <1>0 DEF Twin
    <2> QED
      BY <2>1, Zenon
  <1>4. r = HandleDeviceMetadataUpdated(st, u, tw, c.seq, yes, set)
    BY <1>2, <1>3, Zenon
  <1>5. id \in UpdateIds
    BY WaitingSeen
  <1>6. u \in Updated /\ u.corr = id
    <2>1. enabled \in BOOLEAN
      OBVIOUS
    <2> HIDE DEF enabled, c
    <2> QED
      BY <1>0, <1>5, <2>1 DEF Updated
  <1> HIDE DEF u, tw, c
  <1>7. u.corr \in Ids(st.pendings) /\ u.corr # st.updated.corr
    BY <1>6
  <1>8. r.ok /\ r.events # << >>
    BY <1>0, <1>4, <1>6, <1>7, AnswerStored
  <1>9. r.state.pendings = DropUpdate(st.pendings, u.corr)
    <2>1. tw \in Twin
      <3>1. st.twin.set
        BY WaitingSeen
      <3>2. twin = st.twin
        BY <3>1
      <3> HIDE DEF twin
      <3>3. c.what = what
        BY DEF c, ConfirmTwin
      <3>4. state1 \in {twin.state, "OUT_OF_SYNC", "DISABLED"} /\ state1 \in TwinState
        <4>1. state1 \in {twin.state, "OUT_OF_SYNC", "DISABLED"}
          BY <3>3
        <4>2. twin.state \in TwinState
          BY <1>0, <3>2 DEF Twin
        <4> HIDE DEF state1
        <4> QED
          BY <4>1, <4>2 DEF TwinState
      <3>5. forceAt1 \in Nat
        BY <1>0, <3>2 DEF Twin
      <3> HIDE DEF state1, forceAt1
      <3> QED
        BY <1>0, <3>2, <3>4, <3>5 DEF tw, Twin
    <2> QED
      BY <1>0, <1>4, <1>6, <1>8, <2>1, Outcome
  <1>10. Len(DropUpdate(st.pendings, u.corr)) = Len(st.pendings) - 1 /\ Len(st.pendings) \in Nat
    BY <1>0, <1>7, DropLength
  <1> QED
    BY <1>8, <1>9, <1>10

(* A round of the cancellation never brings back an update or takes back an  *)
(* event, and cancels the update its cell names if that one still waits.     *)
LEMMA CancelStep ==
    ASSUME NEW st, NEW b, Round(b.state, st), b.events \in Seq(Answer), NEW i, NEW filter,
           NEW d, d = cancelUpdate(b, i, filter)
    PROVE  /\ d.events \in Seq(Answer) /\ Len(d.events) >= Len(b.events)
           /\ Len(d.state.pendings) <= Len(b.state.pendings)
           /\ (/\ b.array[i].id \in filter /\ b.array[i].id \in Ids(b.state.pendings)
               /\ b.array[i].id # b.state.updated.corr) =>
                 d.events # << >> /\ Len(d.state.pendings) < Len(b.state.pendings)
  <1> DEFINE s == b.state
             id == b.array[i].id
             u == CanceledUpdate(s, id)
             q == HandleDeviceMetadataUpdated(s, u, s.twin, 0, TRUE, TRUE)
             next == [array |-> ShiftLeft(b.array, FirstWith(id, s.pendings), Len(s.pendings)),
                      state |-> q.state, events |-> b.events \o q.events]
  <1>1. d = IF (filter = {} \/ id \in filter) /\ q.ok THEN next ELSE b
    BY DEF cancelUpdate
  <1>2. next.state = q.state /\ next.events = b.events \o q.events
    OBVIOUS
  <1>3. /\ StateInv(s) /\ s \in State /\ s.updated \in Updated /\ s.twin \in Twin
        /\ s.pendings \in Seq(Pend) /\ Len(s.pendings) \in Nat /\ Len(b.events) \in Nat
    <2>1. s.pendings \in Seq(Pend)
      BY UnseenIs DEF Round
    <2>2. Len(s.pendings) \in Nat /\ Len(b.events) \in Nat
      BY <2>1
    <2> QED
      BY <2>1, <2>2, UnseenIs DEF Round, StateInv
  <1>4. PICK r : r = q
    OBVIOUS
  <1>5. PICK yes, tw, zero : yes \in BOOLEAN /\ yes = TRUE /\ tw = s.twin /\ zero = 0
    BY Zenon
  <1>6. r = HandleDeviceMetadataUpdated(s, u, tw, zero, yes, yes) /\ yes /\ yes \in BOOLEAN
    BY <1>4, <1>5, Zenon
  <1> HIDE DEF next, q
  <1>7. u.corr = id
    BY <1>3 DEF CanceledUpdate, Updated
  <1>8. id \in Ids(s.pendings) => u \in Updated
    <2> SUFFICES ASSUME id \in Ids(s.pendings) PROVE u \in Updated
      OBVIOUS
    <2>1. id \in UpdateIds
      BY <1>3, WaitingSeen
    <2> HIDE DEF id, s
    <2> QED
      BY <1>3, <2>1 DEF CanceledUpdate, Updated
  <1> HIDE DEF u, s, id
  <1>9. CASE r.ok
    <2>1. id \in Ids(s.pendings)
      <3>1. u.corr \in Ids(s.pendings)
        BY <1>6, <1>9, StoredNamed
      <3> QED
        BY <1>7, <3>1
    <2>2. r.state.pendings = DropUpdate(s.pendings, id) /\ r.events \in Seq(Answer)
      <3>1. u \in Updated /\ tw \in Twin
        BY <1>3, <1>5, <1>8, <2>1
      <3>2. r.state.pendings = DropUpdate(s.pendings, u.corr) /\ r.events \in Seq(Answer)
        <4>1. /\ s \in State /\ r = HandleDeviceMetadataUpdated(s, u, tw, zero, yes, yes)
              /\ yes \in BOOLEAN
          BY <1>3, <1>6
        <4> QED
          BY <1>9, <3>1, <4>1, Outcome
      <3> QED
        BY <1>7, <3>2
    <2>3. Len(r.state.pendings) = Len(s.pendings) - 1
      BY <1>3, <2>1, <2>2, DropLength
    <2>5. PICK e \in Seq(Answer) : e = r.events
      BY <2>2
    <2>6. PICK f \in Seq(Answer) : f = b.events
      OBVIOUS
    <2>7. f \o e \in Seq(Answer) /\ Len(f \o e) = Len(f) + Len(e) /\ Len(e) \in Nat /\ Len(f) \in Nat
      OBVIOUS
    <2>8. r.events # << >> => f \o e # << >>
      <3>1. e # << >> => Len(f \o e) > 0
        BY <2>7
      <3> QED
        BY <2>5, <3>1
    <2>9. id # s.updated.corr => r.events # << >>
      <3> SUFFICES ASSUME id # s.updated.corr PROVE r.events # << >>
        OBVIOUS
      <3>1. u \in Updated /\ u.corr \in Ids(s.pendings) /\ u.corr # s.updated.corr
        BY <1>7, <1>8, <2>1
      <3> QED
        BY <1>3, <1>6, <3>1, AnswerStored
    <2>10. CASE d = b
      <3>1. ~(id \in filter)
        <4> SUFFICES ASSUME id \in filter PROVE FALSE
          OBVIOUS
        <4>1. b.state.pendings = r.state.pendings
          BY <1>1, <1>2, <1>4, <1>9, <2>10
        <4> QED
          BY <1>3, <2>3, <4>1 DEF s
      <3> QED
        BY <1>3, <2>10, <3>1 DEF s, id
    <2>11. CASE d = next
      <3>1. d.state.pendings = r.state.pendings /\ d.events = f \o e
        BY <1>2, <1>4, <2>5, <2>6, <2>11
      <3>2. Len(d.state.pendings) < Len(s.pendings) /\ Len(d.state.pendings) <= Len(s.pendings)
        BY <1>3, <2>3, <3>1
      <3>3. d.events \in Seq(Answer) /\ Len(d.events) >= Len(b.events)
        BY <2>6, <2>7, <3>1
      <3>4. id # s.updated.corr => d.events # << >>
        BY <2>8, <2>9, <3>1
      <3> QED
        BY <3>2, <3>3, <3>4 DEF s, id
    <2> QED
      BY <1>1, <2>10, <2>11
  <1>10. CASE ~r.ok
    <2>1. d = b
      BY <1>1, <1>4, <1>10
    <2>2. ~(id \in Ids(s.pendings) /\ id # s.updated.corr)
      <3> SUFFICES ASSUME id \in Ids(s.pendings), id # s.updated.corr PROVE FALSE
        OBVIOUS
      <3>1. u \in Updated /\ u.corr \in Ids(s.pendings) /\ u.corr # s.updated.corr
        BY <1>7, <1>8
      <3>2. r.ok
        BY <1>3, <1>6, <3>1, AnswerStored
      <3> QED
        BY <1>10, <3>2
    <2> QED
      BY <1>3, <2>1, <2>2 DEF s, id
  <1> QED
    BY <1>9, <1>10

(* After a round of the cancellation of one update: either nothing has       *)
(* happened and its cell is still to come, or it was cancelled.              *)
Canceling(b, i, st, id) ==
    /\ b.events \in Seq(Answer)
    /\ \/ b = Start(st) /\ \A j \in 1 .. i : st.pendings[j].id # id
       \/ b.events # << >> /\ Len(b.state.pendings) < Len(st.pendings)

LEMMA CancelingStep ==
    ASSUME NEW st, StateInv(st), st.exists, NEW i \in 1 .. Len(st.pendings), NEW b,
           Round(b.state, st), NEW id, id # st.updated.corr, Canceling(b, i - 1, st, id),
           NEW d, d = cancelUpdate(b, i, {id})
    PROVE  Canceling(d, i, st, id)
  <1>0. st.pendings \in Seq(Pend) /\ Len(st.pendings) \in Nat /\ i \in Nat
    BY UnseenIs
  <1>1. /\ d.events \in Seq(Answer) /\ Len(d.events) >= Len(b.events)
        /\ Len(d.state.pendings) <= Len(b.state.pendings)
        /\ (/\ b.array[i].id \in {id} /\ b.array[i].id \in Ids(b.state.pendings)
            /\ b.array[i].id # b.state.updated.corr) =>
              d.events # << >> /\ Len(d.state.pendings) < Len(b.state.pendings)
    BY CancelStep DEF Canceling
  <1>2. CASE b = Start(st) /\ \A j \in 1 .. i - 1 : st.pendings[j].id # id
    <2>1. b.array = st.pendings /\ b.state = st
      BY <1>2 DEF Start
    <2>2. CASE st.pendings[i].id = id
      <3>1. id \in Ids(st.pendings)
        BY <1>0, <2>2 DEF Ids
      <3>2. d.events # << >> /\ Len(d.state.pendings) < Len(st.pendings)
        BY <1>1, <2>1, <2>2, <3>1
      <3> QED
        BY <1>1, <3>2 DEF Canceling
    <2>3. CASE st.pendings[i].id # id
      <3>1. d = b
        BY <2>1, <2>3 DEF cancelUpdate
      <3>2. \A j \in 1 .. i : st.pendings[j].id # id
        BY <1>0, <1>2, <2>3
      <3> QED
        BY <1>1, <1>2, <3>1, <3>2 DEF Canceling
    <2> QED
      BY <2>2, <2>3
  <1>3. CASE b.events # << >> /\ Len(b.state.pendings) < Len(st.pendings)
    <2>1. d.events # << >>
      <3>1. PICK e \in Seq(Answer), f \in Seq(Answer) : e = b.events /\ f = d.events
        BY <1>1 DEF Canceling
      <3>2. Len(e) > 0 /\ Len(f) >= Len(e)
        BY <1>1, <1>3, <3>1
      <3>3. f # << >>
        BY <3>2
      <3> QED
        BY <3>1, <3>3
    <2>2. Len(d.state.pendings) < Len(st.pendings)
      <3>1. b.state.pendings \in Seq(Pend)
        BY UnseenIs DEF Round
      <3>2. d.state.pendings \in Seq(Pend)
        <4>1. Round(d.state, st)
          BY RoundStep
        <4> QED
          BY <4>1, UnseenIs DEF Round
      <3>3. Len(b.state.pendings) \in Nat /\ Len(d.state.pendings) \in Nat
        BY <3>1, <3>2
      <3> QED
        BY <1>0, <1>1, <1>3, <3>3
    <2> QED
      BY <1>1, <2>1, <2>2 DEF Canceling
  <1> QED
    BY <1>2, <1>3 DEF Canceling

LEMMA CancellationAnswers ==
    ASSUME NEW st, StateInv(st), NEW t, NEW id \in Ids(st.pendings), id # st.updated.corr,
           NEW r, r = DeviceHandleCommand(st, CancelUpdates({id}), t)
    PROVE  r.ok /\ Len(r.state.pendings) < Len(st.pendings) /\ r.events # << >>
  <1> DEFINE m == Len(st.pendings)
             c == CancelUpdates({id})
  <1>1. c.type = "cancel" /\ c.filter = {id}
    BY DEF CancelUpdates
  <1> HIDE DEF c
  <1>2. r = CancelPendingMetadataUpdatesRequest(st, c)
    BY <1>1 DEF DeviceHandleCommand, c
  <1>3. PICK f : /\ Rounds(f, m, st, c.filter)
                 /\ CancelPendingMetadataUpdatesRequest(st, c) =
                      IF f[m].events = << >> THEN DeviceRejected(st)
                      ELSE DeviceAccepted(f[m].events, f[m].state)
    BY LoopIs
  <1>4. m \in Nat /\ st.pendings \in Seq(Pend)
    BY UnseenIs
  <1>5. st.exists
    BY WaitingSeen
  <1>6. \A i \in 0 .. m : Round(f[i].state, st)
    BY <1>3, <1>4, <1>5, RoundsAre
  <1>7. \A i \in 0 .. m : f[i] = IF i = 0 THEN Start(st) ELSE cancelUpdate(f[i - 1], i, {id})
    BY <1>1, <1>3 DEF Rounds
  <1>8. Canceling(f[m], m, st, id)
    <2> DEFINE T == {i \in 0 .. m : ~Canceling(f[i], i, st, id)}
    <2> SUFFICES ASSUME T # {} PROVE FALSE
      BY <1>4
    <2>1. PICK k \in T : \A j \in T : k <= j
      <3>1. T \in SUBSET Nat
        OBVIOUS
      <3> QED
        BY <3>1, Least
    <2>2. k \in 0 .. m /\ ~Canceling(f[k], k, st, id)
      OBVIOUS
    <2>3. CASE k = 0
      <3>1. f[k] = Start(st)
        BY <1>7, <2>2, <2>3
      <3>2. Start(st).events = << >> /\ << >> \in Seq(Answer)
        BY DEF Start
      <3>3. Canceling(f[k], k, st, id)
        BY <2>3, <3>1, <3>2 DEF Canceling
      <3> QED
        BY <2>2, <3>3
    <2>4. CASE k # 0
      <3>1. k - 1 \in 0 .. m /\ k - 1 \notin T /\ k \in 1 .. m
        BY <1>4, <2>1, <2>2, <2>4
      <3>2. Canceling(f[k - 1], k - 1, st, id) /\ Round(f[k - 1].state, st)
        BY <1>6, <3>1
      <3>3. PICK b, d : b = f[k - 1] /\ d = f[k]
        OBVIOUS
      <3>4. d = cancelUpdate(b, k, {id})
        BY <1>7, <2>2, <2>4, <3>3
      <3>5. Canceling(d, k, st, id)
        BY <1>5, <3>1, <3>2, <3>3, <3>4, CancelingStep
      <3> QED
        BY <2>2, <3>3, <3>5
    <2> QED
      BY <2>3, <2>4
  <1>9. PICK b : b = f[m]
    OBVIOUS
  <1>10. b.events # << >> /\ Len(b.state.pendings) < m
    <2>1. ~ \A j \in 1 .. m : st.pendings[j].id # id
      BY <1>4 DEF Ids
    <2> QED
      BY <1>8, <1>9, <2>1 DEF Canceling
  <1>11. r = DeviceAccepted(b.events, b.state)
    BY <1>2, <1>3, <1>9, <1>10
  <1>12. r.ok /\ r.events = b.events /\ r.state = b.state
    BY <1>11 DEF DeviceAccepted
  <1> QED
    BY <1>10, <1>12

(* No update is stuck: whatever has happened, a waiting update can be        *)
(* confirmed by the gateway and cancelled by a user, either of which leaves  *)
(* an event, unless the last event has its correlation id                    *)
(* (HandleDeviceMetadataUpdated, CancelPendingMetadataUpdatesRequest).       *)
THEOREM UpdatesAreAnswerable == DeviceSpec => []UpdatesAnswerable
  <1>1. IInv => UpdatesAnswerable
    <2> SUFFICES ASSUME IInv, NEW i \in DOMAIN state.pendings,
                        NEW id, id = state.pendings[i].id, id # state.updated.corr
                 PROVE  /\ \A what \in {"enable", "disable", "force"} :
                             Answers(id, DeviceHandleCommand(
                               state, ConfirmTwin(what, id, state.updated.id, state.seq + 1), now))
                        /\ Answers(id, DeviceHandleCommand(state, CancelUpdates({id}), now))
      BY DEF UpdatesAnswerable
    <2>1. id \in Ids(state.pendings) /\ StateInv(state) /\ now \in Nat
      BY DeviceConstants DEF Ids, IInv
    <2>2. ASSUME NEW what \in {"enable", "disable", "force"}
          PROVE  Answers(id, DeviceHandleCommand(
                   state, ConfirmTwin(what, id, state.updated.id, state.seq + 1), now))
      <3>1. PICK r, conn, seq : /\ conn = state.updated.id /\ seq = state.seq + 1
                                /\ r = DeviceHandleCommand(state, ConfirmTwin(what, id, conn, seq), now)
        OBVIOUS
      <3>2. r.ok /\ Len(r.state.pendings) < Len(state.pendings) /\ r.events # << >>
        BY <2>1, <3>1, ConfirmationAnswers
      <3> QED
        BY <3>1, <3>2 DEF Answers
    <2>3. Answers(id, DeviceHandleCommand(state, CancelUpdates({id}), now))
      <3>1. PICK r : r = DeviceHandleCommand(state, CancelUpdates({id}), now)
        OBVIOUS
      <3>2. r.ok /\ Len(r.state.pendings) < Len(state.pendings) /\ r.events # << >>
        BY <2>1, <3>1, CancellationAnswers
      <3> QED
        BY <3>1, <3>2 DEF Answers
    <2> QED
      BY <2>2, <2>3
  <1> QED
    BY <1>1, Invariance, PTL

-----------------------------------------------------------------------------
(* Updates leave with an answer.                                             *)

Held(l, x) == {i \in 1 .. Len(l) : l[i].id = x}

(* Dropping an update leaves those with another id.                          *)
LEMMA DropCount ==
    ASSUME NEW l \in Seq(Pend), NEW id, NEW x, x # id
    PROVE  Cardinality(Held(DropUpdate(l, id), x)) = Cardinality(Held(l, x))
  <1>1. CASE id \notin Ids(l)
    BY <1>1 DEF DropUpdate
  <1>2. CASE id \in Ids(l)
    <2> DEFINE Q == {i \in 1 .. Len(l) : l[i].id = id}
               at == FirstWith(id, l)
               n == Len(l)
               s == DropUpdate(l, id)
               S == Held(l, x)
               T == Held(s, x)
    <2>1. Q \in SUBSET Nat /\ Q # {}
      BY <1>2 DEF Ids
    <2>2. PICK y \in Q : \A z \in Q : y <= z
      BY <2>1, Least
    <2>3. y \in DOMAIN l /\ l[y].id = id /\ \A j \in 1 .. y - 1 : l[j].id # id
      BY <2>2
    <2>4. at \in 1 .. n /\ n \in Nat /\ l[at].id = id
      BY <2>3 DEF FirstWith
    <2> HIDE DEF at
    <2>5. PICK a \in Seq(Pend), b \in Seq(Pend) :
              a = SubSeq(l, 1, at - 1) /\ b = SubSeq(l, at + 1, n)
      <3>1. SubSeq(l, 1, at - 1) \in Seq(Pend) /\ SubSeq(l, at + 1, n) \in Seq(Pend)
        BY <2>4
      <3> QED
        BY <3>1, Zenon
    <2>6. /\ Len(a) = at - 1 /\ \A j \in 1 .. at - 1 : a[j] = l[j]
          /\ Len(b) = n - at /\ \A j \in 1 .. n - at : b[j] = l[at + j]
      BY <2>4, <2>5
    <2>7. s = a \o b
      BY <1>2, <2>5 DEF DropUpdate, at
    <2> HIDE DEF n, s
    <2>8. Len(s) = n - 1
      BY <2>4, <2>6, <2>7
    <2>9. \A j \in 1 .. n - 1 : s[j] = IF j <= at - 1 THEN a[j] ELSE b[j - (at - 1)]
      BY <2>4, <2>6, <2>7
    <2>10. ASSUME NEW j \in 1 .. n - 1, j < at PROVE s[j] = l[j]
      <3>1. j \in 1 .. at - 1
        BY <2>4, <2>10
      <3> QED
        BY <2>6, <2>9, <3>1
    <2>11. ASSUME NEW j \in 1 .. n - 1, at <= j PROVE s[j] = l[j + 1]
      <3>1. PICK k \in 1 .. n - at : k = j - (at - 1)
        BY <2>4, <2>11
      <3>2. at + k = j + 1 /\ ~(j <= at - 1)
        BY <2>4, <2>11, <3>1
      <3> QED
        BY <2>6, <2>9, <3>1, <3>2
    <2>12. MovedUp(S, T, at, n)
      <3>1. S \in SUBSET (1 .. n) /\ T \in SUBSET (1 .. n - 1)
        BY <2>8 DEF Held, n
      <3>2. ASSUME NEW j \in 1 .. n - 1, j < at PROVE j \in T <=> j \in S
        <4>1. j \in 1 .. n
          BY <2>4
        <4> QED
          BY <2>8, <2>10, <3>2, <4>1 DEF Held, n
      <3>3. ASSUME NEW j \in 1 .. n - 1, at <= j PROVE j \in T <=> j + 1 \in S
        <4>1. j + 1 \in 1 .. n
          BY <2>4
        <4> QED
          BY <2>8, <2>11, <3>3, <4>1 DEF Held, n
      <3> HIDE DEF S, T
      <3> QED
        BY <2>4, <3>1, <3>2, <3>3 DEF MovedUp
    <2>13. at \notin S
      BY <2>4 DEF Held
    <2> HIDE DEF S, T
    <2>14. Cardinality(S) = Cardinality(T)
      BY <2>12, <2>13, Shifted
    <2> QED
      BY <2>14 DEF S, T, s
  <1> QED
    BY <1>1, <1>2

LEMMA HeldFinite ==
    ASSUME NEW l \in Seq(Pend), NEW x
    PROVE  Held(l, x) \in SUBSET (1 .. Len(l)) /\ Cardinality(Held(l, x)) \in Nat
  <1>1. Len(l) \in Nat /\ Held(l, x) \in SUBSET (1 .. Len(l))
    BY DEF Held
  <1> QED
    BY <1>1, PositionsFinite

(* An event that answers the update x.                                       *)
Names(event, x) == event.type = "updated" /\ event.updated.corr = x

(* The commands with at most one event handle it as an answer.               *)
AnswerOf(st, r) ==
    \E u, tw, sq : \E confirm, inPlace \in BOOLEAN :
        r = HandleDeviceMetadataUpdated(st, u, tw, sq, confirm, inPlace)

(* An answer either names x, or leaves the updates x alone and does not make *)
(* x the id of the last event.                                               *)
LEMMA AnswerHeard ==
    ASSUME NEW st \in State, NEW r, AnswerOf(st, r), r.ok, NEW x, x # st.updated.corr
    PROVE  \E u, tw :
             \/ /\ r.events = <<UpdatedEvent(u, tw)>> /\ Names(UpdatedEvent(u, tw), x)
             \/ /\ Cardinality(Held(r.state.pendings, x)) = Cardinality(Held(st.pendings, x))
                /\ r.state.updated.corr # x
  <1>a. PICK u, tw, sq : \E confirm, inPlace \in BOOLEAN :
            r = HandleDeviceMetadataUpdated(st, u, tw, sq, confirm, inPlace)
    BY Zenon DEF AnswerOf
  <1>b. PICK confirm \in BOOLEAN : \E inPlace \in BOOLEAN :
            r = HandleDeviceMetadataUpdated(st, u, tw, sq, confirm, inPlace)
    BY <1>a, Zenon
  <1>c. PICK inPlace \in BOOLEAN : r = HandleDeviceMetadataUpdated(st, u, tw, sq, confirm, inPlace)
    BY <1>b, Zenon
  <1> SUFFICES
        \/ /\ r.events = <<UpdatedEvent(u, tw)>> /\ Names(UpdatedEvent(u, tw), x)
        \/ /\ Cardinality(Held(r.state.pendings, x)) = Cardinality(Held(st.pendings, x))
           /\ r.state.updated.corr # x
    BY Zenon
  <1> DEFINE rest == DropUpdate(st.pendings, u.corr)
             same == EqualUpdated(st.updated, u) /\ (inPlace \/ EqualTwin(st.twin, tw))
             found == u.corr \in Ids(st.pendings)
             kept == [st EXCEPT !.pendings = rest]
             new == [exists |-> TRUE, updated |-> u, twin |-> tw, seq |-> sq, pendings |-> rest]
  <1>1. r = CASE confirm /\ ~found -> DeviceRejected(st)
              [] (confirm => found) /\ same -> DeviceAccepted(<< >>, kept)
              [] OTHER -> DeviceAccepted(<<UpdatedEvent(u, tw)>>, new)
    BY <1>c DEF HandleDeviceMetadataUpdated
  <1>2. /\ kept.pendings = rest /\ kept.updated = st.updated
        /\ new.pendings = rest /\ new.updated = u
    BY DEF State
  <1>3. same => u.corr = st.updated.corr
    <2> SUFFICES ASSUME EqualUpdated(st.updated, u) PROVE u.corr = st.updated.corr
      OBVIOUS
    <2>1. PICK v \in Updated : v = st.updated
      BY DEF State
    <2>2. u = [v EXCEPT !.svc = u.svc, !.at = u.at]
      BY <2>1 DEF EqualUpdated
    <2>3. [v EXCEPT !.svc = u.svc, !.at = u.at].corr = v.corr
      BY DEF Updated
    <2> QED
      BY <2>1, <2>2, <2>3
  <1>4. u.corr # x => Cardinality(Held(rest, x)) = Cardinality(Held(st.pendings, x))
    <2>1. st.pendings \in Seq(Pend)
      BY DEF State
    <2> QED
      BY <2>1, DropCount
  <1>5. u.corr = x => Names(UpdatedEvent(u, tw), x)
    BY DEF Names, UpdatedEvent
  <1> HIDE DEF rest, same, new, found, kept
  <1>6. /\ ~DeviceRejected(st).ok
        /\ DeviceAccepted(<<UpdatedEvent(u, tw)>>, new).events = <<UpdatedEvent(u, tw)>>
        /\ DeviceAccepted(<<UpdatedEvent(u, tw)>>, new).state = new
        /\ DeviceAccepted(<< >>, kept).state = kept
    BY DEF DeviceRejected, DeviceAccepted
  <1>7. CASE confirm /\ ~found
    <2>1. r = DeviceRejected(st)
      BY <1>1, <1>7
    <2> QED
      BY <1>6, <2>1
  <1>8. CASE (confirm => found) /\ same
    <2>1. r = DeviceAccepted(<< >>, kept)
      BY <1>1, <1>8
    <2>2. r.state = kept /\ u.corr # x
      BY <1>3, <1>6, <1>8, <2>1
    <2> QED
      BY <1>2, <1>4, <2>2
  <1>9. CASE (confirm => found) /\ ~same
    <2>1. r = DeviceAccepted(<<UpdatedEvent(u, tw)>>, new)
      BY <1>1, <1>9
    <2>2. r.state = new /\ r.events = <<UpdatedEvent(u, tw)>>
      BY <1>6, <2>1
    <2>3. CASE u.corr = x
      BY <1>5, <2>2, <2>3
    <2>4. CASE u.corr # x
      BY <1>2, <1>4, <2>2, <2>4
    <2> QED
      BY <2>3, <2>4
  <1> QED
    BY <1>7, <1>8, <1>9

LEMMA ConnectionAnswers ==
    ASSUME NEW st, StateInv(st), NEW cmd, NEW user,
           NEW r, r = updateDeviceConnection(st, cmd, user), r.ok
    PROVE  AnswerOf(st, r)
  <1>1. PICK no \in BOOLEAN, set \in BOOLEAN : no = FALSE /\ set = st.twin.set
    <2>1. st.twin.set \in BOOLEAN
      BY UnseenIs DEF Twin
    <2>2. FALSE \in BOOLEAN
      OBVIOUS
    <2> QED
      BY <2>1, <2>2, Zenon
  <1> DEFINE u == [st.updated EXCEPT !.online = cmd.online, !.id = cmd.conn, !.svc = ServiceAfter(st, cmd),
                                     !.at = LaterOf(@, cmd.at), !.canceled = FALSE,
                                     !.user = user, !.corr = None]
             q == HandleDeviceMetadataUpdated(st, u, TwinAfter(st, cmd), cmd.seq, FALSE, st.twin.set)
  <1>2. r = IF MayChangeConnection(st, cmd) THEN q ELSE DeviceRejected(st)
    BY Zenon DEF updateDeviceConnection
  <1>3. ~DeviceRejected(st).ok
    BY DEF DeviceRejected
  <1>4. q = HandleDeviceMetadataUpdated(st, u, TwinAfter(st, cmd), cmd.seq, no, set)
    BY <1>1, Zenon
  <1> HIDE DEF q, u
  <1>5. r = q
    BY <1>2, <1>3
  <1>6. r = HandleDeviceMetadataUpdated(st, u, TwinAfter(st, cmd), cmd.seq, no, set)
    BY <1>4, <1>5, Zenon
  <1> QED
    BY <1>6, Zenon DEF AnswerOf

LEMMA SynchronizationAnswers ==
    ASSUME NEW st, StateInv(st), NEW c,
           NEW r, r = updateDeviceTwinSynchronization(st, c), r.ok, r.events # << >>
    PROVE  AnswerOf(st, r)
  <1>1. PICK no \in BOOLEAN : no = FALSE
    BY Zenon
  <1> DEFINE tw == [st.twin EXCEPT
                      !.state = c.state, !.seq = c.seq, !.forceAt = 0,
                      !.syncingAt = ReportedAt(c, "SYNCING", st.twin.syncingAt),
                      !.inSyncAt = ReportedAt(c, "IN_SYNC", st.twin.inSyncAt)]
             u == [st.updated EXCEPT !.canceled = FALSE, !.user = "device", !.corr = None]
             q == HandleDeviceMetadataUpdated(st, u, tw, c.seq, FALSE, FALSE)
             old == OfTwinConnection(st, c) /\ OutOfSequence(st, c)
             may == OfTwinConnection(st, c) /\ ~OutOfSequence(st, c) /\ MayReport(st, c)
  <1>2. r = CASE old -> DeviceAccepted(<< >>, st)
              [] may -> IF NewsToTwin(st.twin, c) THEN q ELSE DeviceAccepted(<< >>, st)
              [] OTHER -> DeviceRejected(st)
    BY DEF updateDeviceTwinSynchronization
  <1>3. ~DeviceRejected(st).ok /\ DeviceAccepted(<< >>, st).events = << >>
    BY DEF DeviceRejected, DeviceAccepted
  <1>4. q = HandleDeviceMetadataUpdated(st, u, tw, c.seq, no, no)
    BY <1>1, Zenon
  <1>5. ~(old /\ may)
    OBVIOUS
  <1> HIDE DEF q, u, tw, old, may
  <1>6. r = q
    <2>1. CASE old
      BY <1>2, <1>3, <1>5, <2>1
    <2>2. CASE ~old /\ may
      BY <1>2, <1>3, <2>2
    <2>3. CASE ~old /\ ~may
      BY <1>2, <1>3, <2>3
    <2> QED
      BY <2>1, <2>2, <2>3
  <1>7. r = HandleDeviceMetadataUpdated(st, u, tw, c.seq, no, no)
    BY <1>4, <1>6, Zenon
  <1> QED
    BY <1>7, Zenon DEF AnswerOf

LEMMA ConfirmationAnswersOne ==
    ASSUME NEW st, StateInv(st), NEW c, NEW t,
           NEW r, r = confirmDeviceMetadataUpdate(st, c, t)
    PROVE  AnswerOf(st, r)
  <1>1. PICK yes \in BOOLEAN, set \in BOOLEAN : yes = TRUE /\ set = st.twin.set
    <2>1. st.twin.set \in BOOLEAN
      BY UnseenIs DEF Twin
    <2>2. TRUE \in BOOLEAN
      OBVIOUS
    <2> QED
      BY <2>1, <2>2, Zenon
  <1>2. \E u, tw, sq : r = HandleDeviceMetadataUpdated(st, u, tw, sq, TRUE, st.twin.set)
    BY Zenon DEF confirmDeviceMetadataUpdate
  <1>3. \E u, tw, sq : r = HandleDeviceMetadataUpdated(st, u, tw, sq, yes, set)
    BY <1>1, <1>2, Zenon
  <1> QED
    BY <1>3, Zenon DEF AnswerOf

(* A round of the cancellation does nothing or handles one answer.           *)
OneMore(b, d) ==
    \/ d = b
    \/ \E r : /\ AnswerOf(b.state, r) /\ r.ok /\ r.events \in Seq(Answer)
              /\ d.state = r.state /\ d.events = b.events \o r.events

LEMMA CancelAnswers ==
    ASSUME NEW st, NEW b, Round(b.state, st), NEW i, NEW filter,
           NEW d, d = cancelUpdate(b, i, filter)
    PROVE  OneMore(b, d)
  <1> SUFFICES
        \/ d = b
        \/ \E r : /\ AnswerOf(b.state, r) /\ r.ok /\ r.events \in Seq(Answer)
                  /\ d.state = r.state /\ d.events = b.events \o r.events
    BY Zenon DEF OneMore
  <1> DEFINE s == b.state
             id == b.array[i].id
             u == CanceledUpdate(s, id)
             q == HandleDeviceMetadataUpdated(s, u, s.twin, 0, TRUE, TRUE)
             next == [array |-> ShiftLeft(b.array, FirstWith(id, s.pendings), Len(s.pendings)),
                      state |-> q.state, events |-> b.events \o q.events]
  <1>1. d = IF (filter = {} \/ id \in filter) /\ q.ok THEN next ELSE b
    BY DEF cancelUpdate
  <1>2. next.state = q.state /\ next.events = b.events \o q.events
    OBVIOUS
  <1>3. /\ StateInv(s) /\ s \in State /\ s.updated \in Updated /\ s.twin \in Twin
        /\ s.pendings \in Seq(Pend)
    BY UnseenIs DEF Round, StateInv
  <1>4. PICK r : r = q
    OBVIOUS
  <1>5. PICK yes, tw, zero : yes \in BOOLEAN /\ yes = TRUE /\ tw = s.twin /\ zero = 0
    BY Zenon
  <1>6. r = HandleDeviceMetadataUpdated(s, u, tw, zero, yes, yes) /\ yes /\ yes \in BOOLEAN
    BY <1>4, <1>5, Zenon
  <1> HIDE DEF next, q
  <1>7. u.corr = id
    BY <1>3 DEF CanceledUpdate, Updated
  <1>8. id \in Ids(s.pendings) => u \in Updated
    <2> SUFFICES ASSUME id \in Ids(s.pendings) PROVE u \in Updated
      OBVIOUS
    <2>1. id \in UpdateIds
      BY <1>3, WaitingSeen
    <2> HIDE DEF id, s
    <2> QED
      BY <1>3, <2>1 DEF CanceledUpdate, Updated
  <1>9. CASE d = b
    BY <1>9
  <1>10. CASE r.ok /\ d = next
    <2> HIDE DEF u, s, id
    <2>1. u.corr \in Ids(s.pendings)
      BY <1>6, <1>10, StoredNamed
    <2>2. u \in Updated /\ tw \in Twin
      BY <1>3, <1>5, <1>7, <1>8, <2>1
    <2>3. r.events \in Seq(Answer)
      <3>1. /\ s \in State /\ r = HandleDeviceMetadataUpdated(s, u, tw, zero, yes, yes)
            /\ yes \in BOOLEAN
        BY <1>3, <1>6
      <3> QED
        BY <1>10, <2>2, <3>1, Outcome
    <2>4. AnswerOf(s, r)
      BY <1>6, Zenon DEF AnswerOf
    <2>5. d.state = r.state /\ d.events = b.events \o r.events
      BY <1>2, <1>4, <1>10
    <2> QED
      BY <1>10, <2>3, <2>4, <2>5 DEF s
  <1> QED
    BY <1>1, <1>4, <1>9, <1>10

NamesOne(events, x) == \E j \in 1 .. Len(events) : Names(events[j], x)

(* After a round: x was answered, or its updates are all there and it is not *)
(* the id of the last event, so the next round cannot drop one in silence.   *)
Hearing(b, st, x) ==
    /\ b.events \in Seq(Answer)
    /\ \/ NamesOne(b.events, x)
       \/ /\ Cardinality(Held(b.state.pendings, x)) = Cardinality(Held(st.pendings, x))
          /\ b.state.updated.corr # x

LEMMA NamesJoined ==
    ASSUME NEW a \in Seq(Answer), NEW b \in Seq(Answer), NEW x,
           NamesOne(a, x) \/ NamesOne(b, x)
    PROVE  NamesOne(a \o b, x)
  <1>1. /\ Len(a) \in Nat /\ Len(b) \in Nat /\ Len(a \o b) = Len(a) + Len(b)
        /\ \A j \in 1 .. Len(a) + Len(b) : (a \o b)[j] = IF j <= Len(a) THEN a[j] ELSE b[j - Len(a)]
    OBVIOUS
  <1>2. CASE NamesOne(a, x)
    <2>1. PICK j \in 1 .. Len(a) : Names(a[j], x)
      BY <1>2 DEF NamesOne
    <2>2. j \in 1 .. Len(a \o b) /\ (a \o b)[j] = a[j]
      BY <1>1
    <2> QED
      BY <2>1, <2>2 DEF NamesOne
  <1>3. CASE NamesOne(b, x)
    <2>1. PICK j \in 1 .. Len(b) : Names(b[j], x)
      BY <1>3 DEF NamesOne
    <2>2. PICK k : k = Len(a) + j
      OBVIOUS
    <2>3. k \in 1 .. Len(a) + Len(b) /\ ~(k <= Len(a)) /\ k - Len(a) = j
      BY <1>1, <2>2
    <2>4. k \in 1 .. Len(a \o b) /\ (a \o b)[k] = b[j]
      BY <1>1, <2>3
    <2> QED
      BY <2>1, <2>4 DEF NamesOne
  <1> QED
    BY <1>2, <1>3

LEMMA HearingStep ==
    ASSUME NEW st, NEW b, Round(b.state, st), NEW x, Hearing(b, st, x), NEW i, NEW filter,
           NEW d, d = cancelUpdate(b, i, filter)
    PROVE  Hearing(d, st, x)
  <1>1. CASE d = b
    BY <1>1
  <1>2. ASSUME NEW r, AnswerOf(b.state, r), r.ok, r.events \in Seq(Answer),
               d.state = r.state, d.events = b.events \o r.events
        PROVE  Hearing(d, st, x)
    <2>1. PICK e \in Seq(Answer), f \in Seq(Answer) : e = b.events /\ f = r.events
      BY <1>2 DEF Hearing
    <2>2. d.events = e \o f /\ e \o f \in Seq(Answer)
      BY <1>2, <2>1
    <2>3. CASE NamesOne(e, x)
      <3>1. NamesOne(e \o f, x)
        BY <2>3, NamesJoined
      <3> QED
        BY <2>2, <3>1 DEF Hearing
    <2>4. CASE ~NamesOne(e, x)
      <3>1. /\ Cardinality(Held(b.state.pendings, x)) = Cardinality(Held(st.pendings, x))
            /\ b.state.updated.corr # x
        BY <2>1, <2>4 DEF Hearing
      <3>2. PICK s \in State : s = b.state
        BY DEF Round, StateInv
      <3>3. AnswerOf(s, r) /\ r.ok /\ x # s.updated.corr
        BY <1>2, <3>1, <3>2
      <3>4. PICK u, tw :
            \/ /\ r.events = <<UpdatedEvent(u, tw)>> /\ Names(UpdatedEvent(u, tw), x)
            \/ /\ Cardinality(Held(r.state.pendings, x)) = Cardinality(Held(s.pendings, x))
               /\ r.state.updated.corr # x
        BY <3>3, AnswerHeard
      <3>5. CASE r.events = <<UpdatedEvent(u, tw)>> /\ Names(UpdatedEvent(u, tw), x)
        <4>1. Len(f) = 1 /\ f[1] = UpdatedEvent(u, tw)
          BY <2>1, <3>5
        <4>2. NamesOne(f, x)
          BY <3>5, <4>1 DEF NamesOne
        <4>3. NamesOne(e \o f, x)
          BY <4>2, NamesJoined
        <4> QED
          BY <2>2, <4>3 DEF Hearing
      <3>6. CASE /\ Cardinality(Held(r.state.pendings, x)) = Cardinality(Held(s.pendings, x))
                 /\ r.state.updated.corr # x
        BY <1>2, <2>2, <3>1, <3>2, <3>6 DEF Hearing
      <3> QED
        BY <3>4, <3>5, <3>6
    <2> QED
      BY <2>3, <2>4
  <1>3. OneMore(b, d)
    BY CancelAnswers
  <1> QED
    BY <1>1, <1>2, <1>3, Zenon DEF OneMore

LEMMA RoundsHeard ==
    ASSUME NEW st, StateInv(st), st.exists, NEW f, NEW m \in Nat, NEW filter,
           Rounds(f, m, st, filter), NEW x, x # st.updated.corr
    PROVE  \A i \in 0 .. m : Hearing(f[i], st, x)
  <1> DEFINE T == {i \in 0 .. m : ~Hearing(f[i], st, x)}
  <1> SUFFICES ASSUME T # {} PROVE FALSE
    OBVIOUS
  <1>1. PICK k \in T : \A j \in T : k <= j
    <2>1. T \in SUBSET Nat
      OBVIOUS
    <2> QED
      BY <2>1, Least
  <1>2. k \in 0 .. m /\ ~Hearing(f[k], st, x)
    OBVIOUS
  <1>3. f[k] = IF k = 0 THEN Start(st) ELSE cancelUpdate(f[k - 1], k, filter)
    BY <1>2 DEF Rounds
  <1>4. CASE k = 0
    <2>1. f[k].state = st /\ f[k].events = << >>
      BY <1>3, <1>4 DEF Start
    <2>2. f[k].events \in Seq(Answer)
      BY <2>1
    <2>3. Hearing(f[k], st, x)
      BY <2>1, <2>2 DEF Hearing
    <2> QED
      BY <1>2, <2>3
  <1>5. CASE k # 0
    <2>1. k - 1 \in 0 .. m /\ k - 1 \notin T
      BY <1>1, <1>2, <1>5
    <2>2. Hearing(f[k - 1], st, x)
      BY <2>1
    <2>3. Round(f[k - 1].state, st)
      BY <2>1, RoundsAre
    <2>4. Hearing(cancelUpdate(f[k - 1], k, filter), st, x)
      BY <2>2, <2>3, HearingStep
    <2> QED
      BY <1>2, <1>3, <1>5, <2>4
  <1> QED
    BY <1>4, <1>5

(* A command that leaves a trace names x, or leaves as many updates x.       *)
LEMMA CommandHeard ==
    ASSUME NEW st, StateInv(st), NEW c \in Command, NEW t \in Nat,
           NEW r, r = DeviceHandleCommand(st, c, t), r.ok, r.events # << >>,
           NEW x, x # st.updated.corr
    PROVE  \/ NamesOne(r.events, x)
           \/ Cardinality(Held(r.state.pendings, x)) >= Cardinality(Held(st.pendings, x))
  <1>0. st \in State /\ st.pendings \in Seq(Pend) /\ Cardinality(Held(st.pendings, x)) \in Nat
    <2>1. st \in State /\ st.pendings \in Seq(Pend)
      BY UnseenIs DEF StateInv
    <2> QED
      BY <2>1, HeldFinite
  <1>1. c.type \in {"connection", "expired", "synchronization", "change", "confirm", "cancel"}
    BY DeviceConstants
  <1>2. ASSUME AnswerOf(st, r)
        PROVE  \/ NamesOne(r.events, x)
               \/ Cardinality(Held(r.state.pendings, x)) >= Cardinality(Held(st.pendings, x))
    <2>1. st \in State
      BY <1>0
    <2>2. PICK u, tw :
          \/ /\ r.events = <<UpdatedEvent(u, tw)>> /\ Names(UpdatedEvent(u, tw), x)
          \/ /\ Cardinality(Held(r.state.pendings, x)) = Cardinality(Held(st.pendings, x))
             /\ r.state.updated.corr # x
      BY <1>2, <2>1, AnswerHeard
    <2>3. CASE r.events = <<UpdatedEvent(u, tw)>> /\ Names(UpdatedEvent(u, tw), x)
      <3>1. Len(r.events) = 1 /\ r.events[1] = UpdatedEvent(u, tw)
        BY <2>3
      <3> QED
        BY <2>3, <3>1 DEF NamesOne
    <2>4. CASE Cardinality(Held(r.state.pendings, x)) = Cardinality(Held(st.pendings, x))
      BY <1>0, <2>4
    <2> QED
      BY <2>2, <2>3, <2>4
  <1>3. CASE c.type = "connection"
    <2>1. r = updateDeviceConnection(st, c, "device")
      BY <1>3 DEF DeviceHandleCommand
    <2> QED
      BY <1>2, <2>1, ConnectionAnswers
  <1>4. CASE c.type = "expired"
    <2>1. r = updateToOfflineRequest(st, c)
      BY <1>4 DEF DeviceHandleCommand
    <2>2. PICK d : d = Disconnect(st.updated.id, st.seq + 1)
      OBVIOUS
    <2>3. r = updateDeviceConnection(st, d, "service")
      BY <2>1, <2>2 DEF updateToOfflineRequest, DeviceAccepted
    <2> QED
      BY <1>2, <2>3, ConnectionAnswers
  <1>5. CASE c.type = "synchronization"
    <2>1. r = updateDeviceTwinSynchronization(st, c)
      BY <1>5 DEF DeviceHandleCommand
    <2> QED
      BY <1>2, <2>1, SynchronizationAnswers
  <1>6. CASE c.type = "change"
    <2> DEFINE p == [id |-> c.id, validUntil |-> IF c.ttl = 0 THEN 0 ELSE t + c.ttl]
    <2>1. r = updateDeviceTwin(st, c, t)
      BY <1>6 DEF DeviceHandleCommand
    <2>2. r.state = [st EXCEPT !.exists = TRUE, !.seq = 0, !.pendings = Append(st.pendings, p)]
      BY <2>1 DEF updateDeviceTwin, HandleDeviceMetadataUpdatePending, DeviceAccepted, DeviceRejected
    <2> HIDE DEF p
    <2>3. r.state.pendings = Append(st.pendings, p)
      BY <1>0, <2>2 DEF State
    <2> DEFINE n == Len(st.pendings)
               s == Append(st.pendings, p)
               S == Held(st.pendings, x)
               T == Held(s, x)
    <2>4. n \in Nat /\ Len(s) = n + 1 /\ \A j \in 1 .. n : s[j] = st.pendings[j]
      BY <1>0
    <2> HIDE DEF n, s
    <2>5. S \in SUBSET (1 .. n) /\ T \in SUBSET (1 .. n + 1)
      BY <2>4 DEF Held, n
    <2>6. \A j \in 1 .. n : j \in T <=> j \in S
      <3>1. \A j \in 1 .. n : j \in 1 .. n + 1
        BY <2>4
      <3> QED
        BY <2>4, <3>1 DEF Held, n
    <2>7. Cardinality(S) \in Nat
      BY <1>0
    <2> HIDE DEF S, T
    <2>8. Cardinality(T) = IF n + 1 \in T THEN Cardinality(S) + 1 ELSE Cardinality(S)
      BY <2>4, <2>5, <2>6, Extended
    <2>9. Cardinality(T) >= Cardinality(S)
      BY <2>7, <2>8
    <2> QED
      BY <2>3, <2>9 DEF S, T, s
  <1>7. CASE c.type = "confirm"
    <2>1. r = confirmDeviceMetadataUpdate(st, c, t)
      BY <1>7 DEF DeviceHandleCommand
    <2> QED
      BY <1>2, <2>1, ConfirmationAnswersOne
  <1>8. CASE c.type = "cancel"
    <2>1. r = CancelPendingMetadataUpdatesRequest(st, c)
      BY <1>8 DEF DeviceHandleCommand
    <2> DEFINE m == Len(st.pendings)
    <2>2. PICK f : /\ Rounds(f, m, st, c.filter)
                   /\ CancelPendingMetadataUpdatesRequest(st, c) =
                        IF f[m].events = << >> THEN DeviceRejected(st)
                        ELSE DeviceAccepted(f[m].events, f[m].state)
      BY LoopIs
    <2>3. m \in Nat /\ m \in 0 .. m
      BY <1>0
    <2>4. f[m].events # << >> /\ r.state = f[m].state /\ r.events = f[m].events
      BY <2>1, <2>2 DEF DeviceRejected, DeviceAccepted
    <2>5. st.exists
      <3> SUFFICES ASSUME ~st.exists PROVE FALSE
        OBVIOUS
      <3>1. m = 0
        BY UnseenIs
      <3>2. f[0] = Start(st)
        BY <2>2, <3>1 DEF Rounds
      <3> QED
        BY <2>4, <3>1, <3>2 DEF Start
    <2> HIDE DEF m
    <2>6. Hearing(f[m], st, x)
      BY <2>2, <2>3, <2>5, RoundsHeard
    <2> QED
      BY <1>0, <2>4, <2>6 DEF Hearing
  <1> QED
    BY <1>1, <1>3, <1>4, <1>5, <1>6, <1>7, <1>8

(* Events are numbered beyond those in the log, so a new one is not among    *)
(* them.                                                                     *)
LogInv == \A e \in log : e.version \in Int /\ e.version <= version

LEMMA HeardStep ==
    ASSUME IInv, LogInv, [DeviceNext]_vars
    PROVE  /\ LogInv'
           /\ \A id : (id # state.updated.corr /\ Cardinality(Waiting(id)') < Cardinality(Waiting(id))) =>
                        \E e \in log' \ log : e.event.type = "updated" /\ e.event.updated.corr = id
  <1>0. /\ version \in Int /\ now \in 0 .. MaxTime /\ now \in Nat
        /\ MaxTime \in Nat /\ MaxEvents \in Nat
        /\ StateInv(state) /\ state.pendings \in Seq(Pend)
    BY DeviceConstants, UnseenIs DEF IInv
  <1>1. IInv'
    BY Steps
  <1>2. ASSUME NEW id PROVE Waiting(id) = Held(state.pendings, id) /\ Cardinality(Waiting(id)) \in Nat
    <2>1. DOMAIN state.pendings = 1 .. Len(state.pendings)
      BY <1>0
    <2>2. Waiting(id) = Held(state.pendings, id)
      BY <2>1 DEF Waiting, Held
    <2>3. Cardinality(Held(state.pendings, id)) \in Nat
      BY <1>0, HeldFinite
    <2> QED
      BY <2>2, <2>3, Zenon
  <1>3. CASE UNCHANGED <<state, log, version>>
    <2>1. ASSUME NEW id PROVE Waiting(id)' = Waiting(id)
      BY <1>3 DEF Waiting
    <2>2. ASSUME NEW id PROVE ~(Cardinality(Waiting(id)') < Cardinality(Waiting(id)))
      <3>1. Cardinality(Waiting(id)') = Cardinality(Waiting(id))
        BY <2>1, Zenon
      <3> QED
        BY <1>2, <3>1
    <2> QED
      BY <1>3, <2>2 DEF LogInv
  <1>4. ASSUME NEW c \in Command, Execute(c)
        PROVE  /\ LogInv'
               /\ \A id : (id # state.updated.corr /\ Cardinality(Waiting(id)') < Cardinality(Waiting(id))) =>
                            \E e \in log' \ log : e.event.type = "updated" /\ e.event.updated.corr = id
    <2>1. PICK t \in 0 .. now, n \in 1 .. MaxEvents :
              /\ DeviceHandleCommand(state, c, t).ok
              /\ n = Len(DeviceHandleCommand(state, c, t).events)
              /\ version' = version + n
              /\ state' = DeviceHandleCommand(state, c, t).state
              /\ log' = log \cup Numbered(DeviceHandleCommand(state, c, t).events, version + 1, n)
              /\ now' = now
      BY <1>4, Executed
    <2>2. PICK r : r = DeviceHandleCommand(state, c, t)
      OBVIOUS
    <2>3. /\ r.ok /\ n = Len(r.events) /\ state' = r.state /\ version' = version + n
          /\ log' = log \cup Numbered(r.events, version + 1, n)
      BY <2>1, <2>2
    <2>4. n \in Nat /\ n > 0 /\ t \in Nat
      BY <1>0
    <2>5. r.events # << >>
      <3>1. Len(<< >>) = 0
        OBVIOUS
      <3> QED
        BY <2>3, <2>4, <3>1
    <2> DEFINE entry(i) == [version |-> version + 1 + i - 1, event |-> r.events[i]]
    <2>6. log' = log \cup {entry(i) : i \in 1 .. n}
      BY <2>3 DEF Numbered
    <2>7. ASSUME NEW i \in 1 .. n
          PROVE  /\ entry(i).version \in Int /\ entry(i).version > version
                 /\ entry(i).version <= version' /\ entry(i).event = r.events[i]
      BY <1>0, <2>3, <2>4
    <2> HIDE DEF entry
    <2>8. LogInv'
      <3> SUFFICES ASSUME NEW e \in log' PROVE e.version \in Int /\ e.version <= version'
        BY DEF LogInv
      <3>1. CASE e \in log
        BY <1>0, <2>3, <2>4, <3>1 DEF LogInv
      <3>2. CASE e \notin log
        BY <2>6, <2>7, <3>2
      <3> QED
        BY <3>1, <3>2
    <2>9. ASSUME NEW id, id # state.updated.corr, Cardinality(Waiting(id)') < Cardinality(Waiting(id))
          PROVE  \E e \in log' \ log : e.event.type = "updated" /\ e.event.updated.corr = id
      <3>1. \/ NamesOne(r.events, id)
            \/ Cardinality(Held(r.state.pendings, id)) >= Cardinality(Held(state.pendings, id))
        BY <1>0, <2>2, <2>3, <2>4, <2>5, <2>9, CommandHeard
      <3>2. r.state.pendings \in Seq(Pend)
        BY <1>1, <2>3, UnseenIs DEF IInv
      <3>3. Waiting(id)' = Held(r.state.pendings, id)
        <4>1. DOMAIN r.state.pendings = 1 .. Len(r.state.pendings)
          BY <3>2
        <4> QED
          BY <2>3, <4>1 DEF Waiting, Held
      <3>4. Cardinality(Held(r.state.pendings, id)) \in Nat
        BY <3>2, HeldFinite
      <3>5. Cardinality(Held(r.state.pendings, id)) < Cardinality(Held(state.pendings, id))
        BY <1>2, <2>9, <3>3, Zenon
      <3>6. Cardinality(Held(state.pendings, id)) \in Nat
        BY <1>0, HeldFinite
      <3>7. NamesOne(r.events, id)
        BY <3>1, <3>4, <3>5, <3>6
      <3>8. PICK i \in 1 .. n : Names(r.events[i], id)
        BY <2>3, <3>7 DEF NamesOne
      <3>9. entry(i) \in log' /\ entry(i) \notin log
        <4>1. entry(i) \in log'
          BY <2>6
        <4>2. ~(entry(i).version <= version)
          BY <1>0, <2>7
        <4> QED
          BY <4>1, <4>2 DEF LogInv
      <3> QED
        BY <2>7, <3>8, <3>9 DEF Names
    <2> QED
      BY <2>8, <2>9
  <1> QED
    BY <1>3, <1>4 DEF DeviceNext, Tick, vars

(* An update of the twin's settings leaves the list only with an event that  *)
(* names it, whoever confirms or cancels it and however many are cancelled   *)
(* while the list shifts under the loop; only an update with the id of the   *)
(* last event may go in silence (CancelPendingMetadataUpdatesRequest,        *)
(* HandleDeviceMetadataUpdated).                                             *)
THEOREM UpdatesLeaveWithAnswer == DeviceSpec => UpdatesLeaveAnswered
  <1>1. Init => LogInv
    BY DEF Init, LogInv
  <1>2. IInv /\ LogInv /\ [DeviceNext]_vars => LogInv'
    BY HeardStep
  <1>3. IInv /\ LogInv /\ [DeviceNext]_vars =>
          [\A id \in UpdateIds :
             (id # state.updated.corr /\ Cardinality(Waiting(id)') < Cardinality(Waiting(id))) =>
               \E e \in log' \ log : e.event.type = "updated" /\ e.event.updated.corr = id]_vars
    BY HeardStep
  <1> QED
    BY <1>1, <1>2, <1>3, Invariance, PTL DEF DeviceSpec, UpdatesLeaveAnswered
=============================================================================
