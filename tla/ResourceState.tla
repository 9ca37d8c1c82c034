---------------------------- MODULE ResourceState ----------------------------
(***************************************************************************)
(* The rules of one resource's aggregate: events.ResourceStateSnapshotTaken *)
(* of the resource-aggregate service.  A state is what the snapshot event   *)
(* holds: the latest accepted change of the resource and, for each of the   *)
(* four commands a device executes, the list of requests it has not         *)
(* answered yet.  A command is judged against a state at a time `now` and   *)
(* yields the events to store and the state after them.                     *)
(*                                                                          *)
(* Data are abstracted: a content stands for everything                     *)
(* ResourceChanged.Equal compares; resource types, audit and trace fields   *)
(* are left out.                                                            *)
(***************************************************************************)
EXTENDS Integers, Sequences

Kind == {"create", "update", "retrieve", "delete"}

\* A resource nobody has heard of: no content, nothing pending.
NoChange == [conn |-> "none", seq |-> 0, content |-> "none"]
NewResourceStateSnapshotTaken ==
  [latest |-> NoChange, pendings |-> [k \in Kind |-> << >>]]

----------------------------------------------------------------------------
(* Commands, as the gRPC requests carry them *)

Notify(conn, seq, content) ==
  [type |-> "notify", conn |-> conn, seq |-> seq, content |-> content]
\* convertible: can the content be re-encoded to the resource's content type?
Request(kind, id, ttl, force, convertible) ==
  [type |-> "request", kind |-> kind, id |-> id, ttl |-> ttl, force |-> force,
   convertible |-> convertible]
Confirm(kind, id, status) ==
  [type |-> "confirm", kind |-> kind, id |-> id, status |-> status]
\* An empty filter names every pending command.
Cancel(filter) == [type |-> "cancel", filter |-> filter]

Accepted(events, state) == [ok |-> TRUE, events |-> events, state |-> state]
Rejected(state) == [ok |-> FALSE, events |-> << >>, state |-> state]

----------------------------------------------------------------------------
(* Requests waiting for the device *)

timeToLive2ValidUntil(ttl, now) == IF ttl = 0 THEN 0 ELSE now + ttl

IsExpired(p, now) == p.validUntil # 0 /\ now > p.validUntil

\* Mutant: pending deletions are not searched.
DuplicityIgnoresDeletes(state, id, now) ==
  \A k \in Kind \ {"delete"} : \A i \in DOMAIN state.pendings[k] :
    LET p == state.pendings[k][i] IN IsExpired(p, now) \/ p.id # id

\* A correlation id may be used again once the request it named has expired.
checkForDuplicityCorrelationID(state, id, now) ==
  \A k \in Kind : \A i \in DOMAIN state.pendings[k] :
    LET p == state.pendings[k][i] IN IsExpired(p, now) \/ p.id # id

handleEventPending(state, kind, p) ==
  [state EXCEPT !.pendings[kind] = Append(@, p)]

\* The first of the n live entries with this id, 0 if there is none.
findResourceOperationPendingIndex(id, pendings, n) ==
  IF \E i \in 1 .. n : pendings[i].id = id
  THEN CHOOSE i \in 1 .. n : /\ pendings[i].id = id
                             /\ \A j \in 1 .. i - 1 : pendings[j].id # id
  ELSE 0

\* append(p[:i], p[i+1:]...): the backing array keeps its length and its last
\* live cell; the slice's length, kept by the caller, drops by one.
RemoveInPlace(array, i, n) ==
  [j \in DOMAIN array |-> IF i <= j /\ j < n THEN array[j + 1] ELSE array[j]]

\* Mutant: the last request goes instead of the confirmed one.
RemoveLast(pendings, i) == SubSeq(pendings, 1, Len(pendings) - 1)

RemovePending(pendings, i) ==
  SubSeq(RemoveInPlace(pendings, i, Len(pendings)), 1, Len(pendings) - 1)

----------------------------------------------------------------------------
(* Answers to requests *)

DeletesResource(kind, status) == kind = "delete" /\ status \in {"OK", "ACCEPTED"}

HasPending(state, kind, id) ==
  findResourceOperationPendingIndex(id, state.pendings[kind], Len(state.pendings[kind])) > 0

ConfirmedEvent(kind, id, status) ==
  [type |-> "confirmed", kind |-> kind, id |-> id, status |-> status]

\* A successful deletion drops every pending request of the resource, asked
\* for or not; any other answer must find the request it answers.
confirmResourceRequest(state, cmd) ==
  LET list == state.pendings[cmd.kind]
      at == findResourceOperationPendingIndex(cmd.id, list, Len(list))
      event == ConfirmedEvent(cmd.kind, cmd.id, cmd.status)
  IN CASE DeletesResource(cmd.kind, cmd.status) ->
            Accepted(<<event>>, [state EXCEPT !.pendings = [k \in Kind |-> << >>]])
       [] ~DeletesResource(cmd.kind, cmd.status) /\ at > 0 ->
            Accepted(<<event>>, [state EXCEPT !.pendings[cmd.kind] = RemovePending(@, at)])
       [] OTHER -> Rejected(state)

----------------------------------------------------------------------------
(* Cancelling pending requests *)

\* Does the filter of a cancel command name this id?
Selects(filter, id) == filter = {} \/ id \in filter

\* Cancels the request the i-th cell of the array names now, if it is live.
cancelPending(before, i, filter) ==
  LET id == before.array[i].id
      at == findResourceOperationPendingIndex(id, before.array, before.n)
  IN IF Selects(filter, id) /\ at > 0
     THEN [array |-> RemoveInPlace(before.array, at, before.n),
           n |-> before.n - 1,
           ids |-> Append(before.ids, id)]
     ELSE before

\* One list.  `range` fixes the slice (array and length) once; each
\* confirmation it triggers shifts the same array under the running loop.
cancelResourcePendings(list, filter) ==
  LET loop[i \in 0 .. Len(list)] ==
        IF i = 0 THEN [array |-> list, n |-> Len(list), ids |-> << >>]
        ELSE cancelPending(loop[i - 1], i, filter)
      done == loop[Len(list)]
  IN [left |-> SubSeq(done.array, 1, done.n), ids |-> done.ids]

CancelPendingCommandsRequest(state, cmd) ==
  LET run == [k \in Kind |-> cancelResourcePendings(state.pendings[k], cmd.filter)]
      canceled(k) == [i \in DOMAIN run[k].ids |-> ConfirmedEvent(k, run[k].ids[i], "CANCELED")]
      events == canceled("create") \o canceled("update")
                  \o canceled("retrieve") \o canceled("delete")
  IN IF events = << >>
     THEN Rejected(state)
     ELSE Accepted(events, [state EXCEPT !.pendings = [k \in Kind |-> run[k].left]])

----------------------------------------------------------------------------
(* Content of the resource *)

\* Mutant: an equal sequence number passes.
SequenceMayRepeat(latest, change) ==
  latest.conn # change.conn \/ latest.seq <= change.seq

ValidateSequence(latest, change) ==
  latest.conn # change.conn \/ latest.seq < change.seq

handleNotifyResourceChangedRequest(state, cmd) ==
  LET change == [conn |-> cmd.conn, seq |-> cmd.seq, content |-> cmd.content]
  IN IF \/ state.latest = NoChange
        \/ /\ ValidateSequence(state.latest, change)
           /\ state.latest.content # change.content
     THEN Accepted(<<[type |-> "changed", change |-> change]>>, [state EXCEPT !.latest = change])
     ELSE Accepted(<< >>, state)

----------------------------------------------------------------------------
(* Requests *)

\* Update and create first re-encode the content to the content type of the
\* latest change, if there is one; retrieve and delete have no content.
handleResourceRequest(state, cmd, now) ==
  LET p == [id |-> cmd.id, validUntil |-> timeToLive2ValidUntil(cmd.ttl, now)]
      event == [type |-> "pending", kind |-> cmd.kind, id |-> cmd.id, validUntil |-> p.validUntil]
  IN IF /\ (cmd.kind \in {"create", "update"} /\ state.latest # NoChange) => cmd.convertible
        /\ checkForDuplicityCorrelationID(state, cmd.id, now)
     THEN Accepted(<<event>>, handleEventPending(state, cmd.kind, p))
     ELSE Rejected(state)

\* Retrieve requests do not count here, so they cannot be cancelled for a
\* resource without content.
validateCancelPendingCommandsForNotExistingResource(state, cmd) ==
  \E k \in Kind \ {"retrieve"} : \E i \in DOMAIN state.pendings[k] :
    Selects(cmd.filter, state.pendings[k][i].id)

\* Mutant: requests of every kind pass, forced or not.
ForceNotChecked(state, cmd) ==
  \/ state.latest # NoChange
  \/ cmd.type \in {"notify", "request"}
  \/ /\ cmd.type = "confirm" /\ cmd.kind # "retrieve"
     /\ DeletesResource(cmd.kind, cmd.status) \/ HasPending(state, cmd.kind, cmd.id)
  \/ cmd.type = "cancel" /\ validateCancelPendingCommandsForNotExistingResource(state, cmd)

\* What a resource that never reported its content accepts.
validateCommandForNotExistingResource(state, cmd) ==
  \/ state.latest # NoChange
  \/ cmd.type = "notify"
  \/ cmd.type = "request" /\ cmd.kind # "retrieve" /\ cmd.force
  \/ /\ cmd.type = "confirm" /\ cmd.kind # "retrieve"
     /\ DeletesResource(cmd.kind, cmd.status) \/ HasPending(state, cmd.kind, cmd.id)
  \/ cmd.type = "cancel" /\ validateCancelPendingCommandsForNotExistingResource(state, cmd)

ResourceHandleCommand(state, cmd, now) ==
  IF ~validateCommandForNotExistingResource(state, cmd)
  THEN Rejected(state)
  ELSE CASE cmd.type = "notify" -> handleNotifyResourceChangedRequest(state, cmd)
         [] cmd.type = "request" -> handleResourceRequest(state, cmd, now)
         [] cmd.type = "confirm" -> confirmResourceRequest(state, cmd)
         [] cmd.type = "cancel" -> CancelPendingCommandsRequest(state, cmd)

\* Only these requests carry the force flag that wantToPublish looks at.
ResourceForced(cmd) == cmd.type = "request" /\ cmd.kind # "retrieve" /\ cmd.force
=============================================================================
