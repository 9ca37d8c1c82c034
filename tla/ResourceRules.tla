---------------------------- MODULE ResourceRules ----------------------------
(***************************************************************************)
(* The aggregate of one resource under arbitrary sequences of commands:     *)
(* LinearAggregate with the rules of ResourceState, and what those rules    *)
(* guarantee about requests, answers and content.                           *)
(***************************************************************************)
EXTENDS ResourceState, FiniteSets

CONSTANTS Command,    \* the commands callers may send
          MaxEvents,  \* the most events one command can produce
          MaxTime,    \* the clock stops here
          MaxVersion  \* commands stop once a version would exceed this

\* What the gRPC requests can hold; "none" is the connection of no change.
ASSUME RulesConstants ==
  /\ MaxEvents \in Nat /\ MaxTime \in Nat /\ MaxVersion \in Nat
  /\ \A c \in Command :
       \/ c.type = "notify" /\ c.conn # NoChange.conn /\ c.seq \in Nat
       \/ c.type = "request" /\ c.kind \in Kind /\ c.ttl \in Nat
       \/ c.type = "confirm" /\ c.kind \in Kind
       \/ c.type = "cancel"

VARIABLES version, state, log, now, deletes

INSTANCE LinearAggregate
  WITH InitialState <- NewResourceStateSnapshotTaken, HandleCommand <- ResourceHandleCommand

RulesNext == Tick \/ \E c \in Command : Execute(c) /\ version' <= MaxVersion

RulesSpec == Init /\ [][RulesNext]_vars

Pending == [id : {c.id : c \in {d \in Command : d.type = "request"}}, validUntil : Nat]

(* Type invariant: the snapshot's content is a change some device sent, its *)
(* lists hold requests, and versions are those of the events stored.        *)
TypeOK ==
  /\ version \in -1 .. MaxVersion
  /\ now \in 0 .. MaxTime
  /\ state.pendings \in [Kind -> Seq(Pending)]
  /\ state.latest \in {NoChange} \cup
       {[conn |-> c.conn, seq |-> c.seq, content |-> c.content] :
          c \in {d \in Command : d.type = "notify"}}
  /\ {e.version : e \in log} = 0 .. version

----------------------------------------------------------------------------
(* Requests and answers *)

Waiting(kind, id) == {i \in DOMAIN state.pendings[kind] : state.pendings[kind][i].id = id}

\* The version of the last successful deletion of the resource, -1 if none.
LastDeletion ==
  LET deletions == {e.version : e \in {f \in log :
                      /\ f.event.type = "confirmed"
                      /\ DeletesResource(f.event.kind, f.event.status)}}
  IN CHOOSE v \in deletions \cup {-1} : \A w \in deletions : w <= v

Since(type, kind, id) ==
  {e \in log : /\ e.version > LastDeletion
               /\ e.event.type = type
               /\ e.event.kind = kind
               /\ e.event.id = id}

(* Every request is accounted for.  Since the resource was last deleted     *)
(* (which drops all requests), the requests stored under an id are exactly  *)
(* the ones answered plus the ones still waiting: no confirmation, retry,   *)
(* expiry or cancellation in any order loses a request or answers it twice, *)
(* although cancelling shifts the lists it iterates over                    *)
(* (handleEventResource{Created,Updated,Retrieved,Deleted}).                *)
RequestsAccountedFor ==
  \A k \in Kind : \A id \in {c.id : c \in {d \in Command : d.type = "request"}} :
    Cardinality(Since("pending", k, id))
      = Cardinality(Since("confirmed", k, id)) + Cardinality(Waiting(k, id))

(* Two requests that have not expired never share a correlation id, in      *)
(* whichever of the four lists they wait: an answer names one request       *)
(* (checkForDuplicityCorrelationID looks through all lists).                *)
LiveIdsUnique ==
  \A k1, k2 \in Kind :
    \A i \in DOMAIN state.pendings[k1], j \in DOMAIN state.pendings[k2] :
      LET p == state.pendings[k1][i]
          q == state.pendings[k2][j]
      IN (p.id = q.id /\ <<k1, i>> # <<k2, j>>) => IsExpired(p, now) \/ IsExpired(q, now)

(* No request is stuck: the device's refusal of any waiting request, and a  *)
(* user's cancellation of it, are accepted in every reachable state, also   *)
(* for a resource that has no content yet                                   *)
(* (validateCommandForNotExistingResource ignores retrieve requests).       *)
PendingsAnswerable ==
  \A k \in Kind : \A i \in DOMAIN state.pendings[k] :
    LET id == state.pendings[k][i].id
    IN /\ ResourceHandleCommand(state, Confirm(k, id, "ERROR"), now).ok
       /\ ResourceHandleCommand(state, Cancel({id}), now).ok

(* Cancelling with an empty filter leaves nothing pending, as the comment   *)
(* on correlation_id_filter says ("empty array means all").                 *)
CancelAllCancelsAll ==
  [][(\E c \in Command : c = Cancel({}) /\ Execute(c))
        => \A k \in Kind : state'.pendings[k] = << >>]_vars

----------------------------------------------------------------------------
(* Content *)

(* A change from the connection of the latest one is accepted only with a   *)
(* larger sequence number: notifications of one connection processed out of *)
(* order never bring back older content (ValidateSequence).                 *)
ConnectionAdvances ==
  [][(state'.latest # state.latest /\ state'.latest.conn = state.latest.conn)
        => state'.latest.seq > state.latest.seq]_vars
=============================================================================
