------------------------ MODULE ServiceMetadataState ------------------------
(***************************************************************************)
(* The rules of the services' heartbeats: ServiceMetadataSnapshotTaken of   *)
(* the resource-aggregate service.  A state is what the snapshot event      *)
(* holds: the services that are valid, each with the time it remains so,    *)
(* and those that have expired and whose devices are still to be set        *)
(* offline.                                                                 *)
(*                                                                          *)
(* A point in time is modelled by the ticks left until it, 0 once it has    *)
(* passed: then validUntil.Before(now) is "0 left", and the passing of time *)
(* is a step that takes a tick from every point in time.                    *)
(***************************************************************************)
EXTENDS Integers, FiniteSets

NoServices == [valid |-> << >>, expired |-> {}]

\* Requests.  The check for expired services is a heartbeat of no service.
Register(svc) == [type |-> "register", svc |-> svc]
Update(svc) == [type |-> "update", svc |-> svc]
Check == [type |-> "check", svc |-> "none"]
Confirm(svc) == [type |-> "confirm", svc |-> svc]

\* result: "ok", "refused" (FailedPrecondition) or "invalid" (any other error)
ServicesHandled(result, changed, services) ==
  [result |-> result, changed |-> changed, services |-> services]

Late(services) == {s \in DOMAIN services.valid : services.valid[s] = 0}

\* The state after a ServiceMetadataUpdated event.
Merged(services, valid, expired) ==
  [valid |-> [s \in (DOMAIN services.valid \cup DOMAIN valid) \ expired |->
                IF s \in DOMAIN valid THEN valid[s] ELSE services.valid[s]],
   expired |-> (services.expired \ DOMAIN valid) \cup expired]

\* Mutant: an expired service stays valid.
ValidKept(services, valid, expired) ==
  ServicesHandled("ok", TRUE, [valid |-> Merged(services, valid, {}).valid,
                               expired |-> Merged(services, valid, expired).expired])

\* HandleServiceMetadataUpdated; an event equal to the last one cannot occur,
\* because every event moves a service.
HandleServiceMetadataUpdated(services, valid, expired) ==
  LET merged == Merged(services, valid, expired)
  IN IF DOMAIN merged.valid \cap merged.expired = {}
     THEN ServicesHandled("ok", TRUE, merged)
     ELSE ServicesHandled("invalid", FALSE, services)

\* Mutant: an update may also insert.
MayInsert(services, req) ==
  /\ req.svc \notin services.expired
  /\ req.type = "register" => req.svc \notin DOMAIN services.valid

\* Mutant: a service that has expired may come back.
MayReturn(services, req) ==
  req.type = "register" <=> req.svc \notin DOMAIN services.valid \cup services.expired

\* prepareHeartbeatForService: may the service have this heartbeat?  One that
\* is late but not yet recorded as expired may still update.
MayBeat(services, req) ==
  /\ req.svc \notin services.expired
  /\ req.type = "register" <=> req.svc \notin DOMAIN services.valid

\* Mutant: the service itself is not left out.
AllLate(services, svc) == Late(services)

\* The other services that a heartbeat finds to be late.
NewExpired(services, svc) == Late(services) \ {svc}

\* updateHeartbeatForService, with the time to live that calculateTimeToLive
\* grants.
UpdateHeartbeat(services, req, timeToLive) ==
  IF MayBeat(services, req)
  THEN HandleServiceMetadataUpdated(services, [s \in {req.svc} |-> timeToLive],
                                    NewExpired(services, req.svc))
  ELSE ServicesHandled("refused", FALSE, services)

updateHeartbeatCheckExpiredServices(services) ==
  IF Late(services) = {}
  THEN ServicesHandled("ok", FALSE, services)
  ELSE HandleServiceMetadataUpdated(services, << >>, Late(services))

\* Mutant: a confirmed service stays expired.
NotConfirmed(services, req) == ServicesHandled("ok", FALSE, services)

confirmExpiredServices(services, req) ==
  IF req.svc \in services.expired
  THEN ServicesHandled("ok", TRUE, [services EXCEPT !.expired = @ \ {req.svc}])
  ELSE ServicesHandled("ok", FALSE, services)

ServicesHandleCommand(services, req, timeToLive) ==
  CASE req.type \in {"register", "update"} -> UpdateHeartbeat(services, req, timeToLive)
    [] req.type = "check" -> updateHeartbeatCheckExpiredServices(services)
    [] req.type = "confirm" -> confirmExpiredServices(services, req)
=============================================================================
