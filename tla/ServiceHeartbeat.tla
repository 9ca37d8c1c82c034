-------------------------- MODULE ServiceHeartbeat --------------------------
(***************************************************************************)
(* How the hub finds out that a gateway is gone and sets the gateway's      *)
(* devices offline.  CoAP gateways register at the resource-aggregate       *)
(* service and update their heartbeat there (coap-gateway/service/          *)
(* serviceHeartbeat.go); two goroutines of resource-aggregate record the    *)
(* heartbeats, find the gateways that are late and set their devices        *)
(* offline (resource-aggregate/service/updateServiceHeartbeat.go).          *)
(*                                                                          *)
(* One resource-aggregate process, which may crash and restart, gateways    *)
(* that each live once (a gateway takes a new instance id when it starts),  *)
(* and devices that connect through them.  The two aggregates involved are  *)
(* used through ServiceMetadataState and DeviceMetadataState; that a        *)
(* command on an aggregate takes effect at once is shown by Aggregate.      *)
(*                                                                          *)
(* Clocks are synchronized.  Points in time are ticks left, as in           *)
(* ServiceMetadataState.                                                    *)
(***************************************************************************)
EXTENDS ServiceMetadataState, DeviceMetadataState, FiniteSetsExt

CONSTANTS Gateway,
          Device,
          Connection,    \* the connections devices will ever make
          GatewayOf(_),  \* the gateway a connection goes to
          DeviceOf(_),   \* the device that makes a connection
          TimeToLive,    \* what a heartbeat asks for
          Extra,         \* what calculateTimeToLive adds if it took long
          Long,          \* the ten minutes of run
          Limit,         \* limitNumDevices
          Running,       \* the gateways that serve already at the start
          MayCrash,      \* the gateways that may crash
          Faults,        \* "call", "load", "save", "expire" and "restart"
          MaxFaults      \* how many of them may happen

ASSUME HeartbeatConstants ==
  /\ TimeToLive \in Nat \ {0} /\ Extra \in Nat /\ Limit \in Nat \ {0}
  /\ Long \in Nat \ {0}
  /\ MaxFaults \in Nat /\ Running \subseteq Gateway
  /\ \A c \in Connection : GatewayOf(c) \in Gateway /\ DeviceOf(c) \in Device
  /\ \A c, e \in {x \in Connection : GatewayOf(x) \in Running} : DeviceOf(c) = DeviceOf(e) => c = e

VARIABLES
  \* in the event store
  services,   \* the aggregate of the services' heartbeats
  device,     \* the metadata aggregate of each device
  \* in the resource-aggregate process
  queue,      \* requestQueue
  wake,       \* the token in the channel wake
  timer,      \* the timer of run: ticks left, or Never
  run,        \* the goroutine run: where it is, and nextWakeUp
  offline,    \* offlineServices
  wakeExpired,\* the token in the channel wakeExpired
  expirer,    \* the goroutine runProcessExpiredServices
  \* in the gateways
  gateway,    \* phase of each, and ticks left of heartbeatValidUntil
  conn,       \* phase of each connection
  reports,    \* calls of UpdateDeviceMetadata on their way
  faults,
  unsaved,    \* history: services that a snapshot never stored has as expired
  shortened,  \* history: services whose validity a call shortened unanswered
  dead        \* history: services that were once stored as expired

store == <<services, device>>
process == <<queue, wake, timer, run, offline, wakeExpired, expirer>>
counted == <<faults, unsaved, shortened, dead>>
vars == <<store, process, gateway, conn, reports, counted>>

Never == -1   \* pkgTime.MaxTime
Sooner(s, t) == IF s = Never \/ (t # Never /\ t < s) THEN t ELSE s

Idle == [at |-> "select", next |-> Never]
NoneExpired == [at |-> "wait", todo |-> {}, svc |-> None, devices |-> {}]

\* The command of a gateway's report on a connection.
DeviceCommand(r) ==
  IF r.online THEN Connect(r.conn, 1, GatewayOf(r.conn), 0) ELSE Disconnect(r.conn, 2)

\* The state in which resource-aggregate starts; the timer fires at once.
NewServiceHeartbeat(q, w, t, r, off, we, e) ==
  /\ q = << >> /\ w = FALSE /\ t = 0 /\ r = Idle
  /\ off = {} /\ we = FALSE /\ e = NoneExpired

Init ==
  /\ services = [NoServices EXCEPT !.valid = [g \in Running |-> TimeToLive]]
  /\ device = [d \in Device |->
                 LET open == {c \in Connection : DeviceOf(c) = d /\ GatewayOf(c) \in Running}
                 IN IF open = {} THEN NewDeviceMetadataSnapshotTaken
                    ELSE DeviceHandleCommand(NewDeviceMetadataSnapshotTaken,
                           DeviceCommand([conn |-> CHOOSE c \in open : TRUE, online |-> TRUE]), 0).state]
  /\ NewServiceHeartbeat(queue, wake, timer, run, offline, wakeExpired, expirer)
  /\ gateway = [g \in Gateway |-> IF g \in Running THEN [phase |-> "waiting", left |-> TimeToLive]
                                  ELSE [phase |-> "new", left |-> 0]]
  /\ conn = [c \in Connection |-> IF GatewayOf(c) \in Running THEN "open" ELSE "new"]
  /\ reports = {}
  /\ faults = 0
  /\ unsaved = {} /\ shortened = {} /\ dead = {}

Fault(kind) == kind \in Faults /\ faults < MaxFaults /\ faults' = faults + 1

----------------------------------------------------------------------------
(* A gateway *)

Serving(g) == gateway[g].phase \in {"waiting", "calling"}

\* ProcessRequest of resource-aggregate: push and wakeUp.  A pop between the
\* two, like one inside processRequests, leaves the token for an empty queue.
\* A call on its way through the network is not told from one in the queue.
Push(req) ==
  /\ queue' = Append(queue, [req |-> req, answered |-> TRUE])
  /\ wake' = TRUE
  /\ UNCHANGED <<timer, run, offline, wakeExpired, expirer>>

newServiceHeartbeat(g) ==
  /\ gateway[g].phase = "new"
  /\ gateway' = [gateway EXCEPT ![g].phase = "registering"]
  /\ Push(Register(g))
  /\ UNCHANGED <<store, conn, reports, counted>>

\* tryUpdateServiceMetadata while the heartbeat is valid.
TryUpdateServiceMetadata(g) ==
  /\ gateway[g].phase = "waiting" /\ gateway[g].left > 0
  /\ gateway' = [gateway EXCEPT ![g].phase = "calling"]
  /\ Push(Update(g))
  /\ UNCHANGED <<store, conn, reports, counted>>

\* tryUpdateServiceMetadata after that: the gateway kills itself.
ServiceIsOffline(g) ==
  /\ gateway[g].phase = "waiting" /\ gateway[g].left = 0
  /\ gateway' = [gateway EXCEPT ![g].phase = "stopping"]
  /\ UNCHANGED <<store, process, conn, reports, counted>>

Waits(g, r) == r.answered /\ r.req.svc = g

Abandon(g, requests) ==
  [i \in DOMAIN requests |->
     IF Waits(g, requests[i]) THEN [requests[i] EXCEPT !.answered = FALSE] ELSE requests[i]]

\* A gateway that cannot register does not start; an update is tried again.
AfterError(g) == IF gateway[g].phase = "registering" THEN "down" ELSE "waiting"

GiveUp(g) ==
  /\ gateway[g].phase \in {"registering", "calling"}
  /\ gateway' = [gateway EXCEPT ![g].phase = AfterError(g)]
  /\ queue' = Abandon(g, queue)
  /\ UNCHANGED <<store, wake, timer, run, offline, wakeExpired, expirer, conn, reports,
                 unsaved, shortened, dead>>

\* The call fails while its request is waiting, or the deadline of an update
\* has passed, which is later than heartbeatValidUntil.
CallFails(g) ==
  /\ GiveUp(g)
  /\ Fault("call") \/ (gateway[g] = [phase |-> "calling", left |-> 0] /\ UNCHANGED faults)

\* The process that would have answered is gone.
CallLost(g) ==
  /\ \A i \in DOMAIN queue : ~Waits(g, queue[i])
  /\ GiveUp(g) /\ UNCHANGED faults

\* The gateway is closed after SigTerm: every session ends with a report.
Stop(g) ==
  /\ gateway[g].phase = "stopping"
  /\ LET open == {c \in Connection : GatewayOf(c) = g /\ conn[c] = "open"}
     IN /\ conn' = [c \in Connection |-> IF c \in open THEN "closed" ELSE conn[c]]
        /\ reports' = reports \cup {[conn |-> c, online |-> FALSE] : c \in open}
  /\ gateway' = [gateway EXCEPT ![g] = [phase |-> "down", left |-> 0]]
  /\ UNCHANGED <<store, process, counted>>

\* A gateway that crashes reports nothing.
Crash(g) ==
  /\ g \in MayCrash /\ gateway[g].phase \notin {"new", "down"}
  /\ gateway' = [gateway EXCEPT ![g] = [phase |-> "down", left |-> 0]]
  /\ conn' = [c \in Connection |->
                IF GatewayOf(c) = g /\ conn[c] = "open" THEN "closed" ELSE conn[c]]
  /\ queue' = Abandon(g, queue)
  /\ UNCHANGED <<store, wake, timer, run, offline, wakeExpired, expirer, reports, counted>>

\* A device signs in: updateOnlineStatus.
SignIn(c) ==
  /\ conn[c] = "new" /\ gateway[GatewayOf(c)].phase \in {"waiting", "calling", "stopping"}
  /\ conn' = [conn EXCEPT ![c] = "open"]
  /\ reports' = reports \cup {[conn |-> c, online |-> TRUE]}
  /\ UNCHANGED <<store, process, gateway, counted>>

\* A connection ends: OnClose of its session.
OnClose(c) ==
  /\ conn[c] = "open"
  /\ conn' = [conn EXCEPT ![c] = "closed"]
  /\ reports' = reports \cup {[conn |-> c, online |-> FALSE]}
  /\ UNCHANGED <<store, process, gateway, counted>>

\* resource-aggregate does not ask whether the service of a device is valid.
\* A report that fails (the gateway only logs it) is one that stays on its way.
HandleReport(r) ==
  LET d == DeviceOf(r.conn)
      result == DeviceHandleCommand(device[d], DeviceCommand(r), 0)
  IN /\ r \in reports
     /\ reports' = reports \ {r}
     /\ device' = [device EXCEPT ![d] = result.state]
     /\ UNCHANGED <<services, process, gateway, conn, counted>>

----------------------------------------------------------------------------
(* resource-aggregate: goroutine run *)

\* processRequests pops all requests at once and goes on until there are none;
\* here it takes them from the queue one by one, which is the same order.
Draining == [at |-> "drain", next |-> Never]

RunWoken ==
  /\ run.at = "select" /\ wake
  /\ wake' = FALSE
  /\ run' = Draining
  /\ UNCHANGED <<store, queue, timer, offline, wakeExpired, expirer,
                 gateway, conn, reports, counted>>

\* pushCheckExpiredServices, once
RunTimer ==
  /\ run.at = "select" /\ timer = 0
  /\ timer' = Never
  /\ run' = Draining
  /\ queue' = IF \E i \in DOMAIN queue : queue[i].req = Check THEN queue
              ELSE Append(queue, [req |-> Check, answered |-> FALSE])
  /\ UNCHANGED <<store, wake, offline, wakeExpired, expirer, gateway, conn, reports, counted>>

\* Mutant: the gateway takes every answer for a good one.
AnyAnswer(r, handled, timeToLive) ==
  gateway' = IF ~r.answered THEN gateway
             ELSE [gateway EXCEPT ![r.req.svc] = [phase |-> "waiting", left |-> TimeToLive]]

\* A gateway that was refused does not start, or kills itself.
AfterRefusal(g) == IF gateway[g].phase = "registering" THEN "down" ELSE "stopping"

\* updateServiceMetadata of the gateway: the answer to its call.
Answer(r, handled, timeToLive) ==
  LET g == r.req.svc
  IN gateway' =
       IF ~r.answered THEN gateway
       ELSE [gateway EXCEPT ![g] =
               CASE handled.result = "ok" -> [phase |-> "waiting", left |-> timeToLive]
                 [] handled.result = "refused" ->
                      [phase |-> AfterRefusal(g), left |-> gateway[g].left]
                 [] handled.result = "invalid" ->
                      [phase |-> AfterError(g), left |-> gateway[g].left]]

\* Mutant: only what this request has found to be late is remembered.
RememberNew(snapshot) ==
  /\ offline' = offline \cup (snapshot.expired \ services.expired)
  /\ wakeExpired' = (wakeExpired \/ offline' # {})
  /\ run' = [run EXCEPT !.next =
                IF DOMAIN snapshot.valid = {} THEN @
                ELSE Sooner(@, Min({snapshot.valid[s] : s \in DOMAIN snapshot.valid}))]

\* The rest of processRequest, with what the snapshot holds at its end.
Remember(snapshot) ==
  /\ offline' = offline \cup snapshot.expired
  /\ wakeExpired' = (wakeExpired \/ offline' # {})
  /\ run' = [run EXCEPT !.next =
                IF DOMAIN snapshot.valid = {} THEN @
                ELSE Sooner(@, Min({snapshot.valid[s] : s \in DOMAIN snapshot.valid}))]

\* calculateTimeToLive may have granted more before, and the caller of this
\* request has given up: the gateway believes itself valid for longer.
Shortened(r, after) ==
  {g \in DOMAIN after.valid : ~r.answered /\ after.valid[g] < gateway[g].left}

\* processRequest.  A failure to load the aggregate leaves an empty snapshot;
\* one to store it leaves the snapshot that was to be stored.
ProcessRequest(timeToLive) ==
  /\ run.at = "drain" /\ queue # << >>
  /\ queue' = Tail(queue)
  /\ LET r == Head(queue)
         handled == ServicesHandleCommand(services, r.req, timeToLive)
     IN \/ /\ services' = handled.services
           /\ Answer(r, handled, timeToLive)
           /\ Remember(handled.services)
           /\ shortened' = shortened \cup Shortened(r, handled.services)
           /\ dead' = dead \cup handled.services.expired
           /\ UNCHANGED <<faults, unsaved>>
        \/ /\ Answer(r, ServicesHandled("invalid", FALSE, services), 0)
           /\ \/ Fault("load") /\ Remember(NoServices) /\ UNCHANGED unsaved
              \/ /\ Fault("save") /\ handled.changed /\ Remember(handled.services)
                 /\ unsaved' = unsaved \cup (handled.services.expired \ services.expired)
           /\ UNCHANGED <<services, shortened, dead>>
  /\ UNCHANGED <<device, wake, timer, expirer, conn, reports>>

\* processRequests has found the queue empty; the timer is set.
RunSleep ==
  /\ run.at = "drain" /\ queue = << >>
  /\ timer' = IF run.next = 0 THEN Long ELSE run.next
  /\ run' = Idle
  /\ UNCHANGED <<store, queue, wake, offline, wakeExpired, expirer,
                 gateway, conn, reports, counted>>

----------------------------------------------------------------------------
(* resource-aggregate: goroutine runProcessExpiredServices *)

ExpirerWoken ==
  /\ expirer.at = "wait" /\ wakeExpired
  /\ wakeExpired' = FALSE
  /\ expirer' = [NoneExpired EXCEPT !.todo = offline,
                                    !.at = IF offline = {} THEN "wait" ELSE "load"]
  /\ UNCHANGED <<store, queue, wake, timer, run, offline, gateway, conn, reports, counted>>

\* The next service of processExpiredServices, or the end of it.
NextService(todo) ==
  [NoneExpired EXCEPT !.todo = todo, !.at = IF todo = {} THEN "wait" ELSE "load"]

\* The service is given up for now; it stays in offlineServices.
ExpirerFails ==
  /\ expirer.at # "wait"
  /\ Fault("expire")
  /\ \E s \in IF expirer.svc = None THEN expirer.todo ELSE {expirer.svc} :
       expirer' = NextService(expirer.todo \ {s})
  /\ UNCHANGED <<store, queue, wake, timer, run, offline, wakeExpired,
                 gateway, conn, reports, unsaved, shortened, dead>>

DevicesAt(s) == {d \in Device : device[d].updated.svc = s}

\* LoadDeviceMetadataByServiceIDs
LoadDevices ==
  /\ expirer.at = "load"
  /\ \E s \in IF expirer.svc = None THEN expirer.todo ELSE {expirer.svc} :
     \E D \in SUBSET DevicesAt(s) :
       /\ Cardinality(D) = Min({Limit, Cardinality(DevicesAt(s))})
       /\ expirer' = [expirer EXCEPT !.svc = s, !.devices = D,
                                     !.at = IF D = {} THEN "confirm" ELSE "offline"]
  /\ UNCHANGED <<store, queue, wake, timer, run, offline, wakeExpired,
                 gateway, conn, reports, counted>>

\* updateDeviceToExpired
UpdateDeviceToExpired(d) ==
  /\ expirer.at = "offline" /\ d \in expirer.devices
  /\ device' = [device EXCEPT ![d] =
                  DeviceHandleCommand(@, UpdateDeviceToOffline(expirer.svc), 0).state]
  /\ LET rest == expirer.devices \ {d}
     IN expirer' = [expirer EXCEPT !.devices = rest, !.at = IF rest = {} THEN "load" ELSE @]
  /\ UNCHANGED <<services, queue, wake, timer, run, offline, wakeExpired,
                 gateway, conn, reports, counted>>

\* ConfirmExpiredServices, and the service leaves offlineServices.
ConfirmExpired ==
  /\ expirer.at = "confirm"
  /\ services' = ServicesHandleCommand(services, Confirm(expirer.svc), 0).services
  /\ offline' = offline \ {expirer.svc}
  /\ expirer' = NextService(expirer.todo \ {expirer.svc})
  /\ UNCHANGED <<device, queue, wake, timer, run, wakeExpired,
                 gateway, conn, reports, counted>>

\* The process crashes and starts again: only the event store survives.
Restart ==
  /\ Fault("restart")
  /\ NewServiceHeartbeat(queue', wake', timer', run', offline', wakeExpired', expirer')
  /\ UNCHANGED <<store, gateway, conn, reports, unsaved, shortened, dead>>

----------------------------------------------------------------------------
Less(t) == IF t > 0 THEN t - 1 ELSE t

Tick ==
  /\ timer' = Less(timer)
  /\ UNCHANGED <<wake, queue, offline, wakeExpired, expirer, conn, reports, counted, device>>
  /\ run' = [run EXCEPT !.next = Less(@)]
  /\ gateway' = [g \in Gateway |-> [gateway[g] EXCEPT !.left = Less(@)]]
  /\ services' = [services EXCEPT !.valid = [s \in DOMAIN @ |-> Less(@[s])]]

GatewayNext ==
  \/ \E g \in Gateway : \/ newServiceHeartbeat(g) \/ TryUpdateServiceMetadata(g)
                        \/ ServiceIsOffline(g) \/ CallFails(g) \/ CallLost(g)
                        \/ Stop(g) \/ Crash(g)
  \/ \E c \in Connection : SignIn(c) \/ OnClose(c)
  \/ \E r \in reports : HandleReport(r)

RunStep ==
  \/ RunWoken \/ RunTimer \/ RunSleep
  \/ \E timeToLive \in {TimeToLive, TimeToLive + Extra} : ProcessRequest(timeToLive)

ExpirerStep ==
  \/ ExpirerWoken \/ LoadDevices \/ ConfirmExpired
  \/ \E d \in Device : UpdateDeviceToExpired(d)

Next ==
  \/ Tick \/ GatewayNext \/ RunStep \/ ExpirerStep \/ ExpirerFails \/ Restart

\* Serve of a gateway's heartbeat, up to the end of the gateway.
Serve(g) ==
  TryUpdateServiceMetadata(g) \/ ServiceIsOffline(g) \/ CallLost(g) \/ Stop(g)

\* Time passes, the goroutines of resource-aggregate run, and so do those of a
\* gateway until it crashes.  Nothing makes a device or a report move.
Fairness ==
  /\ WF_vars(Tick) /\ WF_vars(RunStep) /\ WF_vars(ExpirerStep)
  /\ \A g \in Gateway : WF_vars(Serve(g))

Spec == Init /\ [][Next]_vars

FairSpec == Spec /\ Fairness

----------------------------------------------------------------------------
Ticks == {Never} \cup 0 .. Max({Long, TimeToLive + Extra})

(* Type invariant: services are valid or expired, never both, and only once *)
(* they have asked for it.                                                  *)
TypeOK ==
  /\ DOMAIN services.valid \cap services.expired = {}
  /\ DOMAIN services.valid \cup services.expired \subseteq
       {g \in Gateway : gateway[g].phase # "new"}
  /\ \A s \in DOMAIN services.valid : services.valid[s] \in 0 .. TimeToLive + Extra
  /\ \A g \in Gateway : gateway[g].left \in 0 .. TimeToLive + Extra
  /\ timer \in Ticks /\ run.next \in Ticks
  /\ offline \cup expirer.todo \subseteq Gateway
  /\ faults \in 0 .. MaxFaults

(* A gateway that believes itself valid is valid in the hub, and at least   *)
(* as long: no heartbeat that was answered is overtaken by the discovery    *)
(* that the gateway was late, and an answer that was not stored is none     *)
(* (prepareHeartbeatForService, updateServiceMetadata).  The exception is a *)
(* slow heartbeat, which is granted more, followed by a quick one whose     *)
(* call fails after it was stored.                                          *)
LeaseAgreed ==
  \A g \in Gateway :
    gateway[g].left > 0 /\ g \notin shortened =>
      g \in DOMAIN services.valid /\ services.valid[g] >= gateway[g].left

(* The hub sets a device offline only after the heartbeat of the device's   *)
(* gateway has run out, as the gateway knows it, so a gateway that believes *)
(* itself valid never serves devices that the hub has given up.  The        *)
(* first exception is that of LeaseAgreed; the other is a gateway that      *)
(* processRequest has taken from a snapshot whose storing failed: its late  *)
(* heartbeat is then still accepted.                                        *)
LeaseRespected ==
  [][\A d \in Device :
       LET s == device[d].updated.svc
       IN (device[d]' # device[d] /\ device[d].updated.user' = "service")
            => gateway[s].left = 0 \/ s \in unsaved \cup shortened]_vars

(* A gateway the hub has once taken for dead is never valid again, however  *)
(* late its heartbeats arrive, whether it still runs, has stopped or has    *)
(* crashed, and whether or not the hub still remembers it: once the expiry  *)
(* is confirmed only the refusal to insert by an update keeps it out (the   *)
(* FailedPrecondition errors of prepareHeartbeatForService).                *)
NeverRevived == dead \cap DOMAIN services.valid = {}

(* A device that was online at a gateway that is gone is set offline, as    *)
(* long as some other gateway goes on serving: every heartbeat of that one  *)
(* has the late ones found and the failed work done again, even if the      *)
(* timer is lost, a call fails or resource-aggregate restarts               *)
(* (processRequest, run, handleExpiredService).                             *)
GoneGatewayNoticed ==
  \A g \in MayCrash : \A h \in Gateway \ MayCrash : \A d \in Device :
    (gateway[g].phase = "down" /\ g \in DOMAIN services.valid /\ device[d].updated.svc = g)
      ~> (device[d].updated.svc # g \/ ~Serving(h))

(* The hub finishes with an expired service: handleExpiredService runs out  *)
(* of devices and confirms, and what it gave up after an error is tried     *)
(* again, while some other gateway goes on serving.                         *)
ExpiredConfirmed ==
  \A g \in MayCrash : \A h \in Gateway \ MayCrash :
    (g \in services.expired) ~> (g \notin services.expired \/ ~Serving(h))

(* A gateway that the hub has taken for dead does not go on serving         *)
(* (tryUpdateServiceMetadata, needToShutdownService).                       *)
StaleGatewayStops ==
  \A g \in MayCrash : (Serving(g) /\ g \in services.expired) ~> ~Serving(g)
=============================================================================
