----------------------- MODULE ServiceHeartbeatProofs -----------------------
(* Proofs about ServiceHeartbeat, for any number of gateways, devices and    *)
(* connections, any time to live and any faults.                             *)
EXTENDS ServiceHeartbeat, SequenceTheorems, LeastNumber, TLAPS

Longest == TimeToLive + Extra
Phase == {"new", "registering", "waiting", "calling", "stopping", "down"}

Validity == UNION {[D -> 0 .. Longest] : D \in SUBSET Gateway}
Services == [valid : Validity, expired : SUBSET Gateway]
Request == [type : {"register", "update"}, svc : Gateway] \cup {Check}
Entry == [req : Request, answered : BOOLEAN]

-----------------------------------------------------------------------------
(* The inductive invariant.                                                  *)

Types ==
    /\ services \in Services
    /\ gateway \in [Gateway -> [phase : Phase, left : 0 .. Longest]]
    /\ queue \in Seq(Entry)
    /\ timer \in Ticks
    /\ run \in [at : {"select", "drain"}, next : Ticks]
    /\ offline \subseteq Gateway
    /\ expirer \in [at : {"wait", "load", "offline", "confirm"}, todo : SUBSET Gateway,
                   svc : Gateway \cup {None}, devices : SUBSET Device]
    /\ faults \in 0 .. MaxFaults

(* What the hub knows of a gateway it has learnt from its registration.      *)
Known == DOMAIN services.valid \cup services.expired \cup offline \cup dead

(* A request in the queue and the gateway that waits for its answer, or has  *)
(* given up: a gateway registers once, waits for one answer at a time, and   *)
(* is down if it gave up its registration.                                   *)
RequestInv(r) ==
    LET g == r.req.svc
    IN /\ r.req.type = "register" =>
            /\ gateway[g].phase = IF r.answered THEN "registering" ELSE "down"
            /\ g \notin Known
       /\ r.req.type = "update" =>
            gateway[g].phase # "new" /\ (r.answered => gateway[g].phase = "calling")
       /\ r.req.type = "check" => ~r.answered

QueueInv ==
    /\ \A i \in 1 .. Len(queue) : RequestInv(queue[i])
    /\ \A i, j \in 1 .. Len(queue) :
        /\ queue[i].req.svc = queue[j].req.svc
        /\ \/ queue[i].answered /\ queue[j].answered
           \/ queue[i].req.type = "register" /\ queue[j].req.type = "register"
        => i = j

(* What the hub has recorded: a gateway is valid or expired, not both, and   *)
(* the ones whose devices are being set offline are not valid, unless they   *)
(* come from a snapshot that was never stored.  What is or was expired is    *)
(* remembered by the history and no longer valid.                            *)
RecordInv ==
    /\ DOMAIN services.valid \cap services.expired = {}
    /\ services.expired \subseteq dead /\ dead \cap DOMAIN services.valid = {}
    /\ dead \subseteq Gateway
    /\ \A g \in Known : gateway[g].phase # "new"
    /\ offline \cap DOMAIN services.valid \subseteq unsaved

ExpirerInv ==
    /\ expirer.todo \subseteq offline
    /\ expirer.svc # None \/ expirer.at \in {"offline", "confirm"} => expirer.svc \in expirer.todo

(* The parts of the hub's own books, without the devices.                    *)
IInv == Types /\ QueueInv /\ RecordInv /\ ExpirerInv /\ LeaseAgreed

-----------------------------------------------------------------------------
(* The operators of the model.                                               *)

LEMMA Lengths ==
    /\ TimeToLive \in Nat \ {0} /\ Extra \in Nat /\ Longest \in Nat \ {0}
    /\ TimeToLive \in 1 .. Longest /\ TimeToLive + Extra = Longest
    /\ Long \in Nat \ {0} /\ MaxFaults \in Nat
  BY HeartbeatConstants DEF Longest

LEMMA TicksAre ==
    /\ Ticks \subseteq Int /\ Never \in Ticks
    /\ 0 .. Long \subseteq Ticks /\ 0 .. Longest \subseteq Ticks
    /\ \A t \in Ticks : Less(t) \in Ticks
  <1> DEFINE m == Max({Long, Longest})
  <1>1. Long \in Nat /\ Longest \in Nat
    BY Lengths
  <1>2. m \in {Long, Longest} /\ m >= Long /\ m >= Longest
    <2>1. \E x \in {Long, Longest} : \A y \in {Long, Longest} : x >= y
      BY <1>1
    <2> QED
      BY <2>1 DEF Max
  <1>3. m \in Nat
    BY <1>1, <1>2
  <1>4. Ticks = {-1} \cup 0 .. m
    BY DEF Ticks, Never, Longest
  <1> HIDE DEF m
  <1> QED
    BY <1>1, <1>2, <1>3, <1>4 DEF Less, Never

LEMMA ValidityIs ==
    ASSUME NEW f
    PROVE  f \in Validity <=> DOMAIN f \subseteq Gateway /\ f \in [DOMAIN f -> 0 .. Longest]
  BY DEF Validity

LEMMA SoonestIsTick ==
    ASSUME NEW f \in Validity, DOMAIN f # {}, NEW t \in Ticks
    PROVE  Sooner(t, Min({f[s] : s \in DOMAIN f})) \in Ticks
  <1> DEFINE T == {f[s] : s \in DOMAIN f}
  <1>1. T \subseteq 0 .. Longest /\ T # {}
    BY ValidityIs
  <1>2. T \in SUBSET Nat
    BY <1>1
  <1> HIDE DEF T
  <1>3. \E x \in T : \A y \in T : x <= y
    BY <1>1, <1>2, Least
  <1>4. Min(T) \in T
    BY <1>3 DEF Min
  <1> QED
    BY <1>1, <1>4, TicksAre DEF Sooner, T

LEMMA EntryIs ==
    ASSUME NEW q \in Seq(Entry), NEW i \in 1 .. Len(q)
    PROVE  /\ q[i] \in Entry /\ q[i].req \in Request /\ q[i].answered \in BOOLEAN
           /\ \/ q[i].req = Check
              \/ q[i].req.type \in {"register", "update"} /\ q[i].req.svc \in Gateway
  <1>1. q[i] \in Entry
    OBVIOUS
  <1>2. q[i].req \in Request /\ q[i].answered \in BOOLEAN
    BY <1>1 DEF Entry
  <1> QED
    BY <1>1, <1>2 DEF Request

(* The state after a ServiceMetadataUpdated event.                           *)
LEMMA MergedIs ==
    ASSUME NEW sv \in Services, NEW new \in Validity, NEW late \in SUBSET DOMAIN sv.valid,
           late \cap DOMAIN new = {}, DOMAIN sv.valid \cap sv.expired = {}
    PROVE  LET m == Merged(sv, new, late)
           IN /\ m \in Services
              /\ DOMAIN m.valid = (DOMAIN sv.valid \cup DOMAIN new) \ late
              /\ \A s \in DOMAIN m.valid :
                    m.valid[s] = IF s \in DOMAIN new THEN new[s] ELSE sv.valid[s]
              /\ m.expired = (sv.expired \ DOMAIN new) \cup late
              /\ DOMAIN m.valid \cap m.expired = {}
              /\ HandleServiceMetadataUpdated(sv, new, late).result = "ok"
              /\ HandleServiceMetadataUpdated(sv, new, late).services = m
  <1> DEFINE m == Merged(sv, new, late)
  <1>1. /\ DOMAIN sv.valid \subseteq Gateway /\ sv.valid \in [DOMAIN sv.valid -> 0 .. Longest]
        /\ DOMAIN new \subseteq Gateway /\ new \in [DOMAIN new -> 0 .. Longest]
        /\ sv.expired \subseteq Gateway
    BY ValidityIs DEF Services
  <1>2. /\ DOMAIN m.valid = (DOMAIN sv.valid \cup DOMAIN new) \ late
        /\ \A s \in DOMAIN m.valid :
              m.valid[s] = IF s \in DOMAIN new THEN new[s] ELSE sv.valid[s]
        /\ m.expired = (sv.expired \ DOMAIN new) \cup late
        /\ m = [valid |-> m.valid, expired |-> m.expired]
        /\ m.valid = [s \in DOMAIN m.valid |-> m.valid[s]]
    BY DEF Merged
  <1>3. HandleServiceMetadataUpdated(sv, new, late) =
            IF DOMAIN m.valid \cap m.expired = {} THEN ServicesHandled("ok", TRUE, m)
            ELSE ServicesHandled("invalid", FALSE, sv)
    BY DEF HandleServiceMetadataUpdated
  <1> HIDE DEF m
  <1>4. m.valid \in Validity
    <2>1. DOMAIN m.valid \subseteq Gateway /\ m.valid \in [DOMAIN m.valid -> 0 .. Longest]
      BY <1>1, <1>2
    <2> QED
      BY <2>1, ValidityIs
  <1>5. m.expired \subseteq Gateway
    BY <1>1, <1>2
  <1>6. m \in Services
    BY <1>2, <1>4, <1>5 DEF Services
  <1>7. DOMAIN m.valid \cap m.expired = {}
    BY <1>2
  <1>8. /\ HandleServiceMetadataUpdated(sv, new, late).result = "ok"
        /\ HandleServiceMetadataUpdated(sv, new, late).services = m
    BY <1>3, <1>7 DEF ServicesHandled
  <1> QED
    BY <1>2, <1>6, <1>7, <1>8 DEF m

(* What becomes of the services' heartbeats when the hub handles a request.  *)
LEMMA HandledIs ==
    ASSUME NEW sv \in Services, DOMAIN sv.valid \cap sv.expired = {},
           NEW req \in Request, NEW ttl \in {TimeToLive, Longest}
    PROVE  LET h == ServicesHandleCommand(sv, req, ttl)
           IN /\ h.services \in Services
              /\ DOMAIN h.services.valid \cap h.services.expired = {}
              /\ h.result \in {"ok", "refused"}
              /\ \A g \in DOMAIN h.services.valid :
                    g \in DOMAIN sv.valid \/ (req.type = "register" /\ g = req.svc)
              /\ h.services.expired \subseteq DOMAIN sv.valid \cup sv.expired
              /\ \A g \in DOMAIN sv.valid :
                    sv.valid[g] > 0 =>
                        /\ g \in DOMAIN h.services.valid
                        /\ h.services.valid[g] \in {sv.valid[g], ttl}
                        /\ g # req.svc => h.services.valid[g] = sv.valid[g]
              /\ req # Check /\ h.result = "ok" =>
                    req.svc \in DOMAIN h.services.valid /\ h.services.valid[req.svc] = ttl
              /\ h.result = "refused" => h.services = sv
  <1> DEFINE h == ServicesHandleCommand(sv, req, ttl)
  <1>1. /\ DOMAIN sv.valid \subseteq Gateway /\ sv.valid \in [DOMAIN sv.valid -> 0 .. Longest]
        /\ sv.expired \subseteq Gateway
    BY ValidityIs DEF Services
  <1>2. ttl \in 0 .. Longest
    BY Lengths
  <1>3. CASE req = Check
    <2>1. h = updateHeartbeatCheckExpiredServices(sv)
      BY <1>3 DEF Check, ServicesHandleCommand
    <2>2. CASE Late(sv) = {}
      BY <1>1, <1>3, <2>1, <2>2
         DEF updateHeartbeatCheckExpiredServices, ServicesHandled, Check
    <2>3. CASE Late(sv) # {}
      <3> DEFINE new == << >>
                 late == Late(sv)
                 m == Merged(sv, new, late)
      <3>1. new \in Validity /\ DOMAIN new = {}
        <4>1. new \in Seq(0 .. Longest) /\ Len(new) = 0
          BY EmptySeq
        <4>2. DOMAIN new = {} /\ new \in [DOMAIN new -> 0 .. Longest]
          BY <4>1
        <4> QED
          BY <4>2, ValidityIs
      <3>2. late \in SUBSET DOMAIN sv.valid /\ \A g \in late : sv.valid[g] = 0
        BY DEF Late
      <3>3. h = HandleServiceMetadataUpdated(sv, new, late)
        BY <2>1, <2>3 DEF updateHeartbeatCheckExpiredServices
      <3> HIDE DEF new, late, m, h
      <3>4. /\ m \in Services
            /\ DOMAIN m.valid = DOMAIN sv.valid \ late
            /\ \A s \in DOMAIN m.valid : m.valid[s] = sv.valid[s]
            /\ m.expired = sv.expired \cup late
            /\ DOMAIN m.valid \cap m.expired = {}
            /\ HandleServiceMetadataUpdated(sv, new, late).result = "ok"
            /\ HandleServiceMetadataUpdated(sv, new, late).services = m
        BY <3>1, <3>2, MergedIs DEF m
      <3>5. h.services = m /\ h.result = "ok"
        BY <3>3, <3>4
      <3> QED
        BY <1>1, <1>3, <3>2, <3>4, <3>5 DEF h, Check
    <2> QED
      BY <2>2, <2>3
  <1>4. CASE req # Check
    <2>1. req.type \in {"register", "update"} /\ req.svc \in Gateway
      BY <1>4 DEF Request
    <2>2. h = UpdateHeartbeat(sv, req, ttl)
      BY <2>1 DEF ServicesHandleCommand
    <2>3. CASE ~MayBeat(sv, req)
      BY <1>1, <2>2, <2>3 DEF UpdateHeartbeat, ServicesHandled
    <2>4. CASE MayBeat(sv, req)
      <3> DEFINE new == [s \in {req.svc} |-> ttl]
                 late == NewExpired(sv, req.svc)
                 m == Merged(sv, new, late)
      <3>1. new \in Validity /\ DOMAIN new = {req.svc} /\ new[req.svc] = ttl
        BY <1>2, <2>1, ValidityIs
      <3>2. /\ late \in SUBSET DOMAIN sv.valid /\ \A g \in late : sv.valid[g] = 0
            /\ req.svc \notin late
        BY DEF Late, NewExpired
      <3>3. h = HandleServiceMetadataUpdated(sv, new, late)
        BY <2>2, <2>4 DEF UpdateHeartbeat
      <3>4. /\ req.svc \notin sv.expired
            /\ req.type = "update" => req.svc \in DOMAIN sv.valid
        BY <2>1, <2>4 DEF MayBeat
      <3> HIDE DEF new, late, m, h
      <3>5. /\ m \in Services
            /\ DOMAIN m.valid = (DOMAIN sv.valid \cup {req.svc}) \ late
            /\ \A s \in DOMAIN m.valid :
                  m.valid[s] = IF s = req.svc THEN ttl ELSE sv.valid[s]
            /\ m.expired = (sv.expired \ {req.svc}) \cup late
            /\ DOMAIN m.valid \cap m.expired = {}
            /\ HandleServiceMetadataUpdated(sv, new, late).result = "ok"
            /\ HandleServiceMetadataUpdated(sv, new, late).services = m
        BY <3>1, <3>2, MergedIs DEF m
      <3>6. h.services = m /\ h.result = "ok"
        BY <3>3, <3>5
      <3> QED
        BY <1>1, <1>4, <2>1, <3>2, <3>4, <3>5, <3>6 DEF h
    <2> QED
      BY <2>3, <2>4
  <1> QED
    BY <1>3, <1>4

-----------------------------------------------------------------------------
(* The invariant is preserved.                                               *)

LEMMA Initially == Init => IInv
  <1> SUFFICES ASSUME Init PROVE IInv
    OBVIOUS
  <1>1. /\ services = [valid |-> [g \in Running |-> TimeToLive], expired |-> {}]
        /\ queue = << >> /\ timer = 0 /\ run = Idle /\ offline = {} /\ expirer = NoneExpired
        /\ gateway = [g \in Gateway |-> IF g \in Running THEN [phase |-> "waiting", left |-> TimeToLive]
                                        ELSE [phase |-> "new", left |-> 0]]
        /\ faults = 0 /\ dead = {}
    BY DEF Init, NewServiceHeartbeat, NoServices
  <1>2. Running \subseteq Gateway /\ TimeToLive \in 0 .. Longest /\ 0 \in 0 .. Longest
    BY Lengths, HeartbeatConstants
  <1>3. services.valid \in Validity
    BY <1>1, <1>2, ValidityIs
  <1>4. Types
    <2>1. services \in Services /\ queue \in Seq(Entry)
      BY <1>1, <1>3 DEF Services
    <2>2. gateway \in [Gateway -> [phase : Phase, left : 0 .. Longest]]
      BY <1>1, <1>2 DEF Phase
    <2>3. 0 \in Ticks /\ Never \in Ticks /\ 0 \in 0 .. MaxFaults
      BY TicksAre, Lengths
    <2> QED
      BY <1>1, <2>1, <2>2, <2>3 DEF Types, Idle, NoneExpired
  <1>5. QueueInv
    BY <1>1 DEF QueueInv
  <1>6. RecordInv /\ ExpirerInv
    BY <1>1, <1>2 DEF RecordInv, ExpirerInv, Known, NoneExpired
  <1>7. LeaseAgreed
    BY <1>1, <1>2, Lengths DEF LeaseAgreed
  <1> QED
    BY <1>4, <1>5, <1>6, <1>7 DEF IInv

(* What a fault does to the count of faults.                                 *)
LEMMA FaultCounted ==
    ASSUME faults \in 0 .. MaxFaults, NEW kind, Fault(kind)
    PROVE  faults' \in 0 .. MaxFaults
  BY Lengths DEF Fault

(* Steps that leave queue, heartbeats and gateways alone.                    *)
LEMMA BooksUnchanged ==
    ASSUME IInv, UNCHANGED <<services, queue, gateway, unsaved, shortened, dead>>,
           offline' \subseteq offline
    PROVE  QueueInv' /\ RecordInv' /\ LeaseAgreed'
  <1>1. QueueInv'
    BY DEF IInv, QueueInv, RequestInv, Known
  <1>2. RecordInv'
    BY DEF IInv, RecordInv, Known
  <1>3. LeaseAgreed'
    BY DEF IInv, LeaseAgreed
  <1> QED
    BY <1>1, <1>2, <1>3

LEMMA ProcessUnchanged ==
    ASSUME IInv, UNCHANGED <<services, process, gateway, unsaved, shortened, dead>>,
           faults' \in 0 .. MaxFaults
    PROVE  IInv'
  <1>1. UNCHANGED <<services, queue, gateway, unsaved, shortened, dead, timer, run, offline, expirer>>
    BY DEF process
  <1>2. Types' /\ ExpirerInv'
    BY <1>1 DEF IInv, Types, ExpirerInv
  <1> QED
    BY <1>1, <1>2, BooksUnchanged DEF IInv

LEMMA ConnectionStep ==
    ASSUME IInv, NEW c, SignIn(c) \/ OnClose(c) \/ HandleReport(c)
    PROVE  IInv'
  BY ProcessUnchanged DEF SignIn, OnClose, HandleReport, IInv, Types, store, process, counted

LEMMA TickStep ==
    ASSUME IInv, Tick
    PROVE  IInv'
  <1>1. /\ timer' = Less(timer) /\ run' = [run EXCEPT !.next = Less(run.next)]
        /\ gateway' = [g \in Gateway |-> [gateway[g] EXCEPT !.left = Less(gateway[g].left)]]
        /\ services' = [services EXCEPT !.valid =
                           [s \in DOMAIN services.valid |-> Less(services.valid[s])]]
        /\ UNCHANGED <<queue, offline, expirer, faults, unsaved, shortened, dead>>
    BY DEF Tick, counted
  <1>2. /\ services.valid \in [DOMAIN services.valid -> 0 .. Longest]
        /\ DOMAIN services.valid \subseteq Gateway
    BY ValidityIs DEF IInv, Types, Services
  <1>3. \A n \in 0 .. Longest : Less(n) \in 0 .. Longest
    BY Lengths DEF Less
  <1>4. /\ DOMAIN services'.valid = DOMAIN services.valid
        /\ \A s \in DOMAIN services.valid : services'.valid[s] = Less(services.valid[s])
        /\ services'.expired = services.expired
        /\ services' \in Services
    <2>1. /\ DOMAIN services'.valid = DOMAIN services.valid
          /\ \A s \in DOMAIN services.valid : services'.valid[s] = Less(services.valid[s])
          /\ services'.expired = services.expired
          /\ services' = [valid |-> services'.valid, expired |-> services.expired]
          /\ services'.valid \in [DOMAIN services.valid -> 0 .. Longest]
      BY <1>1, <1>2, <1>3 DEF IInv, Types, Services
    <2>2. services'.valid \in Validity
      BY <2>1, <1>2, ValidityIs
    <2> QED
      BY <2>1, <2>2 DEF IInv, Types, Services
  <1>5. /\ gateway' \in [Gateway -> [phase : Phase, left : 0 .. Longest]]
        /\ \A g \in Gateway : /\ gateway'[g].phase = gateway[g].phase
                               /\ gateway'[g].left = Less(gateway[g].left)
    BY <1>1, <1>3 DEF IInv, Types
  <1>6. Types'
    BY <1>1, <1>4, <1>5, TicksAre DEF IInv, Types
  <1>7. Known' = Known
    BY <1>1, <1>4 DEF Known
  <1>8. QueueInv'
    <2>1. \A i \in 1 .. Len(queue) : queue[i].req = Check \/ queue[i].req.svc \in Gateway
      BY EntryIs DEF IInv, Types
    <2>2. \A i \in 1 .. Len(queue) : RequestInv(queue[i])'
      BY <1>1, <1>5, <1>7, <2>1 DEF IInv, QueueInv, RequestInv, Check
    <2> QED
      BY <1>1, <2>2 DEF IInv, QueueInv
  <1>9. RecordInv' /\ ExpirerInv'
    <2>1. Known \subseteq Gateway
      BY <1>2 DEF Known, IInv, RecordInv, Types, Services
    <2> QED
      BY <1>1, <1>4, <1>5, <1>7, <2>1 DEF IInv, RecordInv, ExpirerInv
  <1>10. LeaseAgreed'
    <2> SUFFICES ASSUME NEW g \in Gateway, gateway'[g].left > 0, g \notin shortened
                 PROVE  g \in DOMAIN services'.valid /\ services'.valid[g] >= gateway'[g].left
      BY <1>1 DEF LeaseAgreed
    <2>1. gateway[g].left \in 0 .. Longest /\ gateway[g].left > 0
      BY <1>5 DEF IInv, Types, Less
    <2>2. g \in DOMAIN services.valid /\ services.valid[g] >= gateway[g].left
      BY <2>1 DEF IInv, LeaseAgreed
    <2>3. services.valid[g] \in 0 .. Longest
      BY <1>2, <2>2
    <2> QED
      BY <1>4, <1>5, <2>1, <2>2, <2>3, Lengths DEF Less
  <1> QED
    BY <1>6, <1>8, <1>9, <1>10 DEF IInv

(* Steps of resource-aggregate that take nothing from the queue.             *)
LEMMA RunWokenStep ==
    ASSUME IInv, RunWoken
    PROVE  IInv'
  <1>1. Types' /\ ExpirerInv'
    BY TicksAre DEF IInv, Types, ExpirerInv, RunWoken, Draining, store, counted
  <1> QED
    BY <1>1, BooksUnchanged DEF IInv, RunWoken, store, counted

LEMMA RunSleepStep ==
    ASSUME IInv, RunSleep
    PROVE  IInv'
  <1>1. Long \in Ticks
    BY TicksAre, Lengths
  <1>2. Types' /\ ExpirerInv'
    BY <1>1, TicksAre DEF IInv, Types, ExpirerInv, RunSleep, Idle, store, counted
  <1> QED
    BY <1>2, BooksUnchanged DEF IInv, RunSleep, store, counted

LEMMA RunTimerStep ==
    ASSUME IInv, RunTimer
    PROVE  IInv'
  <1> DEFINE e == [req |-> Check, answered |-> FALSE]
  <1>1. /\ UNCHANGED <<services, gateway, unsaved, shortened, dead, offline, expirer, faults>>
        /\ timer' = Never /\ run' = Draining
        /\ queue' = queue \/ queue' = Append(queue, e)
    BY DEF RunTimer, store, counted
  <1>2. queue \in Seq(Entry) /\ e \in Entry
    BY DEF IInv, Types, Entry, Request
  <1>3. Types' /\ ExpirerInv'
    <2>1. queue' \in Seq(Entry)
      BY <1>1, <1>2
    <2> QED
      BY <1>1, <2>1, TicksAre DEF IInv, Types, ExpirerInv, Draining
  <1>4. CASE queue' = queue
    BY <1>1, <1>3, <1>4, BooksUnchanged DEF IInv
  <1>5. CASE queue' = Append(queue, e)
    <2>1. RecordInv' /\ LeaseAgreed'
      BY <1>1 DEF IInv, RecordInv, LeaseAgreed, Known
    <2>2. /\ Len(queue') = Len(queue) + 1 /\ Len(queue) \in Nat
          /\ \A i \in 1 .. Len(queue) : queue'[i] = queue[i]
          /\ queue'[Len(queue) + 1] = e
      BY <1>2, <1>5
    <2>3. e.req.type = "check" /\ e.answered = FALSE
      BY DEF Check
    <2> HIDE DEF e
    <2>4. QueueInv'
      BY <1>1, <2>2, <2>3 DEF IInv, QueueInv, RequestInv, Known
    <2> QED
      BY <1>3, <2>1, <2>4 DEF IInv
  <1> QED
    BY <1>1, <1>4, <1>5

LEMMA ExpirerWokenStep ==
    ASSUME IInv, ExpirerWoken
    PROVE  IInv'
  <1>1. Types' /\ ExpirerInv'
    BY DEF IInv, Types, ExpirerInv, ExpirerWoken, NoneExpired, store, counted
  <1> QED
    BY <1>1, BooksUnchanged DEF IInv, ExpirerWoken, store, counted

LEMMA ExpirerFailsStep ==
    ASSUME IInv, ExpirerFails
    PROVE  IInv'
  <1>1. /\ UNCHANGED <<services, gateway, unsaved, shortened, dead, offline, queue, timer, run>>
        /\ Fault("expire")
        /\ \E s : expirer' = NextService(expirer.todo \ {s})
    BY DEF ExpirerFails, store
  <1>2. faults' \in 0 .. MaxFaults
    BY <1>1, FaultCounted DEF IInv, Types
  <1>3. PICK s : expirer' = NextService(expirer.todo \ {s})
    BY <1>1
  <1>4. Types' /\ ExpirerInv'
    BY <1>1, <1>2, <1>3 DEF IInv, Types, ExpirerInv, NextService, NoneExpired
  <1> QED
    BY <1>1, <1>4, BooksUnchanged DEF IInv

LEMMA LoadDevicesStep ==
    ASSUME IInv, LoadDevices
    PROVE  IInv'
  <1>1. /\ UNCHANGED <<services, gateway, unsaved, shortened, dead, offline, queue, timer, run, faults>>
        /\ \E s \in IF expirer.svc = None THEN expirer.todo ELSE {expirer.svc} :
           \E D \in SUBSET Device :
              expirer' = [expirer EXCEPT !.svc = s, !.devices = D,
                                         !.at = IF D = {} THEN "confirm" ELSE "offline"]
    BY DEF LoadDevices, DevicesAt, store, counted
  <1>2. PICK s, D : /\ D \in SUBSET Device
                    /\ s \in IF expirer.svc = None THEN expirer.todo ELSE {expirer.svc}
                    /\ expirer' = [expirer EXCEPT !.svc = s, !.devices = D,
                                         !.at = IF D = {} THEN "confirm" ELSE "offline"]
    BY <1>1
  <1>3. s \in expirer.todo
    BY <1>2 DEF IInv, ExpirerInv
  <1>4. Types' /\ ExpirerInv'
    BY <1>1, <1>2, <1>3 DEF IInv, Types, ExpirerInv
  <1> QED
    BY <1>1, <1>4, BooksUnchanged DEF IInv

LEMMA UpdateDeviceStep ==
    ASSUME IInv, NEW d, UpdateDeviceToExpired(d)
    PROVE  IInv'
  <1>1. /\ UNCHANGED <<services, gateway, unsaved, shortened, dead, offline, queue, timer, run, faults>>
        /\ \E rest \in SUBSET Device : expirer' = [expirer EXCEPT !.devices = rest,
                                    !.at = IF rest = {} THEN "load" ELSE expirer.at]
        /\ expirer.at = "offline"
    BY DEF IInv, Types, UpdateDeviceToExpired, store, counted
  <1>2. Types' /\ ExpirerInv'
    BY <1>1 DEF IInv, Types, ExpirerInv
  <1> QED
    BY <1>1, <1>2, BooksUnchanged DEF IInv

LEMMA RestartStep ==
    ASSUME IInv, Restart
    PROVE  IInv'
  <1>1. /\ UNCHANGED <<services, gateway, unsaved, shortened, dead>>
        /\ Fault("restart") /\ queue' = << >> /\ timer' = 0 /\ run' = Idle
        /\ offline' = {} /\ expirer' = NoneExpired
    BY DEF Restart, NewServiceHeartbeat, store
  <1>2. faults' \in 0 .. MaxFaults
    BY <1>1, FaultCounted DEF IInv, Types
  <1>3. 0 \in Ticks /\ Never \in Ticks
    BY TicksAre, Lengths
  <1>4. Types' /\ ExpirerInv'
    BY <1>1, <1>2, <1>3 DEF IInv, Types, ExpirerInv, NoneExpired, Idle
  <1>5. QueueInv'
    BY <1>1 DEF QueueInv
  <1>6. RecordInv' /\ LeaseAgreed'
    BY <1>1 DEF IInv, RecordInv, LeaseAgreed, Known
  <1> QED
    BY <1>4, <1>5, <1>6 DEF IInv

LEMMA ConfirmExpiredStep ==
    ASSUME IInv, ConfirmExpired
    PROVE  IInv'
  <1>1. /\ UNCHANGED <<gateway, unsaved, shortened, dead, queue, timer, run, faults>>
        /\ services' = ServicesHandleCommand(services, Confirm(expirer.svc), 0).services
        /\ offline' = offline \ {expirer.svc}
        /\ expirer' = NextService(expirer.todo \ {expirer.svc})
    BY DEF ConfirmExpired, counted
  <1>2. services' = confirmExpiredServices(services, Confirm(expirer.svc)).services
    BY <1>1 DEF ServicesHandleCommand, Confirm
  <1>3. /\ services' \in Services /\ services'.valid = services.valid
        /\ services'.expired \subseteq services.expired
    BY <1>2 DEF confirmExpiredServices, ServicesHandled, IInv, Types, Services
  <1>4. Types' /\ ExpirerInv'
    BY <1>1, <1>3 DEF IInv, Types, ExpirerInv, NextService, NoneExpired
  <1>5. Known' \subseteq Known
    BY <1>1, <1>3 DEF Known
  <1>6. QueueInv'
    BY <1>1, <1>5 DEF IInv, QueueInv, RequestInv
  <1>7. RecordInv' /\ LeaseAgreed'
    BY <1>1, <1>3, <1>5 DEF IInv, RecordInv, LeaseAgreed
  <1> QED
    BY <1>4, <1>6, <1>7 DEF IInv

-----------------------------------------------------------------------------
(* The gateways.                                                             *)

(* A request joins the queue: the requests before it must not be those of    *)
(* a gateway that has another one under way.                                 *)
LEMMA Pushed ==
    ASSUME IInv, NEW e \in Entry, queue' = Append(queue, e), e.answered, e.req # Check,
           NEW phase \in Phase, gateway' = [gateway EXCEPT ![e.req.svc].phase = phase],
           UNCHANGED <<services, offline, unsaved, shortened, dead, timer, run, expirer, faults>>,
           \/ /\ e.req.type = "register" /\ phase = "registering"
              /\ gateway[e.req.svc].phase = "new"
           \/ /\ e.req.type = "update" /\ phase = "calling"
              /\ gateway[e.req.svc].phase = "waiting"
    PROVE  IInv'
  <1> DEFINE n == Len(queue)
             h == e.req.svc
  <1>1. /\ queue \in Seq(Entry) /\ n \in Nat /\ Len(queue') = n + 1
        /\ \A i \in 1 .. n : queue'[i] = queue[i]
        /\ queue'[n + 1] = e
        /\ queue' \in Seq(Entry)
    BY DEF IInv, Types
  <1>2. h \in Gateway
    BY DEF Entry, Request
  <1>3. /\ gateway' \in [Gateway -> [phase : Phase, left : 0 .. Longest]]
        /\ gateway'[h].phase = phase
        /\ \A g \in Gateway : gateway'[g].left = gateway[g].left
        /\ \A g \in Gateway : g # h => gateway'[g] = gateway[g]
    BY <1>2 DEF IInv, Types
  <1>4. Types' /\ ExpirerInv'
    BY <1>1, <1>3 DEF IInv, Types, ExpirerInv
  <1>5. Known' = Known /\ Known \subseteq Gateway
    BY ValidityIs DEF Known, IInv, RecordInv, Types, Services
  <1>6. RecordInv' /\ LeaseAgreed'
    BY <1>3, <1>5 DEF IInv, RecordInv, LeaseAgreed
  <1>7. gateway[h].phase = "new" => h \notin Known
    BY DEF IInv, RecordInv
  <1>8. ASSUME NEW i \in 1 .. n
        PROVE  /\ queue[i].req.svc = h => queue[i].req.type # "register" /\ ~queue[i].answered
               /\ queue[i].req = Check \/ queue[i].req.svc \in Gateway
               /\ RequestInv(queue[i])
               /\ queue[i].req.type \in {"register", "update", "check"}
    <2>1. RequestInv(queue[i])
      BY DEF IInv, QueueInv
    <2>2. queue[i].req = Check \/ (queue[i].req.type \in {"register", "update"} /\ queue[i].req.svc \in Gateway)
      BY <1>1, EntryIs
    <2> QED
      BY <2>1, <2>2 DEF RequestInv, Check
  <1>9. ASSUME NEW i \in 1 .. n
        PROVE  RequestInv(queue[i])'
    BY <1>1, <1>3, <1>5, <1>8 DEF RequestInv, Check
  <1>10. QueueInv'
    <2>1. RequestInv(e)'
      BY <1>2, <1>3, <1>5, <1>7 DEF RequestInv
    <2>2. \A i \in 1 .. Len(queue') : RequestInv(queue[i])'
      BY <1>1, <1>9, <2>1 DEF RequestInv
    <2>3. ASSUME NEW i \in 1 .. Len(queue'), NEW j \in 1 .. Len(queue'),
                 queue'[i].req.svc = queue'[j].req.svc,
                 \/ queue'[i].answered /\ queue'[j].answered
                 \/ queue'[i].req.type = "register" /\ queue'[j].req.type = "register"
          PROVE  i = j
      BY <1>1, <1>8, <2>3 DEF IInv, QueueInv
    <2> QED
      BY <2>2, <2>3 DEF QueueInv
  <1> QED
    BY <1>4, <1>6, <1>10 DEF IInv

LEMMA newServiceHeartbeatStep ==
    ASSUME IInv, NEW g \in Gateway, newServiceHeartbeat(g)
    PROVE  IInv'
  <1> DEFINE e == [req |-> Register(g), answered |-> TRUE]
  <1>1. /\ queue' = Append(queue, e) /\ gateway' = [gateway EXCEPT ![g].phase = "registering"]
        /\ UNCHANGED <<services, offline, unsaved, shortened, dead, timer, run, expirer, faults>>
        /\ gateway[g].phase = "new"
    BY DEF newServiceHeartbeat, Push, store, counted
  <1>2. /\ e \in Entry /\ e.answered /\ e.req # Check /\ e.req.svc = g
        /\ e.req.type = "register"
    BY DEF Entry, Request, Register, Check
  <1> HIDE DEF e
  <1> QED
    BY <1>1, <1>2, Pushed DEF Phase

LEMMA TryUpdateStep ==
    ASSUME IInv, NEW g \in Gateway, TryUpdateServiceMetadata(g)
    PROVE  IInv'
  <1> DEFINE e == [req |-> Update(g), answered |-> TRUE]
  <1>1. /\ queue' = Append(queue, e) /\ gateway' = [gateway EXCEPT ![g].phase = "calling"]
        /\ UNCHANGED <<services, offline, unsaved, shortened, dead, timer, run, expirer, faults>>
        /\ gateway[g].phase = "waiting"
    BY DEF TryUpdateServiceMetadata, Push, store, counted
  <1>2. /\ e \in Entry /\ e.answered /\ e.req # Check /\ e.req.svc = g
        /\ e.req.type = "update"
    BY DEF Entry, Request, Update, Check
  <1> HIDE DEF e
  <1> QED
    BY <1>1, <1>2, Pushed DEF Phase

(* A gateway gives up the call it waits for, or it waits for none.           *)
LEMMA Withdrawn ==
    ASSUME IInv, NEW h \in Gateway,
           \/ queue' = Abandon(h, queue)
           \/ queue' = queue /\ gateway[h].phase \in {"waiting", "stopping"},
           NEW new \in [phase : Phase, left : 0 .. Longest], gateway' = [gateway EXCEPT ![h] = new],
           new.left \in {0, gateway[h].left},
           new.phase # "new", gateway[h].phase # "new",
           gateway[h].phase \in {"registering", "down"} => new.phase = "down",
           new.phase \notin {"registering", "calling"},
           UNCHANGED <<services, offline, unsaved, shortened, dead, timer, run, expirer>>,
           faults' \in 0 .. MaxFaults
    PROVE  IInv'
  <1> DEFINE n == Len(queue)
  <1>1. queue \in Seq(Entry) /\ n \in Nat /\ queue \in [1 .. n -> Entry]
    BY DEF IInv, Types
  <1>2. ASSUME NEW i \in 1 .. n
        PROVE  /\ queue[i] \in Entry /\ RequestInv(queue[i])
               /\ queue[i].req = Check \/ (queue[i].req.type \in {"register", "update"} /\ queue[i].req.svc \in Gateway)
    BY <1>1, EntryIs DEF IInv, QueueInv
  <1>3. /\ Len(queue') = n /\ queue' \in Seq(Entry)
        /\ \A i \in 1 .. n :
              /\ queue'[i] \in Entry
              /\ queue'[i].req = queue[i].req
              /\ queue'[i].answered => queue[i].answered
              /\ queue'[i].answered => queue[i].req.svc # h
              /\ queue[i].req.svc # h => queue'[i].answered = queue[i].answered
    <2>1. CASE queue' = queue /\ gateway[h].phase \in {"waiting", "stopping"}
      BY <1>1, <1>2, <2>1 DEF RequestInv, Check
    <2>2. CASE queue' = Abandon(h, queue)
      <3>1. queue' = [i \in 1 .. n |-> IF Waits(h, queue[i]) THEN [queue[i] EXCEPT !.answered = FALSE]
                                       ELSE queue[i]]
        BY <1>1, <2>2 DEF Abandon
      <3>2. ASSUME NEW i \in 1 .. n
            PROVE  /\ queue'[i] \in Entry
                   /\ queue'[i].req = queue[i].req
                   /\ queue'[i].answered => queue[i].answered
                   /\ queue'[i].answered => queue[i].req.svc # h
                   /\ queue[i].req.svc # h => queue'[i].answered = queue[i].answered
        BY <1>2, <3>1 DEF Waits, Entry
      <3>3. queue' \in [1 .. n -> Entry]
        BY <3>1, <3>2
      <3> QED
        BY <1>1, <3>2, <3>3
    <2> QED
      BY <2>1, <2>2
  <1>4. /\ gateway' \in [Gateway -> [phase : Phase, left : 0 .. Longest]]
        /\ gateway'[h] = new
        /\ \A g \in Gateway : gateway'[g].left \in {0, gateway[g].left}
        /\ \A g \in Gateway : g # h => gateway'[g] = gateway[g]
    BY DEF IInv, Types
  <1>5. Types' /\ ExpirerInv'
    BY <1>3, <1>4 DEF IInv, Types, ExpirerInv
  <1>6. Known' = Known /\ Known \subseteq Gateway
    BY ValidityIs DEF Known, IInv, RecordInv, Types, Services
  <1>7. RecordInv' /\ LeaseAgreed'
    BY <1>4, <1>6 DEF IInv, RecordInv, LeaseAgreed
  <1>8. ASSUME NEW i \in 1 .. n
        PROVE  RequestInv(queue[i])'
    BY <1>2, <1>3, <1>4, <1>6 DEF RequestInv, Check
  <1>9. QueueInv'
    BY <1>3, <1>8 DEF IInv, QueueInv
  <1> QED
    BY <1>5, <1>7, <1>9 DEF IInv

LEMMA PhaseChanged ==
    ASSUME NEW f \in [Gateway -> [phase : Phase, left : 0 .. Longest]], NEW g \in Gateway, NEW p
    PROVE  [f EXCEPT ![g].phase = p] = [f EXCEPT ![g] = [phase |-> p, left |-> f[g].left]]
  <1>1. [f[g] EXCEPT !.phase = p] = [phase |-> p, left |-> f[g].left]
    OBVIOUS
  <1> QED
    BY <1>1

LEMMA GiveUpStep ==
    ASSUME IInv, NEW g \in Gateway, CallFails(g) \/ CallLost(g)
    PROVE  IInv'
  <1> DEFINE new == [phase |-> AfterError(g), left |-> gateway[g].left]
  <1>1. /\ gateway[g].phase \in {"registering", "calling"}
        /\ gateway' = [gateway EXCEPT ![g].phase = AfterError(g)]
        /\ queue' = Abandon(g, queue)
        /\ UNCHANGED <<services, offline, unsaved, shortened, dead, timer, run, expirer>>
    BY DEF CallFails, CallLost, GiveUp, store
  <1>2. faults' \in 0 .. MaxFaults
    BY FaultCounted DEF CallFails, CallLost, IInv, Types
  <1>3. gateway' = [gateway EXCEPT ![g] = new]
    BY <1>1, PhaseChanged DEF IInv, Types
  <1>4. /\ new \in [phase : Phase, left : 0 .. Longest] /\ new.left = gateway[g].left
        /\ new.phase \in {"down", "waiting"}
        /\ gateway[g].phase = "registering" => new.phase = "down"
    BY <1>1 DEF IInv, Types, AfterError, Phase
  <1> HIDE DEF new
  <1> QED
    BY <1>1, <1>2, <1>3, <1>4, Withdrawn

LEMMA GatewayEnds ==
    ASSUME IInv, NEW g \in Gateway, ServiceIsOffline(g) \/ Stop(g) \/ Crash(g)
    PROVE  IInv'
  <1>1. faults' \in 0 .. MaxFaults
    BY DEF ServiceIsOffline, Stop, Crash, counted, IInv, Types
  <1>2. CASE ServiceIsOffline(g)
    <2> DEFINE new == [phase |-> "stopping", left |-> gateway[g].left]
    <2>1. /\ gateway[g].phase = "waiting" /\ gateway' = [gateway EXCEPT ![g].phase = "stopping"]
          /\ UNCHANGED <<services, offline, unsaved, shortened, dead, timer, run, expirer, queue>>
      BY <1>2 DEF ServiceIsOffline, store, process, counted
    <2>2. /\ new \in [phase : Phase, left : 0 .. Longest] /\ new.left = gateway[g].left
          /\ new.phase = "stopping"
      BY <2>1 DEF IInv, Types, Phase
    <2>3. gateway' = [gateway EXCEPT ![g] = new]
      BY <2>1, PhaseChanged DEF IInv, Types
    <2> HIDE DEF new
    <2> QED
      BY <1>1, <2>1, <2>2, <2>3, Withdrawn
  <1>3. CASE Stop(g) \/ Crash(g)
    <2> DEFINE new == [phase |-> "down", left |-> 0]
    <2>1. /\ gateway[g].phase # "new" /\ gateway' = [gateway EXCEPT ![g] = new]
          /\ \/ queue' = Abandon(g, queue)
             \/ queue' = queue /\ gateway[g].phase \in {"waiting", "stopping"}
          /\ UNCHANGED <<services, offline, unsaved, shortened, dead, timer, run, expirer>>
      BY <1>3 DEF Stop, Crash, store, process, counted
    <2>2. new \in [phase : Phase, left : 0 .. Longest] /\ new.left = 0 /\ new.phase = "down"
      BY Lengths DEF Phase
    <2> HIDE DEF new
    <2> QED
      BY <1>1, <2>1, <2>2, Withdrawn
  <1> QED
    BY <1>2, <1>3

-----------------------------------------------------------------------------
(* processRequest.                                                           *)

(* What a gateway makes of an answer.                                        *)
LEMMA Answered ==
    ASSUME IInv, NEW r \in Entry, NEW handled, NEW ttl \in 0 .. Longest, Answer(r, handled, ttl),
           RequestInv(r), handled.result \in {"ok", "refused", "invalid"}
    PROVE  LET g == r.req.svc
           IN /\ gateway' \in [Gateway -> [phase : Phase, left : 0 .. Longest]]
              /\ \A h \in Gateway : h # g => gateway'[h] = gateway[h]
              /\ ~r.answered => gateway' = gateway
              /\ r.answered /\ handled.result = "ok" =>
                    gateway'[g].phase = "waiting" /\ gateway'[g].left = ttl
              /\ r.answered /\ handled.result # "ok" =>
                    /\ gateway'[g].phase \in {"waiting", "stopping", "down"}
                    /\ gateway'[g].left = gateway[g].left
              /\ r.answered => g \in Gateway /\ gateway[g].phase \in {"registering", "calling"}
  <1> DEFINE g == r.req.svc
  <1>1. CASE ~r.answered
    BY <1>1 DEF Answer, IInv, Types
  <1>2. CASE r.answered
    <2>1. g \in Gateway /\ gateway[g].phase \in {"registering", "calling"}
      BY <1>2 DEF RequestInv, Entry, Request, Check
    <2>2. PICK new : /\ gateway' = [gateway EXCEPT ![g] = new]
                     /\ new = CASE handled.result = "ok" -> [phase |-> "waiting", left |-> ttl]
                                [] handled.result = "refused" ->
                                      [phase |-> AfterRefusal(g), left |-> gateway[g].left]
                                [] handled.result = "invalid" ->
                                      [phase |-> AfterError(g), left |-> gateway[g].left]
      BY <1>2 DEF Answer
    <2>3. gateway[g].left \in 0 .. Longest /\ gateway \in [Gateway -> [phase : Phase, left : 0 .. Longest]]
      BY <2>1 DEF IInv, Types
    <2>4. /\ new \in [phase : Phase, left : 0 .. Longest]
          /\ handled.result = "ok" => new.phase = "waiting" /\ new.left = ttl
          /\ handled.result # "ok" => /\ new.phase \in {"waiting", "stopping", "down"}
                                      /\ new.left = gateway[g].left
      <3>1. CASE handled.result = "ok"
        BY <2>2, <2>3, <3>1 DEF Phase
      <3>2. CASE handled.result = "refused"
        BY <2>2, <2>3, <3>2 DEF Phase, AfterRefusal
      <3>3. CASE handled.result = "invalid"
        BY <2>2, <2>3, <3>3 DEF Phase, AfterError
      <3> QED
        BY <3>1, <3>2, <3>3
    <2> QED
      BY <1>2, <2>1, <2>2, <2>3, <2>4
  <1> QED
    BY <1>1, <1>2

(* The head of the queue, and what is left of the queue.                     *)
LEMMA Popped ==
    ASSUME IInv, queue # << >>, queue' = Tail(queue)
    PROVE  /\ Head(queue) \in Entry /\ RequestInv(Head(queue)) /\ queue' \in Seq(Entry)
           /\ Len(queue') = Len(queue) - 1 /\ Len(queue) \in Nat
           /\ Head(queue) = queue[1] /\ 1 \in 1 .. Len(queue)
           /\ \A i \in 1 .. Len(queue') :
                /\ queue'[i] = queue[i + 1] /\ i + 1 \in 1 .. Len(queue)
                /\ i + 1 # 1
  <1>1. queue \in Seq(Entry)
    BY DEF IInv, Types
  <1>2. /\ Len(queue) \in Nat /\ 1 \in 1 .. Len(queue) /\ Head(queue) = queue[1]
        /\ queue' \in Seq(Entry) /\ Len(queue') = Len(queue) - 1
        /\ \A i \in 1 .. Len(queue') : queue'[i] = queue[i + 1]
    BY <1>1
  <1>3. queue[1] \in Entry /\ RequestInv(queue[1])
    BY <1>1, <1>2 DEF IInv, QueueInv
  <1> QED
    BY <1>2, <1>3

(* The queue once its head has been handled, whatever came of it.            *)
LEMMA QueueAfter ==
    ASSUME IInv, queue # << >>, queue' = Tail(queue),
           NEW r, r = Head(queue),
           gateway' \in [Gateway -> [phase : Phase, left : 0 .. Longest]],
           \A h \in Gateway : h # r.req.svc => gateway'[h] = gateway[h],
           ~r.answered => gateway' = gateway,
           r.answered => gateway'[r.req.svc].phase \in {"waiting", "stopping", "down"},
           \A g \in Known' : g \in Known \/ (r.req.type = "register" /\ g = r.req.svc)
    PROVE  QueueInv'
  <1> DEFINE n == Len(queue)
  <1>1. ASSUME NEW i \in 1 .. Len(queue')
        PROVE  RequestInv(queue[i])'
    <2>1. PICK k \in 1 .. n : k = i + 1 /\ k # 1 /\ queue'[i] = queue[k]
      BY Popped
    <2>2. RequestInv(queue[k]) /\ queue[1] = r /\ 1 \in 1 .. n
      BY Popped DEF IInv, QueueInv
    <2>3. queue[k].req.svc = r.req.svc =>
             /\ ~(queue[k].answered /\ r.answered)
             /\ ~(queue[k].req.type = "register" /\ r.req.type = "register")
      BY <2>1, <2>2 DEF IInv, QueueInv
    <2>4. /\ queue[k].req = Check \/ (queue[k].req.type \in {"register", "update"} /\ queue[k].req.svc \in Gateway)
          /\ r.req.type \in {"register", "update", "check"}
      BY <2>1, <2>2, EntryIs DEF IInv, Types, Check
    <2>5. RequestInv(r)
      BY Popped
    <2> QED
      BY <2>1, <2>2, <2>3, <2>4, <2>5 DEF RequestInv, Check
  <1>2. ASSUME NEW i \in 1 .. Len(queue'), NEW j \in 1 .. Len(queue'),
               queue'[i].req.svc = queue'[j].req.svc,
               \/ queue'[i].answered /\ queue'[j].answered
               \/ queue'[i].req.type = "register" /\ queue'[j].req.type = "register"
        PROVE  i = j
    <2>1. PICK k \in 1 .. n : k = i + 1 /\ queue'[i] = queue[k]
      BY Popped
    <2>2. PICK l \in 1 .. n : l = j + 1 /\ queue'[j] = queue[l]
      BY Popped
    <2>3. k = l
      BY <1>2, <2>1, <2>2 DEF IInv, QueueInv
    <2> QED
      BY <2>1, <2>2, <2>3
  <1> QED
    BY <1>1, <1>2 DEF QueueInv

(* The snapshot with which processRequest ends.                              *)
LEMMA Remembered ==
    ASSUME IInv, NEW snapshot \in Services, Remember(snapshot)
    PROVE  /\ offline' = offline \cup snapshot.expired /\ offline' \subseteq Gateway
           /\ run' \in [at : {"select", "drain"}, next : Ticks]
  <1>1. offline' = offline \cup snapshot.expired /\ offline' \subseteq Gateway
    BY DEF Remember, IInv, Types, Services
  <1>2. run \in [at : {"select", "drain"}, next : Ticks] /\ run.next \in Ticks
    BY DEF IInv, Types
  <1>3. snapshot.valid \in Validity
    BY DEF Services
  <1>4. CASE DOMAIN snapshot.valid = {}
    BY <1>1, <1>2, <1>4 DEF Remember
  <1>5. CASE DOMAIN snapshot.valid # {}
    <2> DEFINE t == Sooner(run.next, Min({snapshot.valid[s] : s \in DOMAIN snapshot.valid}))
    <2>1. t \in Ticks
      BY <1>2, <1>3, <1>5, SoonestIsTick
    <2>2. run' = [run EXCEPT !.next = t]
      BY <1>5 DEF Remember
    <2> HIDE DEF t
    <2> QED
      BY <1>1, <1>2, <2>1, <2>2
  <1> QED
    BY <1>4, <1>5

(* The request is handled and what came of it is stored.                     *)
LEMMA RequestStored ==
    ASSUME IInv, NEW ttl \in {TimeToLive, Longest}, queue # << >>, queue' = Tail(queue),
           NEW r, r = Head(queue), NEW h, h = ServicesHandleCommand(services, r.req, ttl),
           services' = h.services, Answer(r, h, ttl), Remember(h.services),
           shortened' = shortened \cup Shortened(r, h.services),
           dead' = dead \cup h.services.expired,
           UNCHANGED <<timer, expirer, faults, unsaved>>
    PROVE  IInv'
  <1> DEFINE g == r.req.svc
  <1>1. r \in Entry /\ RequestInv(r) /\ r.req \in Request /\ queue' \in Seq(Entry)
        /\ r.answered \in BOOLEAN
    BY Popped DEF Entry
  <1>2. /\ services \in Services /\ DOMAIN services.valid \cap services.expired = {}
        /\ services.valid \in [DOMAIN services.valid -> 0 .. Longest]
        /\ services.expired \subseteq Gateway /\ DOMAIN services.valid \subseteq Gateway
        /\ ttl \in 0 .. Longest
    BY Lengths, ValidityIs DEF IInv, Types, RecordInv, Services
  <1>3. /\ h.services \in Services
        /\ DOMAIN h.services.valid \cap h.services.expired = {}
        /\ h.result \in {"ok", "refused"}
        /\ \A s \in DOMAIN h.services.valid :
              s \in DOMAIN services.valid \/ (r.req.type = "register" /\ s = g)
        /\ h.services.expired \subseteq DOMAIN services.valid \cup services.expired
        /\ \A s \in DOMAIN services.valid :
              services.valid[s] > 0 =>
                  /\ s \in DOMAIN h.services.valid
                  /\ h.services.valid[s] \in {services.valid[s], ttl}
                  /\ s # g => h.services.valid[s] = services.valid[s]
        /\ r.req # Check /\ h.result = "ok" =>
              g \in DOMAIN h.services.valid /\ h.services.valid[g] = ttl
        /\ h.result = "refused" => h.services = services
    BY <1>1, <1>2, HandledIs
  <1>4. /\ gateway' \in [Gateway -> [phase : Phase, left : 0 .. Longest]]
        /\ \A s \in Gateway : s # g => gateway'[s] = gateway[s]
        /\ ~r.answered => gateway' = gateway
        /\ r.answered /\ h.result = "ok" => gateway'[g].phase = "waiting" /\ gateway'[g].left = ttl
        /\ r.answered /\ h.result # "ok" => /\ gateway'[g].phase \in {"waiting", "stopping", "down"}
                                            /\ gateway'[g].left = gateway[g].left
        /\ r.answered => g \in Gateway /\ gateway[g].phase \in {"registering", "calling"}
    BY <1>1, <1>2, <1>3, Answered
  <1>5. /\ offline' = offline \cup h.services.expired /\ offline' \subseteq Gateway
        /\ run' \in [at : {"select", "drain"}, next : Ticks]
    BY <1>3, Remembered
  <1>6. Types' /\ ExpirerInv'
    <2>1. Types'
      BY <1>1, <1>3, <1>4, <1>5 DEF IInv, Types
    <2>2. ExpirerInv'
      BY <1>5 DEF IInv, ExpirerInv
    <2> QED
      BY <2>1, <2>2
  <1>7. \A s \in Known' : s \in Known \/ (r.req.type = "register" /\ s = g)
    BY <1>3, <1>5 DEF Known
  <1>8. QueueInv'
    BY <1>4, <1>7, QueueAfter
  <1>9. RecordInv'
    <2>1. ASSUME NEW s \in Known'
          PROVE  gateway'[s].phase # "new"
      <3>1. r.req.type = "register" => g \in Gateway /\ gateway[g].phase # "new"
        BY <1>1 DEF RequestInv, Request, Check
      <3>2. s \in Gateway /\ gateway[s].phase # "new"
        BY <1>2, <1>7, <3>1 DEF IInv, RecordInv, Known, Types
      <3> QED
        BY <1>3, <1>4, <3>2
    <2>2. ASSUME NEW s \in offline', s \in DOMAIN services'.valid
          PROVE  s \in unsaved'
      <3>1. s \in offline
        BY <1>3, <1>5, <2>2
      <3>2. ~(r.req.type = "register" /\ s = g)
        BY <1>1, <3>1 DEF RequestInv, Known
      <3> QED
        BY <1>3, <2>2, <3>1, <3>2 DEF IInv, RecordInv
    <2>3. services'.expired \subseteq dead' /\ dead' \subseteq Gateway
      BY <1>2, <1>3 DEF IInv, RecordInv
    <2>4. ASSUME NEW s \in DOMAIN services'.valid
          PROVE  s \notin dead'
      <3>1. s \in DOMAIN services.valid \/ (r.req.type = "register" /\ s = g)
        BY <1>3
      <3>2. s \notin dead
        BY <1>1, <3>1 DEF IInv, RecordInv, RequestInv, Known
      <3> QED
        BY <1>3, <3>2
    <2> QED
      BY <1>3, <2>1, <2>2, <2>3, <2>4 DEF RecordInv
  <1>10. LeaseAgreed'
    <2> SUFFICES ASSUME NEW s \in Gateway, gateway'[s].left > 0, s \notin shortened'
                 PROVE  s \in DOMAIN h.services.valid /\ h.services.valid[s] >= gateway'[s].left
      BY DEF LeaseAgreed
    <2>0. gateway'[s].left \in 0 .. Longest /\ Longest \in Nat /\ ttl \in Nat
      BY <1>2, <1>4, Lengths
    <2>1. CASE s = g /\ r.answered /\ h.result = "ok"
      <3>1. r.req # Check
        BY <1>1, <2>1 DEF RequestInv, Check
      <3> QED
        BY <1>3, <1>4, <2>0, <2>1, <3>1
    <2>2. CASE ~(s = g /\ r.answered /\ h.result = "ok")
      <3>1. gateway'[s].left = gateway[s].left
        BY <1>3, <1>4, <2>2
      <3>2. s \in DOMAIN services.valid /\ services.valid[s] >= gateway[s].left
        BY <3>1 DEF IInv, LeaseAgreed
      <3>3. services.valid[s] \in 0 .. Longest /\ services.valid[s] > 0
        BY <1>2, <2>0, <3>1, <3>2
      <3>4. s \in DOMAIN h.services.valid
        BY <1>3, <3>2, <3>3
      <3>5. CASE h.services.valid[s] = services.valid[s]
        BY <3>1, <3>2, <3>4, <3>5
      <3>6. CASE h.services.valid[s] # services.valid[s]
        <4>1. s = g /\ h.services.valid[s] = ttl
          BY <1>3, <3>2, <3>3, <3>6
        <4>2. h.result = "ok"
          BY <1>3, <3>6
        <4>3. ~r.answered
          BY <2>2, <4>1, <4>2
        <4>4. ~(h.services.valid[s] < gateway[s].left)
          BY <3>4, <4>3 DEF Shortened
        <4> QED
          BY <2>0, <3>1, <3>4, <4>1, <4>4
      <3> QED
        BY <3>5, <3>6
    <2> QED
      BY <2>1, <2>2
  <1> QED
    BY <1>6, <1>8, <1>9, <1>10 DEF IInv

(* Loading the aggregate fails, or storing it.                               *)
LEMMA RequestFails ==
    ASSUME IInv, NEW ttl \in {TimeToLive, Longest}, queue # << >>, queue' = Tail(queue),
           NEW r, r = Head(queue), NEW h, h = ServicesHandleCommand(services, r.req, ttl),
           Answer(r, ServicesHandled("invalid", FALSE, services), 0),
           \/ Fault("load") /\ Remember(NoServices) /\ UNCHANGED unsaved
           \/ /\ Fault("save") /\ Remember(h.services)
              /\ unsaved' = unsaved \cup (h.services.expired \ services.expired),
           UNCHANGED <<services, shortened, dead, timer, expirer>>
    PROVE  IInv'
  <1> DEFINE g == r.req.svc
             a == ServicesHandled("invalid", FALSE, services)
  <1>1. r \in Entry /\ RequestInv(r) /\ r.req \in Request /\ queue' \in Seq(Entry)
    BY Popped DEF Entry
  <1>2. /\ services \in Services /\ DOMAIN services.valid \cap services.expired = {}
        /\ services.expired \subseteq Gateway /\ DOMAIN services.valid \subseteq Gateway
    BY ValidityIs DEF IInv, Types, RecordInv, Services
  <1>3. /\ h.services \in Services
        /\ h.services.expired \subseteq DOMAIN services.valid \cup services.expired
    BY <1>1, <1>2, HandledIs
  <1>4. /\ gateway' \in [Gateway -> [phase : Phase, left : 0 .. Longest]]
        /\ \A s \in Gateway : s # g => gateway'[s] = gateway[s]
        /\ ~r.answered => gateway' = gateway
        /\ r.answered => /\ gateway'[g].phase \in {"waiting", "stopping", "down"}
                         /\ gateway'[g].left = gateway[g].left
    <2>1. a.result = "invalid" /\ 0 \in 0 .. Longest /\ Answer(r, a, 0)
      BY Lengths DEF ServicesHandled
    <2> HIDE DEF a
    <2> QED
      BY <1>1, <2>1, Answered
  <1>5. faults' \in 0 .. MaxFaults
    BY FaultCounted DEF IInv, Types
  <1>6. NoServices \in Services /\ NoServices.expired = {}
    <2>1. << >> \in Validity
      <3>1. << >> \in Seq(0 .. Longest) /\ Len(<< >>) = 0
        BY EmptySeq
      <3>2. DOMAIN << >> = {} /\ << >> \in [DOMAIN << >> -> 0 .. Longest]
        BY <3>1
      <3> QED
        BY <3>2, ValidityIs
    <2> QED
      BY <2>1 DEF NoServices, Services
  <1>7. /\ run' \in [at : {"select", "drain"}, next : Ticks]
        /\ offline' \subseteq Gateway /\ offline \subseteq offline'
        /\ offline' \subseteq offline \cup DOMAIN services.valid \cup services.expired
        /\ offline' \ offline \subseteq services.expired \cup unsaved'
        /\ unsaved \subseteq unsaved'
    <2>1. CASE Fault("load") /\ Remember(NoServices) /\ UNCHANGED unsaved
      BY <1>6, <2>1, Remembered
    <2>2. CASE /\ Fault("save") /\ Remember(h.services)
               /\ unsaved' = unsaved \cup (h.services.expired \ services.expired)
      BY <1>3, <2>2, Remembered
    <2> QED
      BY <2>1, <2>2
  <1>8. Types' /\ ExpirerInv'
    <2>1. Types'
      BY <1>1, <1>4, <1>5, <1>7 DEF IInv, Types
    <2>2. ExpirerInv'
      BY <1>7 DEF IInv, ExpirerInv
    <2> QED
      BY <2>1, <2>2
  <1>9. Known' = Known
    BY <1>7 DEF Known
  <1>10. QueueInv'
    BY <1>4, <1>9, QueueAfter
  <1>11. RecordInv'
    <2>1. ASSUME NEW s \in Known
          PROVE  gateway'[s].phase # "new"
      <3>1. s \in Gateway /\ gateway[s].phase # "new"
        BY <1>2 DEF IInv, RecordInv, Known, Types
      <3> QED
        BY <1>4, <3>1
    <2>2. offline' \cap DOMAIN services.valid \subseteq unsaved'
      BY <1>2, <1>7 DEF IInv, RecordInv
    <2> QED
      BY <1>2, <1>9, <2>1, <2>2 DEF IInv, RecordInv
  <1>12. LeaseAgreed'
    BY <1>4 DEF IInv, LeaseAgreed
  <1> QED
    BY <1>8, <1>10, <1>11, <1>12 DEF IInv

LEMMA ProcessRequestStep ==
    ASSUME IInv, NEW ttl \in {TimeToLive, TimeToLive + Extra}, ProcessRequest(ttl)
    PROVE  IInv'
  <1>1. ttl \in {TimeToLive, Longest}
    BY DEF Longest
  <1>2. PICK r, h : r = Head(queue) /\ h = ServicesHandleCommand(services, r.req, ttl)
    OBVIOUS
  <1>3. /\ queue # << >> /\ queue' = Tail(queue) /\ UNCHANGED <<timer, expirer>>
        /\ \/ /\ services' = h.services /\ Answer(r, h, ttl) /\ Remember(h.services)
              /\ shortened' = shortened \cup Shortened(r, h.services)
              /\ dead' = dead \cup h.services.expired /\ UNCHANGED <<faults, unsaved>>
           \/ /\ Answer(r, ServicesHandled("invalid", FALSE, services), 0)
              /\ \/ Fault("load") /\ Remember(NoServices) /\ UNCHANGED unsaved
                 \/ /\ Fault("save") /\ Remember(h.services)
                    /\ unsaved' = unsaved \cup (h.services.expired \ services.expired)
              /\ UNCHANGED <<services, shortened, dead>>
    BY <1>2 DEF ProcessRequest
  <1> QED
    BY <1>1, <1>2, <1>3, RequestStored, RequestFails

LEMMA Preserved ==
    ASSUME IInv, [Next]_vars
    PROVE  IInv'
  <1>1. CASE Tick
    BY <1>1, TickStep
  <1>2. CASE GatewayNext
    <2>1. ASSUME NEW g \in Gateway,
                 \/ newServiceHeartbeat(g) \/ TryUpdateServiceMetadata(g) \/ ServiceIsOffline(g)
                 \/ CallFails(g) \/ CallLost(g) \/ Stop(g) \/ Crash(g)
          PROVE  IInv'
      BY <2>1, newServiceHeartbeatStep, TryUpdateStep, GiveUpStep, GatewayEnds
    <2>2. ASSUME NEW c, SignIn(c) \/ OnClose(c) \/ HandleReport(c)
          PROVE  IInv'
      BY <2>2, ConnectionStep
    <2> QED
      BY <1>2, <2>1, <2>2 DEF GatewayNext
  <1>3. CASE RunStep
    BY <1>3, RunWokenStep, RunTimerStep, RunSleepStep, ProcessRequestStep DEF RunStep
  <1>4. CASE ExpirerStep
    BY <1>4, ExpirerWokenStep, LoadDevicesStep, ConfirmExpiredStep, UpdateDeviceStep DEF ExpirerStep
  <1>5. CASE ExpirerFails \/ Restart
    BY <1>5, ExpirerFailsStep, RestartStep
  <1>6. CASE UNCHANGED vars
    BY <1>6, ProcessUnchanged DEF vars, store, counted, IInv, Types
  <1> QED
    BY <1>1, <1>2, <1>3, <1>4, <1>5, <1>6 DEF Next

LEMMA Invariance == Spec => []IInv
  <1>1. Init => IInv
    BY Initially
  <1>2. IInv /\ [Next]_vars => IInv'
    BY Preserved
  <1> QED
    BY <1>1, <1>2, PTL DEF Spec

-----------------------------------------------------------------------------
(* The theorems about heartbeats.                                            *)

(* Every service that the hub knows is a gateway that has asked for it, and  *)
(* it is valid or expired, never both; times and counts stay in their        *)
(* bounds (ServiceMetadataSnapshotTaken, run, runProcessExpiredServices).    *)
THEOREM TypeCorrect == Spec => []TypeOK
  <1>1. IInv => TypeOK
    <2> SUFFICES ASSUME IInv PROVE TypeOK
      OBVIOUS
    <2>1. /\ services.valid \in [DOMAIN services.valid -> 0 .. TimeToLive + Extra]
          /\ DOMAIN services.valid \subseteq Gateway /\ services.expired \subseteq Gateway
      BY ValidityIs DEF IInv, Types, Services, Longest
    <2>2. \A g \in DOMAIN services.valid \cup services.expired : gateway[g].phase # "new"
      BY DEF IInv, RecordInv, Known
    <2>3. \A g \in Gateway : gateway[g].left \in 0 .. TimeToLive + Extra
      BY DEF IInv, Types, Longest
    <2>4. /\ timer \in Ticks /\ run.next \in Ticks /\ offline \cup expirer.todo \subseteq Gateway
          /\ faults \in 0 .. MaxFaults
      BY DEF IInv, Types
    <2> QED
      BY <2>1, <2>2, <2>3, <2>4 DEF TypeOK, IInv, RecordInv
  <1> QED
    BY <1>1, Invariance, PTL

(* A gateway that believes itself valid is valid in the hub, and at least as *)
(* long, whatever calls are lost or answered late, whatever fails in         *)
(* processRequest and however often resource-aggregate restarts.             *)
THEOREM LeasesAgree == Spec => []LeaseAgreed
  <1>1. IInv => LeaseAgreed
    BY DEF IInv
  <1> QED
    BY <1>1, Invariance, PTL

(* A gateway the hub has once taken for dead is never valid again, however   *)
(* late its heartbeats arrive and whether or not the hub still remembers it: *)
(* only a registration makes a gateway valid, a gateway registers once, and  *)
(* no registration is on its way of a gateway that was once recorded         *)
(* (prepareHeartbeatForService).                                             *)
THEOREM NeverAgain == Spec => []NeverRevived
  <1>1. IInv => NeverRevived
    BY DEF IInv, RecordInv, NeverRevived
  <1> QED
    BY <1>1, Invariance, PTL

-----------------------------------------------------------------------------
(* The devices.                                                              *)

DeviceUpdated ==
    [online : BOOLEAN, id : Connection \cup {None}, svc : Gateway \cup {None}, at : {0},
     twinEnabled : {TRUE}, canceled : {FALSE}, user : {None, "device", "service"}, corr : {None}]
Twin == [set : BOOLEAN, state : {"OUT_OF_SYNC"}, conn : Connection \cup {None}, seq : Nat,
         syncingAt : {0}, inSyncAt : {0}, forceAt : {0}]
DeviceState == [exists : BOOLEAN, updated : DeviceUpdated, twin : Twin, seq : Nat, pendings : {<< >>}]
ConnectionCommand ==
    [type : {"connection"}, online : BOOLEAN, conn : Connection \cup {None}, seq : Nat,
     svc : Gateway \cup {None}, at : {0}]

(* The metadata of the devices and the reports on their way.                 *)
DeviceInv ==
    /\ device \in [Device -> DeviceState]
    /\ reports \subseteq [conn : Connection, online : BOOLEAN]

(* HandleDeviceMetadataUpdated, for a device without pending updates.        *)
LEMMA UpdatedHandled ==
    ASSUME NEW st \in DeviceState, NEW u \in DeviceUpdated, NEW tw \in Twin, NEW sq \in Nat,
           NEW inPlace \in BOOLEAN
    PROVE  LET s == HandleDeviceMetadataUpdated(st, u, tw, sq, FALSE, inPlace).state
           IN \/ s = st
              \/ s = [exists |-> TRUE, updated |-> u, twin |-> tw, seq |-> sq, pendings |-> << >>]
  <1>1. st.pendings = << >>
    BY DEF DeviceState
  <1>2. DropUpdate(st.pendings, u.corr) = << >>
    <2>1. Ids(<< >>) = {}
      BY DEF Ids
    <2> QED
      BY <1>1, <2>1 DEF DropUpdate
  <1>3. [st EXCEPT !.pendings = << >>] = st
    BY <1>1 DEF DeviceState
  <1>4. \/ HandleDeviceMetadataUpdated(st, u, tw, sq, FALSE, inPlace).state = [st EXCEPT !.pendings = << >>]
        \/ HandleDeviceMetadataUpdated(st, u, tw, sq, FALSE, inPlace).state
             = [exists |-> TRUE, updated |-> u, twin |-> tw, seq |-> sq, pendings |-> << >>]
    <2>1. CASE EqualUpdated(st.updated, u) /\ (inPlace \/ EqualTwin(st.twin, tw))
      BY <1>2, <2>1 DEF HandleDeviceMetadataUpdated, DeviceAccepted
    <2>2. CASE ~(EqualUpdated(st.updated, u) /\ (inPlace \/ EqualTwin(st.twin, tw)))
      BY <1>2, <2>2 DEF HandleDeviceMetadataUpdated, DeviceAccepted
    <2> QED
      BY <2>1, <2>2
  <1> QED
    BY <1>3, <1>4

(* updateDeviceConnection.                                                   *)
LEMMA ConnectionChanged ==
    ASSUME NEW st \in DeviceState, NEW cmd \in ConnectionCommand, NEW user \in {"device", "service"}
    PROVE  LET s == updateDeviceConnection(st, cmd, user).state
           IN s \in DeviceState /\ (s = st \/ s.updated.user = user)
  <1> DEFINE u == [st.updated EXCEPT !.online = cmd.online, !.id = cmd.conn,
                       !.svc = ServiceAfter(st, cmd), !.at = LaterOf(st.updated.at, cmd.at),
                       !.canceled = FALSE, !.user = user, !.corr = None]
             tw == TwinAfter(st, cmd)
             s == updateDeviceConnection(st, cmd, user).state
             h == HandleDeviceMetadataUpdated(st, u, tw, cmd.seq, FALSE, st.twin.set).state
  <1>1. u \in DeviceUpdated /\ u.user = user
    <2>1. st.updated \in DeviceUpdated
      BY DEF DeviceState
    <2>2. /\ LaterOf(st.updated.at, cmd.at) = 0 /\ ServiceAfter(st, cmd) \in Gateway \cup {None}
          /\ cmd.online \in BOOLEAN /\ cmd.conn \in Connection \cup {None}
      BY <2>1 DEF LaterOf, ServiceAfter, ConnectionCommand, DeviceUpdated
    <2> QED
      BY <2>1, <2>2 DEF DeviceUpdated
  <1>2. tw \in Twin /\ st.twin.set \in BOOLEAN /\ cmd.seq \in Nat
    BY DEF TwinAfter, DeviceState, DeviceUpdated, Twin, ConnectionCommand
  <1>3. CASE MayChangeConnection(st, cmd)
    <2>1. s = h
      BY <1>3 DEF updateDeviceConnection
    <2> HIDE DEF u, tw, s, h
    <2>2. \/ h = st
          \/ h = [exists |-> TRUE, updated |-> u, twin |-> tw, seq |-> cmd.seq, pendings |-> << >>]
      BY <1>1, <1>2, UpdatedHandled DEF h
    <2>3. CASE h = st
      BY <2>1, <2>3 DEF s
    <2>4. CASE h = [exists |-> TRUE, updated |-> u, twin |-> tw, seq |-> cmd.seq, pendings |-> << >>]
      <3>1. h \in DeviceState
        BY <1>1, <1>2, <2>4 DEF DeviceState
      <3>2. h.updated.user = user
        BY <1>1, <2>4
      <3> QED
        BY <2>1, <3>1, <3>2 DEF s
    <2> QED
      BY <2>2, <2>3, <2>4
  <1>4. CASE ~MayChangeConnection(st, cmd)
    BY <1>4 DEF updateDeviceConnection, DeviceRejected
  <1> QED
    BY <1>3, <1>4

(* A report of a gateway on a connection.                                    *)
LEMMA ReportHandled ==
    ASSUME NEW st \in DeviceState, NEW r \in [conn : Connection, online : BOOLEAN]
    PROVE  LET s == DeviceHandleCommand(st, DeviceCommand(r), 0).state
           IN s \in DeviceState /\ (s = st \/ s.updated.user = "device")
  <1> DEFINE cmd == DeviceCommand(r)
  <1>1. cmd \in ConnectionCommand
    BY HeartbeatConstants DEF DeviceCommand, Connect, Disconnect, ConnectionCommand
  <1>2. cmd.type = "connection"
    BY DEF DeviceCommand, Connect, Disconnect
  <1> HIDE DEF cmd
  <1>3. DeviceHandleCommand(st, cmd, 0) = updateDeviceConnection(st, cmd, "device")
    BY <1>2 DEF DeviceHandleCommand
  <1> QED
    BY <1>1, <1>3, ConnectionChanged DEF cmd

(* The end of a connection whose service has expired.                        *)
LEMMA ExpiryHandled ==
    ASSUME NEW st \in DeviceState, NEW svc
    PROVE  LET s == DeviceHandleCommand(st, UpdateDeviceToOffline(svc), 0).state
           IN s \in DeviceState /\ (s = st \/ st.updated.svc = svc)
  <1> DEFINE cmd == UpdateDeviceToOffline(svc)
             end == Disconnect(st.updated.id, st.seq + 1)
  <1>1. DeviceHandleCommand(st, cmd, 0) = updateToOfflineRequest(st, cmd) /\ cmd.svc = svc
    BY DEF DeviceHandleCommand, UpdateDeviceToOffline
  <1>2. end \in ConnectionCommand
    BY DEF Disconnect, ConnectionCommand, DeviceState, DeviceUpdated
  <1> HIDE DEF cmd, end
  <1>3. updateDeviceConnection(st, end, "service").state \in DeviceState
    BY <1>2, ConnectionChanged
  <1>4. CASE st.updated.svc = svc
    BY <1>1, <1>3, <1>4 DEF updateToOfflineRequest, cmd, end
  <1>5. CASE st.updated.svc # svc
    BY <1>1, <1>5 DEF updateToOfflineRequest, DeviceAccepted, cmd
  <1> QED
    BY <1>4, <1>5

LEMMA DevicesInitially == Init => DeviceInv
  <1> SUFFICES ASSUME Init PROVE DeviceInv
    OBVIOUS
  <1>1. NewDeviceMetadataSnapshotTaken \in DeviceState
    BY DEF NewDeviceMetadataSnapshotTaken, DeviceState, DeviceUpdated, Twin, NoTwin
  <1>2. ASSUME NEW d \in Device
        PROVE  device[d] \in DeviceState
    <2> DEFINE open == {c \in Connection : DeviceOf(c) = d /\ GatewayOf(c) \in Running}
               r == [conn |-> CHOOSE c \in open : TRUE, online |-> TRUE]
    <2>1. device[d] = IF open = {} THEN NewDeviceMetadataSnapshotTaken
                      ELSE DeviceHandleCommand(NewDeviceMetadataSnapshotTaken, DeviceCommand(r), 0).state
      BY DEF Init
    <2>2. CASE open = {}
      BY <1>1, <2>1, <2>2
    <2>3. CASE open # {}
      <3>1. r \in [conn : Connection, online : BOOLEAN]
        BY <2>3
      <3> HIDE DEF r, open
      <3> QED
        BY <1>1, <2>1, <2>3, <3>1, ReportHandled
    <2> QED
      BY <2>2, <2>3
  <1>3. reports = {} /\ device = [d \in Device |-> device[d]]
    BY DEF Init
  <1> QED
    BY <1>2, <1>3 DEF DeviceInv

(* The step of a report, or of an expired service, and the others.           *)
LEMMA DeviceSteps ==
    ASSUME DeviceInv, [Next]_vars
    PROVE  /\ DeviceInv'
           /\ \A d \in Device :
                device'[d] # device[d] =>
                    \/ device'[d].updated.user = "device"
                    \/ /\ expirer.at = "offline" /\ UpdateDeviceToExpired(d)
                       /\ device[d].updated.svc = expirer.svc
  <1>1. ASSUME NEW r \in reports, HandleReport(r)
        PROVE  /\ DeviceInv'
               /\ \A d \in Device : device'[d] # device[d] => device'[d].updated.user = "device"
    <2> DEFINE e == DeviceOf(r.conn)
               new == DeviceHandleCommand(device[e], DeviceCommand(r), 0).state
    <2>1. r \in [conn : Connection, online : BOOLEAN] /\ e \in Device
      BY HeartbeatConstants DEF DeviceInv
    <2>2. device' = [device EXCEPT ![e] = new] /\ reports' \subseteq reports
      BY <1>1 DEF HandleReport
    <2>3. new \in DeviceState /\ (new = device[e] \/ new.updated.user = "device")
      BY <2>1, ReportHandled DEF DeviceInv
    <2> HIDE DEF new, e
    <2> QED
      BY <2>1, <2>2, <2>3 DEF DeviceInv
  <1>2. ASSUME NEW d \in Device, UpdateDeviceToExpired(d)
        PROVE  /\ DeviceInv'
               /\ \A x \in Device : device'[x] # device[x] =>
                     x = d /\ expirer.at = "offline" /\ device[d].updated.svc = expirer.svc
    <2> DEFINE new == DeviceHandleCommand(device[d], UpdateDeviceToOffline(expirer.svc), 0).state
    <2>1. device' = [device EXCEPT ![d] = new] /\ reports' = reports /\ expirer.at = "offline"
      BY <1>2 DEF UpdateDeviceToExpired
    <2>2. new \in DeviceState /\ (new = device[d] \/ device[d].updated.svc = expirer.svc)
      BY ExpiryHandled DEF DeviceInv
    <2> HIDE DEF new
    <2> QED
      BY <2>1, <2>2 DEF DeviceInv
  <1>3. ASSUME \/ \E g \in Gateway : Stop(g)
               \/ \E c \in Connection : SignIn(c) \/ OnClose(c)
        PROVE  DeviceInv' /\ device' = device
    <2>1. ASSUME NEW g \in Gateway, Stop(g)
          PROVE  DeviceInv' /\ device' = device
      <3> DEFINE open == {c \in Connection : GatewayOf(c) = g /\ conn[c] = "open"}
      <3>1. reports' = reports \cup {[conn |-> c, online |-> FALSE] : c \in open} /\ device' = device
        BY <2>1 DEF Stop, store
      <3>2. \A c \in open : [conn |-> c, online |-> FALSE] \in [conn : Connection, online : BOOLEAN]
        OBVIOUS
      <3> HIDE DEF open
      <3> QED
        BY <3>1, <3>2 DEF DeviceInv
    <2>2. ASSUME NEW c \in Connection, SignIn(c) \/ OnClose(c)
          PROVE  DeviceInv' /\ device' = device
      <3>1. device' = device
        BY <2>2 DEF SignIn, OnClose, store
      <3>2. PICK b \in BOOLEAN : reports' = reports \cup {[conn |-> c, online |-> b]}
        BY <2>2 DEF SignIn, OnClose
      <3> QED
        BY <3>1, <3>2 DEF DeviceInv
    <2> QED
      BY <1>3, <2>1, <2>2
  <1>4. ASSUME \/ \E g \in Gateway :
                     \/ newServiceHeartbeat(g) \/ TryUpdateServiceMetadata(g) \/ ServiceIsOffline(g)
                     \/ CallFails(g) \/ CallLost(g) \/ Crash(g)
               \/ Tick \/ RunStep \/ ExpirerWoken \/ LoadDevices \/ ConfirmExpired
               \/ ExpirerFails \/ Restart \/ UNCHANGED vars
        PROVE  DeviceInv' /\ device' = device
    <2>1. device' = device /\ reports' = reports
      BY <1>4 DEF newServiceHeartbeat, TryUpdateServiceMetadata, ServiceIsOffline,
                  CallFails, CallLost, GiveUp, Crash, RunStep, RunWoken,
                  RunTimer, RunSleep, ProcessRequest, Tick, ExpirerWoken, LoadDevices, ConfirmExpired,
                  ExpirerFails, Restart, store, vars
    <2> QED
      BY <2>1 DEF DeviceInv
  <1> QED
    BY <1>1, <1>2, <1>3, <1>4 DEF Next, GatewayNext, ExpirerStep

LEMMA DevicesInvariance == Spec => []DeviceInv
  <1>1. Init => DeviceInv
    BY DevicesInitially
  <1>2. DeviceInv /\ [Next]_vars => DeviceInv'
    BY DeviceSteps
  <1> QED
    BY <1>1, <1>2, PTL DEF Spec

(* The hub sets a device offline only after the heartbeat of the device's    *)
(* gateway has run out, as the gateway knows it: whom the expiring goroutine *)
(* works on is in offlineServices, hence not valid, and a gateway that       *)
(* believes itself valid is valid (handleExpiredService,                     *)
(* updateDeviceToExpired).                                                   *)
THEOREM LeasesAreRespected == Spec => LeaseRespected
  <1>1. ASSUME IInv, DeviceInv, [Next]_vars, NEW d \in Device,
               device'[d] # device[d], device'[d].updated.user = "service"
        PROVE  LET s == device[d].updated.svc
               IN gateway[s].left = 0 \/ s \in unsaved \cup shortened
    <2> DEFINE s == device[d].updated.svc
    <2>1. expirer.at = "offline" /\ s = expirer.svc
      BY <1>1, DeviceSteps
    <2>2. s \in expirer.todo /\ s \in offline /\ s \in Gateway
      BY <1>1, <2>1 DEF IInv, ExpirerInv, Types
    <2>3. s \in DOMAIN services.valid => s \in unsaved
      BY <1>1, <2>2 DEF IInv, RecordInv
    <2>4. gateway[s].left \in 0 .. Longest
      BY <1>1, <2>2 DEF IInv, Types
    <2>5. gateway[s].left > 0 /\ s \notin shortened => s \in DOMAIN services.valid
      BY <1>1, <2>2 DEF IInv, LeaseAgreed
    <2> QED
      BY <2>3, <2>4, <2>5, Lengths
  <1>2. IInv /\ DeviceInv /\ [Next]_vars =>
          [\A d \in Device :
             LET s == device[d].updated.svc
             IN (device[d]' # device[d] /\ device[d].updated.user' = "service")
                  => gateway[s].left = 0 \/ s \in unsaved \cup shortened]_vars
    BY <1>1
  <1> QED
    BY <1>2, Invariance, DevicesInvariance, PTL DEF Spec, LeaseRespected
=============================================================================
