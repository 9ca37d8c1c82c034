----------------------- MODULE AppliedConfigurations -----------------------
(* The snippet service applies a configuration to a device: it stores an      *)
(* applied configuration, asks the resource aggregate for one update per      *)
(* resource and records what becomes of each. One device and one              *)
(* configuration; each call that applies it is a member of Apply, which is    *)
(* also the id (a fresh UUID in the code) of the applied configuration it     *)
(* creates. The calls run concurrently: on-demand calls in the API's          *)
(* goroutines, the ones by conditions in the event handler of each instance   *)
(* of the service, next to the handler of ResourceUpdated events and the cron *)
(* job that times updates out. Of the resource aggregate only what these      *)
(* calls see of it is modelled (ResourceState has the rest); the device and   *)
(* the event bus are external.                                                *)
EXTENDS Naturals, Sequences, FiniteSets

CONSTANTS
    Apply,          \* calls of applyConfigurationToResources
    OnDemand,       \* those made by InvokeConfiguration
    Forced,         \* those of them with the force flag
    Resources,      \* the configuration's resources, in order
    HasTimeToLive,  \* the resources whose update has a time to live
    Conditions,     \* the conditions with a token, in the order they are tried
    NoCondition,    \* the link of a configuration applied on demand
    MaxFaults       \* how many calls fail, instances crash and deletions happen

(* normalizeResources leaves one resource for each href.                     *)
ASSUME ConfigurationConstants ==
    /\ Forced \subseteq OnDemand /\ OnDemand \subseteq Apply
    /\ Len(Resources) \in Nat \ {0} /\ Len(Conditions) \in Nat \ {0}
    /\ \A i, j \in 1 .. Len(Resources) : Resources[i] = Resources[j] => i = j
    /\ \A i \in 1 .. Len(Conditions) : Conditions[i] # NoCondition
    /\ MaxFaults \in Nat

VARIABLES
    stored,     \* the applied configuration in the store, a set of at most one
    command,    \* the update of each call and resource at the resource aggregate
    expired,    \* the updates whose validUntil has passed
    early,      \* history: the updates whose result came while they were queued
    bus,        \* external: ResourceUpdated events on their way
    calls,      \* the state of each call
    timeouts,   \* what the cron job has read and not yet timed out
    forsaken,   \* updates a fault or a deletion has left without a keeper
    faults      \* faults and deletions so far

vars == <<stored, command, expired, early, bus, calls, timeouts, forsaken, faults>>

Href == {Resources[i] : i \in 1 .. Len(Resources)}
Update == Apply \X Href
Condition == {Conditions[i] : i \in 1 .. Len(Conditions)}

-----------------------------------------------------------------------------
(* The store.                                                                *)

(* The document with every resource queued. It names the first condition     *)
(* until an update is made with another one's token.                         *)
NewAppliedConfiguration(a) ==
    [id |-> a,
     link |-> IF a \in OnDemand THEN NoCondition ELSE Conditions[1],
     status |-> [h \in Href |-> "QUEUED"],
     result |-> [h \in Href |-> "none"]]

(* Mutant: the document is inserted beside the one it should replace.        *)
InsertedBeside(a) == stored \cup {NewAppliedConfiguration(a)}

(* The documents after the insertion or FindOneAndReplace: the filter, as    *)
(* the unique index, is the device and the configuration.                    *)
Replaced(a) == {NewAppliedConfiguration(a)}

(* Mutant: any applied configuration of the device with that resource.       *)
MatchingResource(id, h) == stored

(* What FindOneAndUpdate selects: the id and the href.                       *)
Matching(id, h) == {c \in stored : c.id = id}

(* Mutant: the filter is not sent.                                           *)
UpdatedAlways(c, h, filter, status, result, link) ==
    [c EXCEPT !.status[h] = status, !.result[h] = result, !.link = link]

(* The document after UpdateAppliedConfigurationResource: only a resource in *)
(* one of the statuses of the filter is replaced.                            *)
Updated(c, h, filter, status, result, link) ==
    IF c.status[h] \in filter
    THEN [c EXCEPT !.status[h] = status, !.result[h] = result, !.link = link]
    ELSE c

UpdateAppliedConfigurationResource(id, h, filter, status, result, link) ==
    stored' = (stored \ Matching(id, h))
                \cup {Updated(c, h, filter, status, result, link[c]) :
                        c \in Matching(id, h)}

KeepLink == [c \in stored |-> c.link]

AnyStatus == {"QUEUED", "PENDING", "DONE", "TIMEOUT"}

(* Mutant: a queued resource is read instead of a pending one.               *)
QueuedResources ==
    {u \in expired : \E c \in stored : c.id = u[1] /\ c.status[u[2]] = "QUEUED"}

(* GetPendingAppliedConfigurationResourceUpdates with expiredOnly set.       *)
ExpiredPendingResources ==
    {u \in expired : \E c \in stored : c.id = u[1] /\ c.status[u[2]] = "PENDING"}

-----------------------------------------------------------------------------
(* The resource aggregate and the device.                                    *)

(* UpdateResource of the resource aggregate: a command waits once it was     *)
(* accepted, until the device answers it or it is cancelled: either way a    *)
(* ResourceUpdated event carries its result.                                 *)
Accept(u) == command' = [command EXCEPT ![u] = "pending"]

(* CancelPendingCommands of the resource aggregate, with the correlation id  *)
(* of one update; that nothing waits under it is an error nobody looks at.   *)
CancelPendingCommands(u) ==
    IF command[u] = "pending"
    THEN /\ command' = [command EXCEPT ![u] = "answered"]
         /\ bus' \in {bus, bus \cup {u}}
    ELSE UNCHANGED <<command, bus>>

(* The command ends: the device answers, late answers included, or somebody  *)
(* cancels it, as CancelPendingResourceUpdates does with every pending one.  *)
(* The event is published, or lost.                                          *)
Answer ==
    \E u \in Update :
        /\ command[u] = "pending"
        /\ command' = [command EXCEPT ![u] = "answered"]
        /\ bus' \in {bus, bus \cup {u}}
        /\ UNCHANGED <<stored, expired, early, calls, timeouts, forsaken, faults>>

(* The validity of an update ends.                                           *)
Expire ==
    \E u \in Update :
        /\ u[2] \in HasTimeToLive /\ u \notin expired /\ command[u] # "none"
        /\ expired' = expired \cup {u}
        /\ UNCHANGED <<stored, command, early, bus, calls, timeouts, forsaken, faults>>

-----------------------------------------------------------------------------
(* applyConfigurationToResources. A call is at "create", then cancels the    *)
(* updates of the configuration it replaced ("replaced"), then for every     *)
(* resource makes the update ("update") and stores its outcome ("store"); it *)
(* cancels its own update when its configuration is gone ("withdraw").       *)

NewCall == [at |-> "create", next |-> 1, try |-> 1, condition |-> NoCondition,
            link |-> NoCondition, accepted |-> FALSE, old |-> {}]

Current(a) == Resources[calls[a].next]
CurrentUpdate(a) == <<a, Current(a)>>

(* The end of a call, and the loop's next iteration.                         *)
Ended(call) == [NewCall EXCEPT !.at = "end", !.condition = call.condition]

NextResource(call) ==
    IF call.next = Len(Resources)
    THEN Ended(call)
    ELSE [call EXCEPT !.at = "update", !.next = @ + 1, !.try = 1, !.accepted = FALSE]

(* Mutant: nothing of the replaced configuration is cancelled.               *)
CancelNothing(c) == {}

(* The pending updates of the configuration that was replaced.               *)
ToCancel(c) == {<<c.id, h>> : h \in {h \in Href : c.status[h] = "PENDING"}}

(* CreateAppliedConfiguration. The unique index on device and configuration  *)
(* refuses a second document unless the call replaces the first.             *)
Create(a) ==
    /\ calls[a].at = "create"
    /\ \/ /\ stored = {} \/ a \in Forced
          /\ stored' = Replaced(a)
          /\ LET old == UNION {ToCancel(c) : c \in stored}
             IN calls' = [calls EXCEPT
                    ![a].at = IF old = {} THEN "update" ELSE "replaced",
                    ![a].old = old,
                    ![a].link = NewAppliedConfiguration(a).link]
       \/ /\ stored # {} /\ a \notin Forced
          /\ calls' = [calls EXCEPT ![a] = Ended(@)]
          /\ UNCHANGED stored
    /\ UNCHANGED <<command, expired, early, bus, timeouts, forsaken, faults>>

(* cancelPendingResourceUpdates: an error is ignored.                        *)
CancelReplaced(a) ==
    /\ calls[a].at = "replaced"
    /\ \E u \in calls[a].old :
        /\ calls' = [calls EXCEPT ![a].old = @ \ {u},
                        ![a].at = IF calls[a].old = {u} THEN "update" ELSE @]
        /\ \/ CancelPendingCommands(u) /\ UNCHANGED <<forsaken, faults>>
           \/ /\ faults < MaxFaults /\ faults' = faults + 1
              /\ forsaken' = forsaken \cup {u}
              /\ UNCHANGED <<command, bus>>
    /\ UNCHANGED <<stored, expired, early, timeouts>>

(* The condition whose token the next request carries: the one that worked   *)
(* for an earlier resource, or the next to try.                              *)
Finding(a) == a \notin OnDemand /\ calls[a].condition = NoCondition
TokenOf(a) == IF Finding(a) THEN Conditions[calls[a].try] ELSE calls[a].condition

(* UpdateResource is accepted, or its answer is lost, or it is refused: an   *)
(* invalid token makes a search go on to the next condition.                 *)
UpdateAccepted(a) ==
    /\ calls[a].at = "update"
    /\ Accept(CurrentUpdate(a))
    /\ calls' = [calls EXCEPT ![a].at = "store", ![a].accepted = TRUE,
                    ![a].condition = TokenOf(a)]
    /\ UNCHANGED <<stored, expired, early, bus, timeouts, forsaken, faults>>

UpdateUnauthenticated(a) ==
    /\ calls[a].at = "update"
    /\ IF Finding(a) /\ calls[a].try < Len(Conditions)
       THEN calls' = [calls EXCEPT ![a].try = @ + 1]
       ELSE calls' = [calls EXCEPT ![a].at = "store"]
    /\ UNCHANGED <<stored, command, expired, early, bus, timeouts, forsaken, faults>>

UpdateFails(a) ==
    /\ calls[a].at = "update"
    /\ faults < MaxFaults /\ faults' = faults + 1
    /\ calls' = [calls EXCEPT ![a].at = "store"]
    /\ \/ UNCHANGED <<command, forsaken>>
       \/ Accept(CurrentUpdate(a)) /\ forsaken' = forsaken \cup {CurrentUpdate(a)}
    /\ UNCHANGED <<stored, expired, early, bus, timeouts>>

(* Mutant: only the first resource records the condition.                    *)
LinkOfFirst(a, c) ==
    IF calls[a].accepted /\ a \notin OnDemand /\ calls[a].next = 1
    THEN calls[a].condition ELSE c.link

(* The link that getUpdateAppliedConfigurationResourceRequest asks for.      *)
LinkOf(a, c) ==
    IF calls[a].accepted /\ a \notin OnDemand /\ calls[a].condition # calls[a].link
    THEN calls[a].condition ELSE c.link

(* The outcome is stored while the resource is queued, and the call goes on  *)
(* with the document as it is then. ErrNotModified, of a resource that is    *)
(* not queued any more, leaves it with the document it had. A missing        *)
(* document was replaced or deleted: the update is withdrawn and the call    *)
(* ends.                                                                     *)
Store(a) ==
    /\ calls[a].at = "store"
    /\ LET h == Current(a)
           status == IF calls[a].accepted THEN "PENDING" ELSE "DONE"
           result == IF calls[a].accepted THEN "none" ELSE "error"
           modified == \E c \in Matching(a, h) : c.status[h] = "QUEUED"
       IN /\ UpdateAppliedConfigurationResource(a, h, {"QUEUED"}, status, result,
                                                [c \in stored |-> LinkOf(a, c)])
          /\ calls' = [calls EXCEPT ![a] =
                IF Matching(a, h) = {} THEN [@ EXCEPT !.at = "withdraw", !.accepted = FALSE]
                ELSE NextResource([@ EXCEPT !.link =
                        IF modified THEN (CHOOSE c \in stored' : TRUE).link
                        ELSE calls[a].link])]
    /\ UNCHANGED <<command, expired, early, bus, timeouts, forsaken, faults>>

(* Any other error of the store is logged and the loop goes on.              *)
StoreFails(a) ==
    /\ calls[a].at = "store"
    /\ faults < MaxFaults /\ faults' = faults + 1
    /\ calls' = [calls EXCEPT ![a] = NextResource(@)]
    /\ forsaken' = forsaken \cup {CurrentUpdate(a)}
    /\ UNCHANGED <<stored, command, expired, early, bus, timeouts>>

(* Mutant: the call ends without withdrawing its update.                     *)
EndAtOnce(a) ==
    /\ calls[a].at = "withdraw"
    /\ calls' = [calls EXCEPT ![a] = Ended(@)]
    /\ UNCHANGED <<stored, command, expired, early, bus, timeouts, forsaken, faults>>

(* cancelPendingResourceUpdate of the call's own update, made or not: after  *)
(* an error it finds nothing, or an update that was forsaken then.           *)
Withdraw(a) ==
    /\ calls[a].at = "withdraw"
    /\ calls' = [calls EXCEPT ![a] = Ended(@)]
    /\ \/ CancelPendingCommands(CurrentUpdate(a)) /\ UNCHANGED <<forsaken, faults>>
       \/ /\ faults < MaxFaults /\ faults' = faults + 1
          /\ forsaken' = forsaken \cup {CurrentUpdate(a)}
          /\ UNCHANGED <<command, bus>>
    /\ UNCHANGED <<stored, expired, early, timeouts>>

(* The instance that runs the call dies: nobody takes up the resources it    *)
(* had not come to, nor the cancellations it had not made.                   *)
Crash(a) ==
    /\ calls[a].at \notin {"create", "end"}
    /\ faults < MaxFaults /\ faults' = faults + 1
    /\ calls' = [calls EXCEPT ![a] = Ended(@)]
    /\ forsaken' = forsaken \cup calls[a].old
                    \cup {<<a, Resources[i]>> : i \in calls[a].next .. Len(Resources)}
    /\ UNCHANGED <<stored, command, expired, early, bus, timeouts>>

-----------------------------------------------------------------------------
(* Handlers.                                                                 *)

(* finishPendingConfiguration: whatever the status, a missing document is    *)
(* ignored.                                                                  *)
HandleResourceUpdated ==
    \E u \in bus :
        /\ bus' = bus \ {u}
        /\ UpdateAppliedConfigurationResource(u[1], u[2], AnyStatus, "DONE",
                                              command[u], KeepLink)
        /\ early' = early \cup {v \in {u} : \E c \in Matching(u[1], u[2]) :
                                               c.status[u[2]] = "QUEUED"}
        /\ UNCHANGED <<command, expired, calls, timeouts, forsaken, faults>>

(* TimeoutPendingResourceUpdates: read, then one update after the other.     *)
FindTimeouts ==
    /\ timeouts = {}
    /\ timeouts' = ExpiredPendingResources
    /\ timeouts' # {}
    /\ UNCHANGED <<stored, command, expired, early, bus, calls, forsaken, faults>>

TimeoutPendingResource ==
    \E u \in timeouts :
        /\ timeouts' = timeouts \ {u}
        /\ UpdateAppliedConfigurationResource(u[1], u[2], {"PENDING"}, "TIMEOUT",
                                              "error", KeepLink)
        /\ UNCHANGED <<command, expired, early, bus, calls, forsaken, faults>>

(* DeleteAppliedConfigurations cancels nothing.                              *)
DeleteAppliedConfigurations ==
    /\ stored # {}
    /\ faults < MaxFaults /\ faults' = faults + 1
    /\ stored' = {}
    /\ forsaken' = forsaken \cup UNION {ToCancel(c) : c \in stored}
    /\ UNCHANGED <<command, expired, early, bus, calls, timeouts>>

-----------------------------------------------------------------------------
Init ==
    /\ stored = {} /\ command = [u \in Update |-> "none"] /\ expired = {}
    /\ early = {} /\ bus = {} /\ calls = [a \in Apply |-> NewCall]
    /\ timeouts = {} /\ forsaken = {} /\ faults = 0

Proceed(a) ==
    \/ Create(a) \/ CancelReplaced(a)
    \/ UpdateAccepted(a) \/ UpdateUnauthenticated(a) \/ UpdateFails(a)
    \/ Store(a) \/ StoreFails(a) \/ Withdraw(a)

TimeoutStep == FindTimeouts \/ TimeoutPendingResource

Next ==
    \/ \E a \in Apply : Proceed(a) \/ Crash(a)
    \/ Answer \/ Expire \/ HandleResourceUpdated \/ TimeoutStep
    \/ DeleteAppliedConfigurations

Spec == Init /\ [][Next]_vars

(* A call runs to its end, time passes and the cron job is run again.        *)
FairSpec ==
    /\ Spec
    /\ WF_vars(\E a \in Apply : Proceed(a))
    /\ WF_vars(Expire)
    /\ WF_vars(TimeoutStep)

-----------------------------------------------------------------------------
Result == {"none", "error", "answered"}
Stored == [id : Apply, link : Condition \cup {NoCondition},
           status : [Href -> AnyStatus], result : [Href -> Result]]

(* The state keeps its shape: at most one applied configuration is stored    *)
(* for the device and configuration, and everything read from the store and  *)
(* still to be handled names an update that was made.                        *)
TypeOK ==
    /\ stored \subseteq Stored /\ Cardinality(stored) <= 1
    /\ command \in [Update -> {"none", "pending", "answered"}]
    /\ expired \subseteq Update /\ early \subseteq Update /\ forsaken \subseteq Update
    /\ faults \in 0 .. MaxFaults
    /\ \A u \in bus \cup timeouts \cup expired : command[u] # "none"
    /\ \A a \in Apply :
        /\ calls[a].at \in {"create", "replaced", "update", "store", "withdraw", "end"}
        /\ calls[a].next \in 1 .. Len(Resources)
        /\ calls[a].try \in 1 .. Len(Conditions)
        /\ \A u \in calls[a].old : command[u] # "none"

(* No update is left behind: one that still waits at the resource aggregate  *)
(* within its validity is queued or pending in the store, or the call that   *)
(* made it or the one that replaced its configuration is about to cancel it. *)
(* The exceptions are a failed call, a crash and a deletion through the API. *)
(* The comment in cancelPendingResourceUpdates says what is at stake:        *)
(* commands that "remain in the pending state forever".                      *)
NoUpdateLeftBehind ==
    \A u \in Update \ (forsaken \cup expired) :
        command[u] = "pending" =>
            \/ \E c \in stored : c.id = u[1] /\ c.status[u[2]] \in {"QUEUED", "PENDING"}
            \/ calls[u[1]].at \in {"store", "withdraw"} /\ Current(u[1]) = u[2]
            \/ \E a \in Apply : u \in calls[a].old

(* What the store says of a resource is about this very application: the     *)
(* device's answer or the cancellation of its own update, an expiry of its   *)
(* own validity; never the late result of a configuration it replaced.       *)
OutcomeIsOwn ==
    \A c \in stored, h \in Href :
        /\ c.result[h] = "answered" => command[<<c.id, h>>] = "answered"
        /\ c.status[h] = "TIMEOUT" => <<c.id, h>> \in expired
        /\ c.status[h] = "PENDING" => command[<<c.id, h>>] # "none"

(* The condition an applied configuration names is the one whose token made  *)
(* the updates that are pending, have timed out or were answered, whichever  *)
(* conditions were tried before. Two cases are left out. A result that       *)
(* overtakes Store finds the resource queued, and UpdateAppliedConfiguration-*)
(* Resource then changes nothing, the link included: if all the updates are  *)
(* answered that early the document goes on naming the first condition. And  *)
(* an update whose acceptance was lost, or never stored, has no condition    *)
(* the call knows of.                                                        *)
LinkIsUsedCondition ==
    \A c \in stored, h \in Href :
        /\ c.id \notin OnDemand
        /\ \/ c.status[h] \in {"PENDING", "TIMEOUT"}
           \/ c.result[h] = "answered" /\ <<c.id, h>> \notin early \cup forsaken
        => c.link = calls[c.id].condition

(* A recorded answer is final: neither the loop that made the update nor the *)
(* cron job, working from what they read before, overwrites it; and a        *)
(* resource never returns to an earlier status.                              *)
AnswerIsFinal ==
    [][\A c \in stored, d \in stored', h \in Href :
        c.id = d.id =>
            /\ c.result[h] = "answered" => d.result[h] = "answered"
            /\ c.status[h] \in {"DONE", "TIMEOUT"} => d.status[h] \in {"DONE", "TIMEOUT"}
            /\ c.status[h] = "DONE" => d.status[h] = "DONE"
            /\ c.status[h] = "PENDING" => d.status[h] # "QUEUED"]_vars

(* Every resource with a time to live is finished or timed out, or its       *)
(* configuration is gone, even when every event about it is lost: unless a   *)
(* crash or a failed write left it queued, which the cron job does not see.  *)
Settled ==
    \A a \in Apply, h \in HasTimeToLive :
        (\E c \in stored : c.id = a /\ c.status[h] \in {"QUEUED", "PENDING"})
            ~> (\/ \A c \in stored : c.id = a => c.status[h] \in {"DONE", "TIMEOUT"}
                \/ <<a, h>> \in forsaken)
=============================================================================
