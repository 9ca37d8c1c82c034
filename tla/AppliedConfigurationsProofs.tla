-------------------- MODULE AppliedConfigurationsProofs --------------------
(* Proofs about AppliedConfigurations, for any number of calls, resources,   *)
(* conditions and faults.                                                    *)
EXTENDS AppliedConfigurations, FiniteSetTheorems, TLAPS

Phase == {"create", "replaced", "update", "store", "withdraw", "end"}
Link == Condition \cup {NoCondition}
Index == 1 .. Len(Resources)

Call == [at : Phase, next : Index, try : 1 .. Len(Conditions), condition : Link,
         link : Link, accepted : BOOLEAN, old : SUBSET Update]

-----------------------------------------------------------------------------
(* The inductive invariant.                                                  *)

(* What TypeOK says, in the form the proofs use, and the shape of calls.     *)
Types ==
    /\ stored \subseteq Stored
    /\ \A c, d \in stored : c = d
    /\ command \in [Update -> {"none", "pending", "answered"}]
    /\ expired \subseteq Update /\ early \subseteq Update /\ forsaken \subseteq Update
    /\ bus \subseteq Update
    /\ timeouts \subseteq expired
    /\ faults \in 0 .. MaxFaults
    /\ calls \in [Apply -> Call]

(* Events are about commands that have ended, expiry about accepted ones.    *)
EventInv ==
    /\ \A u \in bus : command[u] = "answered"
    /\ \A u \in expired : command[u] # "none"

(* A call and the commands it has made: it has something left to cancel only *)
(* before its first resource, and knows of every acceptance that was not     *)
(* lost.                                                                     *)
CallInv ==
    \A a \in Apply :
        /\ calls[a].at = "create" => calls[a].next = 1
        /\ calls[a].at # "replaced" => calls[a].old = {}
        /\ \A u \in calls[a].old : command[u] # "none"
        /\ calls[a].accepted =>
            /\ calls[a].at = "store" /\ command[CurrentUpdate(a)] # "none"
            /\ a \notin OnDemand => calls[a].condition # NoCondition
        /\ calls[a].at = "store" /\ ~calls[a].accepted =>
            command[CurrentUpdate(a)] = "none" \/ CurrentUpdate(a) \in forsaken

(* The resources a call has not come to.                                     *)
Ahead(a) ==
    {Resources[i] : i \in {j \in Index :
        \/ calls[a].at \in {"create", "replaced", "update"} /\ j >= calls[a].next
        \/ calls[a].at = "store" /\ j > calls[a].next}}

FreshInv == \A a \in Apply : \A h \in Ahead(a) : command[<<a, h>>] = "none"

(* The stored configuration and the call that made it: resources ahead are   *)
(* queued, and the call knows the condition the configuration names.         *)
LoopInv ==
    \A c \in stored :
        /\ calls[c.id].at \notin {"create", "withdraw"}
        /\ c.id \notin OnDemand => c.link \in Condition
        /\ calls[c.id].at # "end" => calls[c.id].link = c.link
        /\ \A h \in Ahead(c.id) : c.status[h] = "QUEUED"

(* The stored configuration and its commands: one that is done was answered, *)
(* was never accepted or is forsaken, and one that is queued although its    *)
(* command waits is about to be stored.                                      *)
StatusInv ==
    \A c \in stored, h \in Href :
        LET u == <<c.id, h>>
        IN /\ c.result[h] = "answered" => c.status[h] = "DONE"
           /\ c.status[h] = "DONE" =>
                c.result[h] = "answered" \/ command[u] = "none" \/ u \in forsaken
           /\ c.status[h] = "QUEUED" /\ command[u] = "pending" /\ u \notin forsaken =>
                calls[c.id].at = "store" /\ Current(c.id) = h

IInv ==
    /\ Types /\ EventInv /\ CallInv /\ FreshInv /\ LoopInv /\ StatusInv
    /\ OutcomeIsOwn /\ LinkIsUsedCondition /\ NoUpdateLeftBehind

-----------------------------------------------------------------------------
(* Initial states.                                                           *)

LEMMA NewCallType == NewCall \in Call
  BY ConfigurationConstants DEF NewCall, Call, Phase, Index, Link

LEMMA InitInv == Init => IInv
  <1> SUFFICES ASSUME Init PROVE IInv
    OBVIOUS
  <1>1. Types
    BY NewCallType, ConfigurationConstants DEF Init, Types
  <1>2. EventInv /\ CallInv /\ FreshInv /\ LoopInv /\ StatusInv
    BY DEF Init, EventInv, CallInv, FreshInv, LoopInv, StatusInv, NewCall, Ahead, Update,
           Href, Index
  <1>3. OutcomeIsOwn /\ LinkIsUsedCondition /\ NoUpdateLeftBehind
    BY DEF Init, OutcomeIsOwn, LinkIsUsedCondition, NoUpdateLeftBehind
  <1> QED
    BY <1>1, <1>2, <1>3 DEF IInv

-----------------------------------------------------------------------------
(* The operators of the model.                                               *)

LEMMA CurrentType ==
    ASSUME Types, NEW a \in Apply
    PROVE  /\ calls[a] \in Call /\ calls[a].next \in Index
           /\ Current(a) \in Href
           /\ CurrentUpdate(a) \in Update
  BY DEF Types, Call, Current, CurrentUpdate, Update, Href, Index

LEMMA NextResourceType ==
    ASSUME NEW call \in Call
    PROVE  NextResource(call) \in Call /\ Ended(call) \in Call
  <1>1. Ended(call) \in Call
    BY NewCallType DEF Ended, Call, Phase
  <1>2. CASE call.next # Len(Resources)
    <2>1. call.next + 1 \in Index /\ 1 \in 1 .. Len(Conditions)
      BY <1>2, ConfigurationConstants DEF Call, Index
    <2>2. NextResource(call) =
            [call EXCEPT !.at = "update", !.next = @ + 1, !.try = 1, !.accepted = FALSE]
      BY <1>2 DEF NextResource
    <2> QED
      BY <1>1, <2>1, <2>2 DEF Call, Phase
  <1> QED
    BY <1>1, <1>2 DEF NextResource

LEMMA NewAppliedConfigurationType ==
    ASSUME NEW a \in Apply
    PROVE  /\ NewAppliedConfiguration(a) \in Stored
           /\ NewAppliedConfiguration(a).id = a
           /\ NewAppliedConfiguration(a).link \in Link
           /\ a \notin OnDemand => NewAppliedConfiguration(a).link \in Condition
           /\ \A h \in Href : /\ NewAppliedConfiguration(a).status[h] = "QUEUED"
                              /\ NewAppliedConfiguration(a).result[h] = "none"
  <1>1. Conditions[1] \in Condition
    BY ConfigurationConstants DEF Condition
  <1> QED
    BY <1>1 DEF NewAppliedConfiguration, Stored, AnyStatus, Result, Link

(* One document of the store after UpdateAppliedConfigurationResource.       *)
After(c, id, h, filter, status, result, link) ==
    IF c.id = id THEN Updated(c, h, filter, status, result, link) ELSE c

LEMMA AfterFields ==
    ASSUME NEW c \in Stored, NEW id, NEW h \in Href, NEW filter, NEW status \in AnyStatus,
           NEW result \in Result, NEW link \in Link
    PROVE  LET d == After(c, id, h, filter, status, result, link)
               hit == c.id = id /\ c.status[h] \in filter
           IN /\ d \in Stored
              /\ d.id = c.id
              /\ d.link = IF hit THEN link ELSE c.link
              /\ \A g \in Href :
                    /\ d.status[g] = IF hit /\ g = h THEN status ELSE c.status[g]
                    /\ d.result[g] = IF hit /\ g = h THEN result ELSE c.result[g]
  BY DEF After, Updated, Stored, Link

LEMMA ResourceUpdate ==
    ASSUME Types, NEW id, NEW h \in Href, NEW filter, NEW status \in AnyStatus,
           NEW result \in Result, NEW link \in [stored -> Link],
           UpdateAppliedConfigurationResource(id, h, filter, status, result, link)
    PROVE  /\ stored' \subseteq Stored
           /\ \A c, d \in stored' : c = d
           /\ \A d \in stored' : \E c \in stored :
                d = After(c, id, h, filter, status, result, link[c])
           /\ \A c \in stored : After(c, id, h, filter, status, result, link[c]) \in stored'
  <1>1. stored' = {After(c, id, h, filter, status, result, link[c]) : c \in stored}
    BY DEF UpdateAppliedConfigurationResource, Matching, After
  <1>2. \A c \in stored : After(c, id, h, filter, status, result, link[c]) \in Stored
    BY AfterFields DEF Types
  <1> QED
    BY <1>1, <1>2 DEF Types

-----------------------------------------------------------------------------
(* The steps of a call.                                                      *)

(* The other calls are where they were, and so are their resources ahead.    *)
Others(a) ==
    \A b \in Apply \ {a} : /\ calls'[b] = calls[b]
                           /\ Ahead(b)' = Ahead(b)
                           /\ Current(b)' = Current(b)
                           /\ CurrentUpdate(b)' = CurrentUpdate(b)

LEMMA OtherCalls ==
    ASSUME Types, NEW a \in Apply, NEW call, calls' = [calls EXCEPT ![a] = call]
    PROVE  calls'[a] = call /\ Others(a)
  BY DEF Types, Ahead, Current, CurrentUpdate, Others

LEMMA CreateInv ==
    ASSUME IInv, NEW a \in Apply, Create(a)
    PROVE  IInv'
  <1> USE DEF IInv
  <1> DEFINE new == NewAppliedConfiguration(a)
             old == UNION {ToCancel(c) : c \in stored}
  <1>a. /\ calls[a].at = "create" /\ calls[a].old = {} /\ ~calls[a].accepted
        /\ calls[a].next = 1 /\ calls[a] \in Call
    BY DEF Create, CallInv, Types
  <1>f. UNCHANGED <<command, expired, early, bus, timeouts, forsaken, faults>>
    BY DEF Create
  <1>1. CASE stored # {} /\ a \notin Forced
    <2> DEFINE call == Ended(calls[a])
    <2>1. UNCHANGED stored /\ calls' = [calls EXCEPT ![a] = call]
      BY <1>1 DEF Create
    <2>2. call \in Call /\ call.at = "end" /\ call.old = {} /\ ~call.accepted
      BY <1>a, NextResourceType DEF Ended, NewCall
    <2> HIDE DEF call
    <2>o. calls'[a] = call /\ Others(a)
      BY <2>1, OtherCalls
    <2>3. Ahead(a)' = {}
      BY <2>o, <2>2 DEF Ahead
    <2>4. \A c \in stored : c.id # a /\ c.id \in Apply
      BY <1>a DEF LoopInv, Types, Stored
    <2>5. Types' /\ EventInv'
      BY <1>f, <2>1, <2>2 DEF Types, EventInv
    <2>6. CallInv'
      BY <1>f, <2>o, <2>2 DEF CallInv, Others
    <2>7. FreshInv'
      BY <1>f, <2>o, <2>3 DEF FreshInv, Others
    <2>8. LoopInv' /\ StatusInv' /\ OutcomeIsOwn' /\ LinkIsUsedCondition'
      BY <1>f, <2>1, <2>4, <2>o
         DEF LoopInv, StatusInv, OutcomeIsOwn, LinkIsUsedCondition, Others
    <2>9. NoUpdateLeftBehind'
      BY <1>f, <1>a, <2>1, <2>2, <2>o DEF NoUpdateLeftBehind, Update, Others
    <2> QED
      BY <2>5, <2>6, <2>7, <2>8, <2>9
  <1>2. CASE stored = {} \/ a \in Forced
    <2> DEFINE call == [calls[a] EXCEPT !.at = IF old = {} THEN "update" ELSE "replaced",
                                        !.old = old, !.link = new.link]
    <2>1. stored' = {new} /\ calls' = [calls EXCEPT ![a] = call]
      BY <1>2, <1>a, ConfigurationConstants DEF Create, Replaced, Types, Call
    <2>2. /\ old \subseteq Update
          /\ \A u \in old : command[u] # "none"
      BY DEF ToCancel, Update, Types, Stored, OutcomeIsOwn
    <2>3. /\ call \in Call
          /\ call.at \in {"update", "replaced"} /\ (call.at = "update" => old = {})
          /\ call.old = old /\ call.link = new.link
          /\ ~call.accepted /\ call.next = 1 /\ call.condition = calls[a].condition
      BY <1>a, <2>2, NewAppliedConfigurationType DEF Call, Phase
    <2>p. \A c \in stored, h \in Href : c.status[h] = "PENDING" => <<c.id, h>> \in old
      BY DEF ToCancel
    <2> HIDE DEF call, old
    <2>o. calls'[a] = call /\ Others(a)
      BY <2>1, OtherCalls
    <2>4. Ahead(a)' = Ahead(a) /\ Ahead(a) = Href
      BY <1>a, <2>o, <2>3 DEF Ahead, Href, Index
    <2> HIDE DEF new
    <2>5. /\ new \in Stored /\ new.id = a
          /\ a \notin OnDemand => new.link \in Condition
          /\ \A h \in Href : new.status[h] = "QUEUED" /\ new.result[h] = "none"
      BY NewAppliedConfigurationType DEF new
    <2>6. Types' /\ EventInv'
      BY <1>f, <2>1, <2>3, <2>5 DEF Types, EventInv
    <2>7. CallInv'
      BY <1>f, <2>o, <2>2, <2>3 DEF CallInv, Others
    <2>8. FreshInv'
      BY <1>f, <2>o, <2>4 DEF FreshInv, Others
    <2>9. \A h \in Href : command[<<a, h>>] = "none"
      BY <2>4 DEF FreshInv
    <2>10. LoopInv' /\ StatusInv' /\ OutcomeIsOwn' /\ LinkIsUsedCondition'
      BY <1>f, <2>1, <2>3, <2>o, <2>4, <2>5, <2>9
         DEF LoopInv, StatusInv, OutcomeIsOwn, LinkIsUsedCondition
    <2>11. NoUpdateLeftBehind'
      <3> SUFFICES ASSUME NEW u \in Update, u \notin forsaken \cup expired, command[u] = "pending"
                   PROVE  \/ calls'[u[1]].at \in {"store", "withdraw"} /\ Current(u[1])' = u[2]
                          \/ \E b \in Apply : u \in calls'[b].old
        BY <1>f DEF NoUpdateLeftBehind
      <3>1. u[1] \in Apply \ {a} /\ u = <<u[1], u[2]>> /\ u[2] \in Href
        BY <2>9 DEF Update
      <3>2. CASE \E c \in stored : c.id = u[1] /\ c.status[u[2]] \in {"QUEUED", "PENDING"}
        <4>1. PICK c \in stored : c.id = u[1] /\ c.status[u[2]] \in {"QUEUED", "PENDING"}
          BY <3>2
        <4>2. CASE c.status[u[2]] = "PENDING"
          BY <4>1, <4>2, <3>1, <2>p, <2>o, <2>3
        <4>3. CASE c.status[u[2]] = "QUEUED"
          BY <4>1, <4>3, <3>1, <2>o DEF StatusInv, Others
        <4> QED
          BY <4>1, <4>2, <4>3
      <3>3. CASE calls[u[1]].at \in {"store", "withdraw"} /\ Current(u[1]) = u[2]
        BY <3>3, <3>1, <2>o DEF Others
      <3>4. CASE \E b \in Apply : u \in calls[b].old
        BY <3>4, <1>a, <2>o DEF Others
      <3> QED
        BY <3>2, <3>3, <3>4 DEF NoUpdateLeftBehind
    <2> QED
      BY <2>6, <2>7, <2>8, <2>10, <2>11
  <1> QED
    BY <1>1, <1>2

(* A command that ends, and its event.                                       *)
LEMMA Canceled ==
    ASSUME IInv, NEW u \in Update, CancelPendingCommands(u)
    PROVE  /\ command' \in [Update -> {"none", "pending", "answered"}]
           /\ bus' \subseteq Update
           /\ \A v \in bus' : command'[v] = "answered"
           /\ command'[u] # "pending"
           /\ \A v \in Update : /\ command'[v] = "none" <=> command[v] = "none"
                                /\ command'[v] = "pending" => command[v] = "pending"
                                /\ command[v] = "answered" => command'[v] = "answered"
  <1> USE DEF IInv
  <1>1. CASE command[u] = "pending"
    <2>1. command' = [command EXCEPT ![u] = "answered"] /\ bus' \in {bus, bus \cup {u}}
      BY <1>1 DEF CancelPendingCommands
    <2> QED
      BY <1>1, <2>1 DEF Types, EventInv
  <1>2. CASE command[u] # "pending"
    BY <1>2 DEF CancelPendingCommands, Types, EventInv
  <1> QED
    BY <1>1, <1>2

LEMMA CancelReplacedInv ==
    ASSUME IInv, NEW a \in Apply, CancelReplaced(a)
    PROVE  IInv'
  <1> USE DEF IInv
  <1>a. calls[a].at = "replaced" /\ ~calls[a].accepted /\ calls[a] \in Call
    BY DEF CancelReplaced, CallInv, Types
  <1>f. UNCHANGED <<stored, expired, early, timeouts>>
    BY DEF CancelReplaced
  <1>1. PICK u \in calls[a].old :
          /\ calls' = [calls EXCEPT ![a].old = @ \ {u},
                        ![a].at = IF calls[a].old = {u} THEN "update" ELSE @]
          /\ \/ CancelPendingCommands(u) /\ UNCHANGED <<forsaken, faults>>
             \/ /\ faults < MaxFaults /\ faults' = faults + 1
                /\ forsaken' = forsaken \cup {u}
                /\ UNCHANGED <<command, bus>>
    BY DEF CancelReplaced
  <1> DEFINE call == [calls[a] EXCEPT !.old = @ \ {u},
                        !.at = IF calls[a].old = {u} THEN "update" ELSE @]
  <1>2. u \in Update
    BY <1>a DEF Call
  <1>3. /\ call \in Call /\ ~call.accepted /\ call.old = calls[a].old \ {u}
        /\ call.at \in {"update", "replaced"} /\ (call.at = "update" => call.old = {})
        /\ call.next = calls[a].next /\ call.condition = calls[a].condition
        /\ call.link = calls[a].link
    BY <1>a DEF Call, Phase
  <1>4. calls' = [calls EXCEPT ![a] = call]
    BY <1>1, <1>a DEF Types, Call
  <1> HIDE DEF call
  <1>o. calls'[a] = call /\ Others(a)
    BY <1>4, OtherCalls
  <1>5. Ahead(a)' = Ahead(a)
    BY <1>a, <1>o, <1>3 DEF Ahead
  <1>6. /\ command' \in [Update -> {"none", "pending", "answered"}]
        /\ bus' \subseteq Update /\ forsaken' \subseteq Update
        /\ forsaken \subseteq forsaken' /\ faults' \in 0 .. MaxFaults
        /\ \A v \in bus' : command'[v] = "answered"
        /\ command'[u] # "pending" \/ u \in forsaken'
        /\ \A v \in Update : /\ command'[v] = "none" <=> command[v] = "none"
                             /\ command'[v] = "pending" => command[v] = "pending"
                             /\ command[v] = "answered" => command'[v] = "answered"
    <2>1. CASE CancelPendingCommands(u) /\ UNCHANGED <<forsaken, faults>>
      BY <2>1, <1>2, Canceled DEF Types
    <2>2. CASE /\ faults < MaxFaults /\ faults' = faults + 1
               /\ forsaken' = forsaken \cup {u}
               /\ UNCHANGED <<command, bus>>
      BY <2>2, <1>2, ConfigurationConstants DEF Types, EventInv
    <2> QED
      BY <1>1, <2>1, <2>2
  <1>7. Types' /\ EventInv'
    BY <1>f, <1>4, <1>3, <1>6 DEF Types, EventInv
  <1>8. CallInv'
    <2>1. \A b \in Apply : calls[b].old \subseteq Update /\ CurrentUpdate(b) \in Update
      BY CurrentType DEF Call
    <2> QED
      BY <1>o, <1>3, <1>6, <1>a, <2>1 DEF CallInv, Others
  <1>9. FreshInv'
    <2>1. \A b \in Apply : \A h \in Ahead(b) : <<b, h>> \in Update
      BY DEF Ahead, Update, Href, Index
    <2>2. \A b \in Apply : Ahead(b)' = Ahead(b)
      BY <1>o, <1>5 DEF Others
    <2> HIDE DEF IInv
    <2>3. \A b \in Apply : \A h \in Ahead(b) : command[<<b, h>>] = "none"
      BY DEF IInv, FreshInv
    <2> QED
      BY <1>6, <2>1, <2>2, <2>3 DEF FreshInv
  <1>10. \A c \in stored : c.id \in Apply /\ \A h \in Href : <<c.id, h>> \in Update
    BY DEF Types, Stored, Update
  <1>11. LoopInv' /\ LinkIsUsedCondition'
    <2>1. forsaken \subseteq forsaken'
      BY <1>6
    <2> QED
      BY <1>f, <1>a, <1>o, <1>3, <1>5, <1>10, <2>1 DEF LoopInv, LinkIsUsedCondition, Others
  <1>12. StatusInv' /\ OutcomeIsOwn'
    BY <1>f, <1>a, <1>o, <1>3, <1>6, <1>10 DEF StatusInv, OutcomeIsOwn, Others
  <1>13. NoUpdateLeftBehind'
    BY <1>f, <1>a, <1>o, <1>3, <1>6 DEF NoUpdateLeftBehind, Others, Update
  <1> QED
    BY <1>7, <1>8, <1>9, <1>11, <1>12, <1>13

(* The resource a call is at is the first of those ahead of it.              *)
LEMMA CurrentIsAhead ==
    ASSUME Types, NEW a \in Apply, calls[a].at = "update"
    PROVE  Current(a) \in Ahead(a)
  BY CurrentType DEF Current, Ahead, Index

(* The token of an accepted request is that of a condition, and the one an   *)
(* earlier resource has found if there is one.                               *)
LEMMA TokenOfType ==
    ASSUME Types, NEW a \in Apply
    PROVE  /\ TokenOf(a) \in Link
           /\ a \notin OnDemand => TokenOf(a) # NoCondition
           /\ a \in OnDemand \/ calls[a].condition # NoCondition
                => TokenOf(a) = calls[a].condition
  BY CurrentType, ConfigurationConstants DEF TokenOf, Finding, Link, Condition, Call

(* The request was made, whatever became of it.                              *)
LEMMA RequestMade ==
    ASSUME IInv, NEW a \in Apply, calls[a].at = "update",
           NEW accepted \in BOOLEAN, NEW condition \in Link,
           calls' = [calls EXCEPT ![a] =
                [calls[a] EXCEPT !.at = "store", !.accepted = accepted, !.condition = condition]],
           UNCHANGED <<stored, expired, early, bus, timeouts>>, faults' \in 0 .. MaxFaults,
           accepted => condition = TokenOf(a),
           ~accepted => condition = calls[a].condition,
           \/ ~accepted /\ UNCHANGED <<command, forsaken>>
           \/ /\ Accept(CurrentUpdate(a))
              /\ forsaken' = IF accepted THEN forsaken ELSE forsaken \cup {CurrentUpdate(a)}
    PROVE  IInv'
  <1> USE DEF IInv
  <1> DEFINE u == CurrentUpdate(a)
             call == [calls[a] EXCEPT !.at = "store", !.accepted = accepted,
                                      !.condition = condition]
  <1>a. calls[a] \in Call /\ u \in Update /\ calls[a].old = {} /\ Current(a) \in Href
    BY CurrentType DEF CallInv
  <1>1. /\ call \in Call /\ call.at = "store" /\ call.accepted = accepted
        /\ call.next = calls[a].next /\ call.old = {} /\ call.condition = condition
        /\ call.link = calls[a].link
    BY <1>a DEF Call, Phase
  <1> HIDE DEF call
  <1>o. calls'[a] = call /\ Others(a)
    BY OtherCalls DEF call
  <1>2. /\ Current(a)' = Current(a) /\ CurrentUpdate(a)' = u /\ u = <<a, Current(a)>>
        /\ Ahead(a)' \subseteq Ahead(a) /\ Current(a) \notin Ahead(a)'
        /\ Current(a) \in Ahead(a)
    <2>1. calls[a].next \in Index
      BY CurrentType
    <2>2. Ahead(a)' = {Resources[i] : i \in {j \in Index : j > calls[a].next}}
      BY <1>1, <1>o DEF Ahead
    <2>3. Current(a) \notin Ahead(a)'
      BY <2>1, <2>2, ConfigurationConstants DEF Current, Index
    <2>4. Ahead(a)' \subseteq Ahead(a)
      BY <2>1, <2>2 DEF Ahead, Index
    <2> QED
      BY <2>3, <2>4, <1>1, <1>o, CurrentIsAhead DEF Current, CurrentUpdate
  <1> HIDE DEF u
  <1>3. command[u] = "none"
    BY <1>2 DEF FreshInv
  <1>4. /\ command' \in [Update -> {"none", "pending", "answered"}]
        /\ \A v \in Update : v # u => command'[v] = command[v]
        /\ accepted => command'[u] = "pending"
        /\ forsaken' \subseteq Update /\ forsaken \subseteq forsaken'
        /\ ~accepted => command'[u] = "none" \/ u \in forsaken'
    BY <1>a, <1>3 DEF Accept, Types, u
  <1>5. Types' /\ EventInv'
    BY <1>1, <1>3, <1>4 DEF Types, EventInv, call
  <1>6. CallInv'
    <2>1. \A b \in Apply : b # a => CurrentUpdate(b) # u
      BY <1>2 DEF CurrentUpdate
    <2>2. \A b \in Apply : CurrentUpdate(b) \in Update /\ calls[b].old \subseteq Update
      BY CurrentType DEF Call
    <2>3. a \notin OnDemand /\ accepted => condition # NoCondition
      BY TokenOfType
    <2>4. ASSUME NEW b \in Apply, b # a
          PROVE  /\ command'[CurrentUpdate(b)] = command[CurrentUpdate(b)]
                 /\ calls[b].at = calls'[b].at
                 /\ \A v \in calls[b].old : command'[v] = command[v]
      BY <2>1, <2>2, <2>4, <1>3, <1>4, <1>o DEF CallInv, Others
    <2> QED
      BY <1>o, <1>1, <1>2, <1>4, <2>3, <2>4 DEF CallInv, Others
  <1>7. FreshInv'
    <2>1. \A b \in Apply : \A h \in Ahead(b)' :
            h \in Ahead(b) /\ <<b, h>> # u /\ <<b, h>> \in Update
      <3>1. \A b \in Apply : Ahead(b) \subseteq Href
        BY DEF Ahead, Href, Index
      <3> QED
        BY <3>1, <1>o, <1>2 DEF Others, Update
    <2> QED
      BY <1>4, <2>1 DEF FreshInv
  <1>8. \A c \in stored : c.id \in Apply /\ \A h \in Href : <<c.id, h>> \in Update
    BY DEF Types, Stored, Update
  <1>9. LoopInv'
    BY <1>o, <1>1, <1>2, <1>8 DEF LoopInv, Others
  <1>10. StatusInv' /\ OutcomeIsOwn'
    <2>1. \A c \in stored, h \in Href :
            <<c.id, h>> = u => c.id = a /\ h = Current(a) /\ c.status[h] = "QUEUED"
      BY <1>2 DEF LoopInv
    <2> QED
      BY <1>o, <1>1, <1>2, <1>3, <1>4, <1>8, <2>1 DEF StatusInv, OutcomeIsOwn, Others
  <1>11. LinkIsUsedCondition'
    <2>f. forsaken \subseteq forsaken'
      OBVIOUS
    <2>1. ASSUME NEW c \in stored, NEW h \in Href, c.id = a, a \notin OnDemand,
                 \/ c.status[h] \in {"PENDING", "TIMEOUT"}
                 \/ c.result[h] = "answered" /\ <<c.id, h>> \notin early \cup forsaken
          PROVE  c.link = condition
      <3>1. c.link = calls[a].condition /\ c.link \in Condition
        BY <2>1 DEF LinkIsUsedCondition, LoopInv
      <3>2. calls[a].condition # NoCondition
        BY <3>1, ConfigurationConstants DEF Condition
      <3> QED
        BY <3>1, <3>2, TokenOfType
    <2> QED
      BY <2>f, <2>1, <1>o, <1>1, <1>8 DEF LinkIsUsedCondition, Others
  <1>12. NoUpdateLeftBehind'
    <2> SUFFICES ASSUME NEW v \in Update, v \notin forsaken' \cup expired', command'[v] = "pending"
                 PROVE  \/ \E c \in stored : c.id = v[1] /\ c.status[v[2]] \in {"QUEUED", "PENDING"}
                        \/ calls'[v[1]].at \in {"store", "withdraw"} /\ Current(v[1])' = v[2]
                        \/ \E b \in Apply : v \in calls'[b].old
      BY DEF NoUpdateLeftBehind
    <2>1. CASE v = u
      BY <2>1, <1>2, <1>o, <1>1
    <2>2. CASE v # u
      BY <2>2, <1>o, <1>a, <1>4 DEF NoUpdateLeftBehind, Others, Update
    <2> QED
      BY <2>1, <2>2
  <1> QED
    BY <1>5, <1>6, <1>7, <1>9, <1>10, <1>11, <1>12

LEMMA UpdateAcceptedInv ==
    ASSUME IInv, NEW a \in Apply, UpdateAccepted(a)
    PROVE  IInv'
  <1>1. calls' = [calls EXCEPT ![a] =
            [calls[a] EXCEPT !.at = "store", !.accepted = TRUE, !.condition = TokenOf(a)]]
    BY DEF UpdateAccepted, IInv, Types, Call
  <1>2. TokenOf(a) \in Link /\ faults' \in 0 .. MaxFaults
    BY TokenOfType DEF IInv, Types, UpdateAccepted
  <1> QED
    BY <1>1, <1>2, RequestMade DEF UpdateAccepted

LEMMA UpdateFailsInv ==
    ASSUME IInv, NEW a \in Apply, UpdateFails(a)
    PROVE  IInv'
  <1>1. calls[a] \in Call /\ calls[a].at = "update" /\ ~calls[a].accepted
    BY CurrentType DEF UpdateFails, IInv, CallInv
  <1>2. calls' = [calls EXCEPT ![a] =
            [calls[a] EXCEPT !.at = "store", !.accepted = FALSE, !.condition = calls[a].condition]]
    BY <1>1 DEF UpdateFails, IInv, Types, Call
  <1>3. calls[a].condition \in Link /\ faults' \in 0 .. MaxFaults
    BY <1>1, ConfigurationConstants DEF IInv, Types, Call, UpdateFails
  <1> QED
    BY <1>1, <1>2, <1>3, RequestMade DEF UpdateFails

LEMMA UpdateUnauthenticatedInv ==
    ASSUME IInv, NEW a \in Apply, UpdateUnauthenticated(a)
    PROVE  IInv'
  <1>1. calls[a] \in Call /\ calls[a].at = "update" /\ ~calls[a].accepted
    BY CurrentType DEF UpdateUnauthenticated, IInv, CallInv
  <1>f. UNCHANGED <<stored, command, expired, early, bus, timeouts, forsaken, faults>>
    BY DEF UpdateUnauthenticated
  <1>2. CASE Finding(a) /\ calls[a].try < Len(Conditions)
    <2> USE DEF IInv
    <2> DEFINE call == [calls[a] EXCEPT !.try = @ + 1]
    <2>1. calls' = [calls EXCEPT ![a] = call]
      BY <1>1, <1>2 DEF UpdateUnauthenticated, Types, Call
    <2>2. call \in Call
      BY <1>1, <1>2, ConfigurationConstants DEF Call
    <2>3. /\ call.at = calls[a].at /\ call.next = calls[a].next /\ call.old = calls[a].old
          /\ call.condition = calls[a].condition /\ call.link = calls[a].link
          /\ call.accepted = calls[a].accepted
      BY <1>1 DEF Call
    <2> HIDE DEF call
    <2>o. calls'[a] = call /\ Others(a)
      BY <2>1, OtherCalls
    <2>4. Ahead(a)' = Ahead(a) /\ Current(a)' = Current(a) /\ CurrentUpdate(a)' = CurrentUpdate(a)
      BY <2>o, <2>3 DEF Ahead, Current, CurrentUpdate
    <2>5. Types' /\ EventInv'
      BY <1>f, <2>1, <2>2 DEF Types, EventInv
    <2>6. CallInv' /\ FreshInv'
      BY <1>f, <2>o, <2>3, <2>4 DEF CallInv, FreshInv, Others
    <2>7. \A c \in stored : c.id \in Apply
      BY DEF Types, Stored
    <2>8. LoopInv' /\ StatusInv' /\ OutcomeIsOwn' /\ LinkIsUsedCondition'
      BY <1>f, <2>o, <2>3, <2>4, <2>7
         DEF LoopInv, StatusInv, OutcomeIsOwn, LinkIsUsedCondition, Others
    <2>9. NoUpdateLeftBehind'
      BY <1>f, <2>o, <2>3, <2>4 DEF NoUpdateLeftBehind, Others, Update
    <2> QED
      BY <2>5, <2>6, <2>8, <2>9
  <1>3. CASE ~(Finding(a) /\ calls[a].try < Len(Conditions))
    <2>1. calls' = [calls EXCEPT ![a] =
            [calls[a] EXCEPT !.at = "store", !.accepted = FALSE, !.condition = calls[a].condition]]
      BY <1>1, <1>3 DEF UpdateUnauthenticated, IInv, Types, Call
    <2>2. calls[a].condition \in Link /\ faults' \in 0 .. MaxFaults
      BY <1>1, <1>f DEF IInv, Types, Call
    <2> QED
      BY <1>1, <1>f, <2>1, <2>2, RequestMade
  <1> QED
    BY <1>2, <1>3

(* The loop goes on to the next resource, or the call ends.                  *)
LEMMA LoopGoesOn ==
    ASSUME Types, NEW a \in Apply, NEW call \in Call,
           calls[a].at = "store", call.next = calls[a].next, call.old = {},
           calls' = [calls EXCEPT ![a] = NextResource(call)]
    PROVE  /\ calls' \in [Apply -> Call] /\ Others(a)
           /\ calls'[a].at \in {"update", "end"}
           /\ calls'[a].old = {} /\ ~calls'[a].accepted
           /\ calls'[a].condition = call.condition
           /\ calls'[a].at = "update" => calls'[a].link = call.link
           /\ Ahead(a)' \subseteq Ahead(a)
           /\ Current(a) \notin Ahead(a)
  <1>1. calls[a].next \in Index
    BY CurrentType
  <1>2. calls'[a] = NextResource(call) /\ Others(a) /\ calls' \in [Apply -> Call]
    BY OtherCalls, NextResourceType DEF Types
  <1>3. Current(a) \notin Ahead(a)
    BY <1>1, ConfigurationConstants DEF Current, Ahead, Index
  <1>4. CASE call.next = Len(Resources)
    BY <1>2, <1>3, <1>4 DEF NextResource, Ended, NewCall, Ahead
  <1>5. CASE call.next # Len(Resources)
    <2>1. NextResource(call) =
            [call EXCEPT !.at = "update", !.next = @ + 1, !.try = 1, !.accepted = FALSE]
      BY <1>5 DEF NextResource
    <2>2. /\ calls'[a].at = "update" /\ calls'[a].next = calls[a].next + 1
          /\ calls'[a].old = {} /\ ~calls'[a].accepted
          /\ calls'[a].condition = call.condition /\ calls'[a].link = call.link
      BY <1>2, <2>1 DEF Call
    <2>3. Ahead(a)' \subseteq Ahead(a)
      BY <2>2, <1>1 DEF Ahead, Index
    <2> QED
      BY <1>2, <1>3, <2>2, <2>3
  <1> QED
    BY <1>4, <1>5

LEMMA StoreInv ==
    ASSUME IInv, NEW a \in Apply, Store(a)
    PROVE  IInv'
  <1> USE DEF IInv
  <1> DEFINE h == Current(a)
             status == IF calls[a].accepted THEN "PENDING" ELSE "DONE"
             result == IF calls[a].accepted THEN "none" ELSE "error"
             link == [c \in stored |-> LinkOf(a, c)]
  <1>a. /\ calls[a].at = "store" /\ calls[a] \in Call /\ calls[a].old = {}
        /\ h \in Href /\ <<a, h>> = CurrentUpdate(a) /\ <<a, h>> \in Update
    BY CurrentType DEF Store, CallInv, CurrentUpdate
  <1>f. UNCHANGED <<command, expired, early, bus, timeouts, forsaken, faults>>
    BY DEF Store
  <1>u. UpdateAppliedConfigurationResource(a, h, {"QUEUED"}, status, result, link)
    BY DEF Store
  <1>l. link \in [stored -> Link]
    BY <1>a DEF LinkOf, Types, Stored, Call, Link
  <1>s. status \in AnyStatus /\ result \in Result
    BY DEF AnyStatus, Result
  <1>i. \A c \in stored : c.id \in Apply /\ c \in Stored
    BY DEF Types, Stored
  <1>1. CASE Matching(a, h) = {}
    <2> DEFINE call == [calls[a] EXCEPT !.at = "withdraw", !.accepted = FALSE]
    <2>1. calls' = [calls EXCEPT ![a] = call]
      BY <1>1 DEF Store
    <2>2. /\ call \in Call /\ call.at = "withdraw" /\ ~call.accepted /\ call.old = {}
          /\ call.next = calls[a].next
      BY <1>a DEF Call, Phase
    <2> HIDE DEF call
    <2>o. calls'[a] = call /\ Others(a)
      BY <2>1, OtherCalls
    <2>3. UNCHANGED stored /\ \A c \in stored : c.id # a
      BY <1>1, <1>u DEF Matching, UpdateAppliedConfigurationResource
    <2>4. Ahead(a)' = {} /\ Current(a)' = Current(a)
      BY <2>o, <2>2 DEF Ahead, Current
    <2>5. Types' /\ EventInv'
      BY <1>f, <2>1, <2>2, <2>3 DEF Types, EventInv
    <2>6. CallInv' /\ FreshInv'
      BY <1>f, <2>o, <2>2, <2>4 DEF CallInv, FreshInv, Others
    <2>7. LoopInv' /\ StatusInv' /\ OutcomeIsOwn' /\ LinkIsUsedCondition'
      BY <1>f, <1>i, <2>3, <2>o
         DEF LoopInv, StatusInv, OutcomeIsOwn, LinkIsUsedCondition, Others
    <2>8. NoUpdateLeftBehind'
      BY <1>f, <1>a, <2>o, <2>2, <2>3, <2>4 DEF NoUpdateLeftBehind, Others, Update
    <2> QED
      BY <2>5, <2>6, <2>7, <2>8
  <1>2. CASE Matching(a, h) # {}
    <2>1. PICK c \in stored : c.id = a
      BY <1>2 DEF Matching
    <2> DEFINE d == After(c, a, h, {"QUEUED"}, status, result, LinkOf(a, c))
               hit == c.status[h] = "QUEUED"
    <2>2. stored' = {d} /\ stored = {c}
      <3>1. stored = {c}
        BY <2>1 DEF Types
      <3>2. link[c] = LinkOf(a, c)
        BY <2>1
      <3> HIDE DEF status, result, link
      <3> QED
        BY <1>a, <1>u, <1>l, <1>s, <3>1, <3>2, ResourceUpdate
    <2>3. LinkOf(a, c) \in Link
      BY <1>l, <2>1
    <2>4. /\ d \in Stored /\ d.id = a
          /\ d.link = IF hit THEN LinkOf(a, c) ELSE c.link
          /\ \A g \in Href : /\ d.status[g] = IF hit /\ g = h THEN status ELSE c.status[g]
                             /\ d.result[g] = IF hit /\ g = h THEN result ELSE c.result[g]
      <3> HIDE DEF status, result
      <3> QED
        BY <1>a, <1>i, <1>s, <2>1, <2>3, AfterFields
    <2> HIDE DEF d
    <2> DEFINE call == [calls[a] EXCEPT !.link = d.link]
    <2>5. /\ call \in Call /\ call.next = calls[a].next /\ call.old = {}
          /\ call.condition = calls[a].condition /\ call.link = d.link
      BY <1>a, <2>4 DEF Call, Stored, Link
    <2>6. calls' = [calls EXCEPT ![a] = NextResource(call)]
      <3>1. Matching(a, h) = {c}
        BY <2>1, <2>2 DEF Matching
      <3>2. (\E e \in Matching(a, h) : e.status[h] = "QUEUED") <=> hit
        BY <3>1
      <3>3. (CHOOSE e \in stored' : TRUE).link = d.link
        BY <2>2
      <3>4. ~hit => d.link = calls[a].link
        BY <1>a, <2>1, <2>4 DEF LoopInv
      <3> DEFINE modified == \E e \in Matching(a, h) : e.status[h] = "QUEUED"
                 l == IF modified THEN (CHOOSE e \in stored' : TRUE).link ELSE calls[a].link
      <3>5. calls' = [calls EXCEPT ![a] = NextResource([calls[a] EXCEPT !.link = l])]
        BY <1>2 DEF Store
      <3>6. l = d.link
        BY <3>2, <3>3, <3>4
      <3> HIDE DEF l
      <3> QED
        BY <3>5, <3>6
    <2> HIDE DEF call
    <2>o. /\ calls' \in [Apply -> Call] /\ Others(a)
          /\ calls'[a].at \in {"update", "end"}
          /\ calls'[a].old = {} /\ ~calls'[a].accepted
          /\ calls'[a].condition = calls[a].condition
          /\ calls'[a].at = "update" => calls'[a].link = d.link
          /\ Ahead(a)' \subseteq Ahead(a) /\ h \notin Ahead(a)
          /\ Ahead(a) \subseteq Href
      <3>1. Ahead(a) \subseteq Href
        BY DEF Ahead, Href, Index
      <3> QED
        BY <1>a, <2>5, <2>6, <3>1, LoopGoesOn
    <2>7. Types' /\ EventInv'
      BY <1>f, <2>2, <2>4, <2>o DEF Types, EventInv
    <2>8. CallInv' /\ FreshInv'
      BY <1>f, <2>o DEF CallInv, FreshInv, Others
    <2>9. /\ calls[a].link = c.link
          /\ calls[a].accepted /\ a \notin OnDemand => LinkOf(a, c) = calls[a].condition
          /\ a \notin OnDemand => LinkOf(a, c) \in Condition
      BY <1>a, <2>1 DEF LoopInv, LinkOf, CallInv, Call, Link
    <2>10. LoopInv'
      BY <2>1, <2>2, <2>4, <2>o, <2>9 DEF LoopInv
    <2>11. calls[a].accepted => command[<<a, h>>] # "none"
      BY <1>a DEF CallInv
    <2>12. ~calls[a].accepted => command[<<a, h>>] = "none" \/ <<a, h>> \in forsaken
      BY <1>a DEF CallInv
    <2>13. StatusInv' /\ OutcomeIsOwn'
      BY <1>f, <1>a, <2>1, <2>2, <2>4, <2>11, <2>12 DEF StatusInv, OutcomeIsOwn
    <2>14. LinkIsUsedCondition'
      BY <1>f, <1>a, <2>1, <2>2, <2>4, <2>o, <2>9 DEF LinkIsUsedCondition, LinkOf
    <2>15. NoUpdateLeftBehind'
      <3> SUFFICES ASSUME NEW v \in Update, v \notin forsaken \cup expired, command[v] = "pending"
                   PROVE  \/ d.id = v[1] /\ d.status[v[2]] \in {"QUEUED", "PENDING"}
                          \/ calls'[v[1]].at \in {"store", "withdraw"} /\ Current(v[1])' = v[2]
                          \/ \E b \in Apply : v \in calls'[b].old
        BY <1>f, <2>2 DEF NoUpdateLeftBehind
      <3>1. v = <<v[1], v[2]>> /\ v[1] \in Apply /\ v[2] \in Href
        BY DEF Update
      <3>2. CASE v[1] = a /\ v[2] = h
        <4>1. calls[a].accepted
          BY <3>1, <3>2, <2>12
        <4>2. CASE hit
          BY <4>1, <4>2, <3>2, <1>a, <2>4
        <4>3. c.status[h] \notin {"DONE", "TIMEOUT"}
          BY <3>1, <3>2, <2>1 DEF StatusInv, OutcomeIsOwn
        <4>4. c.status[h] \in {"QUEUED", "PENDING"}
          BY <4>3, <1>a, <1>i DEF Stored, AnyStatus
        <4> QED
          BY <4>2, <4>4, <3>2, <1>a, <2>4
      <3>3. CASE v[1] = a /\ v[2] # h
        BY <3>1, <3>3, <1>a, <2>1, <2>2, <2>4, <2>o DEF NoUpdateLeftBehind, Others
      <3>4. CASE v[1] # a
        BY <3>1, <3>4, <1>a, <2>1, <2>2, <2>o DEF NoUpdateLeftBehind, Others
      <3> QED
        BY <3>2, <3>3, <3>4
    <2> QED
      BY <2>7, <2>8, <2>10, <2>13, <2>14, <2>15
  <1> QED
    BY <1>1, <1>2

LEMMA StoreFailsInv ==
    ASSUME IInv, NEW a \in Apply, StoreFails(a)
    PROVE  IInv'
  <1> USE DEF IInv
  <1>a. /\ calls[a].at = "store" /\ calls[a] \in Call /\ calls[a].old = {}
        /\ CurrentUpdate(a) = <<a, Current(a)>> /\ CurrentUpdate(a) \in Update
    BY CurrentType DEF StoreFails, CallInv, CurrentUpdate
  <1>f. /\ UNCHANGED <<stored, command, expired, early, bus, timeouts>>
        /\ forsaken' = forsaken \cup {CurrentUpdate(a)}
        /\ faults' \in 0 .. MaxFaults
    BY ConfigurationConstants DEF StoreFails, Types
  <1>o. /\ calls' \in [Apply -> Call] /\ Others(a)
        /\ calls'[a].at \in {"update", "end"}
        /\ calls'[a].old = {} /\ ~calls'[a].accepted
        /\ calls'[a].condition = calls[a].condition
        /\ calls'[a].at = "update" => calls'[a].link = calls[a].link
        /\ Ahead(a)' \subseteq Ahead(a)
    BY <1>a, LoopGoesOn DEF StoreFails
  <1>i. \A c \in stored : c.id \in Apply
    BY DEF Types, Stored
  <1>1. Types' /\ EventInv'
    BY <1>f, <1>a, <1>o DEF Types, EventInv
  <1>2. CallInv' /\ FreshInv'
    BY <1>f, <1>o DEF CallInv, FreshInv, Others
  <1>3. LoopInv' /\ OutcomeIsOwn' /\ LinkIsUsedCondition'
    BY <1>f, <1>a, <1>o, <1>i DEF LoopInv, OutcomeIsOwn, LinkIsUsedCondition, Others
  <1>4. StatusInv'
    <2> SUFFICES ASSUME NEW c \in stored, NEW h \in Href
                 PROVE  LET u == <<c.id, h>>
                        IN /\ c.result[h] = "answered" => c.status[h] = "DONE"
                           /\ c.status[h] = "DONE" =>
                                c.result[h] = "answered" \/ command[u] = "none" \/ u \in forsaken'
                           /\ c.status[h] = "QUEUED" /\ command[u] = "pending" /\ u \notin forsaken' =>
                                calls'[c.id].at = "store" /\ Current(c.id)' = h
      BY <1>f DEF StatusInv
    <2>1. /\ c.result[h] = "answered" => c.status[h] = "DONE"
          /\ c.status[h] = "DONE" =>
                c.result[h] = "answered" \/ command[<<c.id, h>>] = "none"
                    \/ <<c.id, h>> \in forsaken
          /\ /\ c.status[h] = "QUEUED" /\ command[<<c.id, h>>] = "pending"
             /\ <<c.id, h>> \notin forsaken
             => calls[c.id].at = "store" /\ Current(c.id) = h
      BY DEF StatusInv
    <2>2. forsaken \subseteq forsaken' /\ <<a, Current(a)>> \in forsaken'
      BY <1>f, <1>a
    <2>3. CASE c.id = a
      BY <2>1, <2>2, <2>3
    <2>4. CASE c.id # a
      BY <2>1, <2>2, <2>4, <1>o, <1>i DEF Others
    <2> QED
      BY <2>3, <2>4
  <1>5. NoUpdateLeftBehind'
    BY <1>f, <1>a, <1>o DEF NoUpdateLeftBehind, Others, Update
  <1> QED
    BY <1>1, <1>2, <1>3, <1>4, <1>5

(* A call that ends while nobody but itself knows of its current command.    *)
LEMMA WithdrawInv ==
    ASSUME IInv, NEW a \in Apply, Withdraw(a)
    PROVE  IInv'
  <1> USE DEF IInv
  <1> DEFINE u == CurrentUpdate(a)
             call == Ended(calls[a])
  <1>a. /\ calls[a].at = "withdraw" /\ calls[a] \in Call /\ calls[a].old = {}
        /\ u = <<a, Current(a)>> /\ u \in Update
    BY CurrentType DEF Withdraw, CallInv, CurrentUpdate
  <1>f. /\ UNCHANGED <<stored, expired, early, timeouts>> /\ calls' = [calls EXCEPT ![a] = call]
    BY DEF Withdraw
  <1>1. call \in Call /\ call.at = "end" /\ call.old = {} /\ ~call.accepted
    BY <1>a, NextResourceType DEF Ended, NewCall
  <1> HIDE DEF call, u
  <1>o. calls'[a] = call /\ Others(a)
    BY <1>f, OtherCalls
  <1>2. Ahead(a)' = {}
    BY <1>o, <1>1 DEF Ahead
  <1>3. /\ command' \in [Update -> {"none", "pending", "answered"}]
        /\ bus' \subseteq Update /\ forsaken' \subseteq Update
        /\ forsaken \subseteq forsaken' /\ faults' \in 0 .. MaxFaults
        /\ \A v \in bus' : command'[v] = "answered"
        /\ command'[u] # "pending" \/ u \in forsaken'
        /\ \A v \in Update : /\ command'[v] = "none" <=> command[v] = "none"
                             /\ command'[v] = "pending" => command[v] = "pending"
                             /\ command[v] = "answered" => command'[v] = "answered"
    <2>1. CASE CancelPendingCommands(u) /\ UNCHANGED <<forsaken, faults>>
      BY <2>1, <1>a, Canceled DEF Types
    <2>2. CASE /\ faults < MaxFaults /\ faults' = faults + 1
               /\ forsaken' = forsaken \cup {u}
               /\ UNCHANGED <<command, bus>>
      BY <2>2, <1>a, ConfigurationConstants DEF Types, EventInv
    <2> QED
      BY <2>1, <2>2 DEF Withdraw, u
  <1>4. \A c \in stored : c.id \in Apply \ {a} /\ \A h \in Href : <<c.id, h>> \in Update
    BY <1>a DEF Types, Stored, Update, LoopInv
  <1>5. Types' /\ EventInv'
    BY <1>f, <1>1, <1>3 DEF Types, EventInv
  <1>6. CallInv'
    <2>1. \A b \in Apply : calls[b].old \subseteq Update /\ CurrentUpdate(b) \in Update
      BY CurrentType DEF Call
    <2> QED
      BY <1>o, <1>1, <1>3, <2>1 DEF CallInv, Others
  <1>7. FreshInv'
    <2>1. \A b \in Apply : \A h \in Ahead(b) : <<b, h>> \in Update
      BY DEF Ahead, Update, Href, Index
    <2>2. \A b \in Apply : Ahead(b)' \subseteq Ahead(b)
      BY <1>o, <1>2 DEF Others
    <2>3. \A b \in Apply : \A h \in Ahead(b) : command[<<b, h>>] = "none"
      BY DEF FreshInv
    <2> HIDE DEF IInv
    <2> QED
      BY <1>3, <2>1, <2>2, <2>3 DEF FreshInv
  <1>8. LoopInv' /\ LinkIsUsedCondition'
    <2>1. forsaken \subseteq forsaken'
      BY <1>3
    <2> QED
      BY <1>f, <1>o, <1>4, <2>1 DEF LoopInv, LinkIsUsedCondition, Others
  <1>9. StatusInv' /\ OutcomeIsOwn'
    BY <1>f, <1>o, <1>3, <1>4 DEF StatusInv, OutcomeIsOwn, Others
  <1>10. NoUpdateLeftBehind'
    BY <1>f, <1>a, <1>o, <1>3 DEF NoUpdateLeftBehind, Others, Update
  <1> QED
    BY <1>5, <1>6, <1>7, <1>8, <1>9, <1>10

LEMMA CrashInv ==
    ASSUME IInv, NEW a \in Apply, Crash(a)
    PROVE  IInv'
  <1> USE DEF IInv
  <1> DEFINE call == Ended(calls[a])
             rest == {<<a, Resources[i]>> : i \in calls[a].next .. Len(Resources)}
  <1>a. calls[a] \in Call /\ calls[a].next \in Index /\ Current(a) \in Href
    BY CurrentType
  <1>f. /\ UNCHANGED <<stored, command, expired, early, bus, timeouts>>
        /\ calls' = [calls EXCEPT ![a] = call]
        /\ forsaken' = forsaken \cup calls[a].old \cup rest
        /\ faults' \in 0 .. MaxFaults
    BY ConfigurationConstants DEF Crash, Types
  <1>1. /\ call \in Call /\ call.at = "end" /\ call.old = {} /\ ~call.accepted
        /\ call.condition = calls[a].condition
    BY <1>a, NextResourceType DEF Ended, NewCall
  <1>2. rest \subseteq Update /\ <<a, Current(a)>> \in rest
    BY <1>a, ConfigurationConstants DEF Update, Href, Index, Current
  <1> HIDE DEF call, rest
  <1>3. calls[a].old \subseteq Update /\ forsaken' \subseteq Update
    BY <1>a, <1>f, <1>2 DEF Call, Types
  <1>o. calls'[a] = call /\ Others(a)
    BY <1>f, OtherCalls
  <1>4. Ahead(a)' = {}
    BY <1>o, <1>1 DEF Ahead
  <1>5. \A c \in stored : c.id \in Apply
    BY DEF Types, Stored
  <1>6. Types' /\ EventInv'
    BY <1>f, <1>1, <1>3 DEF Types, EventInv
  <1>7. CallInv' /\ FreshInv'
    BY <1>f, <1>o, <1>1, <1>4 DEF CallInv, FreshInv, Others
  <1>8. LoopInv' /\ OutcomeIsOwn' /\ LinkIsUsedCondition'
    BY <1>f, <1>o, <1>1, <1>4, <1>5 DEF LoopInv, OutcomeIsOwn, LinkIsUsedCondition, Others, Crash
  <1>9. StatusInv'
    <2> SUFFICES ASSUME NEW c \in stored, NEW h \in Href
                 PROVE  LET u == <<c.id, h>>
                        IN /\ c.result[h] = "answered" => c.status[h] = "DONE"
                           /\ c.status[h] = "DONE" =>
                                c.result[h] = "answered" \/ command[u] = "none" \/ u \in forsaken'
                           /\ c.status[h] = "QUEUED" /\ command[u] = "pending" /\ u \notin forsaken' =>
                                calls'[c.id].at = "store" /\ Current(c.id)' = h
      BY <1>f DEF StatusInv
    <2>1. /\ c.result[h] = "answered" => c.status[h] = "DONE"
          /\ c.status[h] = "DONE" =>
                c.result[h] = "answered" \/ command[<<c.id, h>>] = "none"
                    \/ <<c.id, h>> \in forsaken
          /\ /\ c.status[h] = "QUEUED" /\ command[<<c.id, h>>] = "pending"
             /\ <<c.id, h>> \notin forsaken
             => calls[c.id].at = "store" /\ Current(c.id) = h
      BY DEF StatusInv
    <2>2. forsaken \subseteq forsaken' /\ <<a, Current(a)>> \in forsaken'
      BY <1>f, <1>2
    <2>3. CASE c.id = a
      BY <2>1, <2>2, <2>3
    <2>4. CASE c.id # a
      BY <2>1, <2>2, <2>4, <1>o, <1>5 DEF Others
    <2> QED
      BY <2>3, <2>4
  <1>10. NoUpdateLeftBehind'
    <2> SUFFICES ASSUME NEW v \in Update, v \notin forsaken' \cup expired, command[v] = "pending"
                 PROVE  \/ \E c \in stored : c.id = v[1] /\ c.status[v[2]] \in {"QUEUED", "PENDING"}
                        \/ calls'[v[1]].at \in {"store", "withdraw"} /\ Current(v[1])' = v[2]
                        \/ \E b \in Apply : v \in calls'[b].old
      BY <1>f DEF NoUpdateLeftBehind
    <2>1. v = <<v[1], v[2]>> /\ v[1] \in Apply
      BY DEF Update
    <2>2. v # <<a, Current(a)>> /\ v \notin calls[a].old /\ v \notin forsaken
      BY <1>f, <1>2
    <2> QED
      BY <1>o, <2>1, <2>2 DEF NoUpdateLeftBehind, Others
  <1> QED
    BY <1>6, <1>7, <1>8, <1>9, <1>10

-----------------------------------------------------------------------------
(* The steps of the aggregate, of the handlers and of the cron job.          *)

LEMMA SameCalls ==
    ASSUME calls' = calls
    PROVE  \A b : /\ Ahead(b)' = Ahead(b) /\ Current(b)' = Current(b)
                  /\ CurrentUpdate(b)' = CurrentUpdate(b)
  BY DEF Ahead, Current, CurrentUpdate

(* A command that ends keeps every part: nothing of it is about pending      *)
(* commands only, and events are about commands that have ended.             *)
LEMMA AnswerInv ==
    ASSUME IInv, Answer
    PROVE  IInv'
  <1> USE DEF IInv
  <1>f. UNCHANGED <<stored, expired, early, calls, timeouts, forsaken, faults>>
    BY DEF Answer
  <1>1. PICK u \in Update : CancelPendingCommands(u)
    BY DEF Answer, CancelPendingCommands
  <1>2. /\ command' \in [Update -> {"none", "pending", "answered"}]
        /\ bus' \subseteq Update
        /\ \A v \in bus' : command'[v] = "answered"
        /\ \A v \in Update : /\ command'[v] = "none" <=> command[v] = "none"
                             /\ command'[v] = "pending" => command[v] = "pending"
                             /\ command[v] = "answered" => command'[v] = "answered"
    BY <1>1, Canceled
  <1>3. \A b : /\ Ahead(b)' = Ahead(b) /\ Current(b)' = Current(b)
               /\ CurrentUpdate(b)' = CurrentUpdate(b)
    BY <1>f, SameCalls
  <1>4. \A c \in stored : c.id \in Apply /\ \A h \in Href : <<c.id, h>> \in Update
    BY DEF Types, Stored, Update
  <1>5. Types' /\ EventInv'
    BY <1>f, <1>2 DEF Types, EventInv
  <1>6. CallInv'
    <2>1. \A b \in Apply : calls[b].old \subseteq Update /\ CurrentUpdate(b) \in Update
      BY CurrentType DEF Call
    <2> QED
      BY <1>f, <1>2, <1>3, <2>1 DEF CallInv
  <1>7. FreshInv'
    <2>1. \A b \in Apply : \A h \in Ahead(b) : <<b, h>> \in Update
      BY DEF Ahead, Update, Href, Index
    <2>2. \A b \in Apply : \A h \in Ahead(b) : command[<<b, h>>] = "none"
      BY DEF FreshInv
    <2> HIDE DEF IInv
    <2> QED
      BY <1>2, <1>3, <2>1, <2>2 DEF FreshInv
  <1>8. LoopInv' /\ LinkIsUsedCondition'
    BY <1>f, <1>3, <1>4 DEF LoopInv, LinkIsUsedCondition
  <1>9. StatusInv' /\ OutcomeIsOwn'
    BY <1>f, <1>2, <1>3, <1>4 DEF StatusInv, OutcomeIsOwn
  <1>10. NoUpdateLeftBehind'
    BY <1>f, <1>2, <1>3 DEF NoUpdateLeftBehind, Update
  <1> QED
    BY <1>5, <1>6, <1>7, <1>8, <1>9, <1>10

LEMMA ExpireInv ==
    ASSUME IInv, Expire
    PROVE  IInv'
  <1> USE DEF IInv
  <1>f. UNCHANGED <<stored, command, early, bus, calls, timeouts, forsaken, faults>>
    BY DEF Expire
  <1>1. PICK u \in Update : command[u] # "none" /\ expired' = expired \cup {u}
    BY DEF Expire
  <1>2. \A b : /\ Ahead(b)' = Ahead(b) /\ Current(b)' = Current(b)
               /\ CurrentUpdate(b)' = CurrentUpdate(b)
    BY <1>f, SameCalls
  <1>3. Types' /\ EventInv'
    BY <1>f, <1>1 DEF Types, EventInv
  <1>4. CallInv' /\ FreshInv'
    BY <1>f, <1>2 DEF CallInv, FreshInv
  <1>5. LoopInv' /\ StatusInv' /\ LinkIsUsedCondition'
    BY <1>f, <1>2 DEF LoopInv, StatusInv, LinkIsUsedCondition
  <1>6. OutcomeIsOwn' /\ NoUpdateLeftBehind'
    BY <1>f, <1>1, <1>2 DEF OutcomeIsOwn, NoUpdateLeftBehind
  <1> QED
    BY <1>3, <1>4, <1>5, <1>6

LEMMA FindTimeoutsInv ==
    ASSUME IInv, FindTimeouts
    PROVE  IInv'
  <1> USE DEF IInv
  <1>f. /\ UNCHANGED <<stored, command, expired, early, bus, calls, forsaken, faults>>
        /\ timeouts' \subseteq expired
    BY DEF FindTimeouts, ExpiredPendingResources
  <1>2. \A b : /\ Ahead(b)' = Ahead(b) /\ Current(b)' = Current(b)
               /\ CurrentUpdate(b)' = CurrentUpdate(b)
    BY <1>f, SameCalls
  <1>3. Types' /\ EventInv'
    BY <1>f DEF Types, EventInv
  <1>4. CallInv' /\ FreshInv'
    BY <1>f, <1>2 DEF CallInv, FreshInv
  <1>5. LoopInv' /\ StatusInv' /\ LinkIsUsedCondition'
    BY <1>f, <1>2 DEF LoopInv, StatusInv, LinkIsUsedCondition
  <1>6. OutcomeIsOwn' /\ NoUpdateLeftBehind'
    BY <1>f, <1>2 DEF OutcomeIsOwn, NoUpdateLeftBehind
  <1> QED
    BY <1>3, <1>4, <1>5, <1>6

LEMMA DeleteAppliedConfigurationsInv ==
    ASSUME IInv, DeleteAppliedConfigurations
    PROVE  IInv'
  <1> USE DEF IInv
  <1> DEFINE dropped == UNION {ToCancel(c) : c \in stored}
  <1>f. /\ UNCHANGED <<command, expired, early, bus, calls, timeouts>>
        /\ stored' = {} /\ forsaken' = forsaken \cup dropped
        /\ faults' \in 0 .. MaxFaults
    BY ConfigurationConstants DEF DeleteAppliedConfigurations, Types
  <1>1. dropped \subseteq Update
    BY DEF ToCancel, Update, Types, Stored
  <1>p. \A c \in stored, h \in Href : c.status[h] = "PENDING" => <<c.id, h>> \in dropped
    BY DEF ToCancel
  <1> HIDE DEF dropped
  <1>2. \A b : /\ Ahead(b)' = Ahead(b) /\ Current(b)' = Current(b)
               /\ CurrentUpdate(b)' = CurrentUpdate(b)
    BY <1>f, SameCalls
  <1>3. Types' /\ EventInv'
    BY <1>f, <1>1 DEF Types, EventInv
  <1>4. CallInv' /\ FreshInv'
    BY <1>f, <1>2 DEF CallInv, FreshInv
  <1>5. LoopInv' /\ StatusInv' /\ LinkIsUsedCondition' /\ OutcomeIsOwn'
    BY <1>f DEF LoopInv, StatusInv, LinkIsUsedCondition, OutcomeIsOwn
  <1>6. NoUpdateLeftBehind'
    <2> SUFFICES ASSUME NEW u \in Update, u \notin forsaken' \cup expired, command[u] = "pending"
                 PROVE  \/ calls[u[1]].at \in {"store", "withdraw"} /\ Current(u[1]) = u[2]
                        \/ \E b \in Apply : u \in calls[b].old
      BY <1>f, <1>2 DEF NoUpdateLeftBehind
    <2>1. u[1] \in Apply /\ u = <<u[1], u[2]>> /\ u[2] \in Href
      BY DEF Update
    <2>2. CASE \E c \in stored : c.id = u[1] /\ c.status[u[2]] \in {"QUEUED", "PENDING"}
      BY <1>f, <1>p, <2>1, <2>2 DEF StatusInv
    <2> QED
      BY <1>f, <2>2 DEF NoUpdateLeftBehind
  <1> QED
    BY <1>3, <1>4, <1>5, <1>6

(* The outcome of an update is recorded by somebody else than its call.      *)
LEMMA RecordedInv ==
    ASSUME IInv, NEW u \in Update, NEW filter, NEW status \in {"DONE", "TIMEOUT"},
           NEW result \in Result,
           UpdateAppliedConfigurationResource(u[1], u[2], filter, status, result, KeepLink),
           UNCHANGED <<command, expired, calls, forsaken, faults>>,
           early \subseteq early', early' \subseteq Update,
           \A c \in Matching(u[1], u[2]) :
                status = "DONE" /\ c.status[u[2]] = "QUEUED" => u \in early',
           bus' \subseteq bus, timeouts' \subseteq timeouts,
           command[u] # "none",
           status = "DONE" => result = "answered" /\ command[u] = "answered",
           status = "TIMEOUT" => u \in expired /\ result # "answered" /\ filter = {"PENDING"}
    PROVE  IInv'
  <1> USE DEF IInv
  <1>a. u[1] \in Apply /\ u = <<u[1], u[2]>> /\ u[2] \in Href
    BY DEF Update
  <1>l. KeepLink \in [stored -> Link]
    BY DEF KeepLink, Types, Stored, Link
  <1>s. status \in AnyStatus
    BY DEF AnyStatus
  <1> DEFINE New(c) == After(c, u[1], u[2], filter, status, result, KeepLink[c])
  <1>1. /\ stored' \subseteq Stored
        /\ \A c, d \in stored' : c = d
        /\ \A d \in stored' : \E c \in stored : d = New(c)
        /\ \A c \in stored : New(c) \in stored'
    BY <1>a, <1>l, <1>s, ResourceUpdate
  <1>2. \A c \in stored :
            /\ New(c).id = c.id /\ New(c).link = c.link /\ c.id \in Apply
            /\ \A g \in Href :
                \/ New(c).status[g] = c.status[g] /\ New(c).result[g] = c.result[g]
                \/ /\ u = <<c.id, g>> /\ c.status[g] \in filter
                   /\ New(c).status[g] = status /\ New(c).result[g] = result
    <2> SUFFICES ASSUME NEW c \in stored
                 PROVE  /\ New(c).id = c.id /\ New(c).link = c.link /\ c.id \in Apply
                        /\ \A g \in Href :
                            \/ New(c).status[g] = c.status[g] /\ New(c).result[g] = c.result[g]
                            \/ /\ u = <<c.id, g>> /\ c.status[g] \in filter
                               /\ New(c).status[g] = status /\ New(c).result[g] = result
      OBVIOUS
    <2>1. KeepLink[c] = c.link /\ c \in Stored /\ c.id \in Apply /\ c.link \in Link
      BY DEF KeepLink, Types, Stored, Link
    <2>2. /\ New(c).id = c.id
          /\ New(c).link = IF c.id = u[1] /\ c.status[u[2]] \in filter THEN c.link ELSE c.link
          /\ \A g \in Href :
              /\ New(c).status[g] = IF (c.id = u[1] /\ c.status[u[2]] \in filter) /\ g = u[2]
                                    THEN status ELSE c.status[g]
              /\ New(c).result[g] = IF (c.id = u[1] /\ c.status[u[2]] \in filter) /\ g = u[2]
                                    THEN result ELSE c.result[g]
      <3> DEFINE d == After(c, u[1], u[2], filter, status, result, c.link)
      <3>1. New(c) = d
        BY <2>1
      <3>2. /\ d.id = c.id
            /\ \A g \in Href :
                /\ d.status[g] = IF (c.id = u[1] /\ c.status[u[2]] \in filter) /\ g = u[2]
                                 THEN status ELSE c.status[g]
                /\ d.result[g] = IF (c.id = u[1] /\ c.status[u[2]] \in filter) /\ g = u[2]
                                 THEN result ELSE c.result[g]
        <4> HIDE DEF IInv
        <4> QED
          BY <1>a, <2>1 DEF After, Updated, Stored
      <3>3. d.link = IF c.id = u[1] /\ c.status[u[2]] \in filter THEN c.link ELSE c.link
        <4> HIDE DEF IInv
        <4> QED
          BY <1>a, <2>1 DEF After, Updated, Stored
      <3> HIDE DEF d, New
      <3> QED
        BY <3>1, <3>2, <3>3
    <2> HIDE DEF New
    <2> QED
      BY <1>a, <2>1, <2>2
  <1> HIDE DEF New
  <1>3. \A b : /\ Ahead(b)' = Ahead(b) /\ Current(b)' = Current(b)
               /\ CurrentUpdate(b)' = CurrentUpdate(b)
    BY SameCalls
  <1>4. Types' /\ EventInv'
    BY <1>1 DEF Types, EventInv
  <1>5. CallInv' /\ FreshInv'
    BY <1>3 DEF CallInv, FreshInv
  <1>6. LoopInv'
    <2> SUFFICES ASSUME NEW c \in stored
                 PROVE  /\ calls[c.id].at \notin {"create", "withdraw"}
                        /\ c.id \notin OnDemand => c.link \in Condition
                        /\ calls[c.id].at # "end" => calls[c.id].link = c.link
                        /\ \A h \in Ahead(c.id) : New(c).status[h] = "QUEUED"
      BY <1>1, <1>2, <1>3 DEF LoopInv
    <2>1. \A h \in Ahead(c.id) : h \in Href /\ u # <<c.id, h>>
      BY <1>2 DEF Ahead, Href, Index, FreshInv
    <2> QED
      BY <1>2, <2>1 DEF LoopInv
  <1>7. StatusInv'
    <2> SUFFICES ASSUME NEW c \in stored, NEW h \in Href
                 PROVE  LET v == <<c.id, h>>
                            d == New(c)
                        IN /\ d.result[h] = "answered" => d.status[h] = "DONE"
                           /\ d.status[h] = "DONE" =>
                                d.result[h] = "answered" \/ command[v] = "none" \/ v \in forsaken
                           /\ d.status[h] = "QUEUED" /\ command[v] = "pending" /\ v \notin forsaken =>
                                calls[c.id].at = "store" /\ Current(c.id) = h
      <3> SUFFICES ASSUME NEW d \in stored', NEW h \in Href
                   PROVE  LET v == <<d.id, h>>
                          IN /\ d.result[h] = "answered" => d.status[h] = "DONE"
                             /\ d.status[h] = "DONE" =>
                                  d.result[h] = "answered" \/ command[v] = "none" \/ v \in forsaken
                             /\ d.status[h] = "QUEUED" /\ command[v] = "pending" /\ v \notin forsaken =>
                                  calls[d.id].at = "store" /\ Current(d.id) = h
        BY <1>3 DEF StatusInv
      <3>1. PICK c \in stored : d = New(c)
        BY <1>1
      <3> QED
        BY <1>2, <3>1
    <2> QED
      BY <1>2 DEF StatusInv
  <1>8. OutcomeIsOwn'
    <2> SUFFICES ASSUME NEW c \in stored, NEW h \in Href
                 PROVE  /\ New(c).result[h] = "answered" => command[<<c.id, h>>] = "answered"
                        /\ New(c).status[h] = "TIMEOUT" => <<c.id, h>> \in expired
                        /\ New(c).status[h] = "PENDING" => command[<<c.id, h>>] # "none"
      <3> SUFFICES ASSUME NEW d \in stored', NEW h \in Href
                   PROVE  /\ d.result[h] = "answered" => command[<<d.id, h>>] = "answered"
                          /\ d.status[h] = "TIMEOUT" => <<d.id, h>> \in expired
                          /\ d.status[h] = "PENDING" => command[<<d.id, h>>] # "none"
        BY DEF OutcomeIsOwn
      <3>1. PICK c \in stored : d = New(c)
        BY <1>1
      <3> QED
        BY <1>2, <3>1
    <2> QED
      BY <1>2 DEF OutcomeIsOwn
  <1>9. LinkIsUsedCondition'
    <2> SUFFICES ASSUME NEW d \in stored', NEW h \in Href, d.id \notin OnDemand,
                        \/ d.status[h] \in {"PENDING", "TIMEOUT"}
                        \/ d.result[h] = "answered" /\ <<d.id, h>> \notin early' \cup forsaken
                 PROVE  d.link = calls[d.id].condition
      BY DEF LinkIsUsedCondition
    <2>1. PICK c \in stored : d = New(c)
      BY <1>1
    <2>2. /\ d.id = c.id /\ d.link = c.link
          /\ \/ d.status[h] = c.status[h] /\ d.result[h] = c.result[h]
             \/ /\ u = <<c.id, h>> /\ c.status[h] \in filter
                /\ d.status[h] = status /\ d.result[h] = result
      BY <1>2, <2>1
    <2>3. \/ c.status[h] \in {"PENDING", "TIMEOUT"}
          \/ c.result[h] = "answered" /\ <<c.id, h>> \notin early \cup forsaken
      <3>1. CASE d.status[h] = c.status[h] /\ d.result[h] = c.result[h]
        BY <2>2, <3>1
      <3>2. CASE status = "TIMEOUT" /\ c.status[h] \in filter
        BY <3>2
      <3>3. CASE /\ u = <<c.id, h>> /\ status = "DONE"
                 /\ d.status[h] = status /\ d.result[h] = result
        <4>1. u \notin early' \cup forsaken
          BY <2>2, <3>3
        <4>2. c.status[h] # "QUEUED"
          BY <1>a, <3>3, <4>1 DEF Matching
        <4>3. c.status[h] \in AnyStatus
          BY DEF Types, Stored
        <4>4. c.status[h] = "DONE" => c.result[h] = "answered"
          BY <3>3, <4>1 DEF StatusInv
        <4> QED
          BY <3>3, <4>1, <4>2, <4>3, <4>4 DEF AnyStatus
      <3> QED
        BY <2>2, <3>1, <3>2, <3>3
    <2> QED
      BY <2>2, <2>3 DEF LinkIsUsedCondition
  <1>10. NoUpdateLeftBehind'
    <2> SUFFICES ASSUME NEW v \in Update, v \notin forsaken \cup expired, command[v] = "pending"
                 PROVE  \/ \E d \in stored' : d.id = v[1] /\ d.status[v[2]] \in {"QUEUED", "PENDING"}
                        \/ calls[v[1]].at \in {"store", "withdraw"} /\ Current(v[1]) = v[2]
                        \/ \E b \in Apply : v \in calls[b].old
      BY <1>3 DEF NoUpdateLeftBehind
    <2>1. v[1] \in Apply /\ v = <<v[1], v[2]>> /\ v[2] \in Href
      BY DEF Update
    <2>2. v # u
      OBVIOUS
    <2>3. CASE \E c \in stored : c.id = v[1] /\ c.status[v[2]] \in {"QUEUED", "PENDING"}
      BY <1>1, <1>2, <2>1, <2>2, <2>3
    <2> QED
      BY <2>3 DEF NoUpdateLeftBehind
  <1> QED
    BY <1>4, <1>5, <1>6, <1>7, <1>8, <1>9, <1>10

LEMMA HandleResourceUpdatedInv ==
    ASSUME IInv, HandleResourceUpdated
    PROVE  IInv'
  <1>1. PICK u \in bus :
          /\ bus' = bus \ {u}
          /\ UpdateAppliedConfigurationResource(u[1], u[2], AnyStatus, "DONE", command[u], KeepLink)
          /\ early' = early \cup {v \in {u} : \E c \in Matching(u[1], u[2]) :
                                                c.status[u[2]] = "QUEUED"}
          /\ UNCHANGED <<command, expired, calls, timeouts, forsaken, faults>>
    BY DEF HandleResourceUpdated
  <1>2. u \in Update /\ command[u] = "answered" /\ "answered" \in Result
    BY DEF IInv, Types, EventInv, Result
  <1>3. /\ early \subseteq early' /\ early' \subseteq Update
        /\ \A c \in Matching(u[1], u[2]) : c.status[u[2]] = "QUEUED" => u \in early'
    BY <1>1, <1>2 DEF IInv, Types
  <1> QED
    BY <1>1, <1>2, <1>3, RecordedInv

LEMMA TimeoutPendingResourceInv ==
    ASSUME IInv, TimeoutPendingResource
    PROVE  IInv'
  <1>1. PICK u \in timeouts :
          /\ timeouts' = timeouts \ {u}
          /\ UpdateAppliedConfigurationResource(u[1], u[2], {"PENDING"}, "TIMEOUT", "error", KeepLink)
          /\ UNCHANGED <<command, expired, early, bus, calls, forsaken, faults>>
    BY DEF TimeoutPendingResource
  <1>2. u \in Update /\ u \in expired /\ command[u] # "none" /\ "error" \in Result
    BY DEF IInv, Types, EventInv, Result
  <1>3. early \subseteq early' /\ early' \subseteq Update
    BY <1>1 DEF IInv, Types
  <1> QED
    BY <1>1, <1>2, <1>3, RecordedInv

LEMMA StutterInv ==
    ASSUME IInv, UNCHANGED vars
    PROVE  IInv'
  <1> USE DEF IInv, vars
  <1>1. \A b : /\ Ahead(b)' = Ahead(b) /\ Current(b)' = Current(b)
               /\ CurrentUpdate(b)' = CurrentUpdate(b)
    BY SameCalls
  <1>2. Types' /\ EventInv'
    BY DEF Types, EventInv
  <1>3. CallInv' /\ FreshInv'
    BY <1>1 DEF CallInv, FreshInv
  <1>4. LoopInv' /\ StatusInv' /\ LinkIsUsedCondition'
    BY <1>1 DEF LoopInv, StatusInv, LinkIsUsedCondition
  <1>5. OutcomeIsOwn' /\ NoUpdateLeftBehind'
    BY <1>1 DEF OutcomeIsOwn, NoUpdateLeftBehind
  <1> QED
    BY <1>2, <1>3, <1>4, <1>5

LEMMA NextInv == IInv /\ [Next]_vars => IInv'
  <1> SUFFICES ASSUME IInv, [Next]_vars PROVE IInv'
    OBVIOUS
  <1>1. ASSUME NEW a \in Apply, Proceed(a) PROVE IInv'
    BY <1>1, CreateInv, CancelReplacedInv, UpdateAcceptedInv, UpdateUnauthenticatedInv,
       UpdateFailsInv, StoreInv, StoreFailsInv, WithdrawInv DEF Proceed
  <1>2. ASSUME NEW a \in Apply, Crash(a) PROVE IInv'
    BY <1>2, CrashInv
  <1>3. ASSUME TimeoutStep PROVE IInv'
    BY <1>3, FindTimeoutsInv, TimeoutPendingResourceInv DEF TimeoutStep
  <1> QED
    BY <1>1, <1>2, <1>3, AnswerInv, ExpireInv, HandleResourceUpdatedInv,
       DeleteAppliedConfigurationsInv, StutterInv DEF Next

-----------------------------------------------------------------------------
(* The theorems.                                                             *)

LEMMA Invariant == Spec => []IInv
  BY InitInv, NextInv, PTL DEF Spec

LEMMA TypesAreTypeOK == IInv => TypeOK
  <1> SUFFICES ASSUME IInv PROVE TypeOK
    OBVIOUS
  <1>1. Cardinality(stored) <= 1
    <2>1. CASE stored = {}
      BY <2>1, FS_EmptySet
    <2>2. CASE stored # {}
      <3>1. PICK c \in stored : TRUE
        BY <2>2
      <3>2. stored = {c}
        BY <3>1 DEF IInv, Types
      <3>3. Cardinality({c}) = 1
        BY FS_Singleton
      <3> QED
        BY <3>2, <3>3
    <2> QED
      BY <2>1, <2>2
  <1>2. \A u \in bus \cup timeouts \cup expired : command[u] # "none"
    BY DEF IInv, Types, EventInv
  <1>3. ASSUME NEW a \in Apply
        PROVE  /\ calls[a].at \in {"create", "replaced", "update", "store", "withdraw", "end"}
               /\ calls[a].next \in 1 .. Len(Resources)
               /\ calls[a].try \in 1 .. Len(Conditions)
               /\ \A u \in calls[a].old : command[u] # "none"
    <2>1. calls[a] \in Call
      BY DEF IInv, Types
    <2> QED
      BY <2>1 DEF IInv, CallInv, Call, Phase, Index
  <1> QED
    BY <1>1, <1>2, <1>3 DEF IInv, Types, TypeOK

(* For any number of concurrent calls, resources, conditions and faults, the *)
(* store holds at most one applied configuration of the device, every event  *)
(* and timeout that is still to be handled is about an update the resource   *)
(* aggregate has accepted, and a call never runs past its last resource or   *)
(* condition.                                                                *)
THEOREM TypeCorrect == Spec => []TypeOK
  BY Invariant, TypesAreTypeOK, PTL

(* However calls, answers, timeouts and replacements interleave, an update   *)
(* that waits at the resource aggregate within its validity is recorded in   *)
(* the store or about to be cancelled by a call of                           *)
(* applyConfigurationToResources, unless a failed call, a crash or a         *)
(* deletion has forsaken it.                                                 *)
THEOREM NothingLeftBehind == Spec => []NoUpdateLeftBehind
  BY Invariant, PTL DEF IInv

(* What UpdateAppliedConfigurationResource has recorded of a resource is     *)
(* about the update of this very application, whatever late events and       *)
(* timeouts of the configurations it replaced were handled meanwhile.        *)
THEOREM OutcomesAreOwn == Spec => []OutcomeIsOwn
  BY Invariant, PTL DEF IInv

(* However many conditions a call has tried, the condition stored with the   *)
(* applied configuration is the one whose token made the updates that are    *)
(* pending, timed out or answered after they were stored, unless a failed    *)
(* call or a crash has forsaken them.                                        *)
THEOREM LinksAreUsedConditions == Spec => []LinkIsUsedCondition
  BY Invariant, PTL DEF IInv

-----------------------------------------------------------------------------
(* Recorded answers.                                                         *)

(* What AnswerIsFinal says of a document and its next version.               *)
Advances(c, d, h) ==
    /\ c.result[h] = "answered" => d.result[h] = "answered"
    /\ c.status[h] \in {"DONE", "TIMEOUT"} => d.status[h] \in {"DONE", "TIMEOUT"}
    /\ c.status[h] = "DONE" => d.status[h] = "DONE"
    /\ c.status[h] = "PENDING" => d.status[h] # "QUEUED"

AnswersKept == \A c \in stored, d \in stored', h \in Href : c.id = d.id => Advances(c, d, h)

(* A write advances the document if it does so where its filter matches.     *)
LEMMA WriteAdvances ==
    ASSUME IInv, NEW id, NEW g \in Href, NEW filter, NEW status \in AnyStatus,
           NEW result \in Result, NEW link \in [stored -> Link],
           UpdateAppliedConfigurationResource(id, g, filter, status, result, link),
           status # "QUEUED",
           \/ status = "DONE" /\ result = "answered"
           \/ filter \subseteq {"QUEUED", "PENDING"}
    PROVE  AnswersKept
  <1> SUFFICES ASSUME NEW c \in stored, NEW d \in stored', NEW h \in Href
               PROVE  Advances(c, d, h)
    BY DEF AnswersKept
  <1>1. d = After(c, id, g, filter, status, result, link[c])
    <2>1. Types
      BY DEF IInv
    <2>2. \E b \in stored : d = After(b, id, g, filter, status, result, link[b])
      BY <2>1, ResourceUpdate
    <2> QED
      BY <2>1, <2>2 DEF Types
  <1>2. c \in Stored /\ link[c] \in Link
    BY DEF IInv, Types
  <1>3. \/ d.status[h] = c.status[h] /\ d.result[h] = c.result[h]
        \/ d.status[h] = status /\ d.result[h] = result /\ c.status[h] \in filter
    BY <1>1, <1>2 DEF After, Updated, Stored
  <1>4. c.result[h] = "answered" => c.status[h] = "DONE"
    BY DEF IInv, StatusInv
  <1> QED
    BY <1>3, <1>4 DEF Advances, AnyStatus

LEMMA NextKeepsAnswers ==
    ASSUME IInv, Next
    PROVE  AnswersKept
  <1>a. \A c, d \in stored : c = d
    BY DEF IInv, Types
  <1>u. ASSUME UNCHANGED stored PROVE AnswersKept
    BY <1>a, <1>u DEF AnswersKept, Advances
  <1>k. KeepLink \in [stored -> Link]
    BY DEF IInv, KeepLink, Types, Stored, Link
  <1>1. ASSUME NEW a \in Apply, Create(a) PROVE AnswersKept
    <2>1. \A c \in stored : c.id # a
      BY <1>1 DEF Create, IInv, LoopInv
    <2>2. CASE stored' = Replaced(a)
      BY <2>1, <2>2, NewAppliedConfigurationType DEF AnswersKept, Replaced
    <2> QED
      BY <1>1, <1>u, <2>2 DEF Create
  <1>2. ASSUME NEW a \in Apply, Store(a) PROVE AnswersKept
    <2> DEFINE h == Current(a)
               status == IF calls[a].accepted THEN "PENDING" ELSE "DONE"
               result == IF calls[a].accepted THEN "none" ELSE "error"
               link == [c \in stored |-> LinkOf(a, c)]
    <2>1. UpdateAppliedConfigurationResource(a, h, {"QUEUED"}, status, result, link)
      BY <1>2 DEF Store
    <2>2. h \in Href /\ calls[a] \in Call
      BY CurrentType DEF IInv
    <2>3. link \in [stored -> Link]
      BY <2>2 DEF LinkOf, IInv, Types, Stored, Call, Link
    <2>4. status \in AnyStatus /\ result \in Result /\ status # "QUEUED"
      BY DEF AnyStatus, Result
    <2> HIDE DEF h, status, result, link
    <2> QED
      BY <2>1, <2>2, <2>3, <2>4, WriteAdvances
  <1>3. ASSUME NEW a \in Apply, Proceed(a) \/ Crash(a) PROVE AnswersKept
    <2>1. CASE CancelReplaced(a) \/ Withdraw(a) \/ Crash(a)
      BY <2>1, <1>u DEF CancelReplaced, Withdraw, Crash
    <2>2. CASE \/ UpdateAccepted(a) \/ UpdateUnauthenticated(a) \/ UpdateFails(a)
               \/ StoreFails(a)
      BY <2>2, <1>u DEF UpdateAccepted, UpdateUnauthenticated, UpdateFails, StoreFails
    <2> QED
      BY <1>1, <1>2, <1>3, <2>1, <2>2 DEF Proceed
  <1>4. CASE HandleResourceUpdated
    <2>1. PICK u \in bus :
            UpdateAppliedConfigurationResource(u[1], u[2], AnyStatus, "DONE", command[u], KeepLink)
      BY <1>4 DEF HandleResourceUpdated
    <2>2. u[2] \in Href /\ command[u] = "answered"
      BY DEF IInv, Types, EventInv, Update
    <2>3. UpdateAppliedConfigurationResource(u[1], u[2], AnyStatus, "DONE", "answered", KeepLink)
      BY <2>1, <2>2
    <2>4. "DONE" \in AnyStatus /\ "answered" \in Result
      BY DEF AnyStatus, Result
    <2> QED
      BY <1>k, <2>2, <2>3, <2>4, WriteAdvances
  <1>5. CASE TimeoutPendingResource
    <2>1. PICK u \in timeouts :
            UpdateAppliedConfigurationResource(u[1], u[2], {"PENDING"}, "TIMEOUT", "error", KeepLink)
      BY <1>5 DEF TimeoutPendingResource
    <2>2. u[2] \in Href
      BY DEF IInv, Types, EventInv, Update
    <2>3. "TIMEOUT" \in AnyStatus /\ "error" \in Result
      BY DEF AnyStatus, Result
    <2> QED
      BY <1>k, <2>1, <2>2, <2>3, WriteAdvances
  <1>6. CASE DeleteAppliedConfigurations
    BY <1>6 DEF DeleteAppliedConfigurations, AnswersKept
  <1>7. CASE Answer \/ Expire \/ FindTimeouts
    BY <1>7, <1>u DEF Answer, Expire, FindTimeouts
  <1> QED
    BY <1>3, <1>4, <1>5, <1>6, <1>7 DEF Next, TimeoutStep

(* The answer of the device, once stored, is neither overwritten by the call *)
(* that made the update, storing what it knew before, nor by the cron job,   *)
(* timing out what it read before; and no resource returns to an earlier     *)
(* status.                                                                   *)
THEOREM AnswersAreFinal == Spec => AnswerIsFinal
  <1>1. IInv /\ [Next]_vars => [AnswersKept]_vars
    BY NextKeepsAnswers
  <1>2. Spec => [][AnswersKept]_vars
    BY <1>1, Invariant, PTL DEF Spec
  <1> QED
    BY <1>2 DEF AnswerIsFinal, AnswersKept, Advances
=============================================================================
