--------------------------- MODULE LinearAggregate ---------------------------
(***************************************************************************)
(* What the aggregate of one resource promises its callers: commands take   *)
(* effect one at a time, each judged against the state the previous one     *)
(* left, and the events of a command get the next free versions, starting   *)
(* at 0.  Aggregate.tla, where many request handlers race over an event     *)
(* store, is shown to implement this.  The promise ends when the device is  *)
(* deleted: deletion does not take part in the version check.               *)
(***************************************************************************)
EXTENDS Integers, Sequences

CONSTANTS Command,                \* the commands callers may send
          InitialState,           \* the state of an aggregate without events
          HandleCommand(_, _, _), \* (state, command, now) -> [ok, events, state]
          MaxEvents,              \* the most events one command can produce
          MaxTime                 \* the clock stops here

VARIABLES version,  \* version of the last event, -1 before the first
          state,    \* the state after that event
          log,      \* every event so far, with its version
          now,      \* the clock
          deletes   \* how often the device was deleted

vars == <<version, state, log, now, deletes>>

Init ==
  /\ version = -1
  /\ state = InitialState
  /\ log = {}
  /\ now = 0
  /\ deletes = 0

\* Mutant: the version is advanced before the first event.
NumberedFromNext(events, first, n) ==
  {[version |-> first + i, event |-> events[i]] : i \in 1 .. n}

\* The n events of a result, numbered from `first`.
Numbered(events, first, n) ==
  {[version |-> first + i - 1, event |-> events[i]] : i \in 1 .. n}

\* A command that is accepted and has something to say; the others leave no
\* trace.  Its clock was read at some time t before its events were stored.
Execute(c) ==
  /\ \E t \in 0 .. now :
       LET r == HandleCommand(state, c, t)
       IN /\ r.ok
          /\ \E n \in 1 .. MaxEvents :
               /\ n = Len(r.events)
               /\ version' = version + n
               /\ state' = r.state
               /\ log' = log \cup Numbered(r.events, version + 1, n)
  /\ UNCHANGED <<now, deletes>>

Tick ==
  /\ now < MaxTime
  /\ now' = now + 1
  /\ UNCHANGED <<version, state, log, deletes>>

\* Once the device is deleted under its running handlers, nothing is promised.
Deleted == deletes' \in Nat \ {0}

Next == Deleted \/ Tick \/ \E c \in Command : Execute(c)

Spec == Init /\ [][Next]_vars
=============================================================================
