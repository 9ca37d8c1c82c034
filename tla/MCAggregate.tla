----------------------------- MODULE MCAggregate -----------------------------
(***************************************************************************)
(* The aggregate of one resource, handled concurrently: Aggregate with the  *)
(* rules of ResourceState.                                                  *)
(***************************************************************************)
EXTENDS Aggregate, ResourceState, TLC

\* A change of content, two requests, the answer to one of them and the
\* cancellation of both: commands that conflict in every pair.
RaceCommand ==
  {Notify("c1", 1, "on"),
   Request("update", "a", 0, TRUE, TRUE), Request("update", "b", 0, TRUE, TRUE),
   Confirm("update", "a", "OK"), Cancel({})}

\* The same with a request that expires and a late notification.
LifecycleCommand ==
  {Notify("c1", 1, "on"), Notify("c1", 2, "off"),
   Request("update", "a", 1, TRUE, TRUE), Confirm("update", "a", "OK")}

Handlers == Permutations(Handler)
=============================================================================
