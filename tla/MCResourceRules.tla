--------------------------- MODULE MCResourceRules ---------------------------
(***************************************************************************)
(* Commands for model checking ResourceRules.                               *)
(***************************************************************************)
EXTENDS ResourceRules

\* Two correlation ids, with and without expiry, in all four lists; a late
\* notification; a forced request and one whose content cannot be converted.
MCCommand ==
  {Notify("c1", 1, "on"), Notify("c1", 2, "off"), Notify("c1", 1, "dim")}
    \cup {Request("update", i, t, FALSE, TRUE) : i \in {"a", "b"}, t \in {0, 1}}
    \cup {Request("retrieve", "a", 0, FALSE, TRUE), Request("delete", "a", 1, FALSE, TRUE),
          Request("create", "b", 0, TRUE, TRUE), Request("update", "b", 0, TRUE, FALSE)}
    \cup {Confirm("update", "a", "OK"), Confirm("retrieve", "a", "OK"),
          Confirm("create", "b", "OK"), Confirm("delete", "a", "OK"),
          Confirm("delete", "a", "ERROR")}
    \cup {Cancel({}), Cancel({"b"})}

\* Three updates can be pending when the cancellation arrives.
CancelCommand ==
  {Notify("c1", 1, "on"), Cancel({})}
    \cup {Request("update", i, 0, FALSE, TRUE) : i \in {"a", "b", "c"}}
=============================================================================
