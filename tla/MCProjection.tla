---------------------------- MODULE MCProjection ----------------------------
(* Small instances of Projection for TLC. *)
EXTENDS Projection, TLC

CONSTANTS c1, c2, x, y, ctx, rsp, e1, e2, e3, e4

M(id, entity, kind, at, sets) ==
    [id |-> id, entity |-> entity, kind |-> kind, at |-> at, sets |-> sets]

\* A session is started and updated; the relay publishes its first event twice.
GroupLog == <<M(e1, x, "create", 1, {}), M(e2, x, "update", 2, {ctx}),
              M(e1, x, "create", 1, {}), M(e3, x, "update", 3, {rsp})>>

\* An update before its create event, a poison message, an event without
\* handler and the redelivered update.
SerialLog == <<M(e1, x, "update", 2, {ctx}), M(e2, x, "create", 1, {}),
               M(e3, y, "poison", 1, {}), M(e4, y, "other", 1, {}),
               M(e1, x, "update", 2, {ctx})>>

\* The events of a session, in order.
OrderedLog == <<M(e1, x, "create", 1, {}), M(e2, x, "update", 2, {ctx}),
                M(e3, x, "update", 3, {rsp})>>

RaceLogs == {GroupLog, SerialLog}
OrderedLogs == {OrderedLog}

Symmetric == Permutations({c1, c2})
=============================================================================
