--------------------------- MODULE MCContextAudit ---------------------------
(* Small instances of ContextAudit for TLC. *)
EXTENDS ContextAudit, TLC

CONSTANTS r1, g, o, p, c1, c2

\* A batch of two.
Batch == r1 :> [items |-> <<"order", "customer">>, batch |-> TRUE, uuid |-> TRUE]

\* A single query whose x-request-id is no UUID.
Single == r1 :> [items |-> <<"agent_session">>, batch |-> FALSE, uuid |-> FALSE]

Events == {[id |-> g, kind |-> "agent"], [id |-> o, kind |-> "other"],
           [id |-> p, kind |-> "invalid"]}
=============================================================================
