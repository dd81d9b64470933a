------------------------------ MODULE MCIngest ------------------------------
(* Small instances of Ingest for TLC. *)
EXTENDS Ingest, TLC

CONSTANTS t1, t2, k1, k2, b1, b2, b3, r1, r2, i1, i2, i3, h1, h2, h3

Cmd(t, type, k, b, r, customer, order) ==
    [tenant |-> t, type |-> type, key |-> k, body |-> b, ref |-> r,
     customer |-> customer, order |-> order]

\* A customer request, another payload under its key, and a session under
\* that key; in another tenant a customer with the same reference, and an
\* order under the customer's key.  The order and the session name a customer
\* that may be stored, stored in the other tenant, or not stored.
CoreCommands ==
    {Cmd(t1, "customer", k1, b1, r1, NoId, NoId),
     Cmd(t1, "customer", k1, b2, r2, NoId, NoId),
     Cmd(t1, "agent_session", k1, b2, r1, i1, NoId),
     Cmd(t2, "customer", k2, b1, r1, NoId, NoId),
     Cmd(t2, "order", k2, b3, r1, i1, NoId)}

\* Two customers that claim the same external_ref.
PoolCommands ==
    {Cmd(t1, "customer", k1, b1, r1, NoId, NoId),
     Cmd(t1, "customer", k2, b1, r1, NoId, NoId)}

\* No command names another id than i1, and the handlers are alike.
Symmetric == Permutations(Id \ {i1}) \cup Permutations(Handler)
=============================================================================
