-------------------------- MODULE IdempotentStore --------------------------
(***************************************************************************)
(* What the write path of ingest-api promises its clients, without         *)
(* handlers, statements, connections or failures: a store of resources in  *)
(* which a command creates at most one resource per tenant, scope and      *)
(* idempotency key, and answers that name the resource of the key.         *)
(***************************************************************************)
CONSTANTS Command, Id, NoId

VARIABLES store,    \* records [cmd, id] of the resources that exist
          accepted  \* the successful responses given

SameScopedKey(c, d) == c.tenant = d.tenant /\ c.type = d.type /\ c.key = d.key

SameReference(c, d) ==
    /\ c.tenant = d.tenant /\ c.type = d.type /\ c.ref = d.ref
    /\ c.type # "agent_session"

Exists(tenant, type, i) ==
    \E e \in store : e.id = i /\ e.cmd.type = type /\ e.cmd.tenant = tenant

Init == store = {} /\ accepted = {}

\* A command creates the resource of its key, with its event, in one step.
Create(c, i) ==
    /\ \A e \in store : /\ e.id # i
                        /\ ~SameScopedKey(e.cmd, c)
                        /\ ~SameReference(e.cmd, c)
    /\ c.type = "order" => Exists(c.tenant, "customer", c.customer)
    /\ store' = store \cup {[cmd |-> c, id |-> i]}
    /\ UNCHANGED accepted

\* A command is answered with the resource its key created, provided the
\* payload is the same; one answer at most claims to have created it.
Answer(c, status) ==
    /\ status = "fresh" =>
         ~\E a \in accepted : a.status = "fresh" /\ SameScopedKey(a.cmd, c)
    /\ \E e \in store :
         /\ SameScopedKey(e.cmd, c) /\ e.cmd.body = c.body
         /\ accepted' = accepted \cup {[cmd |-> c, resource |-> e.id, status |-> status]}
    /\ UNCHANGED store

Next == \E c \in Command : \/ \E i \in Id : Create(c, i)
                           \/ \E status \in {"fresh", "duplicate"} : Answer(c, status)

Spec == Init /\ [][Next]_<<store, accepted>>
=============================================================================
