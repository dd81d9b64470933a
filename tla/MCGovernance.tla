---------------------------- MODULE MCGovernance ----------------------------
(* A small instance of Governance for TLC. *)
EXTENDS Governance, TLC

CONSTANTS s1, s2, s3, i1, i2, i3, t1, t2, context, health

\* A token for one tenant, one for all tenants, and one for all tenants with
\* the secret of the first: the first one decides, for t2 as well.
Tokens == <<[secret |-> s1, id |-> i1, tenants |-> {t1}],
            [secret |-> s2, id |-> i2, tenants |-> {t1, t2}],
            [secret |-> s1, id |-> i3, tenants |-> {t1, t2}]>>

Q(s, t, actor, r) == [secret |-> s, tenant |-> t, actor |-> actor, route |-> r]

\* Two tokens compete for one tenant, one of them also with a malformed
\* actor; each refusal; a probe without headers.
Clients == {Q(s1, t1, None, context), Q(s1, t1, Malformed, context),
            Q(s2, t1, "actor", context),
            Q(s1, t2, None, context), Q(s2, Malformed, None, context),
            Q(s3, t1, None, context), Q(None, t1, None, context),
            Q(None, None, None, health)}
=============================================================================
