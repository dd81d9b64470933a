---------------------------- MODULE MCOutboxRelay ----------------------------
(* Small instances of OutboxRelay for TLC. *)
EXTENDS OutboxRelay, TLC

CONSTANTS r1, r2, e1, e2, e3

Symmetric == Permutations({r1, r2}) \cup Permutations({e1, e2})
=============================================================================
