----------------------------- MODULE MCPipeline -----------------------------
(* A small instance of Pipeline for TLC. *)
EXTENDS Pipeline

CONSTANTS i1, r1, c1, ctx, u1

M(kind) == [id |-> u1, entity |-> i1, kind |-> kind, at |-> 2, sets |-> {}]

\* A message that is dead-lettered, and one that cannot be.
ForeignMessages == {M("poison"), M("unstorable")}
=============================================================================
