---------------------------- MODULE MCMigrations ----------------------------
(* A small instance of Migrations for TLC. *)
EXTENDS Migrations, TLC

CONSTANTS a, b, c, d

\* A release with two files, a later one with a file sorted between them, and
\* a third that disagrees with it about that file.
Releases == <<(1 :> a @@ 2 :> NotThere @@ 3 :> c),
              (1 :> a @@ 2 :> b @@ 3 :> c),
              (1 :> a @@ 2 :> d @@ 3 :> NotThere)>>
=============================================================================
