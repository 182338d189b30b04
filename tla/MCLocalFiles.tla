---------------------------- MODULE MCLocalFiles ----------------------------
(***************************************************************************)
(* TLC instances of LocalFiles.                                            *)
(***************************************************************************)
EXTENDS LocalFiles, TLC

CONSTANTS p1, p2, p3, a, b

\* Two writers of the registry beside a process that migrates or switches the
\* context: at most one migration.
OneMigration ==
  (p1 :> {"register", "delete"})
    @@ (p2 :> {"register", "set-credential-ref", "scrub-credentials"})
    @@ (p3 :> {"migrate-registry", "context-set"})

\* Two migrations at once, and a registration.
TwoMigrations ==
  (p1 :> {"migrate-registry"}) @@ (p2 :> {"migrate-registry"}) @@ (p3 :> {"register"})
=============================================================================
