----------------------------- MODULE MCMigrate -------------------------------
(* Instances of Migrate: a server and the CLI of one release, and a server  *)
(* of the release after it, which brings one migration more.                *)
EXTENDS Migrate, TLC
CONSTANTS old, new, cli

MCProc   == {old, new, cli}
MCLatest == (old :> 1) @@ (new :> 2) @@ (cli :> 2)
=============================================================================
