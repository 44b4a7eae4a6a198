---------------------------- MODULE MCMigrations ----------------------------
(* An instance of Migrations small enough for TLC.                         *)
EXTENDS Migrations

CONSTANTS r1, r2

TwoRunners == {r1, r2}

=============================================================================
