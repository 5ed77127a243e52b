---------------------------- MODULE MCMigrations ----------------------------
(* Instances of Migrations for TLC: three processes open the file, or two  *)
(* do while a third asks for its status.                                   *)
EXTENDS Migrations

CONSTANTS m1, m2, m3, r1

MCCasts == {{m1, m2, m3}, {m1, m2, r1}}
=============================================================================
