----------------------------- MODULE MCMigrations -----------------------------
(* Instances of Migrations: three releases, the second of which alters the    *)
(* first one's table while the third adds one.                                *)
EXTENDS Migrations

CONSTANTS r1, r2, users, orders

TablesOfChanges == [c \in 1 .. Head |-> IF c = 3 THEN orders ELSE users]
===============================================================================
