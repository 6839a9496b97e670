---------------------------- MODULE MCMigrations ----------------------------
(* Instances of a program, one a release ahead and one without migrations.    *)
EXTENDS Migrations, TLC

CONSTANTS old, new, bare

\* 1.sql creates a table and fills it, 2.sql fills one and creates another with
\* an implicit commit between, 3.sql is one statement.
MCStatements == 1 :> 2 @@ 2 :> 3 @@ 3 :> 1
MCCreates == {<<1, 1>>, <<2, 2>>}
MCImplicit == {<<2, 2>>}
MCFiles == old :> {1, 3} @@ new :> {1, 2, 3} @@ bare :> {}
=============================================================================
