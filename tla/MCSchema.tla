------------------------------ MODULE MCSchema ------------------------------
(* Three schemas, of which two can be attached at a time under a limit.     *)
EXTENDS Schema, TLC

CONSTANTS s1, s2, s3, t1, t2

ThreeSchemas == {s1, s2, s3}
TwoTables    == {t1, t2}

\* DROP SCHEMA stays outside of blocks, and tables are made in schemas there are.
Ordinary == EnvNames \ {"drop_in_block", "stray_table"}
=============================================================================
