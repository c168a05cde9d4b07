------------------------------ MODULE MCMigrate ------------------------------
(* Migrate with three files: two tables and an index; a column added to    *)
(* one of the tables, with its index; a table.                             *)
EXTENDS Migrate

CONSTANTS t1, t2, t3, i1, i2, col

MCFiles == 1..3
MCUp == <<<<t1, t2, i1>>, <<col, i2>>, <<t3>>>>

MCKind == [o \in Objects |->
              IF o \in {t1, t2, t3} THEN "table"
              ELSE IF o \in {i1, i2} THEN "index" ELSE "column"]
MCParent == [o \in Objects |-> IF o \in {t1, t2, t3} THEN o
                               ELSE IF o = i1 THEN t2 ELSE t1]
=============================================================================
