------------------------- MODULE MCMigrationImpact -------------------------
(* Two relations, three tables, and three directories: one plan within the *)
(* allowance; one that exceeds it over two files, where a statement names  *)
(* a table without its schema; and one with statements that are not        *)
(* counted.                                                                *)
EXTENDS MigrationImpact, TLC

Do(op, rel, ref) == [op |-> op, rel |-> rel, ref |-> ref]
M1 == <<1, <<Do("other", 1, 1)>>>>
M2 == <<2, <<Do("drop_table", 1, 1), Do("foreign_key", 1, 2)>>>>
M2Edited == <<2, <<Do("truncate", 0, 0), Do("unique", 2, 2)>>>>
M2Begin == <<2, <<Do("transaction", 1, 1), Do("truncate", 1, 1)>>>>
M3 == <<3, <<Do("not_null", 1, 1), Do("drop_column", 2, 2)>>>>
M3Delete == <<3, <<Do("broad_delete", 2, 2)>>>>

SomeDirectories == {{M1, M2}, {M1, M2Edited, M3}, {M1, M2Begin, M3Delete}}
SomeHistories == <<<<M1>>, <<M1, M2>>>>
SomeContents == {<<0, 1, 1>>, <<2, 0, 0, 3, 1>>}
Symmetry == Permutations(Oids)
=============================================================================
