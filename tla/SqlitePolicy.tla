------------------------------ MODULE SqlitePolicy ------------------------------
(***************************************************************************)
(* What the worker checks and does when it copies a SQLite source into a   *)
(* baseline (targets/sqlite/sqlite_worker.mts): the privacy policy has to  *)
(* name every table and column there is, what the schema's own SQL may do, *)
(* and which identity a copied row gets.                                   *)
(*                                                                         *)
(* A table is [name, columns, withoutRowid, separateKey]: its columns as   *)
(* [name, type, key], and whether its primary key has an index of its own. *)
(* Names are written in lower case.                                        *)
(***************************************************************************)
EXTENDS Naturals, Sequences, FiniteSets
LOCAL INSTANCE Functions

Omitted == "omitted"  \* an action without the field "value"
NoAlias == "none"     \* the rows have no identity to copy beside their columns
NoName == "refused"   \* they have one, and no name is left to write it by

ColumnNames(table) == {c.name : c \in Range(table.columns)}

ActionValid(action) ==
  \/ action.action = "KEEP" /\ action.value = Omitted
  \/ action.action = "REPLACE" /\ action.value # Omitted

NamesAll(entries, names) ==
  Len(entries) = Cardinality(names) /\ {e.name : e \in Range(entries)} = names

\* validatePolicy: an action for every column of every table, and for no other.
PrivacyPolicyValid(policy, tables) ==
  /\ policy.version = 1 /\ policy.engine = "sqlite"
  /\ NamesAll(policy.tables, {t.name : t \in tables})
  /\ \A t \in tables : \E rule \in Range(policy.tables) :
       /\ rule.name = t.name
       /\ NamesAll(rule.columns, ColumnNames(t))
       /\ \A a \in Range(rule.columns) : ActionValid(a)

\* What the authorizer allows: plain statements on the main database, without
\* pragmas, attached files, transactions of their own or files by name, and
\* nothing that touches the table of the migrations' journal.
Ordinary ==
  {"create index", "create table", "create trigger", "create view",
   "delete", "drop index", "drop table", "drop trigger", "drop view",
   "insert", "read", "select", "update", "alter table", "reindex", "analyze",
   "function", "recursive"}

Authorized(statement) ==
  /\ statement.action \in Ordinary
  /\ "_rehearsal_sqlite_history" \notin statement.names
  /\ statement.database \in {"none", "main"}
  /\ statement.action = "function" =>
       statement.names \cap {"load_extension", "readfile", "writefile"} = {}

\* One column of type INTEGER that is the primary key is the row's identity
\* itself, unless the key has an index of its own (INTEGER PRIMARY KEY DESC).
KeyIsRowid(table) ==
  LET keys == {i \in DOMAIN table.columns : table.columns[i].key}
  IN  /\ Cardinality(keys) = 1
      /\ \A i \in keys : table.columns[i].type = "INTEGER"
      /\ ~table.separateKey

\* implicitRowid: the first of its three names that no column has taken.
ImplicitRowid(table) ==
  LET free == {i \in 1 .. 3 : <<"rowid", "_rowid_", "oid">>[i] \notin ColumnNames(table)}
  IN  CASE table.withoutRowid \/ KeyIsRowid(table) -> NoAlias
        [] OTHER -> IF free = {} THEN NoName
                    ELSE <<"rowid", "_rowid_", "oid">>[CHOOSE i \in free : \A j \in free : i <= j]

\* The row that is inserted for one of the source, [rowid, values]. Without an
\* alias the identity follows from the columns.
CopiedRow(row, table, rule) ==
  LET action(c) == CHOOSE a \in Range(rule.columns) : a.name = c
      values == [c \in ColumnNames(table) |->
                   IF action(c).action = "KEEP" THEN row.values[c]
                   ELSE action(c).value]
      key == CHOOSE c \in Range(table.columns) : c.key
  IN  [values |-> values,
       rowid |-> IF ImplicitRowid(table) # NoAlias THEN row.rowid
                 ELSE IF KeyIsRowid(table) THEN values[key.name] ELSE 0]

\* A source, [tables, statements], that snapshot copies under this policy: the
\* statements are what the SQL of its schema does.
Copyable(policy, source) ==
  /\ PrivacyPolicyValid(policy, source.tables)
  /\ \A s \in source.statements : Authorized(s)
  /\ \A t \in source.tables : ImplicitRowid(t) # NoName
==================================================================================
