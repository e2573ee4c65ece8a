--------------------------- MODULE MCSqliteRuntime ---------------------------
(* Instances of SqliteRuntime for TLC, over a source with the three kinds of *)
(* tables and a policy that is edited once.                                  *)
EXTENDS SqliteRuntime, TLC

\* Managers are interchangeable.
ManagerSymmetry == Permutations(Managers)

Column(name, type, key) == [name |-> name, type |-> type, key |-> key]

\* Its key is the identity of a row.
Songs ==
  [name |-> "songs", withoutRowid |-> FALSE, separateKey |-> FALSE,
   columns |-> <<Column("id", "INTEGER", TRUE), Column("title", "TEXT", FALSE)>>]

\* It has an identity beside its columns, one of which took the first name.
Plays ==
  [name |-> "plays", withoutRowid |-> FALSE, separateKey |-> TRUE,
   columns |-> <<Column("rowid", "INTEGER", TRUE), Column("who", "TEXT", FALSE)>>]

Tags ==
  [name |-> "tags", withoutRowid |-> TRUE, separateKey |-> TRUE,
   columns |-> <<Column("tag", "TEXT", TRUE)>>]

MCSource ==
  [tables |-> {Songs, Plays, Tags},
   statements |-> {[action |-> "create table", database |-> "main",
                    names |-> {"sqlite_master"}]}]

Keep(name) == [name |-> name, action |-> "KEEP", value |-> Omitted]
Replace(name, value) == [name |-> name, action |-> "REPLACE", value |-> value]

Reviewed ==
  [version |-> 1, engine |-> "sqlite", tables |->
     <<[name |-> "songs", columns |-> <<Keep("id"), Replace("title", "x")>>],
       [name |-> "plays", columns |-> <<Keep("rowid"), Replace("who", "y")>>],
       [name |-> "tags", columns |-> <<Keep("tag")>>]>>]

Edited == [Reviewed EXCEPT !.tables[1].columns[2] = Keep("title")]

MCPolicy == <<Reviewed, Edited>>

Incomplete ==
  {[Reviewed EXCEPT !.engine = "postgresql"],
   [Reviewed EXCEPT !.tables = SubSeq(@, 1, 2)],
   [Reviewed EXCEPT !.tables = @ \o <<@[1]>>],
   [Reviewed EXCEPT !.tables[1].columns = <<Keep("id")>>],
   [Reviewed EXCEPT !.tables[1].columns[2] = Keep("id")],
   [Reviewed EXCEPT !.tables[1].columns[2].value = Omitted],
   [Reviewed EXCEPT !.tables[1].columns[1].value = "z"]}

Forbidden ==
  {[action |-> "pragma", database |-> "none", names |-> {}],
   [action |-> "attach", database |-> "none", names |-> {"other.db"}],
   [action |-> "read", database |-> "temp", names |-> {"songs"}],
   [action |-> "function", database |-> "none", names |-> {"readfile"}],
   [action |-> "insert", database |-> "main", names |-> {"_rehearsal_sqlite_history"}]}

\* No name is left for the identity of these rows.
Crowded ==
  [Plays EXCEPT !.columns = @ \o <<Column("oid", "TEXT", FALSE),
                                   Column("_rowid_", "TEXT", FALSE)>>]

\* A copied row has its identity, what is kept, and nothing of what is replaced.
CopyIsExact(table, rule, row) ==
  LET copy == CopiedRow(row, table, rule)
  IN  /\ ~table.withoutRowid => copy.rowid = row.rowid
      /\ \A i \in DOMAIN rule.columns :
           LET action == rule.columns[i]
           IN  copy.values[action.name] =
                 IF action.action = "KEEP" THEN row.values[action.name]
                 ELSE action.value

ASSUME PoliciesAreSorted ==
  /\ Copyable(Reviewed, MCSource) /\ Copyable(Edited, MCSource)
  /\ \A p \in Incomplete : ~PrivacyPolicyValid(p, MCSource.tables)
  /\ \A s \in Forbidden : ~Authorized(s)
  /\ ImplicitRowid(Crowded) = NoName
  /\ ImplicitRowid(Plays) = "_rowid_" /\ ImplicitRowid(Songs) = NoAlias

ASSUME RowsAreCopied ==
  /\ CopyIsExact(Songs, Reviewed.tables[1],
                 [rowid |-> 7, values |-> [id |-> 7, title |-> "secret"]])
  /\ CopyIsExact(Plays, Reviewed.tables[2],
                 [rowid |-> 7, values |-> [rowid |-> 3, who |-> "secret"]])
  /\ CopyIsExact(Tags, Reviewed.tables[3],
                 [rowid |-> 0, values |-> [tag |-> "public"]])

=============================================================================
