----------------------------- MODULE ExternalReader -----------------------------
(***************************************************************************)
(* What a login that somebody else provides must be like in the source     *)
(* before its credential is taken (source/external_reader.mts): everything *)
(* is read in one read-only transaction and compared with the policy.      *)
(*                                                                         *)
(* A reader is what that transaction sees: the role of the login, the      *)
(* groups it is a member of, its effective privileges outside the system   *)
(* schemas, as [on, of, right], and the views of the export schema.        *)
(***************************************************************************)
EXTENDS SourcePolicy
LOCAL INSTANCE Functions

Elevated ==
  {"superuser", "createrole", "createdb", "replication", "bypassrls"}

\* The reviewed role may log in, is not elevated, and expires in time; a role
\* that never expires has None.
RoleConforms(reader, p) ==
  /\ reader.role = p.reader.role /\ reader.login
  /\ reader.attributes \cap Elevated = {}
  /\ reader.expiresIn # None
  /\ reader.expiresIn \in 1 .. p.reader.minutes

\* Exactly the reviewed groups, one row for each.
MembershipsMatch(reader, p) ==
  /\ Len(reader.memberships) = Len(Memberships(p.reader))
  /\ {m.role : m \in Range(reader.memberships)} = Range(Memberships(p.reader))

\* A group that only lends its rights: the login inherits them and can neither
\* become the group nor pass it on.
GroupConforms(m) ==
  /\ ~m.login /\ m.attributes \cap Elevated = {}
  /\ ~m.admin /\ m.inherit /\ ~m.set
  /\ m.memberOf = {}

Disallowed ==
  [database |-> {"CREATE"}, schema |-> {"CREATE"},
   relation |-> {"INSERT", "UPDATE", "DELETE", "TRUNCATE", "REFERENCES", "TRIGGER"},
   column |-> {"INSERT", "UPDATE", "REFERENCES"},
   sequence |-> {"SELECT", "USAGE", "UPDATE"},
   definer |-> {"EXECUTE"}]

Harmless(reader) ==
  \A g \in reader.privileges : g.right \notin Disallowed[g.on]

ExpectedColumns(p) ==
  UNION {{<<p.exportSchema, p.relations[i].view, c>> :
             c \in Range(p.relations[i].columns)} : i \in DOMAIN p.relations}
  \cup {<<p.ledger.schema, p.ledger.table, c>> : c \in LedgerColumns(p.ledger)}

ReadableColumns(reader) ==
  {g.of : g \in {h \in reader.privileges : h.on = "column" /\ h.right = "SELECT"}}

\* The reviewed text, behind a barrier, and owned by neither the login nor one
\* of its groups, which could replace it.
ViewConforms(view, relation, p) ==
  /\ view.barrier
  /\ view.owner \notin {p.reader.role} \cup Range(Memberships(p.reader))
  /\ view.definition = relation.definition

ReaderConforms(reader, p) ==
  /\ RoleConforms(reader, p)
  /\ MembershipsMatch(reader, p)
  /\ \A i \in DOMAIN reader.memberships : GroupConforms(reader.memberships[i])
  /\ Harmless(reader)
  /\ ReadableColumns(reader) = ExpectedColumns(p)
  /\ \A i \in DOMAIN p.relations :
       /\ p.relations[i].view \in DOMAIN reader.views
       /\ ViewConforms(reader.views[p.relations[i].view], p.relations[i], p)
==================================================================================
