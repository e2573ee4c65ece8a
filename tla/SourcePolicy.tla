------------------------------ MODULE SourcePolicy ------------------------------
(***************************************************************************)
(* The source policy and the plan it leads to (source/access.mts).         *)
(*                                                                         *)
(* A policy is the parsed JSON document: a record with all the fields that *)
(* are known, None where the document has nothing, and the set of fields   *)
(* that are not known. A digest stands for what it was made of, and a URL  *)
(* for its parts.                                                          *)
(***************************************************************************)
EXTENDS Naturals, Sequences
LOCAL INSTANCE Functions

CONSTANTS None,          \* a missing field or environment variable
          Identifiers,   \* what may name a role, schema, table, view or column
          Variables,     \* what may name an environment variable
          Slugs,         \* what may name a bucket or a path mapping
          Digests,       \* what has the form of a SHA-256
          Environment    \* the values of the environment's variables

ASSUME PolicyAssumption == DOMAIN Environment = Variables

SourceIdentifier(v) == v \in Identifiers
EnvironmentKey(v) == v \in Variables
Fingerprint(v) == v \in Digests

OrElse(v, default) == IF v = None THEN default ELSE v

\* path.split("/").some((part) => !part || part === "." || part === "..")
SafePath(path) == path # <<>> /\ Range(path) \cap {"", ".", ".."} = {}

\* The password is not part of a target; the default port is.
SourceTarget(url) ==
  IF url.protocol \in {"postgres", "postgresql"} /\ url.host # "" /\ url.database # ""
  THEN [host |-> url.host, port |-> OrElse(url.port, 5432),
        database |-> url.database]
  ELSE None

\* Plain HTTP only to this machine.
AssetEndpoint(url) ==
  IF url.protocol = "https" \/ (url.protocol = "http" /\ url.host = "localhost")
  THEN [protocol |-> url.protocol, host |-> url.host, path |-> url.path]
  ELSE None

-----------------------------------------------------------------------------
(* validateSourceAccessPolicy                                              *)

ReaderMode(p) == OrElse(p.reader.mode, "managed")

DocumentKnown(p) ==
  /\ p.unknown = {} /\ p.version = 1 /\ Fingerprint(p.target)
  /\ ReaderMode(p) \in {"managed", "external"}
  /\ IF ReaderMode(p) = "managed" THEN EnvironmentKey(p.administrator)
                                  ELSE p.administrator = None

Minutes == 5 .. 240

ManagedReader(r) ==
  /\ SourceIdentifier(r.ownerRole) /\ r.ownerRole # r.role
  /\ r.minutes \in Minutes
  /\ r.memberships = None /\ r.connection = None

Memberships(r) == OrElse(r.memberships, <<>>)

ExternalReader(r) ==
  /\ Len(Memberships(r)) <= 8 /\ IsInjective(Memberships(r))
  /\ Range(Memberships(r)) \subseteq Identifiers \ {r.role}
  /\ EnvironmentKey(r.connection)
  /\ r.minutes \in Minutes
  /\ r.ownerRole = None

\* A file below some .rehearsal/secrets of the project; the last .rehearsal of
\* the path is meant.
CredentialFile(path) ==
  /\ SafePath(path)
  /\ \E i \in DOMAIN path :
       /\ path[i] = ".rehearsal"
       /\ \A j \in DOMAIN path : path[j] = ".rehearsal" => j <= i
       /\ i + 2 <= Len(path) /\ path[i + 1] = "secrets"

ReaderValid(p) ==
  /\ SourceIdentifier(p.reader.role)
  /\ IF ReaderMode(p) = "managed" THEN ManagedReader(p.reader)
                                  ELSE ExternalReader(p.reader)
  /\ CredentialFile(p.reader.credentialFile)

LedgerColumns(l) == {l.version, l.name, l.statements}
LedgerValid(l) == {l.schema, l.table} \cup LedgerColumns(l) \subseteq Identifiers

ScopeValid(scope, columns) ==
  \/ scope.kind = "approved-public" /\ scope.column = None /\ scope.value = None
  \/ /\ scope.kind = "approved-owner"
     /\ scope.column \in Range(columns) \cap Identifiers
     /\ EnvironmentKey(scope.value)

Exported(columns) == columns # <<>> /\ IsInjective(columns)

RelationValid(r, mode) ==
  /\ {r.schema, r.table, r.view, r.targetTable} \subseteq Identifiers
  /\ SourceIdentifier(OrElse(r.targetSchema, "public"))
  /\ Exported(r.columns) /\ Range(r.columns) \subseteq Identifiers
  /\ Exported(r.orderBy) /\ Range(r.orderBy) \subseteq Range(r.columns)
  /\ IF mode = "external" THEN Fingerprint(r.definition) ELSE r.definition = None
  /\ ScopeValid(r.scope, r.columns)

Target(r) == <<OrElse(r.targetSchema, "public"), r.targetTable>>

RelationsValid(p) ==
  /\ p.relations # <<>>
  /\ \A i \in DOMAIN p.relations : RelationValid(p.relations[i], ReaderMode(p))
  /\ \A i, j \in DOMAIN p.relations :
       \/ i = j
       \/ /\ Target(p.relations[i]) # Target(p.relations[j])
          /\ p.relations[i].view # p.relations[j].view

\* A prefix that identifies a user is named by a variable and mapped.
AssetValid(a) ==
  /\ a.bucket \in Slugs
  /\ (a.prefix = None) # (a.variable = None)
  /\ a.prefix # None => SafePath(a.prefix) /\ a.mapping = None
  /\ a.variable # None => /\ EnvironmentKey(a.variable) /\ a.mapping \in Slugs
                          /\ a.rights = "approved-owner"
  /\ a.rights \in {"approved-public", "approved-owner"}

Assets(p) == OrElse(p.assets, <<>>)

AssetReaderValid(r) ==
  /\ Fingerprint(r.endpoint)
  /\ EnvironmentKey(r.url) /\ EnvironmentKey(r.token)
  /\ \A limit \in DOMAIN r.limits : r.limits[limit] \in Nat \ {0}

AssetsValid(p) ==
  /\ \A i \in DOMAIN Assets(p) : AssetValid(Assets(p)[i])
  /\ IF Assets(p) = <<>> THEN p.assetReader = None
     ELSE p.assetReader # None /\ AssetReaderValid(p.assetReader)

PolicyValid(p) ==
  /\ DocumentKnown(p) /\ ReaderValid(p)
  /\ SourceIdentifier(p.exportSchema) /\ LedgerValid(p.ledger)
  /\ RelationsValid(p) /\ AssetsValid(p)

-----------------------------------------------------------------------------
(* createSourceAccessPlan                                                  *)

CredentialVariable(p) ==
  IF ReaderMode(p) = "managed" THEN p.administrator ELSE p.reader.connection

Reaches(p, variable) ==
  Environment[variable] # None /\ SourceTarget(Environment[variable]) = p.target

OwnerScoped(p) ==
  {i \in DOMAIN p.relations : p.relations[i].scope.kind = "approved-owner"}
PrivateAssets(p) == {i \in DOMAIN Assets(p) : Assets(p)[i].variable # None}

\* Whatever the environment has to tell is there and as reviewed.
Supplied(p) ==
  /\ Reaches(p, CredentialVariable(p))
  /\ \A i \in OwnerScoped(p) : Environment[p.relations[i].scope.value] # None
  /\ \A i \in PrivateAssets(p) : Environment[Assets(p)[i].variable] # None
  /\ Assets(p) # <<>> =>
       LET url == Environment[p.assetReader.url]
       IN  /\ url # None /\ AssetEndpoint(url) = p.assetReader.endpoint
           /\ Environment[p.assetReader.token] # None

Preparable(p) == PolicyValid(p) /\ Supplied(p)

ReviewedRelation(r) ==
  [source |-> <<r.schema, r.table>>, view |-> r.view, target |-> r.targetTable,
   columns |-> r.columns, orderBy |-> r.orderBy, definition |-> r.definition,
   scope |-> IF r.scope.kind = "approved-owner"
             THEN <<r.scope.column, Environment[r.scope.value]>> ELSE <<>>]

ReviewedAsset(a) ==
  [asset |-> a,
   owner |-> IF a.variable = None THEN None ELSE Environment[a.variable]]

\* What the digest of the plan covers. It leaves out the migration ledger, the
\* administrator's variable, the target schemas and the names of the variables
\* that owners are read from.
Review(p) ==
  [target |-> p.target, schema |-> p.exportSchema,
   reader |-> <<ReaderMode(p), p.reader.role, p.reader.credentialFile,
                p.reader.ownerRole, p.reader.minutes, p.reader.connection,
                Memberships(p.reader)>>,
   relations |-> [i \in DOMAIN p.relations |-> ReviewedRelation(p.relations[i])],
   assets |-> [i \in DOMAIN Assets(p) |-> ReviewedAsset(Assets(p)[i])],
   assetReader |-> IF Assets(p) = <<>> THEN None
                   ELSE <<p.assetReader.endpoint, p.assetReader.limits>>]

\* createSourceRetirementPlan, of the receipt that was made for a policy: it
\* names the ledger, and its columns are left out.
RetirementReview(p) ==
  [mode |-> ReaderMode(p), preparation |-> Review(p),
   views |-> {p.relations[i].view : i \in DOMAIN p.relations},
   relations |-> [i \in DOMAIN p.relations |->
                    <<p.relations[i].schema, p.relations[i].table,
                      p.relations[i].columns>>],
   ledger |-> <<p.ledger.schema, p.ledger.table>>,
   roles |-> <<p.reader.role, p.reader.ownerRole>>]
===============================================================================
