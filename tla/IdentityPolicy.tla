------------------------------ MODULE IdentityPolicy ------------------------------
(***************************************************************************)
(* The identity policy (identity/claims/claim_policy.mts) and the plan of  *)
(* a claim (identity/claims/claim_plan.mts).                               *)
(*                                                                         *)
(* An entry of the policy is the parsed JSON object: a record with all the *)
(* fields that are known, None where the object has nothing, and the set   *)
(* of fields that are not known.  A digest stands for what it was made of, *)
(* a value of the environment for its trimmed form.                        *)
(***************************************************************************)
EXTENDS Naturals, Sequences
LOCAL INSTANCE Functions

CONSTANTS None,             \* a missing field, variable, file or account
          Names,            \* what may name a schema, table, column or function
          Labels,           \* what may name an identity or a bucket
          Variables,        \* what may name an environment variable
          Accountable,      \* what has the form of an account's id
          Values,           \* what may be the value of a variable
          Environment       \* the values of the environment's variables

ASSUME EnvironmentAssumption == Environment \in [Variables -> Values \cup {None}]

ListOf(v) == IF v = None THEN <<>> ELSE v
Default(v, other) == IF v = None THEN other ELSE v

Providers == {"email", "github", "google"}

Column(r) == {r.schema, r.table, r.column} \subseteq Names

\* A matcher by mail address accepts several providers; the older form of an
\* entry has one provider and no matcher.
MailMatcher(m) ==
  /\ m.type = "verified-email"
  /\ m.providers # <<>> /\ IsInjective(m.providers)
  /\ Range(m.providers) \subseteq Providers

SubjectMatcher(m) ==
  /\ m.type = "provider-subject"
  /\ Len(m.providers) = 1 /\ m.providers[1] \in Providers \ {"email"}

Matcher(entry) ==
  IF entry.matcher # None THEN entry.matcher
  ELSE [type |-> "verified-email", providers |-> <<entry.legacy.provider>>,
        variable |-> entry.legacy.variable, approved |-> entry.legacy.approved]

MatcherValid(entry) ==
  /\ (entry.matcher = None) # (entry.legacy = None)
  /\ MailMatcher(Matcher(entry)) \/ SubjectMatcher(Matcher(entry))
  /\ Matcher(entry).variable \in Variables /\ Matcher(entry).approved \in Values

References(entry) == ListOf(entry.references)
Strategy(r) == Default(r.strategy, "transfer")
IsRequired(r) == Default(r.required, FALSE)

ReferenceValid(r) ==
  /\ Column(r)
  /\ IsRequired(r) \in BOOLEAN /\ Strategy(r) \in {"transfer", "preserve-audit"}

JsonReferenceValid(r) ==
  Column(r) /\ r.path # <<>> /\ Range(r.path) \subseteq Names

\* A pattern is anchored and not long.
ExpectedValue(v) ==
  v.kind = "pattern" => v.anchored /\ v.length <= 256

\* Every column has one part, and the row is one of a declared reference.
SignupDefaultValid(entry, d) ==
  /\ {d.schema, d.table, d.column} \subseteq Names
  /\ DOMAIN d.values # {} /\ DOMAIN d.values \subseteq Names
  /\ \A c \in DOMAIN d.values : ExpectedValue(d.values[c])
  /\ IsInjective(ListOf(d.ignored)) /\ Range(ListOf(d.ignored)) \subseteq Names
  /\ d.column \notin DOMAIN d.values \cup Range(ListOf(d.ignored))
  /\ DOMAIN d.values \cap Range(ListOf(d.ignored)) = {}
  /\ \E i \in DOMAIN References(entry) :
       LET r == References(entry)[i]
       IN  <<r.schema, r.table, r.column>> = <<d.schema, d.table, d.column>>

PathReferenceValid(r) == Column(r) /\ r.valueType \in {"text", "jsonb"}

\* Neither a pattern of the Storage's search nor a way out of the folder.
FolderValid(path) ==
  path # <<>> /\ \A i \in DOMAIN path : path[i] \in Labels \cup Accountable

AssetValid(entry, a) ==
  /\ a.bucket \in Labels /\ FolderValid(a.prefix)
  /\ Default(a.rewritePath, FALSE) \in BOOLEAN
  /\ a.rewritePath = TRUE => a.prefix = <<entry.placeholder>>

HookValid(h) == h = None \/ {h.schema, h.name} \subseteq Names

EntryValid(entry) ==
  /\ entry.unknown = {} /\ entry.name \in Labels
  /\ MatcherValid(entry) /\ entry.placeholder \in Accountable
  /\ \A i \in DOMAIN ListOf(entry.references) : ReferenceValid(ListOf(entry.references)[i])
  /\ \A i \in DOMAIN ListOf(entry.jsonReferences) :
       JsonReferenceValid(ListOf(entry.jsonReferences)[i])
  /\ \A i \in DOMAIN ListOf(entry.signupDefaults) :
       SignupDefaultValid(entry, ListOf(entry.signupDefaults)[i])
  /\ \A i \in DOMAIN ListOf(entry.pathReferences) :
       PathReferenceValid(ListOf(entry.pathReferences)[i])
  /\ \A i \in DOMAIN ListOf(entry.assets) : AssetValid(entry, ListOf(entry.assets)[i])
  /\ HookValid(entry.tokenHook)

\* validateIdentityPolicy.
IdentityPolicyValid(policy) ==
  /\ policy.version = 1
  /\ \A i \in DOMAIN policy.identities : EntryValid(policy.identities[i])
  /\ IsInjective([i \in DOMAIN policy.identities |-> policy.identities[i].name])

\* createIdentityClaimPlan: who runs the command is whom the policy approves.
Plannable(policy, name) ==
  /\ IdentityPolicyValid(policy)
  /\ \E i \in DOMAIN policy.identities :
       LET entry == policy.identities[i]
       IN  /\ entry.name = name
           /\ Environment[Matcher(entry).variable] = Matcher(entry).approved

Declaration(policy, name) ==
  policy.identities[CHOOSE i \in DOMAIN policy.identities :
                      policy.identities[i].name = name]

\* What the claim does with the tables and buckets of a declaration.
TransferredTables(entry) ==
  {References(entry)[i].table :
     i \in {j \in DOMAIN References(entry) :
              Strategy(References(entry)[j]) = "transfer"}}
  \cup {ListOf(entry.jsonReferences)[i].table :
          i \in DOMAIN ListOf(entry.jsonReferences)}

PreservedTables(entry) ==
  {References(entry)[i].table :
     i \in {j \in DOMAIN References(entry) :
              Strategy(References(entry)[j]) = "preserve-audit"}}

RequiredTables(entry) ==
  {References(entry)[i].table :
     i \in {j \in DOMAIN References(entry) : IsRequired(References(entry)[j])}}

DefaultTables(entry) ==
  {ListOf(entry.signupDefaults)[i].table :
     i \in DOMAIN ListOf(entry.signupDefaults)}

BucketOrder(entry) ==
  [i \in DOMAIN ListOf(entry.assets) |-> ListOf(entry.assets)[i].bucket]

RewrittenBuckets(entry) ==
  {ListOf(entry.assets)[i].bucket :
     i \in {j \in DOMAIN ListOf(entry.assets) :
              ListOf(entry.assets)[j].rewritePath = TRUE}}
===============================================================================
