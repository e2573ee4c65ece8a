------------------------------ MODULE SourceAccess ------------------------------
(***************************************************************************)
(* Temporary access to the source database (source/access.mts,             *)
(* source/postgresql_access.mts, source/external_reader.mts and the        *)
(* commands "source plan", "source apply" and "source retire").            *)
(*                                                                         *)
(* One checkout of a project, whose commands exclude each other (its       *)
(* operation lock), and a colleague with another checkout, who shares the  *)
(* source database and the names of the objects in it, and nothing else.   *)
(* What a transaction does in the source is one step: it is atomic, and    *)
(* the advisory lock keeps two of them apart.                              *)
(***************************************************************************)
EXTENDS ExternalReader, FiniteSets

CONSTANTS Policies,    \* contents that the source policy may have
          Document,    \* what each of them is, parsed
          Readers,     \* what the provider's login may be like in the source
          Torn,        \* a receipt file that was created and not written
          MaxGrants,   \* bound: passwords ever made
          MaxEvents    \* bound: kills, edits, expiries and changes by others

ASSUME AccessAssumption ==
  /\ MaxGrants \in Nat /\ MaxEvents \in Nat
  /\ None \notin Nat /\ Torn # None
  /\ {None, Torn} \cap [policy : Policies, grant : Nat] = {}
  /\ None \notin [of : {"access", "retirement"}, plan : Policies]

VARIABLES
  access,      \* the managed roles, schema and views in the source
  grants,      \* passwords made so far, for a grant that may still fail
  lapsed,      \* accesses past their expiry; 0 is the provider's reader
  policy,      \* the source policy, as it reads now
  credential,  \* the credential file: whose password it holds
  receipt,     \* the receipt file
  review,      \* the plan that was last shown to the user
  at,          \* where the checkout's command is
  events,      \* what happened to all this, for the bound
  astray       \* history: the checkout lost track of access it granted

source == <<access, grants, lapsed>>
files == <<credential, receipt>>
inputs == <<policy, review>>
bounds == <<events, astray>>
accessVars == <<source, files, inputs, at, bounds>>

-----------------------------------------------------------------------------

Provider == 0
External == {p \in Policies : ReaderMode(Document[p]) = "external"}
Managed == Policies \ External

Valid == {p \in Policies : PolicyValid(Document[p])}
Prepared == {p \in Policies : Preparable(Document[p])}

\* What the digest of each policy's plan is made of; policies may share it.
AccessDigest == [p \in Policies |-> Review(Document[p])]
RetirementDigest == [p \in Policies |-> RetirementReview(Document[p])]
SamePlan(p, q) == AccessDigest[p] = AccessDigest[q]
SameRetirement(p, q) == RetirementDigest[p] = RetirementDigest[q]

\* The objects are those of the policy they were made by, whose plan's digest
\* they bear. Only by is not in the source.
Access == [policy : Managed, grant : 1 .. MaxGrants,
           by : {"us", "colleague"}, intact : BOOLEAN]

\* buildSourceAccessReceipt.
Receipt == [policy : Policies, grant : 0 .. MaxGrants]

Accessing == {"draft", "reserve", "link", "grant", "undo", "record",
              "verify", "register", "hand"}
Retiring == {"drop", "confirm", "forget"}

Readable == receipt \notin {None, Torn}

\* A login with the credential: its role is there, with this password, and not
\* past its "valid until".
Works ==
  /\ credential \notin lapsed \cup {None}
  /\ \/ credential = Provider
     \/ access # None /\ access.grant = credential

Shown(kind) == review # None /\ review.of = kind
Show(kind, plan) == review' = [of |-> kind, plan |-> plan]

AccessInit ==
  /\ access = None /\ grants = 0 /\ lapsed = {}
  /\ policy \in Policies
  /\ credential = None /\ receipt = None /\ review = None
  /\ at = "idle"
  /\ events = 0 /\ astray = FALSE

-----------------------------------------------------------------------------
(* source plan, source apply                                               *)

PlanAccess ==
  /\ at = "idle" /\ policy \in Prepared /\ Show("access", policy)
  /\ UNCHANGED <<source, files, policy, at, bounds>>

\* assertSourceAccessConfirmation. The command goes on with the policy it has
\* read, whose plan has the digest that was confirmed.
ApplyAccess ==
  /\ at = "idle" /\ policy \in Prepared
  /\ Shown("access") /\ SamePlan(review.plan, policy)
  /\ Show("access", policy)
  /\ at' = IF policy \in External THEN "verify" ELSE "draft"
  /\ UNCHANGED <<source, files, policy, bounds>>

\* The secret is written under a temporary name, or cannot be.
DraftSecret ==
  /\ at = "draft" /\ at' \in {"reserve", "idle"}
  /\ UNCHANGED <<source, files, inputs, bounds>>

ReserveAnyway ==
  /\ at = "reserve" /\ receipt' = Torn /\ at' = "link"
  /\ UNCHANGED <<source, credential, inputs, bounds>>

\* open(receiptPath, "wx").
ReserveReceipt ==
  /\ at = "reserve"
  /\ IF receipt = None THEN receipt' = Torn /\ at' = "link"
                       ELSE at' = "idle" /\ UNCHANGED receipt
  /\ UNCHANGED <<source, credential, inputs, bounds>>

\* link refuses an existing name; the reservation is then given back.
LinkCredential ==
  /\ at = "link"
  /\ IF credential = None
     THEN /\ grants < MaxGrants /\ grants' = grants + 1
          /\ credential' = grants' /\ at' = "grant"
          /\ UNCHANGED receipt
     ELSE /\ receipt' = None /\ at' = "idle"
          /\ UNCHANGED <<credential, grants>>
  /\ UNCHANGED <<access, lapsed, inputs, bounds>>

\* The transaction creates roles, schema and views and commits. A commit whose
\* answer is lost is an error like any other.
Grant ==
  /\ at = "grant" /\ access = None
  /\ access' = [policy |-> review.plan, grant |-> credential, by |-> "us",
                intact |-> TRUE]
  /\ \/ at' = "record" /\ UNCHANGED astray
     \/ at' = "undo" /\ astray' = TRUE
  /\ UNCHANGED <<grants, lapsed, files, inputs, events>>

\* assertUnusedObjects, assertSourceColumns, the deny checks, the connection.
GrantRefused ==
  /\ at = "grant" /\ at' = "undo"
  /\ UNCHANGED <<source, files, inputs, bounds>>

\* Promise.all of the two removals: both are begun, in either order.
RemoveFiles ==
  \/ credential # None /\ credential' = None /\ UNCHANGED <<receipt, at>>
  \/ receipt # None /\ receipt' = None /\ UNCHANGED <<credential, at>>
  \/ credential = None /\ receipt = None /\ at' = "idle" /\ UNCHANGED files

UndoFiles ==
  at = "undo" /\ RemoveFiles /\ UNCHANGED <<source, inputs, bounds>>

\* Only now is the reserved receipt filled in.
RecordAccess ==
  /\ at = "record" /\ at' = "idle"
  /\ \/ /\ receipt' = [policy |-> review.plan, grant |-> credential]
        /\ UNCHANGED astray
     \/ astray' = TRUE /\ UNCHANGED receipt
  /\ UNCHANGED <<source, credential, inputs, events>>

-----------------------------------------------------------------------------
(* An external reader: nothing is changed in the source.                   *)

\* assertSourceStateAvailable, verifyExternalPostgresqlReader.
VerifyReader ==
  /\ at = "verify"
  /\ \/ /\ credential = None /\ receipt = None /\ Provider \notin lapsed
        /\ \E reader \in Readers : ReaderConforms(reader, Document[review.plan])
        /\ at' = "register"
     \/ at' = "idle"
  /\ UNCHANGED <<source, files, inputs, bounds>>

\* A receipt that is created but not completely written is not removed.
RegisterReader ==
  /\ at = "register"
  /\ \/ /\ receipt' = [policy |-> review.plan, grant |-> Provider]
        /\ at' = "hand"
     \/ receipt' = Torn /\ at' = "idle"
  /\ UNCHANGED <<source, credential, inputs, bounds>>

\* link refuses an existing name. The temporary secret is removed next; if that
\* fails, the receipt is taken back and the credential is not.
HandCredential ==
  /\ at = "hand" /\ at' = "idle"
  /\ \/ credential = None /\ credential' = Provider
     \/ UNCHANGED credential
  /\ \/ credential' # credential /\ UNCHANGED receipt
     \/ receipt' = None
  /\ UNCHANGED <<source, inputs, bounds>>

-----------------------------------------------------------------------------
(* source retire                                                           *)

Retirable ==
  /\ Readable /\ policy \in Valid
  /\ Document[policy].target = Document[receipt.policy].target

\* createSourceRetirementPlan; the expiry is not part of it.
PlanRetirement ==
  /\ at = "idle" /\ Retirable /\ Show("retirement", receipt.policy)
  /\ UNCHANGED <<source, files, policy, at, bounds>>

\* A managed retirement needs the administrator that the present policy names.
RetireAccess ==
  /\ at = "idle" /\ Retirable /\ Shown("retirement")
  /\ SameRetirement(review.plan, receipt.policy)
  /\ Show("retirement", receipt.policy)
  /\ \/ receipt.policy \in External /\ at' = "forget"
     \/ /\ receipt.policy \in Managed /\ policy \in Managed
        /\ Reaches(Document[receipt.policy], Document[policy].administrator)
        /\ at' = "drop"
  /\ UNCHANGED <<source, files, policy, bounds>>

MatchesInventory(plan) == access # None /\ access.intact

\* The inventory of the views and the digest in the comment of their schema; a
\* role cannot be dropped while it may read a ledger that the receipt does not
\* name.
MatchesReceipt(plan) ==
  /\ access # None /\ access.intact
  /\ SameRetirement(access.policy, plan)

\* The answer to this commit may be lost, too.
Drop ==
  /\ at = "drop" /\ MatchesReceipt(review.plan)
  /\ access' = None /\ at' \in {"confirm", "idle"}
  /\ UNCHANGED <<grants, lapsed, files, inputs, bounds>>

DropRefused ==
  /\ at = "drop" /\ at' = "idle"
  /\ UNCHANGED <<source, files, inputs, bounds>>

\* The names are looked up once more, after the commit.
ConfirmRemoval ==
  /\ at = "confirm"
  /\ \/ access = None /\ at' = "forget"
     \/ at' = "idle"
  /\ UNCHANGED <<source, files, inputs, bounds>>

ForgetFiles ==
  at = "forget" /\ RemoveFiles /\ UNCHANGED <<source, inputs, bounds>>

-----------------------------------------------------------------------------
(* The world: kills, time, edits, the colleague, the administrator.        *)

Event == events < MaxEvents /\ events' = events + 1

\* The temporary secret of a killed command bears its process id and is never
\* looked at again.
CommandKilled ==
  /\ at \in Accessing \cup Retiring /\ at' = "idle" /\ Event
  /\ astray' = (astray \/ at = "record")
  /\ UNCHANGED <<source, files, inputs>>

Lapse(g) ==
  /\ g \in 0 .. grants /\ g \notin lapsed /\ lapsed' = lapsed \cup {g} /\ Event
  /\ UNCHANGED <<access, grants, files, inputs, at, astray>>

EditPolicy ==
  /\ policy' \in Policies \ {policy} /\ Event
  /\ UNCHANGED <<source, files, review, at, astray>>

\* The administrator adds or removes a view, or drops everything.
AdministratorChanges ==
  /\ access # None /\ Event
  /\ \/ access' = None
     \/ access.intact /\ access' = [access EXCEPT !.intact = FALSE]
  /\ UNCHANGED <<grants, lapsed, files, inputs, at, astray>>

\* The colleague's own apply and retire, as far as they reach the source.
ColleagueGrants ==
  /\ access = None /\ grants < MaxGrants /\ grants' = grants + 1 /\ Event
  /\ access' \in [policy : Managed, grant : {grants'}, by : {"colleague"},
                  intact : {TRUE}]
  /\ UNCHANGED <<lapsed, files, inputs, at, astray>>

ColleagueRetires ==
  /\ access # None /\ access.by = "colleague" /\ access.intact
  /\ access' = None
  /\ UNCHANGED <<grants, lapsed, files, inputs, at, bounds>>

ApplyStep ==
  \/ PlanAccess \/ ApplyAccess \/ DraftSecret \/ ReserveReceipt
  \/ LinkCredential \/ Grant \/ GrantRefused \/ UndoFiles \/ RecordAccess
  \/ VerifyReader \/ RegisterReader \/ HandCredential

RetireStep ==
  \/ PlanRetirement \/ RetireAccess \/ Drop \/ DropRefused
  \/ ConfirmRemoval \/ ForgetFiles

AccessStep ==
  \/ ApplyStep \/ RetireStep \/ CommandKilled
  \/ \E g \in 0 .. MaxGrants : Lapse(g)
  \/ EditPolicy \/ AdministratorChanges
  \/ ColleagueGrants \/ ColleagueRetires

AccessSpec == AccessInit /\ [][AccessStep]_accessVars

-----------------------------------------------------------------------------
(* Properties.                                                             *)

\* Whoever granted access that stands has the receipt to retire it and the
\* password to use it, whatever later commands of his fail or are killed: only
\* a lost answer to the commit, or a receipt that could not be written after it,
\* separates them (applyPostgresqlSourceAccess).
AccessIsRecorded ==
  access # None /\ access.by = "us" /\ ~astray =>
    /\ credential = access.grant
    /\ \/ receipt = [policy |-> access.policy, grant |-> access.grant]
       \/ at = "record" /\ receipt = Torn

Ours == access # None /\ access.by = "us" /\ ~astray

\* What the next steps of a command count on.
AccessStages ==
  /\ at \in Accessing => Shown("access") /\ review.plan \in Policies
  /\ at \in {"draft", "reserve", "link", "grant", "record"} =>
       review.plan \in Managed
  /\ at = "drop" => Shown("retirement")
  /\ at \in {"link", "grant", "record"} => receipt = Torn
  /\ at \in {"grant", "record"} => credential \in 1 .. grants
  /\ at = "register" => credential = None /\ receipt = None
  /\ at = "hand" => /\ credential = None
                    /\ receipt \in Receipt /\ receipt.grant = Provider
  /\ at \in {"undo", "hand", "forget"} => ~Ours

\* The credential, the receipt and the access of one password are of one plan.
OnePlan ==
  /\ receipt \in Receipt =>
       /\ receipt.grant <= grants
       /\ credential \in {None, receipt.grant}
  /\ access # None =>
       /\ access.grant <= grants
       /\ receipt \in Receipt /\ access.grant = receipt.grant =>
            access.policy = receipt.policy
       /\ at = "record" /\ access.grant = credential =>
            access.policy = review.plan

\* Types, and the inductive strengthening of AccessIsRecorded.
AccessInvariant ==
  /\ access \in Access \cup {None} /\ grants \in 0 .. MaxGrants
  /\ policy \in Policies
  /\ credential \in 0 .. MaxGrants \cup {None}
  /\ receipt \in Receipt \cup {None, Torn}
  /\ astray \in BOOLEAN /\ events \in Nat
  /\ AccessStages /\ OnePlan /\ AccessIsRecorded

\* A retirement removes from the source only what its user has reviewed: access
\* of the very policy in the plan, with exactly the views it was made with
\* (retirePostgresqlSourceAccess).
Dropping == at = "drop" /\ access # None /\ access' = None /\ at' # "drop"

RetiredAsReviewed ==
  [][Dropping => /\ Shown("retirement")
                 /\ SameRetirement(access.policy, review.plan) /\ access.intact]_accessVars
===============================================================================
