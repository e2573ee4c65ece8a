------------------------------ MODULE IdentityClaim ------------------------------
(***************************************************************************)
(* The association of a copied account with the account a developer signs  *)
(* in with locally (identity/claims/, identity/connect.mts,                *)
(* identity/storage.mts).                                                  *)
(*                                                                         *)
(* A claim is one transaction of the runtime's database and, in the middle *)
(* of it, copies made by the Storage service, which no transaction         *)
(* contains: they are verified before the commit, and the originals are    *)
(* removed after it.  The application and its users go on meanwhile; the   *)
(* transaction reads what is committed and its own writes, statement by    *)
(* statement.  The project's operation lock admits one claim at a time.    *)
(***************************************************************************)
EXTENDS IdentityPolicy, Integers, SequencesExt, FiniteSets, FiniteSetsExt

CONSTANTS Accounts,    \* accounts people may sign up with
          Policy,      \* the identity policy
          Name,        \* the identity that is claimed
          Undeclared,  \* tables that refer to accounts and are not in the policy
          Copied,      \* sets of tables the copied person may have rows in
          Objects,     \* names of Storage objects; a path has one per folder
          Bucket,      \* the bucket of each
          MaxOwn       \* bound: rows and objects people have of their own

Declared == Declaration(Policy, Name)

\* The account of the copied person.
Placeholder == Declared.placeholder

\* Tables whose reference to the account is transferred, or stays as historical
\* authorship; those a signup writes a default row to, and references that must
\* exist in the end.
Transferred == TransferredTables(Declared)
Preserved == PreservedTables(Declared)
Defaults == DefaultTables(Declared)
Required == RequiredTables(Declared)

\* The declared buckets, and those whose paths change with the owner.
Order == BucketOrder(Declared)
Rewritten == RewrittenBuckets(Declared)

Users == Accounts \cup {Placeholder}
Tables == Transferred \cup Preserved \cup Undeclared
Paths == Objects \X Users

\* An object's content, and the account that owns it.
Files == [text : {"copied", "own"}, owner : Users \cup {None}]

\* Of a table this model has one column that refers to accounts.  None is
\* neither an account nor an object.
ASSUME ClaimAssumption ==
  /\ Plannable(Policy, Name)
  /\ Transferred \cap Preserved = {}
  /\ Undeclared \cap (Transferred \cup Preserved) = {}
  /\ Placeholder \notin Accounts
  /\ None \notin Users \cup Files
  /\ Order \in Seq(Labels)
  /\ Objects \subseteq Nat /\ Bucket \in [Objects -> Range(Order)]
  /\ Copied \subseteq SUBSET Tables /\ MaxOwn \in Nat

VARIABLES
  users,    \* the accounts there are
  verified, \* the accounts with an identity that matches the policy
  rows,     \* rows: table, account, and who wrote it last
  pointer,  \* per object: the folder the copied record names
  receipt,  \* the account associated with the placeholder, or None
  granted,  \* the accounts that carry the claims
  file,     \* per path: None, or the content and the owner
  at,       \* where the command is
  my,       \* what it remembers and what its transaction has written
  raced,    \* history: paths written since the claim looked for collisions
  unheard   \* history: a commit took effect without an answer

database == <<users, verified, rows, pointer, receipt, granted>>
vars == <<database, file, at, my, raced, unheard>>

-----------------------------------------------------------------------------

Row(table, owner, by) == [table |-> table, owner |-> owner, by |-> by]

\* The matched account, whether it was claimed before, the rows written by
\* the transaction, the buckets still to do, the objects of this bucket still
\* to copy, those copied and verified, the buckets still to clear of them or
\* of their originals, the paths whose owner changes, and whether the
\* placeholder goes.
Blank == [user |-> None, already |-> FALSE, gone |-> {}, new |-> {},
          buckets |-> <<>>, left |-> {}, staged |-> {}, groups |-> {}, owns |-> {},
          retire |-> FALSE]

\* Read committed: what is committed by now, and the transaction's own writes.
View == (rows \ my.gone) \cup my.new
Has(t, u) == \E r \in View : r.table = t /\ r.owner = u

InTransaction == at \in {"inspect", "defaults", "transfer", "list", "copy", "uncopy", "own",
                         "finish", "commit"}

NeverLocked(u) == FALSE

\* The row of the matched account is locked: no row can refer to it anew.
Locked(u) == InTransaction /\ my.user = u

Goto(step) == at' = step

End ==
  /\ Goto("idle")
  /\ my' = Blank
  /\ raced' = {}

\* The copies by bucket, and the one whose turn it is.
CopiedBuckets == {Bucket[o] : o \in my.staged}
Turn == Order[Min({i \in DOMAIN Order : Order[i] \in my.groups})]

\* The transaction is rolled back; copies are left to remove.
Rollback ==
  /\ Goto("abort")
  /\ my' = [Blank EXCEPT !.user = my.user, !.staged = my.staged, !.groups = CopiedBuckets]

NextBucket(memory) ==
  LET later == Tail(my.buckets) IN
  /\ Goto(IF later = <<>> THEN "finish" ELSE "list")
  /\ my' = [memory EXCEPT !.buckets = later, !.left = {}]

-----------------------------------------------------------------------------
(* identity connect: wait, show, ask.                                      *)

Connect ==
  /\ at = "idle"
  /\ Goto("waiting")
  /\ UNCHANGED <<database, file, my, raced, unheard>>

\* Nobody yet: look again.  One: the preview; more than one, an association
\* that stands, a timeout or a signal: the end.
WaitForIdentityConnection ==
  /\ at = "waiting"
  /\ \/ \E u \in Users : verified = {u} /\ receipt # u /\ Goto("review")
     \/ Goto("idle")
  /\ UNCHANGED <<database, file, my, raced, unheard>>

Decline ==
  /\ at = "review"
  /\ Goto("idle")
  /\ UNCHANGED <<database, file, my, raced, unheard>>

-----------------------------------------------------------------------------
(* The transaction.                                                        *)

\* begin, and the one verified account that matches, locked.
FindVerifiedLocalIdentity ==
  /\ at \in {"idle", "review"}
  /\ \E u \in Users :
       /\ verified = {u}
       /\ my' = [Blank EXCEPT !.user = u]
  /\ Goto("inspect")
  /\ UNCHANGED <<database, file, raced, unheard>>

\* Nothing is left to transfer, and either somebody has it or the placeholder
\* is gone.
AlreadyClaimed(u) ==
  /\ u # Placeholder
  /\ \A t \in Transferred : ~Has(t, Placeholder)
  /\ IF Preserved # {} THEN \E t \in Transferred : Has(t, u) ELSE Placeholder \notin users

\* Rows of the account itself, other than the default of a signup.
Independent(u) == \E t \in Tables \ (Preserved \cup Defaults) : Has(t, u)

InspectReferences ==
  LET u == my.user IN
  /\ at = "inspect"
  /\ \/ /\ u # Placeholder => Placeholder \notin verified /\ (AlreadyClaimed(u) \/ ~Independent(u))
        /\ my' = [my EXCEPT !.already = AlreadyClaimed(u)]
        /\ Goto("defaults")
     \/ /\ u # Placeholder /\ (Placeholder \in verified \/ (~AlreadyClaimed(u) /\ Independent(u)))
        /\ Rollback
  /\ UNCHANGED <<database, file, raced, unheard>>

MatchesAnything(r) == TRUE

\* Every column that is not ignored is as declared.
InspectDeclaredDefault(r) == r.by = "signup"

\* A default row in the place of a copied one is removed.
RemoveSignupDefaults ==
  LET contested == {r \in View : r.owner = my.user /\ r.table \in Defaults /\ Has(r.table, Placeholder)}
      skipped == my.user = Placeholder \/ my.already IN
  /\ at = "defaults"
  /\ \/ /\ skipped \/ \A r \in contested : InspectDeclaredDefault(r)
        /\ my' = [my EXCEPT !.gone = IF skipped THEN {} ELSE contested]
        /\ Goto("transfer")
     \/ ~skipped /\ (\E r \in contested : ~InspectDeclaredDefault(r)) /\ Rollback
  /\ UNCHANGED <<database, file, raced, unheard>>

\* Relational and JSON references change hands, except preserved ones.
TransferReferences ==
  LET u == my.user
      moving == {r \in View : r.owner = Placeholder /\ r.table \in Transferred}
      moved == {[r EXCEPT !.owner = u] : r \in moving}
      expected(t) == IF t \in Preserved THEN Placeholder ELSE u
      met == \A t \in Required : \E r \in (View \ moving) \cup moved : r.table = t /\ r.owner = expected(t)
  IN
  /\ at = "transfer"
  /\ \/ /\ met
        /\ my' = [my EXCEPT !.gone = @ \cup moving, !.new = moved, !.buckets = Order]
        /\ Goto(IF Order = <<>> THEN "finish" ELSE "list")
     \/ ~met /\ Rollback
  /\ UNCHANGED <<database, file, raced, unheard>>

\* Objects of the placeholder's folder in the bucket at hand, and whether
\* their owners allow to take them.
Sources == {o \in Objects : Bucket[o] = Head(my.buckets) /\ file[<<o, Placeholder>>] # None}
MayTake(o) ==
  file[<<o, Placeholder>>].owner \in {None, Placeholder} \cup (IF my.already THEN {my.user} ELSE {})

NoLook == FALSE

\* Something is at a destination already.
Collision == \E o \in Sources : file[<<o, my.user>>] # None

ListObjects ==
  LET rewrite == Head(my.buckets) \in Rewritten
      refused == (\E o \in Sources : ~MayTake(o)) \/ (rewrite /\ Collision) IN
  /\ at = "list"
  /\ \/ refused /\ Rollback
     \/ ~refused /\ Sources = {} /\ NextBucket(my)
     \/ /\ ~refused /\ Sources # {} /\ ~rewrite
        /\ NextBucket([my EXCEPT !.owns = @ \cup {<<o, Placeholder>> : o \in Sources}])
     \/ /\ ~refused /\ Sources # {} /\ rewrite
        /\ my' = [my EXCEPT !.left = Sources]
        /\ Goto("copy")
  /\ raced' = {}
  /\ UNCHANGED <<database, file, unheard>>

\* The service copies to a free path only; the copy is then read and compared.
CopyAndVerify ==
  LET o == Min(my.left)
      to == <<o, my.user>>
      copy == [file EXCEPT ![to] = [text |-> file[<<o, Placeholder>>].text, owner |-> None]]
      left == my.left \ {o} IN
  /\ at = "copy"
  /\ \/ /\ file[to] = None
        /\ file' = copy
        /\ my' = [my EXCEPT !.left = left, !.staged = @ \cup {o}]
        /\ Goto(IF left = {} THEN "own" ELSE "copy")
     \/ /\ file' = IF file[to] = None THEN copy ELSE file
        /\ Goto("uncopy") /\ UNCHANGED my
     \/ Goto("uncopy") /\ UNCHANGED <<file, my>>
  /\ UNCHANGED <<database, raced, unheard>>

\* A copy that failed, or is not the same, is removed, if the service answers.
RemoveFailedCopy ==
  /\ at = "uncopy"
  /\ \/ file' = [file EXCEPT ![<<Min(my.left), my.user>>] = None]
     \/ UNCHANGED file
  /\ Rollback
  /\ UNCHANGED <<database, raced, unheard>>

OwnCopies ==
  /\ at = "own"
  /\ NextBucket([my EXCEPT !.owns = @ \cup
                   {<<o, my.user>> : o \in {p \in my.staged : Bucket[p] = Head(my.buckets)}}])
  /\ UNCHANGED <<database, file, raced, unheard>>

\* The receipt, one per placeholder, names this account.
ReceiptAgrees == receipt \in {None, my.user}

\* Paths that would point nowhere, a conflicting receipt and references the
\* policy omits end the claim; the placeholder goes unless it is an author.
FinishClaim ==
  LET u == my.user
      dangling == Rewritten # {} /\ my.staged = {} /\ \E o \in DOMAIN pointer : pointer[o] = Placeholder
      omitted == u # Placeholder /\ \E t \in Tables \ Preserved : Has(t, Placeholder)
      author == \E t \in Preserved : Has(t, Placeholder) IN
  /\ at = "finish"
  /\ \/ /\ ~dangling /\ ReceiptAgrees /\ ~omitted
        /\ my' = [my EXCEPT !.retire = u # Placeholder /\ ~author /\ Placeholder \notin verified]
        /\ Goto("commit")
     \/ (dangling \/ ~ReceiptAgrees \/ omitted) /\ Rollback
  /\ UNCHANGED <<database, file, raced, unheard>>

Committed ==
  /\ users' = IF my.retire THEN users \ {Placeholder} ELSE users
  /\ rows' = View
  /\ pointer' = [o \in DOMAIN pointer |-> IF pointer[o] = Placeholder THEN my.user ELSE pointer[o]]
  /\ receipt' = my.user
  /\ granted' = granted \cup {my.user}
  /\ file' = [p \in Paths |-> IF p \in my.owns /\ file[p] # None THEN [file[p] EXCEPT !.owner = my.user]
                              ELSE file[p]]
  /\ UNCHANGED verified

\* The answer to the commit may be lost.
Commit ==
  /\ at = "commit"
  /\ \/ /\ Committed
        /\ my' = [my EXCEPT !.groups = CopiedBuckets]
        /\ Goto("tidy") /\ UNCHANGED unheard
     \/ Committed /\ Rollback /\ unheard' = TRUE
     \/ Rollback /\ UNCHANGED <<database, file, unheard>>
  /\ UNCHANGED raced

\* A query fails, or the token hook does not return the declared claims.
QueryFails ==
  /\ InTransaction /\ at \notin {"copy", "uncopy", "commit"}
  /\ Rollback
  /\ UNCHANGED <<database, file, raced, unheard>>

-----------------------------------------------------------------------------
(* After the transaction.                                                  *)

InBucket(o) == o \in my.staged /\ Bucket[o] = Turn

Removed(folder) ==
  file' = [p \in Paths |-> IF InBucket(p[1]) /\ p[2] = folder THEN None ELSE file[p]]

AbandonedFolder == Placeholder

\* The copies of a claim that was rolled back.
StagedFolder == my.user

\* The originals of a claim that is committed; the first failure ends it.
RemoveOriginals ==
  /\ at = "tidy"
  /\ \/ my.groups = {} /\ End /\ UNCHANGED file
     \/ /\ my.groups # {}
        /\ \/ /\ Removed(Placeholder)
              /\ my' = [my EXCEPT !.groups = @ \ {Turn}]
              /\ UNCHANGED <<at, raced>>
           \/ (Removed(Placeholder) \/ UNCHANGED file) /\ End
  /\ UNCHANGED <<database, unheard>>

\* All of them are tried, whichever fails.
RemoveCopies ==
  /\ at = "abort"
  /\ \/ my.groups = {} /\ End /\ UNCHANGED file
     \/ /\ my.groups # {}
        /\ Removed(StagedFolder) \/ UNCHANGED file
        /\ my' = [my EXCEPT !.groups = @ \ {Turn}]
        /\ UNCHANGED <<at, raced>>
  /\ UNCHANGED <<database, unheard>>

\* A signal ends the command at once: the database rolls back by itself.
Kill ==
  /\ at # "idle"
  /\ End
  /\ UNCHANGED <<database, file, unheard>>

-----------------------------------------------------------------------------
(* The application and its users.                                          *)

Room ==
  Cardinality({r \in rows : r.by = "person"})
  + Cardinality({p \in Paths : file[p] # None /\ file[p].text = "own"}) < MaxOwn

SignUp(u) ==
  /\ u \notin users
  /\ users' = users \cup {u} /\ verified' = verified \cup {u}
  /\ rows' = rows \cup {Row(t, u, "signup") : t \in Defaults}
  /\ UNCHANGED <<pointer, receipt, granted, file, at, my, raced, unheard>>

\* An identity is linked to the account, or taken from it.
Link(u) ==
  /\ u \in users
  /\ verified' = IF u \in verified THEN verified \ {u} ELSE verified \cup {u}
  /\ UNCHANGED <<users, rows, pointer, receipt, granted, file, at, my, raced, unheard>>

Write(u, t) ==
  /\ Room /\ u \in users /\ t \in Tables \ Defaults
  /\ ~Locked(u)
  /\ rows' = rows \cup {Row(t, u, "person")}
  /\ UNCHANGED <<users, verified, pointer, receipt, granted, file, at, my, raced, unheard>>

Edit(u, t) ==
  LET default == Row(t, u, "signup") IN
  /\ Room /\ default \in rows \ my.gone
  /\ rows' = (rows \ {default}) \cup {[default EXCEPT !.by = "person"]}
  /\ UNCHANGED <<users, verified, pointer, receipt, granted, file, at, my, raced, unheard>>

Upload(u, o) ==
  /\ Room /\ u \in users /\ file[<<o, u>>] = None
  /\ file' = [file EXCEPT ![<<o, u>>] = [text |-> "own", owner |-> u]]
  /\ raced' = IF at \in {"copy", "uncopy"} THEN raced \cup {<<o, u>>} ELSE raced
  /\ UNCHANGED <<database, at, my, unheard>>

Init ==
  /\ users = {Placeholder} /\ verified = {}
  /\ \E copied \in Copied : rows = {Row(t, Placeholder, "copied") : t \in copied}
  /\ pointer = [o \in {p \in Objects : Bucket[p] \in Rewritten} |-> Placeholder]
  /\ receipt = None /\ granted = {}
  /\ file = [p \in Paths |-> IF p[2] = Placeholder THEN [text |-> "copied", owner |-> None] ELSE None]
  /\ at = "idle" /\ my = Blank
  /\ raced = {} /\ unheard = FALSE

Next ==
  \/ Connect \/ WaitForIdentityConnection \/ Decline
  \/ FindVerifiedLocalIdentity \/ InspectReferences \/ RemoveSignupDefaults \/ TransferReferences
  \/ ListObjects \/ CopyAndVerify \/ RemoveFailedCopy \/ OwnCopies
  \/ FinishClaim \/ Commit \/ QueryFails
  \/ RemoveOriginals \/ RemoveCopies \/ Kill
  \/ \E u \in Accounts : SignUp(u)
  \/ \E u \in Users : Link(u)
  \/ \E u \in Accounts, t \in Tables : Write(u, t)
  \/ \E u \in Accounts, t \in Defaults : Edit(u, t)
  \/ \E u \in Accounts, o \in Objects : Upload(u, o)

Spec == Init /\ [][Next]_vars

-----------------------------------------------------------------------------

\* Every path of the copied records leads to an object, whenever the claim is
\* ended, unless a commit was never heard of (claim_executor.mts: copies
\* before the commit, originals removed after it).
Leads(o) == file[<<o, pointer[o]>>] # None
PathsLead == ~unheard => \A o \in DOMAIN pointer : Leads(o)

\* Only the associated account carries the claims, and one account at most
\* (claim_executor.mts, the receipt).
ClaimsFollowReceipt == granted \subseteq {receipt}

\* What people wrote or uploaded stays as it is, unless an upload met a copy
\* on its way (claim_executor.mts, defaults and collisions).
OwnDataKept ==
  [][ /\ \A r \in rows : r.by = "person" => r \in rows'
      /\ \A p \in Paths : file[p] # None /\ file[p].text = "own" =>
           file'[p] = file[p] \/ p \in raced
    ]_vars

\* The placeholder has a row that a claim would transfer.
Endowed == \E r \in rows : r.owner = Placeholder /\ r.table \in Transferred

\* A copied account with something to hand over is not joined with an account
\* that has data of its own, also when it writes some during the claim
\* (claim_identity_lookup.mts, for update; claim_executor.mts, independent
\* application data).
NeverMixed ==
  [][ Endowed /\ receipt' # receipt =>
        \A r \in rows' : r.owner = receipt' /\ r.by = "person" => r.table \in Preserved \cup Defaults
    ]_vars

\* What the claim moved stays consistent between database and Storage: paths lead
\* to objects, and claims follow the one receipt.
ClaimIsWhole == PathsLead /\ ClaimsFollowReceipt

=============================================================================
