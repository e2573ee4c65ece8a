---------------------------- MODULE IdentityClaimProofs ----------------------------
(***************************************************************************)
(* Proofs about the claim of a copied account: it is whole in database and *)
(* Storage whenever it ends (ClaimIsWhole), it takes nothing that people   *)
(* wrote or uploaded themselves (OwnDataKept), and it never joins two      *)
(* accounts with data of their own (NeverMixed).                           *)
(*                                                                         *)
(* Neither follows from the state a claim leaves alone: the invariant says *)
(* what has been copied at every place of the transaction, that nothing    *)
(* remembered for removal is in use, and which paths may have been taken   *)
(* by somebody while the copies were made.                                 *)
(***************************************************************************)
EXTENDS IdentityClaim, FiniteSetTheorems, TLAPS

Steps ==
  {"idle", "waiting", "review", "inspect", "defaults", "transfer", "list", "copy",
   "uncopy", "own", "finish", "commit", "tidy", "abort"}

\* The transaction has begun to look at Storage.
Storing == {"list", "copy", "uncopy", "own", "finish", "commit"}

\* The claim has an account it is about.
Matched == Storing \cup {"inspect", "defaults", "transfer", "tidy", "abort"}

Pointed == {o \in Objects : Bucket[o] \in Rewritten}
Entries == [table : Tables \cup Defaults, owner : Users, by : {"copied", "signup", "person"}]

\* The buckets objects are in.
Buckets == {Bucket[o] : o \in Objects}

\* What the command remembers is a record with these fields.
Memory(m) ==
  m \in [user : Users \cup {None}, already : {m.already}, gone : SUBSET Entries,
         new : SUBSET Entries, buckets : Seq(Labels), left : SUBSET Objects,
         staged : SUBSET Objects, groups : SUBSET Buckets, owns : SUBSET Paths,
         retire : {m.retire}]

TypeOK ==
  /\ users \subseteq Users /\ verified \subseteq Users
  /\ rows \subseteq Entries
  /\ pointer \in [Pointed -> Users]
  /\ receipt \in Users \cup {None} /\ granted \subseteq Users
  /\ file \in [Paths -> Files \cup {None}]
  /\ at \in Steps /\ Memory(my)
  /\ raced \subseteq Paths /\ unheard \in BOOLEAN

\* What the command remembers at each place.
Place ==
  /\ at \in Matched => my.user \in Users
  /\ at \notin Storing \cup {"tidy", "abort"} => my.staged = {}
  /\ at \in {"list", "copy", "uncopy", "own"} => my.buckets # <<>>
  /\ at \in {"copy", "uncopy"} => my.left # {}
  /\ at \notin {"copy", "uncopy"} => my.left = {}
  /\ at \in {"inspect", "defaults", "transfer"} => my.new = {}
  /\ at = "inspect" => my.gone = {}
  /\ at \notin Storing \cup {"tidy"} => my.owns = {}

\* Rows of the copied person are nobody's own, and no row of a person's own
\* goes or changes hands.
RowsSpared ==
  /\ \A r \in rows : r.owner = Placeholder => r.by # "person"
  /\ \A r \in my.gone \cup my.new : r.by # "person"

\* Nobody but the copied person had objects in the folder of the placeholder.
FolderSpared ==
  \A p \in Paths : p[2] = Placeholder /\ file[p] # None => file[p].text = "copied"

Copy(o) == file[<<o, my.user>>] # None /\ file[<<o, my.user>>].text = "copied"

\* Copies stay in their place as long as the claim may remove them.
CopiesStay ==
  /\ at \in Storing => \A o \in my.staged : Copy(o)
  /\ at = "abort" => \A o \in my.staged : Bucket[o] \in my.groups => Copy(o)
  /\ \A p \in my.owns : p[2] = Placeholder \/ (p[1] \in my.staged /\ p[2] = my.user)

\* Objects to copy are there, and nothing was at their destinations before.
ToCopy ==
  /\ my.left \cap my.staged = {}
  /\ \A o \in my.left :
       /\ file[<<o, Placeholder>>] # None
       /\ LET f == file[<<o, my.user>>]
          IN  f # None /\ f.text = "own" => <<o, my.user>> \in raced

\* An account does not copy from its own folder.
FoldersDiffer == at # "abort" /\ my.staged \cup my.left # {} => my.user # Placeholder

\* The records name no path that the claim may still remove, and every path
\* they are about to name is copied or in a bucket that is still to do.
Pending(o) ==
  \E i \in 1 .. Len(my.buckets) : my.buckets[i] = Bucket[o] /\ (i = 1 => at = "list")

PathsSpared ==
  /\ \A o \in Pointed : Leads(o)
  /\ at # "tidy" => \A o \in (my.staged \cup my.left) \cap Pointed : pointer[o] # my.user
  /\ at = "tidy" => \A o \in my.staged \cap Pointed : pointer[o] # Placeholder
  /\ at \in Storing =>
       \A o \in Pointed : pointer[o] = Placeholder => o \in my.staged \cup my.left \/ Pending(o)
  /\ at \in {"finish", "commit"} => my.buckets = <<>>

ReceiptStands ==
  /\ granted \subseteq {receipt}
  /\ at = "commit" => ReceiptAgrees

Inv ==
  /\ TypeOK /\ Place /\ RowsSpared /\ FolderSpared /\ CopiesStay /\ ToCopy
  /\ FoldersDiffer /\ (~unheard => PathsSpared) /\ ReceiptStands

\* What the constants promise.
LEMMA Constancy ==
  /\ Placeholder \notin Accounts /\ None \notin Users /\ None \notin Files
  /\ Order \in Seq(Labels) /\ Objects \subseteq Nat
  /\ Bucket \in [Objects -> Labels]
  /\ \A o \in Objects : \E i \in 1 .. Len(Order) : Order[i] = Bucket[o]
  /\ \A c \in Copied : c \subseteq Tables
BY ClaimAssumption, SMT DEF Range, Users, ClaimAssumption

\* A nonempty set of objects has a least one.
LEMMA LeastIsMember ==
  ASSUME NEW S \in SUBSET Nat, S # {}
  PROVE  Min(S) \in S
<1> DEFINE below == {0 .. n : n \in S}
<1>1. below \subseteq FiniteSubsetsOf(Nat) /\ below # {}
  <2>1. \A n \in S : 0 .. n \in SUBSET Nat /\ IsFiniteSet(0 .. n)
    BY FS_Interval, SMT
  <2> QED BY <2>1 DEF FiniteSubsetsOf
<1>2. PICK b \in below : \A c \in below : <<c, b>> \notin StrictSubsetOrdering(Nat)
  BY <1>1, FS_StrictSubsetOrderingWellFounded, WFMin, Zenon
<1>3. PICK n \in S : b = 0 .. n
  BY <1>2
<1>4. \A m \in S : n =< m
  <2> SUFFICES ASSUME NEW m \in S, m < n PROVE FALSE
    BY SMT
  <2>1. 0 .. m \in SUBSET Nat /\ 0 .. n \in SUBSET Nat
    BY SMT
  <2>2. 0 .. m \subseteq 0 .. n /\ 0 .. m # 0 .. n
    <3>1. n \in 0 .. n /\ n \notin 0 .. m
      BY SMT
    <3> QED BY <3>1, SMT
  <2>3. <<0 .. m, b>> \in StrictSubsetOrdering(Nat)
    BY <1>3, <2>1, <2>2, SMT DEF StrictSubsetOrdering
  <2>4. 0 .. m \in below
    OBVIOUS
  <2> QED BY <1>2, <2>3, <2>4
<1> QED BY <1>4 DEF Min

LEMMA BlankMemory == Memory(Blank) /\ Blank.left = {} /\ Blank.staged = {} /\ Blank.owns = {}
BY SMT DEF Memory, Blank

\* A change of one field leaves a memory.
LEMMA Remembered ==
  ASSUME NEW m, Memory(m)
  PROVE  /\ \A x \in Users \cup {None} : Memory([m EXCEPT !.user = x])
         /\ \A x \in SUBSET Entries : Memory([m EXCEPT !.gone = x])
         /\ \A x \in SUBSET Entries : Memory([m EXCEPT !.new = x])
         /\ \A x \in Seq(Labels) : Memory([m EXCEPT !.buckets = x])
         /\ \A x \in SUBSET Objects : Memory([m EXCEPT !.left = x])
         /\ \A x \in SUBSET Objects : Memory([m EXCEPT !.staged = x])
         /\ \A x \in SUBSET Buckets : Memory([m EXCEPT !.groups = x])
         /\ \A x \in SUBSET Paths : Memory([m EXCEPT !.owns = x])
<1>1. \A x \in Users \cup {None} : Memory([m EXCEPT !.user = x])
  BY SMT DEF Memory
<1>2. \A x \in SUBSET Entries : Memory([m EXCEPT !.gone = x])
  BY SMT DEF Memory
<1>3. \A x \in SUBSET Entries : Memory([m EXCEPT !.new = x])
  BY SMT DEF Memory
<1>4. \A x \in Seq(Labels) : Memory([m EXCEPT !.buckets = x])
  BY SMT DEF Memory
<1>5. \A x \in SUBSET Objects : Memory([m EXCEPT !.left = x])
  BY SMT DEF Memory
<1>6. \A x \in SUBSET Objects : Memory([m EXCEPT !.staged = x])
  BY SMT DEF Memory
<1>7. \A x \in SUBSET Buckets : Memory([m EXCEPT !.groups = x])
  BY SMT DEF Memory
<1>8. \A x \in SUBSET Paths : Memory([m EXCEPT !.owns = x])
  BY SMT DEF Memory
<1> QED BY <1>1, <1>2, <1>3, <1>4, <1>5, <1>6, <1>7, <1>8

\* A claim that is rolled back remembers the account and its copies.
LEMMA Rolled ==
  ASSUME TypeOK, Rollback
  PROVE  /\ Memory(my')
         /\ my'.user = my.user /\ my'.staged = my.staged
         /\ my'.groups = {Bucket[o] : o \in my.staged}
         /\ my'.gone = {} /\ my'.new = {} /\ my'.buckets = <<>> /\ my'.left = {}
         /\ my'.owns = {} /\ at' = "abort"
<1>1. /\ CopiedBuckets \in SUBSET Buckets
      /\ my.user \in Users \cup {None} /\ my.staged \in SUBSET Objects
  BY Constancy, SMT DEF TypeOK, Memory, CopiedBuckets, Buckets
<1>2. my' = [Blank EXCEPT !.user = my.user, !.staged = my.staged, !.groups = CopiedBuckets]
  BY DEF Rollback
<1>3. Memory(my')
  <2> DEFINE m == [Blank EXCEPT !.user = my.user]
             n == [m EXCEPT !.staged = my.staged]
  <2>1. Memory(m)
    BY <1>1, BlankMemory, Remembered
  <2>2. Memory(n)
    BY <1>1, <2>1, Remembered
  <2>3. Memory([n EXCEPT !.groups = CopiedBuckets])
    BY <1>1, <2>2, Remembered
  <2> QED BY <1>2, <2>3
<1>4. at' = "abort"
  BY DEF Rollback, Goto
<1> QED BY <1>2, <1>3, <1>4, SMT DEF Blank, CopiedBuckets

LEMMA RollbackKeeps ==
  ASSUME Inv, InTransaction, Rollback, UNCHANGED <<database, file, unheard>>,
         raced' \subseteq Paths
  PROVE  Inv'
<1> USE Rolled DEF Inv, database, InTransaction
<1>1. TypeOK'
  BY SMT DEF TypeOK, Steps
<1>2. Place'
  BY SMT DEF Place, Matched, Storing
<1>3. RowsSpared' /\ FolderSpared' /\ ReceiptStands' /\ ToCopy' /\ FoldersDiffer'
  BY SMT DEF RowsSpared, FolderSpared, ReceiptStands, ToCopy, FoldersDiffer
<1>4. CopiesStay'
  BY SMT DEF CopiesStay, Copy, Place, Storing, Matched
<1>5. (~unheard => PathsSpared)'
  BY SMT DEF PathsSpared, Leads, Storing, Pointed, Place, Matched
<1> QED BY <1>1, <1>2, <1>3, <1>4, <1>5

\* A command that has not begun the transaction.
LEMMA ConnectKeeps ==
  ASSUME Inv, Connect \/ WaitForIdentityConnection \/ Decline
  PROVE  Inv'
<1>1. /\ at \in {"idle", "waiting", "review"} /\ at' \in {"idle", "waiting", "review"}
      /\ UNCHANGED <<database, file, my, raced, unheard>>
  BY SMT DEF Connect, WaitForIdentityConnection, Decline, Goto
<1> USE <1>1 DEF Inv, database
<1>2. TypeOK' /\ Place'
  BY SMT DEF TypeOK, Steps, Place, Storing, Matched
<1>3. RowsSpared' /\ FolderSpared' /\ ReceiptStands' /\ ToCopy' /\ FoldersDiffer'
  BY SMT DEF RowsSpared, FolderSpared, ReceiptStands, ToCopy, FoldersDiffer, Place
<1>4. CopiesStay' /\ (~unheard => PathsSpared)'
  BY SMT DEF CopiesStay, Copy, Place, Storing, Matched, PathsSpared, Leads, Pointed
<1> QED BY <1>2, <1>3, <1>4

LEMMA FindVerifiedLocalIdentityKeeps ==
  ASSUME Inv, FindVerifiedLocalIdentity
  PROVE  Inv'
<1>1. PICK u \in Users : my' = [Blank EXCEPT !.user = u]
  BY DEF FindVerifiedLocalIdentity
<1>2. /\ Memory(my') /\ my'.user = u /\ my'.gone = {} /\ my'.new = {} /\ my'.left = {}
      /\ my'.staged = {} /\ my'.owns = {} /\ at' = "inspect"
      /\ UNCHANGED <<database, file, raced, unheard>>
  <2>1. Memory(my')
    BY <1>1, BlankMemory, SMT DEF Memory
  <2> QED BY <1>1, <2>1, SMT DEF Blank, FindVerifiedLocalIdentity, Goto
<1> USE <1>2 DEF Inv, database
<1>3. TypeOK' /\ Place'
  BY SMT DEF TypeOK, Steps, Place, Storing, Matched
<1>4. RowsSpared' /\ FolderSpared' /\ ReceiptStands' /\ ToCopy' /\ FoldersDiffer'
  BY SMT DEF RowsSpared, FolderSpared, ReceiptStands, ToCopy, FoldersDiffer, Place
<1>5. CopiesStay' /\ (~unheard => PathsSpared)'
  BY SMT DEF CopiesStay, Copy, Place, Storing, Matched, PathsSpared, Leads, Pointed
<1> QED BY <1>3, <1>4, <1>5

LEMMA InspectReferencesKeeps ==
  ASSUME Inv, InspectReferences
  PROVE  Inv'
<1>1. CASE Rollback
  BY <1>1, RollbackKeeps DEF Inv, TypeOK, InspectReferences, InTransaction
<1>2. CASE my' = [my EXCEPT !.already = AlreadyClaimed(my.user)] /\ Goto("defaults")
  <2>1. /\ Memory(my') /\ my'.user = my.user /\ my'.gone = my.gone /\ my'.new = my.new
        /\ my'.left = my.left /\ my'.staged = my.staged /\ my'.owns = my.owns
        /\ my'.groups = my.groups /\ at = "inspect" /\ at' = "defaults"
        /\ UNCHANGED <<database, file, raced, unheard>>
    BY <1>2, SMT DEF Inv, TypeOK, Memory, InspectReferences, Goto
  <2> USE <2>1 DEF Inv, database
  <2>2. TypeOK' /\ Place'
    BY SMT DEF TypeOK, Steps, Place, Storing, Matched
  <2>3. RowsSpared' /\ FolderSpared' /\ ReceiptStands' /\ ToCopy' /\ FoldersDiffer'
    BY SMT DEF RowsSpared, FolderSpared, ReceiptStands, ToCopy, FoldersDiffer, Place
  <2>4. CopiesStay' /\ (~unheard => PathsSpared)'
    BY SMT DEF CopiesStay, Copy, Place, Storing, Matched, PathsSpared, Leads, Pointed
  <2> QED BY <2>2, <2>3, <2>4
<1> QED BY <1>1, <1>2, Zenon DEF InspectReferences

LEMMA RemoveSignupDefaultsKeeps ==
  ASSUME Inv, RemoveSignupDefaults
  PROVE  Inv'
<1> DEFINE contested == {r \in View : r.owner = my.user /\ r.table \in Defaults
                                      /\ Has(r.table, Placeholder)}
           gone == IF my.user = Placeholder \/ my.already THEN {} ELSE contested
<1>1. CASE Rollback
  BY <1>1, RollbackKeeps DEF Inv, TypeOK, RemoveSignupDefaults, InTransaction
<1>2. CASE /\ my.user = Placeholder \/ my.already \/ \A r \in contested : InspectDeclaredDefault(r)
           /\ my' = [my EXCEPT !.gone = gone] /\ Goto("transfer")
  <2>1. View \subseteq Entries
    BY SMT DEF Inv, TypeOK, Memory, View
  <2>2. gone \in SUBSET Entries /\ \A r \in gone : r.by # "person"
    BY <1>2, <2>1 DEF InspectDeclaredDefault
  <2>3. /\ Memory(my') /\ my'.user = my.user /\ my'.gone = gone /\ my'.new = my.new
        /\ my'.left = my.left /\ my'.staged = my.staged /\ my'.owns = my.owns
        /\ my'.groups = my.groups /\ at = "defaults" /\ at' = "transfer"
        /\ UNCHANGED <<database, file, raced, unheard>>
    <3> HIDE DEF gone
    <3> QED BY <1>2, <2>2, SMT DEF Inv, TypeOK, Memory, RemoveSignupDefaults, Goto
  <2> HIDE DEF gone
  <2> USE <2>3 DEF Inv, database
  <2>4. TypeOK' /\ Place'
    BY SMT DEF TypeOK, Steps, Place, Storing, Matched
  <2>5. RowsSpared' /\ FolderSpared' /\ ReceiptStands' /\ ToCopy' /\ FoldersDiffer'
    BY <2>2, SMT DEF RowsSpared, FolderSpared, ReceiptStands, ToCopy, FoldersDiffer, Place
  <2>6. CopiesStay' /\ (~unheard => PathsSpared)'
    BY SMT DEF CopiesStay, Copy, Place, Storing, Matched, PathsSpared, Leads, Pointed
  <2> QED BY <2>4, <2>5, <2>6
<1> QED BY <1>1, <1>2, Zenon DEF RemoveSignupDefaults

\* The copied person's rows that change hands.
LEMMA TransferReferencesKeeps ==
  ASSUME Inv, TransferReferences
  PROVE  Inv'
<1> DEFINE moving == {r \in View : r.owner = Placeholder /\ r.table \in Transferred}
           moved == {[r EXCEPT !.owner = my.user] : r \in moving}
<1>1. CASE Rollback
  BY <1>1, RollbackKeeps DEF Inv, TypeOK, TransferReferences, InTransaction
<1>2. CASE /\ my' = [my EXCEPT !.gone = @ \cup moving, !.new = moved, !.buckets = Order]
           /\ Goto(IF Order = <<>> THEN "finish" ELSE "list")
  <2>1. at = "transfer" /\ UNCHANGED <<database, file, raced, unheard>>
    BY DEF TransferReferences
  <2>2. my.user \in Users /\ my.new = {} /\ View \subseteq rows
    BY <2>1, SMT DEF Inv, Place, Matched, View
  <2>3. moving \in SUBSET Entries /\ \A r \in moving : r.by # "person"
    BY <2>2, SMT DEF Inv, TypeOK, RowsSpared
  <2>4. moved \in SUBSET Entries /\ \A r \in moved : r.by # "person"
    BY <2>2, <2>3, SMT DEF Entries
  <2> HIDE DEF moving, moved
  <2>5. my.gone \cup moving \in SUBSET Entries /\ \A r \in my.gone \cup moving : r.by # "person"
    BY <2>3, SMT DEF Inv, TypeOK, Memory, RowsSpared
  <2>6. Memory(my')
    <3> DEFINE m == [my EXCEPT !.gone = my.gone \cup moving]
               n == [m EXCEPT !.new = moved]
    <3>1. Memory(m)
      BY <2>5, Remembered DEF Inv, TypeOK
    <3>2. Memory(n)
      BY <2>4, <3>1, Remembered
    <3>3. Memory([n EXCEPT !.buckets = Order])
      BY <3>2, Remembered, Constancy
    <3> QED BY <1>2, <3>3
  <2>7. /\ my'.user = my.user /\ my'.gone = my.gone \cup moving /\ my'.new = moved
        /\ my'.buckets = Order /\ my'.left = my.left /\ my'.staged = my.staged
        /\ my'.owns = my.owns /\ my'.groups = my.groups
    BY <1>2, SMT DEF Inv, TypeOK, Memory
  <2>8. at' = IF Order = <<>> THEN "finish" ELSE "list"
    BY <1>2 DEF Goto
  <2>9. my.left = {} /\ my.staged = {} /\ my.owns = {}
    BY <2>1, SMT DEF Inv, Place, Storing
  <2> USE <2>1, <2>6, <2>7, <2>8 DEF Inv, database
  <2>10. TypeOK' /\ Place'
    BY <2>9, SMT DEF TypeOK, Steps, Place, Storing, Matched
  <2>11. RowsSpared' /\ FolderSpared' /\ ReceiptStands' /\ ToCopy' /\ FoldersDiffer'
    BY <2>4, <2>5, <2>9, SMT DEF RowsSpared, FolderSpared, ReceiptStands, ToCopy, FoldersDiffer
  <2>12. CopiesStay'
    BY <2>9, SMT DEF CopiesStay, Storing
  <2>13. (~unheard => PathsSpared)'
    <3>1. \A o \in Pointed : \E i \in 1 .. Len(Order) : Order[i] = Bucket[o]
      BY Constancy DEF Pointed
    <3>2. Order = <<>> => Len(Order) = 0
      BY SMT
    <3> QED BY <2>9, <3>1, <3>2, SMT DEF PathsSpared, Leads, Pending, Storing, Pointed
  <2> QED BY <2>10, <2>11, <2>12, <2>13
<1> QED BY <1>1, <1>2, Zenon DEF TransferReferences

\* The bucket at hand is done: what is left is the rest.
LEMMA Advanced ==
  ASSUME NEW m, Memory(m), my.buckets \in Seq(Labels), my.buckets # <<>>, NextBucket(m)
  PROVE  /\ Memory(my')
         /\ my'.buckets = Tail(my.buckets) /\ my'.left = {} /\ my'.user = m.user
         /\ my'.gone = m.gone /\ my'.new = m.new /\ my'.staged = m.staged
         /\ my'.owns = m.owns /\ my'.groups = m.groups
         /\ at' \in {"finish", "list"} /\ (at' = "finish" <=> my'.buckets = <<>>)
         /\ \A i \in 2 .. Len(my.buckets) :
              \E j \in 1 .. Len(my'.buckets) : my'.buckets[j] = my.buckets[i]
<1> DEFINE later == Tail(my.buckets)
           n == [m EXCEPT !.buckets = later]
<1>1. later \in Seq(Labels) /\ Len(later) = Len(my.buckets) - 1
      /\ \A i \in 2 .. Len(my.buckets) : later[i - 1] = my.buckets[i] /\ i - 1 \in 1 .. Len(later)
  BY SMT
<1>2. my' = [m EXCEPT !.buckets = later, !.left = {}]
      /\ at' = IF later = <<>> THEN "finish" ELSE "list"
  BY DEF NextBucket, Goto
<1>3. Memory(my')
  <2>1. Memory(n)
    BY <1>1, Remembered
  <2>2. Memory([n EXCEPT !.left = {}])
    <3> HIDE DEF n
    <3> QED BY <2>1, Remembered
  <2> QED BY <1>2, <2>2
<1> HIDE DEF later
<1>4. /\ my'.buckets = later /\ my'.left = {} /\ my'.user = m.user
      /\ my'.gone = m.gone /\ my'.new = m.new /\ my'.staged = m.staged
      /\ my'.owns = m.owns /\ my'.groups = m.groups
  BY <1>2, SMT DEF Memory
<1>5. \A i \in 2 .. Len(my.buckets) :
        \E j \in 1 .. Len(my'.buckets) : my'.buckets[j] = my.buckets[i]
  BY <1>1, <1>4
<1>6. at' \in {"finish", "list"} /\ (at' = "finish" <=> my'.buckets = <<>>)
  BY <1>2, <1>4, SMT
<1> QED BY <1>3, <1>4, <1>5, <1>6 DEF later

LEMMA OwnCopiesKeeps ==
  ASSUME Inv, OwnCopies
  PROVE  Inv'
<1> DEFINE mine == {<<o, my.user>> : o \in {p \in my.staged : Bucket[p] = Head(my.buckets)}}
           m == [my EXCEPT !.owns = @ \cup mine]
<1>1. at = "own" /\ NextBucket(m) /\ UNCHANGED <<database, file, raced, unheard>>
  BY DEF OwnCopies
<1>2. my.user \in Users /\ my.buckets \in Seq(Labels) /\ my.buckets # <<>>
  BY <1>1, SMT DEF Inv, Place, Matched, Storing, TypeOK, Memory
<1>3. my.owns \cup mine \in SUBSET Paths /\ \A p \in mine : p[1] \in my.staged /\ p[2] = my.user
  BY <1>2, SMT DEF Inv, TypeOK, Memory, Paths
<1> HIDE DEF mine
<1>4. Memory(m)
  BY <1>3, Remembered DEF Inv, TypeOK
<1>5. /\ m.user = my.user /\ m.gone = my.gone /\ m.new = my.new /\ m.staged = my.staged
      /\ m.owns = my.owns \cup mine /\ m.groups = my.groups
  BY SMT DEF Inv, TypeOK, Memory
<1> HIDE DEF m
<1> USE <1>1, <1>5, Advanced DEF Inv, database
<1>6. TypeOK' /\ Place'
  BY <1>2, <1>4, SMT DEF TypeOK, Steps, Place, Storing, Matched
<1>7. RowsSpared' /\ FolderSpared' /\ ReceiptStands' /\ ToCopy' /\ FoldersDiffer'
  BY <1>2, <1>4, SMT DEF RowsSpared, FolderSpared, ReceiptStands, ToCopy, FoldersDiffer
<1>8. CopiesStay'
  BY <1>2, <1>3, <1>4, SMT DEF CopiesStay, Copy, Storing
<1>9. (~unheard => PathsSpared)'
  BY <1>2, <1>4, SMT DEF PathsSpared, Leads, Pending, Storing, Pointed, Place
<1> QED BY <1>6, <1>7, <1>8, <1>9

LEMMA QueryFailsKeeps ==
  ASSUME Inv, QueryFails
  PROVE  Inv'
BY RollbackKeeps DEF QueryFails, Inv, TypeOK

LEMMA KillKeeps ==
  ASSUME Inv, Kill
  PROVE  Inv'
<1>1. /\ my' = Blank /\ at' = "idle" /\ raced' = {}
      /\ UNCHANGED <<database, file, unheard>>
  BY DEF Kill, End, Goto
<1> USE <1>1, BlankMemory DEF Inv, database
<1>2. TypeOK' /\ Place'
  BY SMT DEF TypeOK, Steps, Place, Storing, Matched
<1>3. RowsSpared' /\ FolderSpared' /\ ReceiptStands' /\ ToCopy' /\ FoldersDiffer'
  BY SMT DEF RowsSpared, FolderSpared, ReceiptStands, ToCopy, FoldersDiffer, Blank
<1>4. CopiesStay' /\ (~unheard => PathsSpared)'
  BY SMT DEF CopiesStay, Storing, PathsSpared, Leads, Pointed
<1> QED BY <1>2, <1>3, <1>4

\* Destinations were free when the claim looked, and so were no longer in the
\* records.
LEMMA ListObjectsKeeps ==
  ASSUME Inv, ListObjects
  PROVE  Inv'
<1> DEFINE rewrite == Head(my.buckets) \in Rewritten
           refused == (\E o \in Sources : ~MayTake(o)) \/ (rewrite /\ Collision)
           mine == {<<o, Placeholder>> : o \in Sources}
<1>1. /\ at = "list" /\ raced' = {} /\ UNCHANGED <<database, file, unheard>>
      /\ \/ refused /\ Rollback
         \/ ~refused /\ Sources = {} /\ NextBucket(my)
         \/ /\ ~refused /\ Sources # {} /\ ~rewrite
            /\ NextBucket([my EXCEPT !.owns = @ \cup mine])
         \/ /\ ~refused /\ Sources # {} /\ rewrite
            /\ my' = [my EXCEPT !.left = Sources] /\ at' = "copy"
  BY Zenon DEF ListObjects, Goto
<1>2. /\ my.user \in Users /\ my.buckets \in Seq(Labels) /\ my.buckets # <<>>
      /\ my.left = {} /\ Memory(my)
  BY <1>1, SMT DEF Inv, Place, Matched, Storing, TypeOK, Memory
<1>3. /\ Sources \in SUBSET Objects /\ \A o \in Sources : file[<<o, Placeholder>>] # None
      /\ \A o \in Objects : Bucket[o] = my.buckets[1] /\ o \notin Sources =>
           file[<<o, Placeholder>>] = None
      /\ \A o \in Sources : Bucket[o] = my.buckets[1]
  BY <1>2, SMT DEF Sources
<1>4. CASE Rollback
  BY <1>1, <1>4, RollbackKeeps DEF InTransaction
<1>5. ASSUME NEW m, Memory(m), NextBucket(m), m.user = my.user, m.gone = my.gone, m.new = my.new,
             m.staged = my.staged, m.groups = my.groups,
             \A p \in m.owns \ my.owns : p[2] = Placeholder,
             Sources = {} \/ ~rewrite
      PROVE  Inv'
  <2> USE <1>1, <1>2, <1>5, Advanced DEF Inv, database
  <2>1. TypeOK' /\ Place'
    BY SMT DEF TypeOK, Steps, Place, Storing, Matched
  <2>2. RowsSpared' /\ FolderSpared' /\ ReceiptStands' /\ ToCopy' /\ FoldersDiffer'
    BY SMT DEF RowsSpared, FolderSpared, ReceiptStands, ToCopy, FoldersDiffer
  <2>3. CopiesStay'
    BY SMT DEF CopiesStay, Copy, Storing
  <2>4. (~unheard => PathsSpared)'
    <3>1. \A o \in Pointed : ~unheard /\ pointer[o] = Placeholder => Bucket[o] # my.buckets[1]
      <4> SUFFICES ASSUME NEW o \in Pointed, ~unheard, pointer[o] = Placeholder,
                          Bucket[o] = my.buckets[1]
                   PROVE  FALSE
        OBVIOUS
      <4>1. file[<<o, Placeholder>>] # None /\ Bucket[o] \in Rewritten /\ o \in Objects
        BY DEF PathsSpared, Leads, Pointed
      <4> QED BY <1>3, <4>1
    <3> QED BY <3>1, SMT DEF PathsSpared, Leads, Pending, Storing, Pointed, Place
  <2> QED BY <2>1, <2>2, <2>3, <2>4
<1>6. CASE ~refused /\ Sources = {} /\ NextBucket(my)
  BY <1>2, <1>5, <1>6
<1>7. CASE ~refused /\ ~rewrite /\ NextBucket([my EXCEPT !.owns = @ \cup mine])
  <2> DEFINE m == [my EXCEPT !.owns = @ \cup mine]
  <2>1. mine \in SUBSET Paths /\ \A p \in mine : p[2] = Placeholder
    BY <1>3, SMT DEF Paths, Users
  <2> HIDE DEF mine
  <2>2. my.owns \cup mine \in SUBSET Paths
    BY <1>2, <2>1, SMT DEF Memory
  <2>3. Memory(m)
    BY <1>2, <2>2, Remembered
  <2>4. /\ m.user = my.user /\ m.gone = my.gone /\ m.new = my.new /\ m.staged = my.staged
        /\ m.groups = my.groups /\ m.owns = my.owns \cup mine
    BY <1>2, SMT DEF Memory
  <2> HIDE DEF m
  <2>5. NextBucket(m)
    BY <1>7 DEF m
  <2>6. \A p \in m.owns \ my.owns : p[2] = Placeholder
    BY <2>1, <2>4
  <2> QED BY <1>5, <1>7, <2>3, <2>4, <2>5, <2>6
<1>8. CASE ~refused /\ Sources # {} /\ rewrite /\ my' = [my EXCEPT !.left = Sources] /\ at' = "copy"
  <2>1. Memory(my')
    BY <1>2, <1>3, <1>8, Remembered
  <2>2. /\ my'.user = my.user /\ my'.gone = my.gone /\ my'.new = my.new
        /\ my'.staged = my.staged /\ my'.groups = my.groups /\ my'.owns = my.owns
        /\ my'.left = Sources /\ my'.buckets = my.buckets
    BY <1>2, <1>8, SMT DEF Memory
  <2>3. \A o \in Sources : file[<<o, my.user>>] = None
    BY <1>8 DEF Collision
  <2>4. my.user # Placeholder
    BY <1>3, <1>8, <2>3
  <2> USE <1>1, <1>2, <1>3, <1>8, <2>1, <2>2, <2>3, <2>4 DEF Inv, database
  <2>5. TypeOK' /\ Place'
    BY SMT DEF TypeOK, Steps, Place, Storing, Matched
  <2>6. RowsSpared' /\ FolderSpared' /\ ReceiptStands' /\ FoldersDiffer'
    BY SMT DEF RowsSpared, FolderSpared, ReceiptStands, FoldersDiffer
  <2>7. ToCopy'
    <3>1. \A o \in my.staged : file[<<o, my.user>>] # None
      BY DEF CopiesStay, Copy, Storing
    <3> QED BY <3>1 DEF ToCopy
  <2>9. CopiesStay'
    BY SMT DEF CopiesStay, Copy, Storing
  <2>8. (~unheard => PathsSpared)'
    <3> SUFFICES ASSUME ~unheard' PROVE PathsSpared'
      BY Zenon
    <3>1. \A o \in Sources \cap Pointed : pointer[o] # my.user
      BY DEF PathsSpared, Leads
    <3>2. \A o \in Pointed : pointer[o] = Placeholder /\ Bucket[o] = my.buckets[1] => o \in Sources
      BY DEF PathsSpared, Leads, Pointed
    <3> QED BY <3>1, <3>2, SMT DEF PathsSpared, Leads, Pending, Storing, Pointed
  <2> QED BY <2>5, <2>6, <2>7, <2>8, <2>9
<1> QED BY <1>1, <1>4, <1>6, <1>7, <1>8

LEMMA CopyAndVerifyKeeps ==
  ASSUME Inv, CopyAndVerify
  PROVE  Inv'
<1> DEFINE o == Min(my.left)
           to == <<o, my.user>>
           copy == [file EXCEPT ![to] = [text |-> file[<<o, Placeholder>>].text, owner |-> None]]
<1>1. /\ at = "copy" /\ UNCHANGED <<database, raced, unheard>>
      /\ \/ /\ file[to] = None /\ file' = copy
            /\ my' = [my EXCEPT !.left = my.left \ {o}, !.staged = @ \cup {o}]
            /\ at' = IF my.left \ {o} = {} THEN "own" ELSE "copy"
         \/ /\ file' \in {file, IF file[to] = None THEN copy ELSE file}
            /\ at' = "uncopy" /\ UNCHANGED my
  BY Zenon DEF CopyAndVerify, Goto
<1>2. my.left # {} /\ my.user \in Users /\ Memory(my) /\ my.user # Placeholder
  BY <1>1, SMT DEF Inv, Place, Matched, Storing, TypeOK, FoldersDiffer
<1>3. o \in my.left /\ o \in Objects
  <2>1. my.left \in SUBSET Objects /\ my.left \in SUBSET Nat
    BY <1>2, Constancy, SMT DEF Memory
  <2> QED BY <1>2, <2>1, LeastIsMember
<1>4. file[<<o, Placeholder>>] # None /\ to \in Paths /\ <<o, Placeholder>> \in Paths
  BY <1>2, <1>3, SMT DEF Inv, ToCopy, Paths, Users
<1> HIDE DEF o
<1> DEFINE put == [text |-> file[<<o, Placeholder>>].text, owner |-> None]
<1>5. put \in Files /\ put.text = "copied" /\ put # None
  BY <1>4, Constancy, SMT DEF Inv, TypeOK, Files, FolderSpared
<1>6. copy \in [Paths -> Files \cup {None}] /\ copy[to] = put
      /\ \A p \in Paths : p # to => copy[p] = file[p]
  BY <1>4, <1>5, SMT DEF Inv, TypeOK
<1>7. file' \in [Paths -> Files \cup {None}]
      /\ \A p \in Paths : file'[p] = file[p] \/ (p = to /\ file'[p] = put /\ file[p] = None)
  BY <1>1, <1>6 DEF Inv, TypeOK
<1> HIDE DEF put, copy
<1> USE <1>2, <1>3, <1>4, <1>5, <1>7 DEF Inv, database
<1>8. FolderSpared'
  BY SMT DEF FolderSpared
<1>9. CASE /\ file[to] = None /\ file' = copy
           /\ my' = [my EXCEPT !.left = my.left \ {o}, !.staged = @ \cup {o}]
           /\ at' = IF my.left \ {o} = {} THEN "own" ELSE "copy"
  <2>1. Memory(my')
    <3> DEFINE m == [my EXCEPT !.left = my.left \ {o}]
    <3>1. my.left \ {o} \in SUBSET Objects /\ my.staged \cup {o} \in SUBSET Objects
      BY SMT DEF Memory
    <3>3. Memory(m)
      BY <3>1, Remembered
    <3>2. Memory([m EXCEPT !.staged = my.staged \cup {o}])
      BY <3>1, <3>3, Remembered
    <3> QED BY <1>9, <3>2
  <2>2. /\ my'.user = my.user /\ my'.gone = my.gone /\ my'.new = my.new
        /\ my'.staged = my.staged \cup {o} /\ my'.groups = my.groups /\ my'.owns = my.owns
        /\ my'.left = my.left \ {o} /\ my'.buckets = my.buckets
    BY <1>9, SMT DEF Memory
  <2> USE <1>1, <1>9, <2>1, <2>2
  <2>3. TypeOK' /\ Place'
    BY SMT DEF TypeOK, Steps, Place, Storing, Matched
  <2>4. RowsSpared' /\ ReceiptStands' /\ FoldersDiffer'
    BY SMT DEF RowsSpared, ReceiptStands, FoldersDiffer
  <2>5. ToCopy'
    <3>1. \A a \in my.left \ {o} : <<a, my.user>> \in Paths /\ <<a, Placeholder>> \in Paths
      BY SMT DEF Paths, Memory, Users
    <3>2. \A a \in my.left \ {o} : <<a, my.user>> # to /\ <<a, Placeholder>> # to
      OBVIOUS
    <3> QED BY <3>1, <3>2 DEF ToCopy
  <2>7. CopiesStay'
    <3>1. \A a \in my.staged : Copy(a)
      BY DEF CopiesStay, Storing
    <3>2. \A a \in my.staged : <<a, my.user>> \in Paths /\ <<a, my.user>> # to
      BY SMT DEF ToCopy, Memory, Paths
    <3>3. \A a \in my.staged \cup {o} : Copy(a)'
      BY <1>6, <3>1, <3>2 DEF Copy
    <3> QED BY <3>3, SMT DEF CopiesStay, Storing
  <2>6. (~unheard => PathsSpared)'
    BY SMT DEF PathsSpared, Leads, Pending, Storing, Pointed, TypeOK, Paths
  <2> QED BY <1>8, <2>3, <2>4, <2>5, <2>6, <2>7
<1>10. CASE at' = "uncopy" /\ UNCHANGED my
  <2> USE <1>1, <1>10
  <2>1. TypeOK' /\ Place'
    BY SMT DEF TypeOK, Steps, Place, Storing, Matched
  <2>2. RowsSpared' /\ ReceiptStands' /\ FoldersDiffer'
    BY SMT DEF RowsSpared, ReceiptStands, FoldersDiffer
  <2>3. ToCopy' /\ CopiesStay'
    BY SMT DEF ToCopy, CopiesStay, Copy, Storing, Paths, Memory, Users
  <2>4. (~unheard => PathsSpared)'
    BY SMT DEF PathsSpared, Leads, Pending, Storing, Pointed, TypeOK, Paths
  <2> QED BY <1>8, <2>1, <2>2, <2>3, <2>4
<1> QED BY <1>1, <1>9, <1>10

LEMMA RemoveFailedCopyKeeps ==
  ASSUME Inv, RemoveFailedCopy
  PROVE  Inv'
<1> DEFINE o == Min(my.left)
           to == <<o, my.user>>
<1>1. /\ at = "uncopy" /\ Rollback /\ UNCHANGED <<database, raced, unheard>>
      /\ file' \in {file, [file EXCEPT ![to] = None]}
  BY Zenon DEF RemoveFailedCopy
<1>2. my.left # {} /\ my.user \in Users /\ Memory(my) /\ my.user # Placeholder
  BY <1>1, SMT DEF Inv, Place, Matched, Storing, TypeOK, FoldersDiffer
<1>3. o \in my.left /\ o \in Objects /\ to \in Paths
  <2>1. my.left \in SUBSET Objects /\ my.left \in SUBSET Nat
    BY <1>2, Constancy, SMT DEF Memory
  <2>2. o \in my.left
    BY <1>2, <2>1, LeastIsMember
  <2> QED BY <1>2, <2>1, <2>2, SMT DEF Paths
<1> HIDE DEF o
<1>4. /\ file' \in [Paths -> Files \cup {None}]
      /\ \A p \in Paths : p # to => file'[p] = file[p]
      /\ file'[to] \in {None, file[to]}
  BY <1>1, <1>3, SMT DEF Inv, TypeOK
<1> USE <1>1, <1>2, <1>3, <1>4, Rolled DEF Inv, database
<1>5. TypeOK' /\ Place'
  BY SMT DEF TypeOK, Steps, Place, Storing, Matched
<1>6. RowsSpared' /\ ReceiptStands' /\ FoldersDiffer' /\ FolderSpared' /\ ToCopy'
  BY SMT DEF RowsSpared, ReceiptStands, FoldersDiffer, FolderSpared, ToCopy
<1>7. CopiesStay'
  BY SMT DEF ToCopy, CopiesStay, Copy, Storing, Paths, Memory
<1>8. (~unheard => PathsSpared)'
  BY SMT DEF PathsSpared, Leads, Pending, Storing, Pointed, TypeOK, Paths
<1> QED BY <1>5, <1>6, <1>7, <1>8

LEMMA FinishClaimKeeps ==
  ASSUME Inv, FinishClaim
  PROVE  Inv'
<1> DEFINE retire == /\ my.user # Placeholder
                     /\ ~\E t \in Preserved : Has(t, Placeholder)
                     /\ Placeholder \notin verified
<1>1. /\ at = "finish" /\ UNCHANGED <<database, file, raced, unheard>>
      /\ \/ ReceiptAgrees /\ my' = [my EXCEPT !.retire = retire] /\ at' = "commit"
         \/ Rollback
  BY Zenon DEF FinishClaim, Goto
<1>2. CASE Rollback
  BY <1>1, <1>2, RollbackKeeps DEF Inv, TypeOK, InTransaction
<1>3. CASE ReceiptAgrees /\ my' = [my EXCEPT !.retire = retire] /\ at' = "commit"
  <2> HIDE DEF retire
  <2>1. /\ Memory(my') /\ my'.user = my.user /\ my'.gone = my.gone /\ my'.new = my.new
        /\ my'.left = my.left /\ my'.staged = my.staged /\ my'.owns = my.owns
        /\ my'.groups = my.groups /\ my'.buckets = my.buckets
    BY <1>3, SMT DEF Inv, TypeOK, Memory
  <2> USE <1>1, <1>3, <2>1 DEF Inv, database
  <2>2. TypeOK' /\ Place'
    BY SMT DEF TypeOK, Steps, Place, Storing, Matched
  <2>3. RowsSpared' /\ FolderSpared' /\ ToCopy' /\ FoldersDiffer'
    BY SMT DEF RowsSpared, FolderSpared, ToCopy, FoldersDiffer
  <2>4. ReceiptStands'
    BY DEF ReceiptStands, ReceiptAgrees
  <2>5. CopiesStay'
    BY SMT DEF CopiesStay, Copy, Storing
  <2>6. (~unheard => PathsSpared)'
    BY SMT DEF PathsSpared, Leads, Pending, Storing, Pointed
  <2> QED BY <2>2, <2>3, <2>4, <2>5, <2>6
<1> QED BY <1>1, <1>2, <1>3

\* What the transaction leaves behind, heard of or not.
LEMMA CommittedKeeps ==
  ASSUME Inv, at = "commit", Committed, UNCHANGED raced
  PROVE  /\ users' \subseteq Users /\ verified' \subseteq Users /\ rows' \subseteq Entries
         /\ pointer' \in [Pointed -> Users] /\ receipt' \in Users /\ granted' \subseteq Users
         /\ file' \in [Paths -> Files \cup {None}]
         /\ \A p \in Paths : (file'[p] = None <=> file[p] = None)
                             /\ (file[p] # None => file'[p].text = file[p].text)
         /\ \A r \in rows' : r.owner = Placeholder => r.by # "person"
         /\ granted' \subseteq {receipt'} /\ FolderSpared'
         /\ \A o \in Pointed :
              pointer'[o] = IF pointer[o] = Placeholder THEN my.user ELSE pointer[o]
<1>1. my.user \in Users /\ Memory(my)
  BY SMT DEF Inv, Place, Matched, Storing, TypeOK
<1>2. users' \subseteq Users /\ verified' \subseteq Users /\ receipt' \in Users
      /\ granted' \subseteq Users
  BY <1>1, SMT DEF Inv, TypeOK, Committed
<1>3. rows' \subseteq Entries /\ \A r \in rows' : r.owner = Placeholder => r.by # "person"
  BY <1>1, SMT DEF Inv, TypeOK, Memory, RowsSpared, Committed, View
<1>4. /\ pointer' \in [Pointed -> Users]
      /\ \A o \in Pointed :
           pointer'[o] = IF pointer[o] = Placeholder THEN my.user ELSE pointer[o]
  BY <1>1, SMT DEF Inv, TypeOK, Committed
<1>5. /\ file' \in [Paths -> Files \cup {None}]
      /\ \A p \in Paths : (file'[p] = None <=> file[p] = None)
                          /\ (file[p] # None => file'[p].text = file[p].text)
  <2>1. \A f \in Files : [f EXCEPT !.owner = my.user] \in Files
                         /\ [f EXCEPT !.owner = my.user].text = f.text
    BY <1>1, SMT DEF Files
  <2>2. file' = [p \in Paths |-> IF p \in my.owns /\ file[p] # None
                                 THEN [file[p] EXCEPT !.owner = my.user] ELSE file[p]]
    BY DEF Committed
  <2>3. \A p \in Paths : file[p] \in Files \cup {None}
    BY DEF Inv, TypeOK
  <2>4. ASSUME NEW p \in Paths
        PROVE  /\ file'[p] \in Files \cup {None} /\ (file'[p] = None <=> file[p] = None)
               /\ (file[p] # None => file'[p].text = file[p].text)
    <3>1. CASE p \in my.owns /\ file[p] # None
      BY <2>1, <2>2, <2>3, <3>1, Constancy
    <3>2. CASE ~(p \in my.owns /\ file[p] # None)
      BY <2>2, <2>3, <3>2
    <3> QED BY <3>1, <3>2
  <2>5. file' \in [Paths -> Files \cup {None}]
    <3> DEFINE next(p) == IF p \in my.owns /\ file[p] # None
                          THEN [file[p] EXCEPT !.owner = my.user] ELSE file[p]
    <3>1. file' = [p \in Paths |-> next(p)]
      BY <2>2
    <3>2. \A p \in Paths : file'[p] = next(p)
      BY <3>1
    <3> HIDE DEF next
    <3> QED BY <2>4, <3>1, <3>2
  <2> QED BY <2>4, <2>5
<1>6. granted' \subseteq {receipt'}
  BY Constancy DEF Inv, ReceiptStands, ReceiptAgrees, TypeOK, Committed
<1>7. FolderSpared'
  BY <1>5 DEF Inv, FolderSpared
<1> QED BY <1>2, <1>3, <1>4, <1>5, <1>6, <1>7

LEMMA CommitKeeps ==
  ASSUME Inv, Commit
  PROVE  Inv'
<1>1. /\ at = "commit" /\ UNCHANGED raced
      /\ \/ /\ Committed /\ my' = [my EXCEPT !.groups = CopiedBuckets] /\ at' = "tidy"
            /\ UNCHANGED unheard
         \/ Committed /\ Rollback /\ unheard' = TRUE
         \/ Rollback /\ UNCHANGED <<database, file, unheard>>
  BY Zenon DEF Commit, Goto
<1>2. my.user \in Users /\ Memory(my) /\ my.left = {} /\ raced \subseteq Paths
  BY <1>1, SMT DEF Inv, Place, Matched, Storing, TypeOK
<1>3. CASE Rollback /\ UNCHANGED <<database, file, unheard>>
  BY <1>1, <1>2, <1>3, RollbackKeeps DEF Inv, TypeOK, InTransaction
<1>4. CASE Committed /\ Rollback /\ unheard' = TRUE
  <2> USE <1>1, <1>2, <1>4, CommittedKeeps, Rolled DEF Inv
  <2>1. TypeOK' /\ Place'
    BY SMT DEF TypeOK, Steps, Place, Storing, Matched
  <2>2. RowsSpared' /\ ReceiptStands' /\ FoldersDiffer' /\ ToCopy'
    BY SMT DEF RowsSpared, ReceiptStands, FoldersDiffer, ToCopy
  <2>3. CopiesStay'
    <3>1. \A o \in my.staged : <<o, my.user>> \in Paths
      BY SMT DEF Memory, Paths
    <3>2. \A o \in my.staged : Copy(o)
      BY DEF CopiesStay, Storing
    <3>3. \A o \in my.staged : Copy(o)'
      BY <3>1, <3>2 DEF Copy
    <3> QED BY <3>3, SMT DEF CopiesStay, Storing
  <2> QED BY <2>1, <2>2, <2>3
<1>5. CASE Committed /\ my' = [my EXCEPT !.groups = CopiedBuckets] /\ at' = "tidy"
           /\ UNCHANGED unheard
  <2>1. CopiedBuckets \in SUBSET Buckets
    BY <1>2, Constancy, SMT DEF CopiedBuckets, Memory, Buckets
  <2>2. /\ Memory(my') /\ my'.user = my.user /\ my'.gone = my.gone /\ my'.new = my.new
        /\ my'.left = my.left /\ my'.staged = my.staged /\ my'.owns = my.owns
    <3>1. Memory(my')
      BY <1>2, <1>5, <2>1, Remembered
    <3> QED BY <1>2, <1>5, <3>1, SMT DEF Memory
  <2> USE <1>1, <1>2, <1>5, <2>2, CommittedKeeps DEF Inv
  <2>3. TypeOK' /\ Place'
    BY SMT DEF TypeOK, Steps, Place, Storing, Matched
  <2>4. RowsSpared' /\ ReceiptStands' /\ FoldersDiffer' /\ ToCopy'
    BY SMT DEF RowsSpared, ReceiptStands, FoldersDiffer, ToCopy, Place
  <2>5. CopiesStay'
    BY SMT DEF CopiesStay, Copy, Storing
  <2>6. (~unheard => PathsSpared)'
    <3> SUFFICES ASSUME ~unheard PROVE PathsSpared'
      BY Zenon
    <3>1. my.buckets = <<>> /\ my.left = {} /\ PathsSpared
      BY SMT DEF PathsSpared, Place
    <3>2. \A o \in Pointed : pointer[o] = Placeholder => o \in my.staged
      BY <3>1, SMT DEF PathsSpared, Pending, Storing
    <3>3. \A o \in Pointed : Leads(o)'
      <4> SUFFICES ASSUME NEW o \in Pointed PROVE file'[<<o, pointer'[o]>>] # None
        BY DEF Leads
      <4>1. o \in Objects
        BY DEF Pointed
      <4>2. CASE pointer[o] = Placeholder
        <5>1. file[<<o, my.user>>] # None /\ <<o, my.user>> \in Paths
          BY <3>2, <4>1, <4>2, SMT DEF CopiesStay, Copy, Storing, Paths
        <5> QED BY <4>2, <5>1
      <4>3. CASE pointer[o] # Placeholder
        <5>1. file[<<o, pointer[o]>>] # None /\ <<o, pointer[o]>> \in Paths
          BY <3>1, <4>1, SMT DEF PathsSpared, Leads, Paths, TypeOK
        <5> QED BY <4>3, <5>1
      <4> QED BY <4>2, <4>3
    <3>4. \A o \in my.staged \cap Pointed : pointer'[o] # Placeholder
      BY <3>2, SMT DEF FoldersDiffer
    <3> QED BY <3>1, <3>3, <3>4, SMT DEF PathsSpared, Storing
  <2> QED BY <2>3, <2>4, <2>5, <2>6
<1> QED BY <1>1, <1>3, <1>4, <1>5

\* What a removal of copies or originals takes.
LEMMA Cleared ==
  ASSUME TypeOK, NEW folder, Removed(folder) \/ UNCHANGED file
  PROVE  /\ file' \in [Paths -> Files \cup {None}]
         /\ \A p \in Paths : file'[p] # file[p] =>
              /\ file'[p] = None /\ p[2] = folder
              /\ p[1] \in my.staged /\ Bucket[p[1]] = Turn
BY SMT DEF TypeOK, Removed, InBucket

\* The command ends, with or without some removals.
LEMMA EndKeeps ==
  ASSUME Inv, End, UNCHANGED <<database, unheard>>,
         file' \in [Paths -> Files \cup {None}],
         \A p \in Paths : file'[p] \in {None, file[p]},
         ~unheard => \A o \in Pointed : Leads(o)'
  PROVE  Inv'
<1>1. my' = Blank /\ at' = "idle" /\ raced' = {}
  BY DEF End, Goto
<1> USE <1>1, BlankMemory DEF Inv, database
<1>2. TypeOK' /\ Place'
  BY SMT DEF TypeOK, Steps, Place, Storing, Matched
<1>3. RowsSpared' /\ FolderSpared' /\ ReceiptStands' /\ ToCopy' /\ FoldersDiffer'
  BY SMT DEF RowsSpared, FolderSpared, ReceiptStands, ToCopy, FoldersDiffer, Blank
<1>4. CopiesStay' /\ (~unheard => PathsSpared)'
  BY SMT DEF CopiesStay, Storing, PathsSpared
<1> QED BY <1>2, <1>3, <1>4

LEMMA RemoveOriginalsKeeps ==
  ASSUME Inv, RemoveOriginals
  PROVE  Inv'
<1>1. /\ at = "tidy" /\ UNCHANGED <<database, unheard>>
      /\ Removed(Placeholder) \/ UNCHANGED file
      /\ \/ End
         \/ my' = [my EXCEPT !.groups = @ \ {Turn}] /\ UNCHANGED <<at, raced>>
  BY Zenon DEF RemoveOriginals
<1>2. /\ file' \in [Paths -> Files \cup {None}]
      /\ \A p \in Paths : file'[p] # file[p] =>
           file'[p] = None /\ p[2] = Placeholder /\ p[1] \in my.staged
  BY <1>1, Cleared DEF Inv
<1>3. ~unheard => \A o \in Pointed : Leads(o)'
  <2> SUFFICES ASSUME ~unheard, NEW o \in Pointed PROVE file'[<<o, pointer[o]>>] # None
    BY <1>1 DEF Leads, database
  <2>1. <<o, pointer[o]>> \in Paths /\ file[<<o, pointer[o]>>] # None
    BY SMT DEF Inv, TypeOK, PathsSpared, Leads, Pointed, Paths
  <2>2. o \in my.staged => pointer[o] # Placeholder
    BY <1>1 DEF Inv, PathsSpared
  <2> QED BY <1>2, <2>1, <2>2
<1>4. CASE End
  BY <1>1, <1>2, <1>3, <1>4, EndKeeps
<1>5. CASE my' = [my EXCEPT !.groups = @ \ {Turn}] /\ UNCHANGED <<at, raced>>
  <2>1. /\ Memory(my') /\ my'.user = my.user /\ my'.gone = my.gone /\ my'.new = my.new
        /\ my'.left = my.left /\ my'.staged = my.staged /\ my'.owns = my.owns
    <3>1. Memory(my) /\ my.groups \ {Turn} \in SUBSET Buckets
      BY SMT DEF Inv, TypeOK, Memory
    <3>2. Memory(my')
      BY <1>5, <3>1, Remembered
    <3> QED BY <1>5, <3>1, <3>2, SMT DEF Memory
  <2> USE <1>1, <1>2, <1>5, <2>1 DEF Inv, database
  <2>2. TypeOK' /\ Place'
    BY SMT DEF TypeOK, Steps, Place, Storing, Matched
  <2>3. RowsSpared' /\ FolderSpared' /\ ReceiptStands' /\ ToCopy' /\ FoldersDiffer'
    BY SMT DEF RowsSpared, FolderSpared, ReceiptStands, ToCopy, FoldersDiffer, Place
  <2>4. CopiesStay' /\ (~unheard => PathsSpared)'
    BY <1>3, SMT DEF CopiesStay, Storing, PathsSpared, Place
  <2> QED BY <2>2, <2>3, <2>4
<1> QED BY <1>1, <1>4, <1>5

LEMMA RemoveCopiesKeeps ==
  ASSUME Inv, RemoveCopies
  PROVE  Inv'
<1>1. /\ at = "abort" /\ UNCHANGED <<database, unheard>>
      /\ Removed(my.user) \/ UNCHANGED file
      /\ \/ End
         \/ my' = [my EXCEPT !.groups = @ \ {Turn}] /\ UNCHANGED <<at, raced>>
  BY Zenon DEF RemoveCopies, StagedFolder
<1>2. /\ file' \in [Paths -> Files \cup {None}]
      /\ \A p \in Paths : file'[p] # file[p] =>
           /\ file'[p] = None /\ p[2] = my.user
           /\ p[1] \in my.staged /\ Bucket[p[1]] = Turn
  BY <1>1, Cleared DEF Inv
<1>3. ~unheard => \A o \in Pointed : Leads(o)'
  <2> SUFFICES ASSUME ~unheard, NEW o \in Pointed PROVE file'[<<o, pointer[o]>>] # None
    BY <1>1 DEF Leads, database
  <2>1. <<o, pointer[o]>> \in Paths /\ file[<<o, pointer[o]>>] # None
    BY SMT DEF Inv, TypeOK, PathsSpared, Leads, Pointed, Paths
  <2>2. o \in my.staged => pointer[o] # my.user
    BY <1>1 DEF Inv, PathsSpared
  <2> QED BY <1>2, <2>1, <2>2
<1>4. CASE End
  BY <1>1, <1>2, <1>3, <1>4, EndKeeps
<1>5. CASE my' = [my EXCEPT !.groups = @ \ {Turn}] /\ UNCHANGED <<at, raced>>
  <2>1. /\ Memory(my') /\ my'.user = my.user /\ my'.gone = my.gone /\ my'.new = my.new
        /\ my'.left = my.left /\ my'.staged = my.staged /\ my'.owns = my.owns
        /\ my'.groups = my.groups \ {Turn}
    <3>1. Memory(my) /\ my.groups \ {Turn} \in SUBSET Buckets
      BY SMT DEF Inv, TypeOK, Memory
    <3>2. Memory(my')
      BY <1>5, <3>1, Remembered
    <3> QED BY <1>5, <3>1, <3>2, SMT DEF Memory
  <2> USE <1>1, <1>2, <1>5, <2>1 DEF Inv, database
  <2>2. TypeOK' /\ Place'
    BY SMT DEF TypeOK, Steps, Place, Storing, Matched
  <2>3. RowsSpared' /\ FolderSpared' /\ ReceiptStands' /\ ToCopy' /\ FoldersDiffer'
    BY SMT DEF RowsSpared, FolderSpared, ReceiptStands, ToCopy, FoldersDiffer, Place
  <2>4. CopiesStay'
    <3>1. \A o \in my.staged : <<o, my.user>> \in Paths
      BY SMT DEF Memory, Paths, Place, Matched
    <3> QED BY <3>1, SMT DEF CopiesStay, Copy, Storing, Place
  <2>5. (~unheard => PathsSpared)'
    BY <1>3, SMT DEF Storing, PathsSpared, Place
  <2> QED BY <2>2, <2>3, <2>4, <2>5
<1> QED BY <1>1, <1>4, <1>5

\* People sign up, link and write: Storage and the claim stay as they are.
LEMMA PeopleKeep ==
  ASSUME Inv, UNCHANGED <<pointer, receipt, granted, file, at, my, raced, unheard>>,
         users' \subseteq Users, verified' \subseteq Users, rows' \subseteq Entries,
         \A r \in rows' \ rows : r.owner \in Accounts
  PROVE  Inv'
<1> USE DEF Inv
<1>1. TypeOK' /\ Place'
  BY SMT DEF TypeOK, Place
<1>2. RowsSpared'
  BY Constancy DEF RowsSpared
<1>3. FolderSpared' /\ ReceiptStands' /\ ToCopy' /\ FoldersDiffer'
  BY DEF FolderSpared, ReceiptStands, ReceiptAgrees, ToCopy, FoldersDiffer
<1>4. CopiesStay' /\ (~unheard => PathsSpared)'
  BY DEF CopiesStay, Copy, PathsSpared, Leads, Pending
<1> QED BY <1>1, <1>2, <1>3, <1>4

LEMMA SignUpKeeps ==
  ASSUME Inv, NEW u \in Accounts, SignUp(u)
  PROVE  Inv'
<1>1. users' \subseteq Users /\ verified' \subseteq Users
  BY SMT DEF Inv, TypeOK, SignUp, Users
<1>2. rows' \subseteq Entries /\ \A r \in rows' \ rows : r.owner \in Accounts
  BY SMT DEF Inv, TypeOK, SignUp, Entries, Row, Users
<1> QED BY <1>1, <1>2, PeopleKeep DEF SignUp

LEMMA LinkKeeps ==
  ASSUME Inv, NEW u \in Users, Link(u)
  PROVE  Inv'
<1>1. users' \subseteq Users /\ verified' \subseteq Users /\ rows' \subseteq Entries
      /\ rows' = rows
  BY SMT DEF Inv, TypeOK, Link
<1> QED BY <1>1, PeopleKeep DEF Link

LEMMA WriteKeeps ==
  ASSUME Inv, NEW u \in Accounts, NEW t \in Tables, Write(u, t)
  PROVE  Inv'
<1>1. users' \subseteq Users /\ verified' \subseteq Users
  BY SMT DEF Inv, TypeOK, Write
<1>2. rows' \subseteq Entries /\ \A r \in rows' \ rows : r.owner \in Accounts
  BY SMT DEF Inv, TypeOK, Write, Entries, Row, Users
<1> QED BY <1>1, <1>2, PeopleKeep DEF Write

LEMMA EditKeeps ==
  ASSUME Inv, NEW u \in Accounts, NEW t \in Defaults, Edit(u, t)
  PROVE  Inv'
<1>1. users' \subseteq Users /\ verified' \subseteq Users
  BY SMT DEF Inv, TypeOK, Edit
<1>2. rows' = (rows \ {Row(t, u, "signup")}) \cup {Row(t, u, "person")}
  BY SMT DEF Edit, Row
<1>3. rows' \subseteq Entries /\ \A r \in rows' \ rows : r.owner \in Accounts
  BY <1>2, SMT DEF Inv, TypeOK, Entries, Row, Users
<1> QED BY <1>1, <1>3, PeopleKeep DEF Edit

\* An upload to the destination of a copy under way is remembered as such.
LEMMA UploadKeeps ==
  ASSUME Inv, NEW u \in Accounts, NEW o \in Objects, Upload(u, o)
  PROVE  Inv'
<1> DEFINE new == [text |-> "own", owner |-> u]
<1>1. new \in Files /\ <<o, u>> \in Paths /\ u # Placeholder
  BY Constancy, SMT DEF Files, Paths, Users
<1>2. /\ file[<<o, u>>] = None /\ file' = [file EXCEPT ![<<o, u>>] = new]
      /\ raced' = IF at \in {"copy", "uncopy"} THEN raced \cup {<<o, u>>} ELSE raced
      /\ UNCHANGED <<database, at, my, unheard>>
  BY DEF Upload
<1> HIDE DEF new
<1>3. /\ file' \in [Paths -> Files \cup {None}] /\ raced' \subseteq Paths /\ raced \subseteq raced'
      /\ \A p \in Paths : p # <<o, u>> => file'[p] = file[p]
      /\ file'[<<o, u>>] # None
  BY <1>1, <1>2, Constancy, SMT DEF Inv, TypeOK
<1> USE <1>1, <1>2, <1>3 DEF Inv, database
<1>4. TypeOK' /\ Place'
  BY SMT DEF TypeOK, Place
<1>5. RowsSpared' /\ ReceiptStands' /\ FoldersDiffer'
  BY DEF RowsSpared, ReceiptStands, ReceiptAgrees, FoldersDiffer
<1>6. FolderSpared'
  <2>1. \A p \in Paths : p[2] = Placeholder => p # <<o, u>>
    BY SMT
  <2> QED BY <2>1 DEF FolderSpared
<1>7. CopiesStay'
  <2>1. \A a \in my.staged : my.user \in Users => <<a, my.user>> \in Paths
    BY SMT DEF TypeOK, Memory, Paths
  <2>2. \A a \in my.staged : my.user \in Users /\ Copy(a) => Copy(a)'
    BY <2>1 DEF Copy
  <2> QED BY <2>2, SMT DEF CopiesStay, Storing, Place, Matched
<1>8. ToCopy'
  <2>1. \A a \in my.left : <<a, Placeholder>> \in Paths /\ <<a, my.user>> \in Paths
                           /\ <<a, Placeholder>> # <<o, u>>
    BY SMT DEF TypeOK, Memory, Paths, Place, Matched, Storing, Users
  <2>2. my.left # {} => at \in {"copy", "uncopy"}
    BY DEF Place
  <2> QED BY <2>1, <2>2 DEF ToCopy
<1>9. (~unheard => PathsSpared)'
  <2>1. \A a \in Pointed : <<a, pointer[a]>> \in Paths
    BY SMT DEF TypeOK, Pointed, Paths
  <2>2. \A a \in Pointed : Leads(a) => Leads(a)'
    BY <2>1 DEF Leads
  <2> QED BY <2>2 DEF PathsSpared, Pending
<1> QED BY <1>4, <1>5, <1>6, <1>7, <1>8, <1>9

LEMMA Beginning == Init => Inv
<1> SUFFICES ASSUME Init PROVE Inv
  OBVIOUS
<1> USE Constancy, BlankMemory DEF Init
<1>1. PICK copied \in Copied : rows = {Row(t, Placeholder, "copied") : t \in copied}
  OBVIOUS
<1>2. Placeholder \in Users /\ \A o \in Objects : <<o, Placeholder>> \in Paths
  BY SMT DEF Users, Paths
<1>3. [text |-> "copied", owner |-> None] \in Files
  BY SMT DEF Files
<1>4. rows \subseteq Entries /\ \A r \in rows : r.by = "copied"
  BY <1>1, <1>2, SMT DEF Entries, Row
<1>5. file \in [Paths -> Files \cup {None}]
      /\ \A p \in Paths : file[p] = IF p[2] = Placeholder THEN [text |-> "copied", owner |-> None]
                                    ELSE None
  BY <1>3, SMT
<1>6. pointer \in [Pointed -> Users] /\ \A o \in Pointed : pointer[o] = Placeholder
  BY <1>2, SMT DEF Pointed
<1>7. TypeOK
  <2>1. Memory(my) /\ at \in Steps /\ users \subseteq Users /\ verified \subseteq Users
    BY <1>2 DEF Steps
  <2> QED BY <1>4, <1>5, <1>6, <2>1, Zenon DEF TypeOK
<1>11. Place
  BY SMT DEF Place, Storing, Matched, Blank
<1>8. RowsSpared /\ ReceiptStands /\ ToCopy /\ FoldersDiffer
  BY <1>4, SMT DEF RowsSpared, ReceiptStands, ToCopy, FoldersDiffer, Blank
<1>9. FolderSpared /\ CopiesStay
  BY <1>3, <1>5, SMT DEF FolderSpared, CopiesStay, Storing
<1>10. PathsSpared
  <2>1. \A o \in Pointed : Leads(o)
    BY <1>2, <1>3, <1>5, <1>6, SMT DEF Leads, Pointed
  <2> QED BY <2>1, SMT DEF PathsSpared, Storing
<1> QED BY <1>7, <1>8, <1>9, <1>10, <1>11 DEF Inv

LEMMA Induction == Inv /\ [Next]_vars => Inv'
<1> SUFFICES ASSUME Inv, [Next]_vars PROVE Inv'
  OBVIOUS
<1>1. CASE UNCHANGED vars
  <2> USE <1>1 DEF Inv, vars, database
  <2>1. TypeOK' /\ Place' /\ RowsSpared' /\ FolderSpared' /\ ReceiptStands'
    BY DEF TypeOK, Place, RowsSpared, FolderSpared, ReceiptStands, ReceiptAgrees
  <2>2. CopiesStay' /\ ToCopy' /\ FoldersDiffer' /\ (~unheard => PathsSpared)'
    BY DEF CopiesStay, Copy, ToCopy, FoldersDiffer, PathsSpared, Leads, Pending
  <2> QED BY <2>1, <2>2
<1>2. CASE Next
  BY <1>2, ConnectKeeps, FindVerifiedLocalIdentityKeeps, InspectReferencesKeeps,
     RemoveSignupDefaultsKeeps, TransferReferencesKeeps, ListObjectsKeeps,
     CopyAndVerifyKeeps, RemoveFailedCopyKeeps, OwnCopiesKeeps, FinishClaimKeeps,
     CommitKeeps, QueryFailsKeeps, RemoveOriginalsKeeps, RemoveCopiesKeeps, KillKeeps,
     SignUpKeeps, LinkKeeps, WriteKeeps, EditKeeps, UploadKeeps, Zenon DEF Next
<1> QED BY <1>1, <1>2

\* At every place of a claim, what it may still remove is its own copy or an
\* original no record names any more, and what is somebody's own is left out
\* of it (claim_executor.mts, applyIdentityClaim).
THEOREM Invariant == Spec => []Inv
BY Beginning, Induction, PTL DEF Spec

\* Paths of the copied records lead to objects whenever a commit was heard of,
\* and the claims follow the one receipt (claim_executor.mts: copies before
\* the commit, originals removed after it).
THEOREM ClaimsAreWhole == Spec => []ClaimIsWhole
<1>1. Inv => ClaimIsWhole
  BY SMT DEF Inv, ClaimIsWhole, PathsLead, PathsSpared, ClaimsFollowReceipt, ReceiptStands, TypeOK
<1> QED BY <1>1, Invariant, PTL

\* What a step leaves of the rows and the objects that are somebody's own.
Kept ==
  /\ \A r \in rows : r.by = "person" => r \in rows'
  /\ \A p \in Paths : file[p] # None /\ file[p].text = "own" =>
       file'[p] = file[p] \/ p \in raced

\* The bucket whose turn it is has copies or originals to remove.
LEMMA TurnIsGroup ==
  ASSUME my.groups \in SUBSET Buckets, my.groups # {}
  PROVE  Turn \in my.groups
<1> DEFINE places == {i \in DOMAIN Order : Order[i] \in my.groups}
<1>1. places \in SUBSET Nat
  BY Constancy, SMT
<1>2. places # {}
  <2>1. PICK o \in Objects : Bucket[o] \in my.groups
    BY SMT DEF Buckets
  <2>2. PICK i \in 1 .. Len(Order) : Order[i] = Bucket[o]
    BY Constancy
  <2> QED BY <2>1, <2>2, Constancy, SMT
<1>3. Min(places) \in places
  BY <1>1, <1>2, LeastIsMember
<1> QED BY <1>3 DEF Turn

LEMMA StepKeepsOwnData ==
  ASSUME Inv, Next
  PROVE  Kept
<1> USE DEF Kept
<1>1. ASSUME UNCHANGED <<rows, file>>
      PROVE  Kept
  BY <1>1
<1>2. CASE CopyAndVerify
  <2>1. UNCHANGED rows /\ \A p \in Paths : file[p] # None => file'[p] = file[p]
    BY <1>2, SMT DEF CopyAndVerify, database, Inv, TypeOK
  <2> QED BY <2>1
<1>3. CASE RemoveFailedCopy
  <2>1. at = "uncopy" /\ UNCHANGED rows
        /\ file' \in {file, [file EXCEPT ![<<Min(my.left), my.user>>] = None]}
    BY <1>3, Zenon DEF RemoveFailedCopy, database
  <2>2. Min(my.left) \in my.left
    <3>1. my.left \in SUBSET Nat /\ my.left # {}
      BY <2>1, Constancy, SMT DEF Inv, TypeOK, Memory, Place
    <3> QED BY <3>1, LeastIsMember
  <2>3. ASSUME NEW p \in Paths, file[p] # None, file[p].text = "own"
        PROVE  file'[p] = file[p] \/ p \in raced
    <3>1. CASE p = <<Min(my.left), my.user>>
      BY <2>2, <2>3, <3>1 DEF Inv, ToCopy
    <3>2. CASE p # <<Min(my.left), my.user>>
      BY <2>1, <3>2, SMT DEF Inv, TypeOK
    <3> QED BY <3>1, <3>2
  <2> QED BY <2>1, <2>3
<1>4. CASE Commit
  <2>1. CASE UNCHANGED <<database, file>>
    BY <2>1 DEF database
  <2>2. CASE Committed
    <3>1. \A r \in rows : r.by = "person" => r \in rows'
      BY <2>2, SMT DEF Committed, View, Inv, RowsSpared
    <3>2. \A p \in my.owns : file[p] # None => file[p].text = "copied"
      <4> SUFFICES ASSUME NEW p \in my.owns, file[p] # None PROVE file[p].text = "copied"
        OBVIOUS
      <4>1. p \in Paths /\ at = "commit"
        BY <1>4, SMT DEF Commit, Inv, TypeOK, Memory
      <4>2. CASE p[2] = Placeholder
        BY <4>1, <4>2 DEF Inv, FolderSpared
      <4>3. CASE p[1] \in my.staged /\ p[2] = my.user
        <5>1. p = <<p[1], p[2]>>
          BY <4>1, SMT DEF Paths
        <5> QED BY <4>1, <4>3, <5>1, SMT DEF Inv, CopiesStay, Copy, Storing
      <4> QED BY <4>2, <4>3 DEF Inv, CopiesStay
    <3>3. \A p \in Paths : file[p] # None /\ file[p].text = "own" => file'[p] = file[p]
      BY <2>2, <3>2, SMT DEF Committed
    <3> QED BY <3>1, <3>3
  <2> QED BY <1>4, <2>1, <2>2, Zenon DEF Commit
<1>5. CASE RemoveOriginals
  <2>1. UNCHANGED rows /\ (Removed(Placeholder) \/ UNCHANGED file)
    BY <1>5, Zenon DEF RemoveOriginals, database
  <2>2. \A p \in Paths : file'[p] # file[p] => p[2] = Placeholder
    BY <2>1, Cleared DEF Inv
  <2> QED BY <2>1, <2>2, SMT DEF Inv, FolderSpared
<1>6. CASE RemoveCopies
  <2>1. /\ at = "abort" /\ UNCHANGED rows
        /\ UNCHANGED file \/ (my.groups # {} /\ Removed(my.user))
    BY <1>6, Zenon DEF RemoveCopies, StagedFolder, database
  <2>2. CASE UNCHANGED file
    BY <2>1, <2>2
  <2>3. CASE my.groups # {} /\ Removed(my.user)
    <3>1. Turn \in my.groups
      BY <2>3, TurnIsGroup DEF Inv, TypeOK, Memory
    <3>2. \A p \in Paths : file'[p] # file[p] =>
             p[2] = my.user /\ p[1] \in my.staged /\ Bucket[p[1]] = Turn
      BY <2>3, Cleared DEF Inv
    <3>3. ASSUME NEW p \in Paths, file'[p] # file[p]
          PROVE  file[p].text = "copied"
      <4>1. p = <<p[1], p[2]>> /\ Copy(p[1])
        BY <2>1, <3>1, <3>2, <3>3, SMT DEF Inv, CopiesStay, Paths
      <4> QED BY <3>2, <3>3, <4>1 DEF Copy
    <3> QED BY <2>1, <3>3
  <2> QED BY <2>1, <2>2, <2>3
<1>7. ASSUME NEW u \in Accounts, SignUp(u) \/ \E t \in Tables : Write(u, t)
      PROVE  Kept
  BY <1>7, SMT DEF SignUp, Write
<1>8. ASSUME NEW u \in Accounts, NEW t \in Defaults, Edit(u, t)
      PROVE  Kept
  BY <1>8, SMT DEF Edit, Row
<1>9. ASSUME NEW u \in Accounts, NEW o \in Objects, Upload(u, o)
      PROVE  Kept
  BY <1>9, SMT DEF Upload, database, Inv, TypeOK
<1>10. CASE \/ Connect \/ WaitForIdentityConnection \/ Decline
            \/ FindVerifiedLocalIdentity \/ InspectReferences \/ RemoveSignupDefaults
            \/ TransferReferences \/ ListObjects \/ OwnCopies \/ FinishClaim
            \/ QueryFails \/ Kill \/ \E u \in Users : Link(u)
  <2>1. UNCHANGED <<rows, file>>
    BY <1>10, Zenon DEF Connect, WaitForIdentityConnection, Decline,
       FindVerifiedLocalIdentity, InspectReferences, RemoveSignupDefaults,
       TransferReferences, ListObjects, OwnCopies, FinishClaim, QueryFails, Kill, Link,
       database
  <2> QED BY <1>1, <2>1
<1> QED BY <1>2, <1>3, <1>4, <1>5, <1>6, <1>7, <1>8, <1>9, <1>10, Zenon DEF Next

\* A claim never takes or changes what people wrote or uploaded, unless an
\* upload met a copy on its way (claim_executor.mts, defaults and collisions).
THEOREM OwnDataStays == Spec => OwnDataKept
<1>1. Inv /\ [Next]_vars =>
        [ /\ \A r \in rows : r.by = "person" => r \in rows'
          /\ \A p \in Paths : file[p] # None /\ file[p].text = "own" =>
               file'[p] = file[p] \/ p \in raced ]_vars
  BY StepKeepsOwnData DEF Kept
<1> QED BY <1>1, Invariant, PTL DEF Spec, OwnDataKept

-----------------------------------------------------------------------------
\* A row of the account's own that a claim must not join with copied ones.
Own(r, u) == r.owner = u /\ r.by = "person" /\ r.table \notin Preserved \cup Defaults

\* Past the inspection, the account has no row of its own, unless it is
\* associated already or the placeholder has nothing to hand over.
Unmixed ==
  Endowed /\ receipt = None /\ InTransaction /\ at # "inspect" /\ my.user # Placeholder =>
    \A r \in rows : ~Own(r, my.user)

LEMMA UnmixedBegins == Init => Unmixed
<1>1. Init => at = "idle"
  BY DEF Init
<1> QED BY <1>1, SMT DEF Unmixed, InTransaction

\* The inspection refuses an account with rows of its own.
LEMMA InspectionSeparates ==
  ASSUME Inv, Unmixed, InspectReferences
  PROVE  Unmixed'
<1>1. at = "inspect" /\ UNCHANGED <<rows, receipt>>
  BY DEF InspectReferences, database
<1>2. CASE Rollback
  BY <1>1, <1>2, SMT DEF Rollback, Goto, Unmixed, Endowed, InTransaction
<1>3. CASE my' = [my EXCEPT !.already = AlreadyClaimed(my.user)] /\ at' = "defaults"
           /\ (my.user # Placeholder => AlreadyClaimed(my.user) \/ ~Independent(my.user))
  <2>1. my'.user = my.user /\ View = rows
    BY <1>1, <1>3, SMT DEF Inv, TypeOK, Memory, Place, View
  <2>2. ASSUME Endowed, receipt = None, my.user # Placeholder, NEW r \in rows, Own(r, my.user)
        PROVE  FALSE
    <3>1. ~AlreadyClaimed(my.user)
      BY <2>1, <2>2 DEF Endowed, AlreadyClaimed, Has
    <3>2. r.table \in Tables
      BY <2>2, SMT DEF Inv, TypeOK, Entries, Own
    <3> QED BY <1>3, <2>1, <2>2, <3>1, <3>2 DEF Independent, Has, Own
  <2> QED BY <1>1, <1>3, <2>1, <2>2 DEF Unmixed, Endowed
<1> QED BY <1>1, <1>2, <1>3, Zenon DEF InspectReferences, Goto

LEMMA UnmixedKeeps ==
  ASSUME Inv, Unmixed, [Next]_vars
  PROVE  Unmixed'
<1>1. ASSUME UNCHANGED <<rows, receipt>>, at' \in {"idle", "waiting", "review", "inspect", "tidy", "abort"}
      PROVE  Unmixed'
  BY <1>1, SMT DEF Unmixed, InTransaction
<1>2. ASSUME UNCHANGED <<rows, receipt>>, my'.user = my.user, InTransaction, at # "inspect"
      PROVE  Unmixed'
  BY <1>2 DEF Unmixed, Endowed
<1>3. CASE UNCHANGED vars
  BY <1>3 DEF vars, database, Unmixed, Endowed, InTransaction
<1>4. CASE InspectReferences
  BY <1>4, InspectionSeparates
<1>5. CASE \/ RemoveSignupDefaults \/ TransferReferences \/ ListObjects \/ CopyAndVerify
           \/ OwnCopies \/ FinishClaim
  <2>1. UNCHANGED <<rows, receipt>> /\ InTransaction /\ at # "inspect"
    BY <1>5, SMT DEF RemoveSignupDefaults, TransferReferences, ListObjects, CopyAndVerify,
       OwnCopies, FinishClaim, InTransaction, database
  <2>2. my'.user = my.user
    <3>0. Memory(my)
      BY DEF Inv, TypeOK
    <3>1. CASE Rollback
      BY <3>1, Rolled DEF Inv
    <3>2. ASSUME NEW m, NextBucket(m), m.user = my.user, Memory(m)
          PROVE  my'.user = my.user
      BY <3>2, SMT DEF NextBucket, Memory
    <3>3. CASE RemoveSignupDefaults
      BY <3>0, <3>1, <3>3, SMT DEF RemoveSignupDefaults, Memory
    <3>4. CASE TransferReferences
      <4>1. Rollback \/ \E x, y, z : my' = [my EXCEPT !.gone = x, !.new = y, !.buckets = z]
        BY <3>4 DEF TransferReferences
      <4>2. \A x, y, z : [my EXCEPT !.gone = x, !.new = y, !.buckets = z].user = my.user
        BY <3>0, SMT DEF Memory
      <4>3. CASE \E x, y, z : my' = [my EXCEPT !.gone = x, !.new = y, !.buckets = z]
        <5>1. PICK x, y, z : my' = [my EXCEPT !.gone = x, !.new = y, !.buckets = z]
          BY <4>3
        <5>2. my'.user = [my EXCEPT !.gone = x, !.new = y, !.buckets = z].user
          BY <5>1
        <5> QED BY <4>2, <5>2
      <4> QED BY <3>1, <4>1, <4>3
    <3>5. CASE CopyAndVerify
      <4>1. my' = my \/ \E x, y : my' = [my EXCEPT !.left = x, !.staged = y]
        BY <3>5 DEF CopyAndVerify
      <4>2. \A x, y : [my EXCEPT !.left = x, !.staged = y].user = my.user
        BY <3>0, SMT DEF Memory
      <4> QED BY <4>1, <4>2
    <3>6. CASE FinishClaim
      BY <3>0, <3>1, <3>6, SMT DEF FinishClaim, Memory
    <3>7. \A x : [my EXCEPT !.owns = x].user = my.user
      BY <3>0, SMT DEF Memory
    <3>8. CASE OwnCopies
      <4>1. PICK x : NextBucket([my EXCEPT !.owns = x])
        BY <3>8 DEF OwnCopies
      <4> QED BY <3>0, <4>1, SMT DEF NextBucket, Memory
    <3>9. CASE ListObjects
      <4>1. \/ Rollback \/ NextBucket(my) \/ \E x : NextBucket([my EXCEPT !.owns = x])
            \/ my' = [my EXCEPT !.left = Sources]
        BY <3>9, Zenon DEF ListObjects
      <4>2. CASE \E x : NextBucket([my EXCEPT !.owns = x])
        BY <3>0, <4>2, SMT DEF NextBucket, Memory
      <4>3. CASE my' = [my EXCEPT !.left = Sources]
        BY <3>0, <4>3, SMT DEF Memory
      <4>4. CASE NextBucket(my)
        BY <3>0, <3>2, <4>4
      <4> QED BY <3>1, <4>1, <4>2, <4>3, <4>4
    <3> QED BY <1>5, <3>3, <3>4, <3>5, <3>6, <3>8, <3>9
  <2> QED BY <1>2, <2>1, <2>2
<1>6. CASE Commit
  <2>1. at' \in {"tidy", "abort"}
    BY <1>6, SMT DEF Commit, Rollback, Goto
  <2>2. CASE UNCHANGED <<database, file, unheard>>
    BY <1>1, <2>1, <2>2 DEF database
  <2>3. CASE Committed
    <3>1. receipt' # None
      BY <1>6, <2>3, Constancy, SMT DEF Commit, Committed, Inv, Place, Matched, Storing
    <3> QED BY <2>1, <3>1, SMT DEF Unmixed, InTransaction
  <2> QED BY <1>6, <2>2, <2>3, Zenon DEF Commit
<1>7. CASE \/ Connect \/ WaitForIdentityConnection \/ Decline \/ FindVerifiedLocalIdentity
           \/ RemoveFailedCopy \/ QueryFails \/ RemoveOriginals \/ RemoveCopies \/ Kill
  <2>1. UNCHANGED <<rows, receipt>>
    BY <1>7, SMT DEF Connect, WaitForIdentityConnection, Decline,
       FindVerifiedLocalIdentity, RemoveFailedCopy, QueryFails, RemoveOriginals, RemoveCopies,
       Kill, database
  <2>2. at' \in {"idle", "waiting", "review", "inspect", "tidy", "abort"}
    BY <1>7, SMT DEF Connect, WaitForIdentityConnection, Decline,
       FindVerifiedLocalIdentity, RemoveFailedCopy, QueryFails, RemoveOriginals, RemoveCopies,
       Kill, Rollback, End, Goto
  <2> QED BY <1>1, <2>1, <2>2
<1>8. ASSUME UNCHANGED <<receipt, at, my>>,
             \A r \in rows' \ rows : r.owner # Placeholder,
             InTransaction => \A r \in rows' \ rows : ~Own(r, my.user)
      PROVE  Unmixed'
  <2>1. Endowed' => Endowed
    BY <1>8 DEF Endowed
  <2>2. ASSUME Endowed, receipt = None, InTransaction, at # "inspect", my.user # Placeholder,
               NEW r \in rows', Own(r, my.user)
        PROVE  FALSE
    BY <1>8, <2>2 DEF Unmixed
  <2> QED BY <1>8, <2>1, <2>2 DEF Unmixed, InTransaction
<1>9. ASSUME NEW u \in Accounts, SignUp(u)
      PROVE  Unmixed'
  <2>1. \A r \in rows' \ rows : r.by = "signup" /\ r.owner = u
    BY <1>9, SMT DEF SignUp, Row
  <2> QED BY <1>8, <1>9, <2>1, Constancy, SMT DEF SignUp, Own
<1>10. ASSUME NEW u \in Users, Link(u)
       PROVE  Unmixed'
  BY <1>8, <1>10 DEF Link
<1>11. ASSUME NEW u \in Accounts, NEW t \in Tables, Write(u, t)
       PROVE  Unmixed'
  <2>1. \A r \in rows' \ rows : r.owner = u
    BY <1>11, SMT DEF Write, Row
  <2> QED BY <1>8, <1>11, <2>1, Constancy DEF Write, Locked, Own
<1>12. ASSUME NEW u \in Accounts, NEW t \in Defaults, Edit(u, t)
       PROVE  Unmixed'
  <2>1. rows' = (rows \ {Row(t, u, "signup")}) \cup {Row(t, u, "person")}
    BY <1>12, SMT DEF Edit, Row
  <2>2. \A r \in rows' \ rows : r.table \in Defaults /\ r.owner # Placeholder
    BY <2>1, Constancy DEF Row
  <2> QED BY <1>8, <1>12, <2>2 DEF Edit, Own
<1>13. ASSUME NEW u \in Accounts, NEW o \in Objects, Upload(u, o)
       PROVE  Unmixed'
  BY <1>8, <1>13 DEF Upload, database
<1> QED BY <1>3, <1>4, <1>5, <1>6, <1>7, <1>9, <1>10, <1>11, <1>12, <1>13, Zenon DEF Next

\* A new association leaves the account without rows of its own.
LEMMA AssociationSeparates ==
  ASSUME Inv, Unmixed, Endowed, Next, receipt' # receipt
  PROVE  \A r \in rows' : r.owner = receipt' /\ r.by = "person" => r.table \in Preserved \cup Defaults
<1>1. Commit /\ Committed
  <2>1. CASE Commit
    BY <2>1, Zenon DEF Commit, database
  <2>2. CASE ~Commit
    BY <2>2, Zenon DEF Next, Connect, WaitForIdentityConnection, Decline,
       FindVerifiedLocalIdentity, InspectReferences, RemoveSignupDefaults,
       TransferReferences, ListObjects, CopyAndVerify, RemoveFailedCopy, OwnCopies,
       FinishClaim, QueryFails, RemoveOriginals, RemoveCopies, Kill, SignUp, Link, Write,
       Edit, Upload, database
  <2> QED BY <2>1, <2>2
<1>2. at = "commit" /\ receipt' = my.user /\ rows' = View
  BY <1>1 DEF Commit, Committed
<1>3. receipt = None
  BY <1>2 DEF Inv, ReceiptStands, ReceiptAgrees
<1> SUFFICES ASSUME NEW r \in rows', r.owner = my.user, r.by = "person"
             PROVE  r.table \in Preserved \cup Defaults
  BY <1>2
<1>4. r \in rows
  BY <1>2 DEF View, Inv, RowsSpared
<1>5. my.user # Placeholder
  BY <1>4 DEF Inv, RowsSpared
<1> QED BY <1>2, <1>3, <1>4, <1>5, SMT DEF Unmixed, Own, InTransaction

\* A copied account with something to hand over is never joined with an account
\* that has data of its own, also when it writes some during the claim
\* (claim_identity_lookup.mts, for update; claim_executor.mts, independent
\* application data).
THEOREM AccountsStayApart == Spec => NeverMixed
<1>1. Init => Unmixed
  BY UnmixedBegins
<1>2. Inv /\ Unmixed /\ [Next]_vars => Unmixed'
  BY UnmixedKeeps
<1>3. Inv /\ Unmixed /\ [Next]_vars =>
        [ Endowed /\ receipt' # receipt =>
            \A r \in rows' : r.owner = receipt' /\ r.by = "person" =>
              r.table \in Preserved \cup Defaults ]_vars
  BY AssociationSeparates
<1> QED BY <1>1, <1>2, <1>3, Invariant, PTL DEF Spec, NeverMixed
=============================================================================
