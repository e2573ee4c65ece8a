-------------------------- MODULE MigrationHistory --------------------------
(***************************************************************************)
(* The comparisons of migration histories: the files of the application's  *)
(* directory, the history a baseline was captured with, and the ledger of  *)
(* a database (runtime/migrations/migration_history.mts).  A migration is  *)
(* a pair: its version and name, which are one number here, and the text   *)
(* of its file.  The ledger of a Supabase database has no file hash, so    *)
(* whatever is compared with a ledger is compared by name.                 *)
(***************************************************************************)
EXTENDS Integers, Sequences, SequencesExt, FiniteSets

Name(migration) == migration[1]
Names(history) == [i \in DOMAIN history |-> Name(history[i])]

(* A directory holds one file of a version; listed, the versions ascend. *)
IsDirectory(files) == \A f, g \in files : Name(f) = Name(g) => f = g
Before(files, f) == {g \in files : Name(g) < Name(f)}
Inventory(files) ==
    [i \in 1 .. Cardinality(files) |->
        CHOOSE f \in files : Cardinality(Before(files, f)) = i - 1]

(* A history that names its versions in order, each once. *)
IsHistory(history) ==
    /\ history \in Seq(ToSet(history))
    /\ \A i \in DOMAIN history : Name(history[i]) \in Nat
    /\ \A i, j \in DOMAIN history : i < j => Name(history[i]) < Name(history[j])

(* Copying files over a directory replaces those of their names. *)
CopyOver(files, copied) ==
    {f \in files : \A c \in copied : Name(f) # Name(c)} \cup copied

(* A baseline is bound to its files by hash: the directory must begin with *)
(* exactly these, and what follows is the candidate plan.                  *)
RepresentsBaseline(represented, inventory) == IsPrefix(represented, inventory)
Candidates(represented, inventory) ==
    SubSeq(inventory, Len(represented) + 1, Len(inventory))

(* A ledger without rows is taken for one that cannot be read; a ledger is  *)
(* a replay of the first files of an inventory, by name.                   *)
IsReadable(ledger) == ledger # <<>>
IsReplay(ledger, inventory) == IsPrefix(Names(ledger), Names(inventory))

(* What a baseline keeps of the files: those the source's ledger names, in  *)
(* the text they have here; nothing where the names differ.                *)
SourceBundle(ledger, inventory) ==
    IF IsPrefix(Names(ledger), Names(inventory))
    THEN SubSeq(inventory, 1, Len(ledger)) ELSE <<>>

(* The source's history begins the replay; the rest of it are the          *)
(* candidates that have been applied.  Where a snapshot of the schema      *)
(* backs the baseline, other statements under the same name are no         *)
(* difference.                                                             *)
SourceIsPrefix(represented, ledger) == IsPrefix(Names(represented), Names(ledger))
AppliedCandidates(represented, ledger) ==
    SubSeq(Names(ledger), Len(represented) + 1, Len(ledger))

(* What migration up has left to apply; it refuses a directory whose       *)
(* versions do not continue the ledger.                                    *)
Continues(files, ledger) == IsPrefix(Names(ledger), Names(Inventory(files)))
Pending(files, ledger) ==
    SubSeq(Inventory(files), Len(ledger) + 1, Cardinality(files))
=============================================================================
