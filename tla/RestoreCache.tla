------------------------------ MODULE RestoreCache ------------------------------
(***************************************************************************)
(* The restore of a baseline into a runtime's database and the optional    *)
(* cache of its COPY encoding that restores share                          *)
(* (runtime/resources/restore_cache.mts, runtime/recovery/restore.mts).    *)
(*                                                                         *)
(* A restore is one SQL transaction fed by a stream.  The stream is either *)
(* encoded while the baseline file is read, or comes from the cache.  With *)
(* the project's restoreCache policy the file is bound to its identity and *)
(* digest the whole time; without it, which is the default, the file is    *)
(* streamed as it is, after the one verification when the manager began.   *)
(* The cache is a directory with an authentication key, a writer lock that *)
(* nobody takes over, and per generation a copy and its signed receipt.    *)
(* Restores overlap when the manager of a killed command goes on while the *)
(* next command restores.                                                  *)
(***************************************************************************)
EXTENDS Integers, FiniteSets

CONSTANTS Restores,     \* managers that restore, one baseline at a time
          Generations,  \* baseline generations of the artifact root
          Encoded,      \* size of each generation's COPY encoding
          MaximumBytes, \* the policy's budget for the whole cache
          Disturbances, \* bound: kills, signals, edits and removals by hand
          None

KeyBytes == 1
ReceiptBytes == 1

ASSUME RestoreAssumption ==
  /\ IsFiniteSet(Restores)
  /\ Encoded \in [Generations -> Nat \ {0}]
  /\ MaximumBytes \in Nat \ {0} /\ Disturbances \in Nat
  /\ None \notin Nat

VARIABLES
  source,   \* per generation: the text in its file
  key,      \* .authentication-key: None, or which one; 0 is cut short
  lock,     \* .writer-lock: the restore that created it, or None
  receipt,  \* per generation: the key it is signed with and the text, or None
  copy,     \* per generation: the text its cached copy encodes, or None
  temps,    \* temporary files: the restore that opened them, generation, kind
  at,       \* where each manager is
  my,       \* what its restore remembers
  database, \* the texts its last transaction committed
  excused,  \* history: it was signalled, or its files were touched by others
  exposed,  \* history: restores without the policy whose baseline was written
            \* after its verification
  lifted,   \* history: somebody removed cache files by hand
  disturbed

cache == <<key, lock, receipt, copy, temps>>
history == <<excused, exposed, lifted, disturbed>>
vars == <<source, cache, at, my, database, history>>

-----------------------------------------------------------------------------

\* The reviewed text, and another.
Texts == {"reviewed", "altered"}

\* A file that has its final name; a temporary one has the number of its
\* restore instead of 0.
Final(g, kind) == [owner |-> 0, gen |-> g, kind |-> kind]

\* The regular files of the cache directory.
Regular ==
  temps \cup {Final(g, "copy") : g \in {h \in Generations : copy[h] # None}}
        \cup {Final(g, "receipt") : g \in {h \in Generations : receipt[h] # None}}
        \cup (IF key = None THEN {} ELSE {Final(None, "key")})

Size(f) ==
  CASE f.kind = "copy" -> Encoded[f.gen]
    [] f.kind = "receipt" -> ReceiptBytes
    [] f.kind = "key" -> KeyBytes

\* What these files add up to, each of their bytes counted once.
Bytes(f) == {f} \X (1 .. Size(f))
Retained == UNION {Bytes(f) : f \in Regular}
RetainedBytes == Cardinality(Retained)

\* A restore: its number, the generation, whether it is without the policy,
\* whether its file was replaced or written since the first look, what it read
\* of the cache (key, receipt, bytes retained), its temporary files not yet
\* placed, the texts of the chunks sent, whether they come from memory, and
\* where it goes once its temporary files and its lock are removed.
Blank == [run |-> 0, gen |-> None, plain |-> FALSE, moved |-> FALSE, key |-> None,
          receipt |-> None, bytes |-> 0, opened |-> {}, sent |-> {}, cached |-> FALSE,
          then |-> None]

Working(p) == my[p].run # 0

\* Files are told apart by what created them, so a number may be used again
\* once no file of its restore is left.
Used == {my[p].run : p \in Restores} \cup {lock} \cup {t.owner : t \in temps}
FreshNumber == CHOOSE n \in 1 .. Cardinality(Used) + 1 : n \notin Used

Goto(p, step) == at' = [at EXCEPT ![p] = step]

End(p, verdict) ==
  /\ Goto(p, verdict)
  /\ my' = [my EXCEPT ![p] = Blank]

\* The whole file, read through one handle, is the file of the first look
\* and has the digest of the manifest.
VerifySourceHandle(p) == ~my[p].moved /\ source[my[p].gen] = "reviewed"

\* Leaving the cache for good: temporary files and lock first.
Leave(p, step) ==
  /\ Goto(p, "clean")
  /\ my' = [my EXCEPT ![p].then = step]

-----------------------------------------------------------------------------

\* A manager verifies its baseline when it begins (verifyActiveBaseline) and
\* refuses one that has changed; then it prepares the runtime.
Begin(p, g, plain) ==
  /\ ~Working(p) /\ source[g] = "reviewed"
  /\ my' = [my EXCEPT ![p] = [Blank EXCEPT !.run = FreshNumber, !.gen = g, !.plain = plain]]
  /\ database' = [database EXCEPT ![p] = {}]
  /\ excused' = [excused EXCEPT ![p] = FALSE]
  /\ exposed' = exposed \ {p}
  /\ Goto(p, "begin")
  /\ UNCHANGED <<source, cache, lifted, disturbed>>

\* The transaction begins.  Without the policy the file is streamed at once.
BeginPlain(p) ==
  /\ at[p] = "begin" /\ my[p].plain
  /\ Goto(p, "stream")
  /\ UNCHANGED <<source, cache, my, database, history>>

\* With it, this is the first look at the file; one beyond the budget skips the
\* cache.
BeginCached(p) ==
  /\ at[p] = "begin" /\ ~my[p].plain
  /\ my' = [my EXCEPT ![p].moved = FALSE]
  /\ Goto(p, IF Encoded[my[p].gen] > MaximumBytes THEN "verify" ELSE "read")
  /\ UNCHANGED <<source, cache, database, history>>

\* Everything the cache may hold is bound to the text the file has now.
ReadSource(p) ==
  /\ at[p] = "read"
  /\ \/ VerifySourceHandle(p) /\ Goto(p, "inventory") /\ UNCHANGED my
     \/ ~VerifySourceHandle(p) /\ End(p, "failed")
  /\ UNCHANGED <<source, cache, database, history>>

\* An entry that vanishes between listing and lstat, or one that is not
\* known, ends the inventory as a budget that is used up does.
Inventory(p) ==
  /\ at[p] = "inventory"
  /\ \/ RetainedBytes <= MaximumBytes /\ Goto(p, "receipt")
     \/ Goto(p, "verify")
  /\ UNCHANGED <<source, cache, my, database, history>>

ReadReceipt(p) ==
  /\ at[p] = "receipt"
  /\ \/ /\ key \notin {None, 0} /\ receipt[my[p].gen] # None
        /\ my' = [my EXCEPT ![p].key = key, ![p].receipt = receipt[my[p].gen]]
        /\ Goto(p, "copy")
     \/ /\ key \in {None, 0} \/ receipt[my[p].gen] = None
        /\ Goto(p, "lock") /\ UNCHANGED my
  /\ UNCHANGED <<source, cache, database, history>>

VouchedBySignature(p, text) == my[p].receipt.key = my[p].key

\* The receipt is signed with the key and states the digest of these bytes.
Vouched(p, text) ==
  /\ my[p].receipt.key = my[p].key
  /\ my[p].receipt.text = text

\* The chunks of a stream that comes from memory.
FromMemory(p, text) ==
  [my EXCEPT ![p].cached = TRUE, ![p].sent = {text}, ![p].key = None, ![p].receipt = None]

\* A verified copy stays in memory and is the stream; everything else is a
\* miss.
ReadCopy(p) ==
  /\ at[p] = "copy"
  /\ LET text == copy[my[p].gen] IN
     \/ /\ text # None /\ Vouched(p, text)
        /\ my' = FromMemory(p, text)
        /\ Goto(p, "verify")
     \/ /\ text = None \/ ~Vouched(p, text)
        /\ my' = [my EXCEPT ![p].key = None, ![p].receipt = None]
        /\ Goto(p, "lock")
  /\ UNCHANGED <<source, cache, database, history>>

\* A lock that stands taken for a leftover (a seeded fault).
LockTakenOver == lock \in {None} \cup Nat

\* O_EXCL: a lock that stands, whoever left it, sends the restore to the file.
LockIsFree == lock = None

TakeLock(p) ==
  /\ at[p] = "lock"
  /\ \/ LockIsFree /\ lock' = my[p].run /\ Goto(p, "key")
     \/ ~LockIsFree /\ Goto(p, "verify") /\ UNCHANGED lock
  /\ UNCHANGED <<source, key, receipt, copy, temps, my, database, history>>

\* The inventory under the lock, and the key, made when there is none.  A key
\* cut short, an entry that is not known or no room for the key end the writing.
EnsureKey(p) ==
  /\ at[p] = "key"
  /\ \/ /\ key \notin {None, 0}
        /\ my' = [my EXCEPT ![p].key = key, ![p].bytes = RetainedBytes]
        /\ Goto(p, "encode")
        /\ UNCHANGED key
     \/ /\ key = None /\ RetainedBytes + KeyBytes <= MaximumBytes
        /\ key' = disturbed + 1
        /\ my' = [my EXCEPT ![p].key = disturbed + 1, ![p].bytes = RetainedBytes + KeyBytes]
        /\ Goto(p, "encode")
     \/ Leave(p, "verify") /\ UNCHANGED key
  /\ UNCHANGED <<source, lock, receipt, copy, temps, database, history>>

FitsAlone(p) == Encoded[my[p].gen] + ReceiptBytes <= MaximumBytes

\* Room for the copy and its receipt beside all that is retained.
Fits(p) == my[p].bytes + Encoded[my[p].gen] + ReceiptBytes <= MaximumBytes

\* The disk may lack the head room the policy asks for.
Encode(p) ==
  /\ at[p] = "encode"
  /\ \/ Fits(p) /\ Goto(p, "write-copy") /\ my' = [my EXCEPT ![p].bytes = 0]
     \/ Leave(p, "verify")
  /\ UNCHANGED <<source, cache, database, history>>

Temporary(p, kind) == [owner |-> my[p].run, gen |-> my[p].gen, kind |-> kind]

\* A write that fails leaves the opened file to the cleanup.
WriteTemporary(p, kind, next) ==
  LET written == [my EXCEPT ![p].opened = @ \cup {Temporary(p, kind)}] IN
  /\ temps' = temps \cup {Temporary(p, kind)}
  /\ \/ Goto(p, next) /\ my' = written
     \/ Goto(p, "clean") /\ my' = [written EXCEPT ![p].then = "verify"]
  /\ UNCHANGED <<source, key, lock, receipt, copy, database, history>>

WriteCopy(p) == at[p] = "write-copy" /\ WriteTemporary(p, "copy", "write-receipt")
WriteReceipt(p) == at[p] = "write-receipt" /\ WriteTemporary(p, "receipt", "place-copy")

\* rename takes the temporary file from under its name; it fails when
\* somebody removed it.
Place(p, kind) ==
  /\ Temporary(p, kind) \in temps
  /\ temps' = temps \ {Temporary(p, kind)}

Misplaced(p, kind) ==
  /\ Temporary(p, kind) \notin temps
  /\ Leave(p, "verify")
  /\ UNCHANGED temps

\* The copy is placed before the receipt that vouches for it.
PlaceCopy(p) ==
  /\ at[p] = "place-copy"
  /\ \/ /\ Place(p, "copy")
        /\ copy' = [copy EXCEPT ![my[p].gen] = "reviewed"]
        /\ my' = [my EXCEPT ![p].opened = @ \ {Temporary(p, "copy")}]
        /\ Goto(p, "place-receipt")
     \/ Misplaced(p, "copy") /\ UNCHANGED copy
  /\ UNCHANGED <<source, key, lock, receipt, database, history>>

PlaceReceipt(p) ==
  /\ at[p] = "place-receipt"
  /\ \/ /\ Place(p, "receipt")
        /\ receipt' = [receipt EXCEPT ![my[p].gen] = [key |-> my[p].key, text |-> "reviewed"]]
        /\ my' = [FromMemory(p, "reviewed") EXCEPT ![p].opened = {}, ![p].then = "verify"]
        /\ Goto(p, "clean")
     \/ Misplaced(p, "receipt") /\ UNCHANGED receipt
  /\ UNCHANGED <<source, key, lock, copy, database, history>>

\* finally: its own temporary files; one that is gone ends the restore, with
\* the lock left behind.
Clean(p) ==
  /\ at[p] = "clean"
  /\ temps' = temps \ my[p].opened
  /\ \/ /\ my[p].opened \subseteq temps
        /\ Goto(p, "unlock")
        /\ my' = [my EXCEPT ![p].opened = {}, ![p].key = None, ![p].bytes = 0]
     \/ ~(my[p].opened \subseteq temps) /\ End(p, "failed")
  /\ UNCHANGED <<source, key, lock, receipt, copy, database, history>>

\* The lock is removed only while it is the file this restore created.
OwnsLock(p) == lock = my[p].run

Unlock(p) ==
  /\ at[p] = "unlock"
  /\ \/ /\ OwnsLock(p)
        /\ lock' = None
        /\ IF my[p].then = "failed"
             THEN End(p, "failed")
             ELSE Goto(p, my[p].then) /\ my' = [my EXCEPT ![p].then = None]
     \/ ~OwnsLock(p) /\ End(p, "failed") /\ UNCHANGED lock
  /\ UNCHANGED <<source, key, receipt, copy, temps, database, history>>

-----------------------------------------------------------------------------

\* The stream opens: the file is verified as a whole, cached or not.
OpenStream(p) ==
  /\ at[p] = "verify"
  /\ \/ /\ VerifySourceHandle(p)
        /\ Goto(p, IF my[p].cached THEN "end" ELSE "stream")
        /\ UNCHANGED my
     \/ ~VerifySourceHandle(p) /\ End(p, "failed")
  /\ UNCHANGED <<source, cache, database, history>>

\* Two chunks stand for the stream: the text may change between them, and
\* between the look at the identity and the reading.
ReadChunk(p) ==
  /\ at[p] \in {"stream", "last"}
  /\ my' = [my EXCEPT ![p].sent = @ \cup {source[my[p].gen]}]
  /\ Goto(p, IF at[p] = "stream" THEN "last" ELSE "end")
  /\ UNCHANGED <<source, cache, database, history>>

ConsumedByIdentity(p) == my[p].plain \/ ~my[p].moved

\* What was read has the identity and the digest it should have.  Chunks
\* from memory were verified when they were read.  Without the policy nothing
\* is compared.
Consumed(p) ==
  my[p].plain \/ (~my[p].moved /\ (my[p].cached \/ my[p].sent = {"reviewed"}))

EndStream(p) ==
  /\ at[p] = "end"
  /\ \/ Consumed(p) /\ Goto(p, "suffix") /\ UNCHANGED my
     \/ ~Consumed(p) /\ End(p, "failed")
  /\ UNCHANGED <<source, cache, database, history>>

CommitTakesEffect(p) == database' = [database EXCEPT ![p] = my[p].sent]

\* The last statements of the transaction.  Their checks of row counts and
\* foreign keys hold for the reviewed baseline; another text may pass them, too.
Commit(p) ==
  /\ at[p] = "suffix"
  /\ CommitTakesEffect(p)
  /\ End(p, "committed")
  /\ UNCHANGED <<source, cache, history>>

\* A text that cannot be parsed, encoded or loaded, or that fails those checks.
Unloadable(p) ==
  /\ at[p] \in {"last", "end", "suffix"} /\ "altered" \in my[p].sent
  /\ End(p, "failed")
  /\ UNCHANGED <<source, cache, database, history>>

\* Before the commit is sent the database rolls back; after it, the database
\* may have committed although nobody hears of it.
Interrupted(p) ==
  \/ UNCHANGED database
  \/ at[p] = "suffix" /\ CommitTakesEffect(p)

Looks == {"begin", "read", "receipt", "copy", "key", "encode", "place-copy", "verify", "stream",
          "last", "end", "suffix"}

Disturb ==
  /\ disturbed < Disturbances
  /\ disturbed' = disturbed + 1

\* A signal or the deadline, noticed where the code looks for it: what was
\* written under the lock is still removed.
Abort(p) ==
  /\ at[p] \in Looks /\ Disturb
  /\ excused' = [excused EXCEPT ![p] = TRUE]
  /\ Interrupted(p)
  /\ IF at[p] \in {"key", "encode", "place-copy"} THEN Leave(p, "failed") ELSE End(p, "failed")
  /\ UNCHANGED <<source, cache, exposed, lifted>>

\* The manager is killed: nobody removes its files.  A key half written
\* stays cut short.
Kill(p) ==
  /\ Working(p) /\ Disturb
  /\ Interrupted(p)
  /\ End(p, "killed")
  /\ IF at[p] = "key" /\ key = None THEN key' \in {None, 0} ELSE UNCHANGED key
  /\ UNCHANGED <<source, lock, receipt, copy, temps, excused, exposed, lifted>>

-----------------------------------------------------------------------------

Touch(S) == excused' = [p \in Restores |-> excused[p] \/ p \in S]

\* Somebody writes the baseline file; a write within one tick of the clock
\* that keeps the size keeps the identity too.
EditSource(g, text) ==
  LET readers == {p \in Restores : my[p].gen = g} IN
  /\ Disturb
  /\ source' = [source EXCEPT ![g] = text]
  /\ \/ my' = [p \in Restores |-> IF p \in readers THEN [my[p] EXCEPT !.moved = TRUE] ELSE my[p]]
     \/ UNCHANGED my
  /\ Touch(readers)
  /\ exposed' = exposed \cup {p \in readers : my[p].plain}
  /\ UNCHANGED <<cache, at, database, lifted>>

\* Somebody writes the cached copy.
EditCopy(g) ==
  /\ Disturb
  /\ copy[g] # None
  /\ copy' = [copy EXCEPT ![g] = "altered"]
  /\ UNCHANGED <<source, key, lock, receipt, temps, at, my, database, excused, exposed, lifted>>

\* Somebody empties the cache, the lock of a live or dead writer included.
Empty ==
  /\ Disturb
  /\ key' = None /\ lock' = None /\ temps' = {}
  /\ receipt' = [g \in Generations |-> None]
  /\ copy' = [g \in Generations |-> None]
  /\ lifted' = TRUE
  /\ Touch({p \in Restores : Working(p)})
  /\ UNCHANGED <<source, at, my, database, exposed>>

Init ==
  /\ source = [g \in Generations |-> "reviewed"]
  /\ key = None /\ lock = None /\ temps = {}
  /\ receipt = [g \in Generations |-> None]
  /\ copy = [g \in Generations |-> None]
  /\ at = [p \in Restores |-> "idle"]
  /\ my = [p \in Restores |-> Blank]
  /\ database = [p \in Restores |-> {}]
  /\ excused = [p \in Restores |-> FALSE]
  /\ exposed = {} /\ lifted = FALSE
  /\ disturbed = 0

Next ==
  \/ \E p \in Restores :
       \/ \E g \in Generations, plain \in BOOLEAN : Begin(p, g, plain)
       \/ BeginPlain(p) \/ BeginCached(p)
       \/ ReadSource(p) \/ Inventory(p) \/ ReadReceipt(p) \/ ReadCopy(p)
       \/ TakeLock(p) \/ EnsureKey(p) \/ Encode(p) \/ WriteCopy(p) \/ WriteReceipt(p)
       \/ PlaceCopy(p) \/ PlaceReceipt(p) \/ Clean(p) \/ Unlock(p)
       \/ OpenStream(p) \/ ReadChunk(p) \/ EndStream(p) \/ Commit(p)
       \/ Unloadable(p) \/ Abort(p) \/ Kill(p)
  \/ \E g \in Generations : (\E text \in Texts : EditSource(g, text)) \/ EditCopy(g)
  \/ Empty

Spec == Init /\ [][Next]_vars

-----------------------------------------------------------------------------

\* With the policy, a restore never commits anything but the reviewed baseline,
\* whole: not a text that changed under the stream or before it, not a copy
\* somebody edited, not a cache a killed writer left (restore_cache.mts,
\* verifiedSourceChunks and the verified hit; the restore transaction cannot
\* commit on a drift).  Without the policy, it may commit another text only if
\* somebody wrote the baseline's file after the manager had verified it.
RestoredIsReviewed ==
  \A p \in Restores : p \notin exposed => database[p] \subseteq {"reviewed"}

\* The cache stays within the policy's budget, temporary files included,
\* however writers overlap and die, as long as nobody removes files by hand
\* under a writer (restore_cache.mts, retainedBytes under the writer lock).
BudgetKept == ~lifted => RetainedBytes <= MaximumBytes

\* The cache is optional: whatever state killed or concurrent restores leave
\* it in, it never makes a restore fail.  One fails only after a signal, or when
\* somebody changes the baseline or removes cache files meanwhile.
CacheNeverCosts == \A p \in Restores : at[p] = "failed" => excused[p]

=============================================================================
