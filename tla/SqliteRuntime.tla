----------------------------- MODULE SqliteRuntime -----------------------------
(***************************************************************************)
(* The embedded SQLite runtime of one project (targets/sqlite/*.mts and    *)
(* baseline/producers/sqlite_baseline.mts): one database file, the private *)
(* marker that says what it holds, the journal of a migration, the         *)
(* connection file of the application, and the baseline they come from.    *)
(*                                                                         *)
(* A manager is a child of the command that holds the project's operation  *)
(* lock; a migration runs in a worker, a child of the manager.  Killing a  *)
(* parent leaves its child at work: an orphaned manager notices at its     *)
(* next look at the lock, an orphaned worker never.  status and verify     *)
(* change nothing and are left out.                                        *)
(* Every check is by identity of the file, since any of them may have been *)
(* replaced meanwhile; a check and the system call after it are one step.  *)
(***************************************************************************)
EXTENDS Naturals, FiniteSets, SqlitePolicy

CONSTANTS Managers,     \* manager processes, each for one command at a time
          Files,        \* pool of file identities, numbers from 1
          Disturbances, \* bound: kills, edits and baselines after the first
          MaxPlan,      \* bound: migration files after the baseline
          Source,       \* the schema of the source database
          Policy,       \* the privacy policy in each of its versions
          None

\* What a marker says: the configuration and the baseline, the database file and
\* the migrations in it, whether its worker is gone, its journal and connection file.
Markers ==
  [config : Nat, base : Nat, db : Files, applied : Nat,
   state : {"running", "stopped", "dirty"},
   closure : {"confirmed", "pending", "unconfirmed"},
   journal : Files \cup {0}, env : Files \cup {0}]

ASSUME SqliteAssumption ==
  /\ Files \subseteq Nat \ {0} /\ IsFiniteSet(Files)
  /\ Disturbances \in Nat /\ MaxPlan \in Nat
  /\ None \notin Managers \cup Markers
  /\ 1 .. Disturbances + 1 \subseteq DOMAIN Policy

VARIABLES
  inputs,   \* the reviewed inputs: configuration, migration files, policy
  active,   \* the active baseline, 0 before the first
  policy,   \* the privacy policy it was built under
  lock,     \* whose command holds the project's operation lock
  dir,      \* runtime/sqlite: absent, bare (no owner record yet) or owned
  leaf,     \* the files that stand under each kind of name
  disk,     \* what each database file holds
  marker,   \* runtime.json
  raw,      \* raw copies of the source in the directories of generations
  at,       \* where each manager is
  cmd,      \* the command it executes
  seen,     \* the inputs and the baseline it loaded
  held,     \* the marker it read
  valid,    \* the file it read that marker from still stands
  own,      \* the files and the state it has to remember
  work,     \* its migration worker
  killed,   \* processes killed so far
  edited,   \* edits of the reviewed inputs so far
  upset     \* history: a command other than a migration ended in the middle

files == <<dir, leaf, disk, marker>>
memory == <<at, cmd, seen, held, valid, own>>
world == <<inputs, active, policy, raw>>
counts == <<killed, edited, upset>>
vars == <<world, lock, files, memory, work, counts>>

-----------------------------------------------------------------------------

Commands == {"reset", "start", "migrate", "stop", "discard", "baseline"}

Names == {"database", "journal", "environment", "staged", "previous", "metadata"}

NoWork == [state |-> "none", file |-> 0, journal |-> 0, from |-> 0, to |-> 0]

Live(w) == w.state \in {"queued", "open", "inside"}

\* A new file's identity (inode, device, birth time) is one nobody refers to;
\* databases, journals and connection files are never mistaken for each other.
Least(S) == CHOOSE f \in S : \A g \in S : f <= g

Known(field) ==
  (IF marker = None THEN {} ELSE {marker[field]})
    \cup {held[m][field] : m \in {n \in Managers : held[n] # None}}

NewDatabase ==
  Files \ ((UNION {leaf[n] : n \in {"database", "staged", "previous"}})
             \cup Known("db") \cup {own[m].db : m \in Managers}
             \cup {own[m].old : m \in Managers} \cup {work[m].file : m \in Managers})

NewJournal ==
  Files \ (leaf["journal"] \cup Known("journal") \cup {own[m].side : m \in Managers}
             \cup {work[m].journal : m \in Managers})

NewEnvironment ==
  Files \ (leaf["environment"] \cup Known("env") \cup {own[m].side : m \in Managers})

Links(n, f) ==
  IF n \in {"database", "staged", "previous"}
    THEN Cardinality({x \in {"database", "staged", "previous"} : f \in leaf[x]})
    ELSE Cardinality({x \in {n} : f \in leaf[x]})

\* assertSqliteFile: that very file stands under the name, and under no other.
Stands(n, f) == leaf[n] = {f} /\ Links(n, f) = 1

\* sidecarPresent: only a journal whose worker is known to be gone may be absent.
SidecarsStand(mk) ==
  mk.journal # 0 => \/ Stands("journal", mk.journal)
                    \/ leaf["journal"] = {} /\ mk.closure = "confirmed"

\* assertLeaves and the leaf check of reset: nothing in the directory but what
\* the marker knows, and the caller's own staged copy.
Leaves(mk, mine) ==
  /\ dir = "owned"
  /\ leaf["staged"] \subseteq mine /\ leaf["previous"] = {} /\ leaf["metadata"] = {}
  /\ IF mk = None THEN leaf["database"] = {} /\ leaf["journal"] = {}
     ELSE leaf["journal"] # {} => mk.journal # 0

LeavesProven(mk) ==
  /\ Leaves(mk, {})
  /\ mk # None => /\ mk.closure = "confirmed"
                  /\ Stands("database", mk.db) /\ SidecarsStand(mk)

\* assertEnvironment: the connection file is the one the marker knows, or none.
EnvironmentProven(mk) ==
  IF mk = None \/ leaf["environment"] = {}
    THEN leaf["environment"] = {} /\ (mk # None => mk.env = 0)
    ELSE mk.env # 0 /\ Stands("environment", mk.env)

\* The verify job of a worker: the ledger it expects, and no open transaction.
\* It compares histories and schemas; which baseline it reads it cannot tell.
Verifies(history) ==
  \E d \in disk : leaf["database"] = {d.id} /\ d.applied = history /\ ~d.hot

\* lsof finds nobody with the file open.
NoHandles(mk) ==
  \A m \in Managers : Live(work[m]) /\ work[m].state # "queued" => work[m].file # mk.db

\* readMarker: recovery accepts a marker of other inputs, never another file.
Readable(mk, s, recovery) ==
  /\ mk # None /\ Stands("database", mk.db)
  /\ recovery \/ (/\ mk.config = s.input.config /\ mk.base = s.base
                  /\ mk.applied <= s.input.plan)

\* assertParentOperation: the lock is still that of this manager's command.
ParentOperates(m) == lock = m

\* The migration files after the baseline, as the command has read them.
Candidates(m) == seen[m].input.plan

\* inputs(): not cancelled, the lock is still its command's, nothing edited.
Proper(m) ==
  /\ ParentOperates(m)
  /\ seen[m] = [input |-> inputs, base |-> active]

Go(m, where) == at' = [at EXCEPT ![m] = where]

Put(n, set) == leaf' = [leaf EXCEPT ![n] = set]

\* A marker written by m: the file every other manager read is gone.
Write(m, mk) ==
  /\ marker' = mk
  /\ held' = [held EXCEPT ![m] = mk]
  /\ valid' = [n \in Managers |-> n = m /\ mk # None]

Read(m, mk) ==
  /\ held' = [held EXCEPT ![m] = mk]
  /\ valid' = [valid EXCEPT ![m] = mk # None]

\* readSqliteBaseline: there is one, and it was built under the policy of today.
BaselineStands == active # 0 /\ policy = inputs.policy

\* What a manager remembers besides its marker: the staged copy, the connection
\* file or journal it made, the database it retained, the state it interrupts.
Nothing == [db |-> 0, side |-> 0, old |-> 0, was |-> "stopped"]

Step(m, from, to) == at[m] = from /\ Go(m, to)

\* The bound on everything that disturbs a behaviour.
Calm == killed + edited + active + raw < Disturbances + (IF active = 0 THEN 0 ELSE 1)

-----------------------------------------------------------------------------
(* Commands come, end, fail and are killed.                                *)

Begin(m, c) ==
  /\ at[m] = "idle" /\ ~Live(work[m])
  /\ c # "baseline" => BaselineStands
  /\ lock = None /\ lock' = m
  /\ Go(m, "open")
  /\ cmd' = [cmd EXCEPT ![m] = c]
  /\ seen' = [seen EXCEPT ![m] = [input |-> inputs, base |-> active]]
  /\ UNCHANGED <<world, files, held, valid, own, work, counts>>

Forget(m) ==
  /\ Go(m, "idle")
  /\ cmd' = [cmd EXCEPT ![m] = "none"]
  /\ seen' = [seen EXCEPT ![m] = None]
  /\ held' = [held EXCEPT ![m] = None]
  /\ valid' = [valid EXCEPT ![m] = FALSE]
  /\ own' = [own EXCEPT ![m] = Nothing]
  /\ lock' = IF lock = m THEN None ELSE lock
  /\ work' = [work EXCEPT ![m] = IF Live(@) THEN @ ELSE NoWork]

Return(m) ==
  /\ at[m] = "ok"
  /\ Forget(m)
  /\ UNCHANGED <<world, files, counts>>

\* Steps after which a command that does not go on leaves something behind.
Delicate == {"owner", "swap", "handles", "retire", "disable", "retain", "unlink",
             "install", "unstage", "enable", "mark", "tidy", "sidecars",
             "database", "marker", "record", "directory"}

Marking == {"mark", "migrating", "settled", "spoil", "lost"}

\* An error, a refusal or the cancellation, at any step.  The catch of migrate
\* records whether its worker is known to be gone; nothing else is put back.
Fail(m) ==
  /\ at[m] \notin {"idle", "ok", "migrating", "spoil", "lost", "settle", "settled"}
  /\ upset' = (upset \/ at[m] \in Delicate)
  /\ Forget(m)
  /\ UNCHANGED <<world, files, killed, edited>>

\* The manager is killed; the draft of a marker it was writing may stay.
Kill(m) ==
  /\ at[m] # "idle" /\ Calm
  /\ killed' = killed + 1
  /\ upset' = (upset \/ at[m] \in Delicate)
  /\ Forget(m)
  /\ \/ UNCHANGED leaf
     \/ at[m] \in Marking /\ Put("metadata", {Least(Files)})
  /\ UNCHANGED <<world, dir, disk, marker, edited>>

\* The command is killed and its manager works on without the lock.
Orphan(m) ==
  /\ lock = m /\ at[m] # "idle" /\ cmd[m] # "baseline" /\ Calm
  /\ lock' = None /\ killed' = killed + 1
  /\ UNCHANGED <<world, files, memory, work, edited, upset>>

Edit ==
  /\ Calm /\ edited' = edited + 1
  /\ \/ inputs' = [inputs EXCEPT !.config = @ + 1]
     \/ inputs' = [inputs EXCEPT !.policy = @ + 1]
     \/ \E n \in 0 .. MaxPlan \ {inputs.plan} : inputs' = [inputs EXCEPT !.plan = n]
  /\ UNCHANGED <<active, policy, raw, lock, files, memory, work, killed, upset>>

-----------------------------------------------------------------------------
(* What the commands check before they change anything.                    *)

MakeDirectory(m) ==
  /\ Step(m, "open", "owner") /\ cmd[m] = "reset" /\ Proper(m)
  /\ dir = "absent" /\ dir' = "bare"
  /\ UNCHANGED <<world, lock, leaf, disk, marker, cmd, seen, held, valid, own, work, counts>>

OwnDirectory(m) ==
  /\ Step(m, "owner", "open") /\ dir' = "owned"
  /\ UNCHANGED <<world, lock, leaf, disk, marker, cmd, seen, held, valid, own, work, counts>>

\* readMarker, assertLeaves, assertEnvironment and the refusal of a dirty runtime.
Open(m) ==
  /\ at[m] = "open" /\ Proper(m)
  /\ LeavesProven(marker)
  /\ \/ cmd[m] = "reset" /\ marker = None /\ EnvironmentProven(None) /\ Go(m, "stage")
     \/ /\ cmd[m] \in {"reset", "discard"} /\ Readable(marker, seen[m], TRUE)
        /\ cmd[m] = "reset" => EnvironmentProven(marker)
        /\ Go(m, "closed")
     \/ /\ cmd[m] \in {"start", "migrate"} /\ Readable(marker, seen[m], FALSE)
        /\ EnvironmentProven(marker) /\ marker.state # "dirty" /\ Go(m, "check")
  /\ Read(m, marker)
  /\ UNCHANGED <<world, lock, files, cmd, seen, own, work, counts>>

\* closed: nobody has the files open and, unless dirty, the ledger is right.
Close(m) ==
  /\ at[m] = "closed"
  /\ NoHandles(held[m])
  /\ held[m].state # "dirty" => valid[m] /\ Verifies(held[m].applied)
  /\ LeavesProven(held[m])
  /\ Go(m, IF cmd[m] = "reset" THEN "stage" ELSE "discard")
  /\ UNCHANGED <<world, lock, files, cmd, seen, held, valid, own, work, counts>>

\* verifyMarker: first the worker's look, then everything is proven again.
Check(m) ==
  /\ Step(m, "check", "checked") /\ Verifies(held[m].applied)
  /\ UNCHANGED <<world, lock, files, cmd, seen, held, valid, own, work, counts>>

Checked(m) ==
  /\ at[m] = "checked" /\ Proper(m) /\ dir = "owned"
  /\ valid[m] /\ Stands("database", held[m].db) /\ EnvironmentProven(held[m])

\* migrate has nothing to do.
Verified(m) ==
  /\ Checked(m) /\ cmd[m] = "migrate" /\ held[m].applied = Candidates(m)
  /\ Go(m, "ok")
  /\ UNCHANGED <<world, lock, files, cmd, seen, held, valid, own, work, counts>>

-----------------------------------------------------------------------------
(* reset: a verified copy of the baseline takes the place of the database. *)

Stage(m) ==
  /\ Step(m, "stage", "swap") /\ BaselineStands /\ NewDatabase # {}
  /\ LET f == Least(NewDatabase) IN
       /\ Put("staged", leaf["staged"] \cup {f})
       /\ disk' = disk \cup {[id |-> f, base |-> active, applied |-> 0, hot |-> FALSE]}
       /\ own' = [own EXCEPT ![m].db = f]
  /\ UNCHANGED <<world, lock, dir, marker, cmd, seen, held, valid, work, counts>>

Swap(m) ==
  /\ at[m] = "swap" /\ Proper(m)
  /\ own[m].db \in leaf["staged"] /\ Leaves(held[m], {own[m].db})
  /\ \/ held[m] = None /\ Go(m, "install")
     \/ held[m] # None /\ valid[m] /\ Go(m, "handles")
  /\ UNCHANGED <<world, lock, files, cmd, seen, held, valid, own, work, counts>>

\* The second lsof takes up to its five seconds; what follows it is synchronous.
Handles(m) ==
  /\ Step(m, "handles", "retire") /\ NoHandles(held[m])
  /\ UNCHANGED <<world, lock, files, cmd, seen, held, valid, own, work, counts>>

Retire(m) ==
  /\ Step(m, "retire", "disable")
  /\ Stands("database", held[m].db) /\ SidecarsStand(held[m])
  /\ Put("journal", IF held[m].journal = 0 THEN leaf["journal"] ELSE {})
  /\ UNCHANGED <<world, lock, dir, disk, marker, cmd, seen, held, valid, own, work, counts>>

Disable(m) ==
  /\ Step(m, "disable", "retain")
  /\ EnvironmentProven(held[m]) /\ Put("environment", {})
  /\ UNCHANGED <<world, lock, dir, disk, marker, cmd, seen, held, valid, own, work, counts>>

\* The old database keeps a second name until the new marker stands.
Retain(m) ==
  /\ Step(m, "retain", "unlink") /\ leaf["database"] # {}
  /\ Put("previous", leaf["previous"] \cup leaf["database"])
  /\ own' = [own EXCEPT ![m].old = held[m].db]
  /\ UNCHANGED <<world, lock, dir, disk, marker, cmd, seen, held, valid, work, counts>>

\* Without its last name a file is gone.
Drop(n, f) ==
  /\ Put(n, leaf[n] \ {f})
  /\ disk' = IF Links(n, f) = 1 THEN {d \in disk : d.id # f} ELSE disk

Unlink(m) ==
  /\ Step(m, "unlink", "install")
  /\ \E f \in leaf["database"] : Drop("database", f)
  /\ UNCHANGED <<world, lock, dir, marker, cmd, seen, held, valid, own, work, counts>>

Install(m) ==
  /\ Step(m, "install", "unstage")
  /\ leaf["database"] = {} /\ own[m].db \in leaf["staged"]
  /\ Put("database", {own[m].db})
  /\ UNCHANGED <<world, lock, dir, disk, marker, cmd, seen, held, valid, own, work, counts>>

Unstage(m) ==
  /\ Step(m, "unstage", "enable") /\ Drop("staged", own[m].db)
  /\ UNCHANGED <<world, lock, dir, marker, cmd, seen, held, valid, own, work, counts>>

\* enableEnvironment: created exclusively, its identity goes into the marker.
MakeEnvironment(m) ==
  /\ leaf["environment"] = {} /\ NewEnvironment # {}
  /\ Put("environment", {Least(NewEnvironment)})
  /\ own' = [own EXCEPT ![m].side = Least(NewEnvironment)]

Enable(m) ==
  /\ Step(m, "enable", "mark") /\ Stands("database", own[m].db) /\ MakeEnvironment(m)
  /\ UNCHANGED <<world, lock, dir, disk, marker, cmd, seen, held, valid, work, counts>>

\* A seeded fault: whatever marker stands there is replaced.
CurrentAssumed(m) == held[m] = None => marker = None

\* writeMarker: over exactly the marker that was read, or where there is none.
Current(m) == IF held[m] = None THEN marker = None ELSE valid[m]

MarkReset(m) ==
  /\ at[m] = "mark" /\ cmd[m] = "reset" /\ Current(m)
  /\ Write(m, [config |-> seen[m].input.config, base |-> seen[m].base,
               db |-> own[m].db, applied |-> 0, state |-> "running",
               closure |-> "confirmed", journal |-> 0, env |-> own[m].side])
  /\ Go(m, IF held[m] = None THEN "final" ELSE "tidy")
  /\ UNCHANGED <<world, lock, dir, leaf, disk, cmd, seen, own, work, counts>>

Tidy(m) ==
  /\ Step(m, "tidy", "final") /\ Proper(m)
  /\ own[m].old \in leaf["previous"] /\ Links("previous", own[m].old) = 1
  /\ Drop("previous", own[m].old)
  /\ UNCHANGED <<world, lock, dir, marker, cmd, seen, held, valid, own, work, counts>>

Final(m) ==
  /\ Step(m, "final", "ok") /\ Proper(m)
  /\ UNCHANGED <<world, lock, files, cmd, seen, held, valid, own, work, counts>>

-----------------------------------------------------------------------------
(* start and stop: the connection file, then the marker.                   *)

EnableStart(m) ==
  /\ Checked(m) /\ cmd[m] = "start" /\ Go(m, "mark")
  /\ \/ /\ held[m].env # 0
        /\ own' = [own EXCEPT ![m].side = held[m].env] /\ UNCHANGED leaf
     \/ held[m].env = 0 /\ MakeEnvironment(m)
  /\ UNCHANGED <<world, lock, dir, disk, marker, cmd, seen, held, valid, work, counts>>

MarkStart(m) ==
  /\ Step(m, "mark", "ok") /\ cmd[m] = "start" /\ Current(m)
  /\ Write(m, [held[m] EXCEPT !.state = "running", !.env = own[m].side])
  /\ UNCHANGED <<world, lock, dir, leaf, disk, cmd, seen, own, work, counts>>

DisableStop(m) ==
  /\ Step(m, "open", "mark") /\ cmd[m] = "stop" /\ Proper(m)
  /\ Readable(marker, seen[m], FALSE) /\ LeavesProven(marker)
  /\ EnvironmentProven(marker) /\ Put("environment", {})
  /\ Read(m, marker)
  /\ UNCHANGED <<world, lock, dir, disk, marker, cmd, seen, own, work, counts>>

MarkStop(m) ==
  /\ Step(m, "mark", "ok") /\ cmd[m] = "stop" /\ Current(m)
  /\ Write(m, [held[m] EXCEPT !.env = 0,
                 !.state = IF @ = "dirty" THEN "dirty" ELSE "stopped"])
  /\ UNCHANGED <<world, lock, dir, leaf, disk, cmd, seen, own, work, counts>>

-----------------------------------------------------------------------------
(* migrate: the journal is claimed and the marker dirty before the worker  *)
(* begins; trust returns only when everything has been proven again.       *)

ClaimJournal(m) ==
  /\ Checked(m) /\ cmd[m] = "migrate" /\ held[m].applied < Candidates(m)
  /\ Go(m, "mark") /\ leaf["journal"] = {} /\ NewJournal # {}
  /\ Put("journal", {Least(NewJournal)})
  /\ own' = [own EXCEPT ![m].side = Least(NewJournal), ![m].was = held[m].state]
  /\ UNCHANGED <<world, lock, dir, disk, marker, cmd, seen, held, valid, work, counts>>

\* A seeded fault: the dirty marker does not name the journal.
MarkDirtyBare(m) ==
  /\ Step(m, "mark", "migrating") /\ cmd[m] = "migrate" /\ Current(m)
  /\ Write(m, [held[m] EXCEPT !.state = "dirty", !.closure = "pending"])
  /\ work' = [work EXCEPT ![m] =
                [state |-> "queued", file |-> 0, journal |-> own[m].side,
                 from |-> held[m].applied, to |-> Candidates(m)]]
  /\ UNCHANGED <<world, lock, dir, leaf, disk, cmd, seen, own, counts>>

MarkDirty(m) ==
  /\ Step(m, "mark", "migrating") /\ cmd[m] = "migrate" /\ Current(m)
  /\ Write(m, [held[m] EXCEPT !.state = "dirty", !.closure = "pending",
                              !.journal = own[m].side])
  /\ work' = [work EXCEPT ![m] =
                [state |-> "queued", file |-> 0, journal |-> own[m].side,
                 from |-> held[m].applied, to |-> Candidates(m)]]
  /\ UNCHANGED <<world, lock, dir, leaf, disk, cmd, seen, own, counts>>

\* The result of an orphaned worker goes nowhere.
Work(m, state) ==
  work' = [work EXCEPT ![m] = IF at[m] = "idle" /\ state \in {"done", "failed"}
                                THEN NoWork ELSE [@ EXCEPT !.state = state]]

Content(f, applied, hot) ==
  disk' = {IF d.id = f THEN [d EXCEPT !.applied = applied, !.hot = hot] ELSE d :
             d \in disk}

\* The worker opens whatever stands under the name; it knows the journal and
\* the ledger to expect, not the database.
WorkerOpen(m) ==
  /\ work[m].state = "queued"
  /\ Stands("journal", work[m].journal) /\ Verifies(work[m].from)
  /\ \E f \in leaf["database"] :
       Links("database", f) = 1 /\ work' = [work EXCEPT ![m].state = "open", ![m].file = f]
  /\ UNCHANGED <<world, lock, files, memory, counts>>

WorkerBegin(m) ==
  /\ work[m].state = "open" /\ Stands("journal", work[m].journal)
  /\ \A d \in disk : d.id = work[m].file => ~d.hot
  /\ Work(m, "inside") /\ Content(work[m].file, work[m].from, TRUE)
  /\ UNCHANGED <<world, lock, dir, leaf, marker, memory, counts>>

\* SQLite removes the journal at the end of the transaction.
WorkerCommit(m) ==
  /\ work[m].state = "inside" /\ Stands("journal", work[m].journal)
  /\ Work(m, IF Stands("database", work[m].file) THEN "done" ELSE "failed")
  /\ Content(work[m].file, work[m].to, FALSE) /\ Put("journal", {})
  /\ UNCHANGED <<world, lock, dir, marker, memory, counts>>

WorkerRollback(m) ==
  /\ work[m].state = "inside" /\ Work(m, "failed")
  /\ Content(work[m].file, work[m].from, FALSE) /\ Put("journal", {})
  /\ UNCHANGED <<world, lock, dir, marker, memory, counts>>

\* It refuses, or dies of its deadline, its memory or a signal: inside the
\* transaction that leaves the database half changed beside a hot journal.
WorkerDies(m) ==
  /\ Live(work[m]) /\ Work(m, "failed")
  /\ UNCHANGED <<world, lock, files, memory, counts>>

\* runSqliteWorkerJob: a result, or the failure of a process known to be closed;
\* otherwise its closure is in doubt, and so it is when the last verify's is.
Migrated(m) ==
  /\ Step(m, "migrating", "settle") /\ work[m].state = "done" /\ valid[m]
  /\ Write(m, [held[m] EXCEPT !.closure = "confirmed"])
  /\ UNCHANGED <<world, lock, dir, leaf, disk, cmd, seen, own, work, counts>>

MigrationFails(m) ==
  /\ \/ at[m] = "migrating" /\ work[m].state \in {"done", "failed"} /\ Go(m, "spoil")
     \/ at[m] = "migrating" /\ Go(m, "lost")
     \/ at[m] \in {"settle", "settled"} /\ (Go(m, "spoil") \/ Go(m, "lost"))
  /\ UNCHANGED <<world, lock, files, cmd, seen, held, valid, own, work, counts>>


Closure(m) == IF at[m] = "lost" THEN "unconfirmed" ELSE "confirmed"

\* The catch of migrate: if even this write fails the pending receipt stays.
Spoil(m) ==
  /\ at[m] \in {"spoil", "lost"}
  /\ \/ valid[m] /\ marker' = [held[m] EXCEPT !.closure = Closure(m)]
     \/ UNCHANGED marker
  /\ Go(m, "idle")
  /\ cmd' = [cmd EXCEPT ![m] = "none"] /\ seen' = [seen EXCEPT ![m] = None]
  /\ held' = [held EXCEPT ![m] = None]
  /\ valid' = [n \in Managers |-> n # m /\ valid[n] /\ marker' = marker]
  /\ own' = [own EXCEPT ![m] = Nothing]
  /\ lock' = IF lock = m THEN None ELSE lock
  /\ work' = [work EXCEPT ![m] = IF Live(@) THEN @ ELSE NoWork]
  /\ UNCHANGED <<world, dir, leaf, disk, counts>>

Settled(m) ==
  /\ Proper(m) /\ LeavesProven(held[m]) /\ EnvironmentProven(held[m])

Settle(m) ==
  /\ Step(m, "settle", "settled") /\ Settled(m) /\ Verifies(Candidates(m))
  /\ UNCHANGED <<world, lock, files, cmd, seen, held, valid, own, work, counts>>

MarkMigrated(m) ==
  /\ Step(m, "settled", "ok") /\ Settled(m) /\ leaf["journal"] = {} /\ valid[m]
  /\ Write(m, [held[m] EXCEPT !.applied = Candidates(m), !.state = own[m].was,
                              !.journal = 0])
  /\ UNCHANGED <<world, lock, dir, leaf, disk, cmd, seen, own, work, counts>>

-----------------------------------------------------------------------------
(* discard, file by file; and the baseline.                                *)

Discard(m) ==
  /\ Step(m, "discard", "sidecars") /\ Proper(m) /\ valid[m]
  /\ EnvironmentProven(held[m]) /\ Put("environment", {})
  /\ UNCHANGED <<world, lock, dir, disk, marker, cmd, seen, held, valid, own, work, counts>>

DiscardSidecars(m) ==
  /\ Step(m, "sidecars", "database") /\ SidecarsStand(held[m])
  /\ Put("journal", IF held[m].journal = 0 THEN leaf["journal"] ELSE {})
  /\ UNCHANGED <<world, lock, dir, disk, marker, cmd, seen, held, valid, own, work, counts>>

DiscardDatabase(m) ==
  /\ Step(m, "database", "marker")
  /\ Stands("database", held[m].db) /\ Drop("database", held[m].db)
  /\ UNCHANGED <<world, lock, dir, marker, cmd, seen, held, valid, own, work, counts>>

DiscardMarker(m) ==
  /\ Step(m, "marker", "record") /\ Write(m, None)
  /\ UNCHANGED <<world, lock, dir, leaf, disk, cmd, seen, own, work, counts>>

DiscardRecord(m) ==
  /\ Step(m, "record", "directory") /\ dir = "owned" /\ dir' = "bare"
  /\ UNCHANGED <<world, lock, leaf, disk, marker, cmd, seen, held, valid, own, work, counts>>

DiscardDirectory(m) ==
  /\ Step(m, "directory", "ok") /\ dir = "bare" /\ marker = None
  /\ \A n \in Names \ {"environment"} : leaf[n] = {}
  /\ dir' = "absent"
  /\ UNCHANGED <<world, lock, leaf, disk, marker, cmd, seen, held, valid, own, work, counts>>

\* The worker copies the source as it is, then builds the clean database from it
\* and removes the raw copy; its failure does not.
Snapshot(m) ==
  /\ Step(m, "open", "snapshot") /\ cmd[m] = "baseline" /\ (active = 0 \/ Calm)
  /\ raw <= Disturbances /\ raw' = raw + 1
  /\ UNCHANGED <<inputs, active, policy, lock, files, cmd, seen, held, valid, own, work, counts>>

Sanitize(m) ==
  /\ Step(m, "snapshot", "activate") /\ raw' = raw - 1
  /\ Copyable(Policy[seen[m].input.policy], Source)
  /\ UNCHANGED <<inputs, active, policy, lock, files, cmd, seen, held, valid, own, work, counts>>

\* Policy and migration files are compared with those it read at the beginning.
Activate(m) ==
  /\ Step(m, "activate", "ok") /\ seen[m].input = inputs
  /\ active' = active + 1 /\ policy' = inputs.policy
  /\ UNCHANGED <<inputs, raw, lock, files, cmd, seen, held, valid, own, work, counts>>

-----------------------------------------------------------------------------

Init ==
  /\ inputs = [config |-> 1, policy |-> 1, plan |-> MaxPlan]
  /\ active = 0 /\ policy = 0 /\ raw = 0
  /\ lock = None
  /\ dir = "absent" /\ leaf = [n \in Names |-> {}] /\ disk = {} /\ marker = None
  /\ at = [m \in Managers |-> "idle"] /\ cmd = [m \in Managers |-> "none"]
  /\ seen = [m \in Managers |-> None] /\ held = [m \in Managers |-> None]
  /\ valid = [m \in Managers |-> FALSE] /\ own = [m \in Managers |-> Nothing]
  /\ work = [m \in Managers |-> NoWork]
  /\ killed = 0 /\ edited = 0 /\ upset = FALSE

Reset(m) ==
  \/ MakeDirectory(m) \/ OwnDirectory(m) \/ Stage(m) \/ Swap(m) \/ Handles(m)
  \/ Retire(m) \/ Disable(m) \/ Retain(m) \/ Unlink(m) \/ Install(m) \/ Unstage(m)
  \/ Enable(m) \/ MarkReset(m) \/ Tidy(m) \/ Final(m)

Migrate(m) ==
  \/ ClaimJournal(m) \/ MarkDirty(m) \/ Migrated(m) \/ MigrationFails(m)
  \/ Spoil(m) \/ Settle(m) \/ MarkMigrated(m)

Worker(m) ==
  WorkerOpen(m) \/ WorkerBegin(m) \/ WorkerCommit(m) \/ WorkerRollback(m) \/ WorkerDies(m)

Remove(m) ==
  \/ Discard(m) \/ DiscardSidecars(m) \/ DiscardDatabase(m) \/ DiscardMarker(m)
  \/ DiscardRecord(m) \/ DiscardDirectory(m)

Next ==
  \/ \E m \in Managers :
       \/ \E c \in Commands : Begin(m, c)
       \/ Return(m) \/ Fail(m) \/ Kill(m) \/ Orphan(m)
       \/ Open(m) \/ Close(m) \/ Check(m) \/ Verified(m)
       \/ Reset(m) \/ EnableStart(m) \/ MarkStart(m) \/ DisableStop(m) \/ MarkStop(m)
       \/ Migrate(m) \/ Worker(m) \/ Remove(m)
       \/ Snapshot(m) \/ Sanitize(m) \/ Activate(m)
  \/ Edit

Spec == Init /\ [][Next]_vars

-----------------------------------------------------------------------------

\* A marker that calls the runtime usable, beside the very file it names, tells
\* the truth: that file holds its baseline and exactly its migrations, and no
\* transaction stands open in it, whoever was killed or orphaned in between.
TrustedIsExact ==
  marker # None /\ marker.state # "dirty" /\ Stands("database", marker.db) =>
    [id |-> marker.db, base |-> marker.base, applied |-> marker.applied,
     hot |-> FALSE] \in disk

\* The marker's word that the worker is gone is never wrong: no live worker has,
\* or is about to open, the journal or the database of such a marker.
ConfirmedIsClosed ==
  marker # None /\ marker.closure = "confirmed" =>
    \A m \in Managers :
      Live(work[m]) => /\ work[m].file # marker.db
                       /\ work[m].journal # marker.journal

\* What a marker says of its files, and of the worker that had them open, is
\* so (sqlite_manager.mts writes it, start and verify believe it).
MarkerIsTrue == TrustedIsExact /\ ConfirmedIsClosed

\* Until a new marker stands, nothing but a discard takes the last name of the
\* database the old one names, however a reset ends and whoever else is at work.
EvidenceKept ==
  [][LET f == marker.db IN
       marker # None /\ f \in leaf["database"] \cup leaf["previous"] =>
         \/ f \in leaf'["database"] \cup leaf'["previous"]
         \/ \E m \in Managers : at[m] = "database" /\ held[m].db = f]_vars

\* A failed migration of which nobody was killed leaves a runtime that a reset
\* or a discard can take: every leaf is one that its dirty marker knows.
ResetStaysPossible ==
  /\ marker # None /\ lock = None /\ ~upset /\ killed = 0
  /\ marker.state = "dirty" /\ marker.closure = "confirmed"
  => LeavesProven(marker) /\ EnvironmentProven(marker)

\* No reset loses the last file it could be undone from, and no failed
\* migration leaves a runtime that cannot be reset.
ResetIsSafe == [][ResetStaysPossible']_vars /\ EvidenceKept

=============================================================================
