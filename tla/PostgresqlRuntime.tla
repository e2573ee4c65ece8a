--------------------------- MODULE PostgresqlRuntime ---------------------------
(***************************************************************************)
(* The disposable PostgreSQL runtime of one project                        *)
(* (targets/postgresql.mts with postgresql_resources.mts,                  *)
(* postgresql_migrations.mts, postgresql_container_resume.mts and          *)
(* postgresql_resume_protocol.mts): reset, start, verify, migrate, stop    *)
(* and discard of one container and its data volume, and the private files *)
(* that let a later command tell what they hold.                           *)
(*                                                                         *)
(* The project's operation lock admits one command at a time.  A command   *)
(* may fail at any step, which starts its rollback, and may be killed at   *)
(* any step, which leaves everything as it stands.  Docker keeps the       *)
(* container and the volume under fixed names; the engine may restart, and *)
(* somebody may remove what no container uses.                             *)
(***************************************************************************)
EXTENDS Naturals

CONSTANTS Tools,       \* how migrations are applied: "sql", "native"
          Candidates,  \* number of the migrations that follow the baseline
          Generations, \* number of baselines that become active, in turn
          MaxVolumes,  \* bound: volumes created in a behaviour
          Foreign      \* somebody else may remove the container or volume

ASSUME RuntimeAssumption ==
  /\ Tools \subseteq {"sql", "native"}
  /\ Candidates \in Nat /\ Generations \in Nat \ {0} /\ MaxVolumes \in Nat
  /\ Foreign \in BOOLEAN

VARIABLES
  config,     \* the configured migration tool, and whether data is protected
  active,     \* the active baseline generation
  container,  \* the project's container: absent, stopped or running
  volume,     \* the data volume, a set of at most one
  born,       \* volumes created so far
  marker,     \* baseline.json
  backup,     \* baseline.pre-retirement.json
  receipt,    \* container-retirement.json
  failed,     \* native-migration-failure.json stands
  recorded,   \* candidate-receipt.json: the candidates it lists
  cmd,        \* the command under way
  pc,         \* where it is
  held,       \* the marker a retirement read
  bound,      \* the volume a retirement or a resume is bound to
  fresh,      \* the command started the container
  rolling,    \* the command is rolling back
  served,     \* history: volumes a command reported ready
  condemned,  \* history: volumes whose removal was begun
  escaped,    \* history: a migration ended without its rollback
  replaced,   \* history: docker created a volume where one was expected
  meddled     \* history: somebody else removed something

docker == <<container, volume, born>>
files == <<marker, backup, receipt, failed, recorded>>
memory == <<held, bound, fresh, rolling>>
history == <<served, condemned, escaped, replaced, meddled>>
vars == <<config, active, docker, files, cmd, pc, memory, history>>

-----------------------------------------------------------------------------

Commands == {"reset", "start", "verify", "migrate", "stop", "discard"}

NoMarker == [form |-> "none", gen |-> 0, made |-> 0]

\* A marker's bytes: its generation, and the password made for one volume.
\* What a killed writer leaves is "torn".
Markers == [form : {"none", "torn", "plain", "retired"},
            gen : 0 .. Generations, made : 0 .. MaxVolumes]

NoReceipt == [state |-> "none", made |-> 0, sha |-> NoMarker, prior |-> NoMarker]

Receipts == [state : {"none", "prepared", "completed"}, made : 0 .. MaxVolumes,
             sha : Markers, prior : Markers]

\* What a volume holds: the restored baseline (0 until it is complete), how
\* often each candidate was started on it, the candidates in its ledger, and
\* whether one is applied in part.
Volumes == [made : 1 .. MaxVolumes, gen : 0 .. Generations,
            runs : [1 .. Candidates -> 0 .. 2], ledger : 0 .. Candidates,
            torn : BOOLEAN]

Blank(n) == [made |-> n, gen |-> 0, runs |-> [i \in 1 .. Candidates |-> 0],
             ledger |-> 0, torn |-> FALSE]

\* protectPostgresqlRuntimeMarker: the form older tools refuse.
Protect(m) == [m EXCEPT !.form = "retired"]

\* A marker normalizeRuntimeMarkerProtocol accepts.
Readable(m) == m.form \in {"plain", "retired"}

Goto(where) == pc' = where

\* A failed start stops the container it started (withRuntimeStartupCleanup).
Abandon == Goto(IF cmd = "start" THEN "cleanup" ELSE "failed")

-----------------------------------------------------------------------------
(* Commands come and go.                                                   *)

Entry(c) == IF c \in {"reset", "discard"} THEN "drop-container"
            ELSE IF c = "stop" THEN "retire" ELSE "open"

\* runRuntimeLifecycle: protected data is neither replaced nor migrated.
Invoke(c) ==
  /\ cmd = "none"
  /\ config.protected => c \notin {"reset", "migrate", "discard"}
  /\ cmd' = c /\ Goto(Entry(c))
  /\ UNCHANGED <<config, active, docker, files, memory, history>>

Forget ==
  /\ cmd' = "none" /\ Goto("idle")
  /\ held' = NoMarker /\ bound' = 0 /\ fresh' = FALSE /\ rolling' = FALSE

Return ==
  /\ pc \in {"ok", "failed"}
  /\ Forget
  /\ served' = IF pc = "ok" /\ cmd \notin {"stop", "discard"}
                 THEN served \cup {v.made : v \in volume} ELSE served
  /\ UNCHANGED <<config, active, docker, files, condemned, escaped, replaced,
                 meddled>>

-----------------------------------------------------------------------------
(* removeRuntime: the container, the volume, then the runtime directory.   *)

DropContainer ==
  /\ pc = "drop-container"
  /\ container' = "absent"
  /\ condemned' = condemned \cup {v.made : v \in volume}
  /\ Goto("drop-volume")
  /\ UNCHANGED <<config, active, volume, born, files, cmd, memory, served,
                 escaped, replaced, meddled>>

DropVolume ==
  /\ pc = "drop-volume" /\ container = "absent"
  /\ volume' = {}
  /\ Goto("drop-files")
  /\ UNCHANGED <<config, active, container, born, files, cmd, memory, history>>

\* rm, recursively: one file after the other, in any order.
DropFile ==
  /\ pc = "drop-files"
  /\ \/ marker # NoMarker /\ marker' = NoMarker
        /\ UNCHANGED <<backup, receipt, failed, recorded>>
     \/ backup # NoMarker /\ backup' = NoMarker
        /\ UNCHANGED <<marker, receipt, failed, recorded>>
     \/ receipt # NoReceipt /\ receipt' = NoReceipt
        /\ UNCHANGED <<marker, backup, failed, recorded>>
     \/ failed /\ failed' = FALSE
        /\ UNCHANGED <<marker, backup, receipt, recorded>>
     \/ recorded # {} /\ recorded' = {}
        /\ UNCHANGED <<marker, backup, receipt, failed>>
  /\ UNCHANGED <<config, active, docker, cmd, pc, memory, history>>

Dropped ==
  /\ pc = "drop-files"
  /\ marker = NoMarker /\ backup = NoMarker /\ receipt = NoReceipt
  /\ ~failed /\ recorded = {}
  /\ IF rolling THEN Abandon
                ELSE Goto(IF cmd = "discard" THEN "ok" ELSE "make-volume")
  /\ UNCHANGED <<config, active, docker, files, cmd, memory, history>>

-----------------------------------------------------------------------------
(* resetRuntime builds the sandbox, its marker last.                       *)

MakeVolume ==
  /\ pc = "make-volume"
  /\ IF volume = {} THEN /\ born < MaxVolumes /\ born' = born + 1
                         /\ volume' = {Blank(born + 1)}
                    ELSE UNCHANGED <<volume, born>>
  /\ Goto("run-shell")
  /\ UNCHANGED <<config, active, container, files, cmd, memory, history>>

\* docker run: a missing volume is created on the way.
Attach ==
  /\ container = "absent" /\ container' = "running"
  /\ fresh' = TRUE
  /\ IF volume = {} THEN /\ born < MaxVolumes /\ born' = born + 1
                         /\ volume' = {Blank(born + 1)} /\ replaced' = TRUE
                    ELSE UNCHANGED <<volume, born, replaced>>

RunShell ==
  /\ pc = "run-shell"
  /\ Attach
  /\ Goto("restore")
  /\ UNCHANGED <<config, active, files, cmd, held, bound, rolling, served,
                 condemned, escaped, meddled>>

\* Schema, baseline migrations, rows, recipes and the project's hooks.
Restore ==
  /\ pc = "restore" /\ container = "running"
  /\ volume' = {[v EXCEPT !.gen = active] : v \in volume}
  /\ Goto("mark")
  /\ UNCHANGED <<config, active, container, born, files, cmd, memory, history>>

\* writeFile truncates the marker before it writes it.
TearMarker ==
  /\ pc = "mark"
  /\ marker' = [form |-> "torn", gen |-> 0, made |-> 0]
  /\ Goto("marking")
  /\ UNCHANGED <<config, active, docker, backup, receipt, failed, recorded, cmd,
                 memory, history>>

WriteMarker ==
  /\ pc = "marking"
  /\ \E v \in volume :
       marker' = [form |-> "plain", gen |-> active, made |-> v.made]
  /\ Goto("built")
  /\ UNCHANGED <<config, active, docker, backup, receipt, failed, recorded, cmd,
                 memory, history>>

\* A cancellation that arrived meanwhile still fails the reset here.
Built ==
  /\ pc = "built"
  /\ Goto(IF cmd \in {"reset", "start"} THEN "ok" ELSE "ledger")
  /\ UNCHANGED <<config, active, docker, files, cmd, memory, history>>

-----------------------------------------------------------------------------
(* startRuntime, and resumeIfMissing for a retired container.              *)

\* Open, resetting a runtime of another baseline (a seeded fault).
OpenOrReset ==
  /\ pc = "open"
  /\ IF marker.form # "none" /\ Readable(marker) /\ marker.gen = active
       THEN Goto("resume") ELSE Goto("drop-container")
  /\ UNCHANGED <<config, active, docker, files, cmd, memory, history>>

\* Open, whatever baseline the marker names (a seeded fault).
OpenAnyBaseline ==
  /\ pc = "open"
  /\ IF config.tool = "native" /\ failed THEN Abandon
     ELSE IF marker.form = "none" THEN Goto("drop-container")
     ELSE IF Readable(marker) THEN Goto("resume")
     ELSE Abandon
  /\ UNCHANGED <<config, active, docker, files, cmd, memory, history>>

Open ==
  /\ pc = "open"
  /\ IF config.tool = "native" /\ failed THEN Abandon
     ELSE IF marker.form = "none" THEN Goto("drop-container")
     ELSE IF Readable(marker) /\ marker.gen = active THEN Goto("resume")
     ELSE Abandon
  /\ UNCHANGED <<config, active, docker, files, cmd, memory, history>>

\* verifyStored: the receipt is of this marker, or of the one it replaces.
Stored(m) ==
  /\ receipt.state # "none"
  /\ Readable(m) /\ receipt.sha.gen = m.gen
  /\ receipt.sha = m \/ (receipt.state = "prepared" /\ receipt.prior = m)

Resume ==
  /\ pc = "resume"
  /\ IF container # "absent" THEN Goto("boot") /\ UNCHANGED bound
     ELSE IF Stored(marker) /\ receipt.sha = marker
       THEN Goto("inspect") /\ bound' = receipt.made
       ELSE Abandon /\ UNCHANGED bound
  /\ UNCHANGED <<config, active, docker, files, cmd, held, fresh, rolling,
                 history>>

\* assertRetainedBindings: the volume is the one that was retained.
Retained == \E v \in volume : v.made = bound

Inspect ==
  /\ pc = "inspect"
  /\ IF Retained /\ container = "absent" THEN Goto("create") ELSE Abandon
  /\ UNCHANGED <<config, active, docker, files, cmd, memory, history>>

CreateShell ==
  /\ pc = "create"
  /\ Attach
  /\ Goto("confirm")
  /\ UNCHANGED <<config, active, files, cmd, held, bound, rolling, served,
                 condemned, escaped, meddled>>

ConfirmShell ==
  /\ pc = "confirm"
  /\ IF Retained /\ container = "running" THEN Goto("await") ELSE Abandon
  /\ UNCHANGED <<config, active, docker, files, cmd, memory, history>>

\* waitUntilReady: the new shell has answered twice and is still the one that
\* was created, over the retained volume.
AwaitShell ==
  /\ pc = "await"
  /\ IF Retained /\ container = "running" THEN Goto("boot") ELSE Abandon
  /\ UNCHANGED <<config, active, docker, files, cmd, memory, history>>

Boot ==
  /\ pc = "boot" /\ container # "absent"
  /\ container' = "running"
  /\ fresh' = (fresh \/ container = "stopped")
  /\ Goto("ready")
  /\ UNCHANGED <<config, active, volume, born, files, cmd, held, bound, rolling,
                 history>>

\* pg_isready answers, the environment file is written.
Ready ==
  /\ pc = "ready" /\ container = "running"
  /\ Goto(IF cmd = "start" THEN "ok" ELSE "ledger")
  /\ UNCHANGED <<config, active, docker, files, cmd, memory, history>>

\* A failed start stops exactly what it started, if that can be proved.
StopStarted ==
  /\ pc = "cleanup"
  /\ \/ fresh /\ container = "running" /\ container' = "stopped"
     \/ UNCHANGED container
  /\ Goto("failed")
  /\ UNCHANGED <<config, active, volume, born, files, cmd, memory, history>>

-----------------------------------------------------------------------------
(* verifyRuntime and migrateRuntime.                                       *)

\* LedgerStands, content with the rows it finds (a seeded fault).
LedgerAsFound(v) == v.gen # 0

\* verifyLedger: the native ledgers show an unfinished migration, the SQL
\* ledger of an unrestored volume does not hold the baseline.
LedgerStands(v) == v.gen # 0 /\ (config.tool = "native" => ~v.torn)

VerifyLedger ==
  /\ pc = "ledger" /\ container = "running"
  /\ IF \A v \in volume : LedgerStands(v)
       THEN Goto(IF cmd = "verify" THEN "ok" ELSE "apply") ELSE Abandon
  /\ UNCHANGED <<config, active, docker, files, cmd, memory, history>>

\* The next candidate after those of the ledger; psql commits statement by
\* statement.
BeginCandidate ==
  /\ pc = "apply" /\ container = "running"
  /\ \E v \in volume :
       /\ v.ledger < Candidates /\ v.runs[v.ledger + 1] < 2
       /\ volume' = {[v EXCEPT !.runs[v.ledger + 1] = @ + 1, !.torn = TRUE]}
  /\ Goto("applying")
  /\ UNCHANGED <<config, active, container, born, files, cmd, memory, history>>

\* The SQL ends without its ledger row; the native tool records it itself.
EndCandidate ==
  /\ pc = "applying" /\ container = "running"
  /\ volume' = {[v EXCEPT !.torn = FALSE,
                          !.ledger = IF config.tool = "native" THEN @ + 1 ELSE @]
                  : v \in volume}
  /\ Goto(IF config.tool = "native" THEN "apply" ELSE "record")
  /\ UNCHANGED <<config, active, container, born, files, cmd, memory, history>>

RecordCandidate ==
  /\ pc = "record" /\ container = "running"
  /\ volume' = {[v EXCEPT !.ledger = @ + 1] : v \in volume}
  /\ Goto("apply")
  /\ UNCHANGED <<config, active, container, born, files, cmd, memory, history>>

\* All candidates are in the verified ledger: the candidate receipt.
FinishMigration ==
  /\ pc = "apply" /\ container = "running"
  /\ \A v \in volume : v.ledger = Candidates /\ LedgerStands(v)
  /\ recorded' = {Candidates}
  /\ Goto("migrated")
  /\ UNCHANGED <<config, active, docker, marker, backup, receipt, failed, cmd,
                 memory, history>>

Migrated ==
  /\ pc = "migrated"
  /\ Goto("ok")
  /\ UNCHANGED <<config, active, docker, files, cmd, memory, history>>

\* The native rollback keeps the volume: it leaves a failure receipt, or
\* fails to, and retires the container.
MarkFailed ==
  /\ pc = "mark-failed"
  /\ failed' \in {failed, TRUE}
  /\ Goto("retire")
  /\ UNCHANGED <<config, active, docker, marker, backup, receipt, recorded, cmd,
                 memory, history>>

-----------------------------------------------------------------------------
(* retireStopped and protectMarker.                                        *)

Settle == Goto(IF rolling THEN "failed" ELSE "ok")

\* The engine is unavailable, or there is nothing to retire.
NothingToRetire ==
  /\ pc = "retire"
  /\ Settle
  /\ UNCHANGED <<config, active, docker, files, cmd, memory, history>>

ReadMarker ==
  /\ pc = "retire" /\ container # "absent"
  /\ IF Readable(marker) THEN Goto("halt") /\ held' = marker
                         ELSE Goto("failed") /\ UNCHANGED held
  /\ UNCHANGED <<config, active, docker, files, cmd, bound, fresh, rolling,
                 history>>

\* docker stop, then the plan of the stopped container and its one volume.
Halt ==
  /\ pc = "halt" /\ container # "absent"
  /\ container' = "stopped"
  /\ bound' \in {v.made : v \in volume}
  /\ Goto("back-up")
  /\ UNCHANGED <<config, active, volume, born, files, cmd, held, fresh, rolling,
                 history>>

\* The container is gone already: finish what an earlier stop prepared.
ReadReceipt ==
  /\ pc = "retire" /\ container = "absent" /\ receipt.state # "none"
  /\ IF Stored(marker) /\ \E v \in volume : v.made = receipt.made
       THEN Goto("back-up") /\ held' = marker /\ bound' = receipt.made
       ELSE Goto("failed") /\ UNCHANGED <<held, bound>>
  /\ UNCHANGED <<config, active, docker, files, cmd, fresh, rolling, history>>

\* Created exclusively, then written.
CreateBackup ==
  /\ pc = "back-up" /\ held.form = "plain" /\ backup = NoMarker
  /\ backup' = [form |-> "torn", gen |-> 0, made |-> 0]
  /\ Goto("backing-up")
  /\ UNCHANGED <<config, active, docker, marker, receipt, failed, recorded, cmd,
                 memory, history>>

WriteBackup ==
  /\ pc = "backing-up"
  /\ backup' = held
  /\ Goto("prepare")
  /\ UNCHANGED <<config, active, docker, marker, receipt, failed, recorded, cmd,
                 memory, history>>

\* CheckBackup, without reading the backup it found (a seeded fault).
BackupFound ==
  /\ pc = "back-up" /\ (held.form = "retired" \/ backup # NoMarker)
  /\ Goto("prepare")
  /\ UNCHANGED <<config, active, docker, files, cmd, memory, history>>

\* A backup that is there already must be of this very marker.
CheckBackup ==
  /\ pc = "back-up" /\ (held.form = "retired" \/ backup # NoMarker)
  /\ IF /\ backup.form = "plain"
        /\ backup = held \/ (held.form = "retired" /\ Protect(backup) = held)
       THEN Goto("prepare") ELSE Goto("failed")
  /\ UNCHANGED <<config, active, docker, files, cmd, memory, history>>

PrepareReceipt ==
  /\ pc = "prepare"
  /\ receipt' = [state |-> "prepared", made |-> bound, sha |-> Protect(held),
                 prior |-> held]
  /\ Goto("protect")
  /\ UNCHANGED <<config, active, docker, marker, backup, failed, recorded, cmd,
                 memory, history>>

ProtectMarker ==
  /\ pc = "protect" /\ marker = held
  /\ marker' = Protect(held)
  /\ Goto(IF container = "absent" THEN "complete" ELSE "remove-shell")
  /\ UNCHANGED <<config, active, docker, backup, receipt, failed, recorded, cmd,
                 memory, history>>

\* retireContainers: docker rm, without force, of the inspected container.
RemoveShell ==
  /\ pc = "remove-shell" /\ container = "stopped"
  /\ container' = "absent"
  /\ Goto("complete")
  /\ UNCHANGED <<config, active, volume, born, files, cmd, memory, history>>

CompleteReceipt ==
  /\ pc = "complete"
  /\ receipt' = [receipt EXCEPT !.state = "completed"]
  /\ Settle
  /\ UNCHANGED <<config, active, docker, marker, backup, failed, recorded, cmd,
                 memory, history>>

-----------------------------------------------------------------------------
(* Failure, death, and the world around.                                   *)

BuildSteps == {"make-volume", "run-shell", "restore", "mark", "marking", "built"}

MigrateSteps == {"apply", "applying", "record", "migrated"}

FinalSteps == {"idle", "ok", "failed", "cleanup", "mark-failed"}

\* Inside withOwnedRuntimeRollback a failure or a cancellation rolls back.
RollBack ==
  /\ pc \in BuildSteps \cup MigrateSteps
  /\ rolling' = TRUE
  /\ Goto(IF pc \in MigrateSteps /\ config.tool = "native"
            THEN "mark-failed" ELSE "drop-container")
  /\ UNCHANGED <<config, active, docker, files, cmd, held, bound, fresh, history>>

\* Anywhere else it ends the command, a rollback under way included.
Fail ==
  /\ pc \notin BuildSteps \cup MigrateSteps \cup FinalSteps
  /\ Abandon
  /\ escaped' = (escaped \/ (rolling /\ cmd = "migrate"))
  /\ UNCHANGED <<config, active, docker, files, cmd, memory, served, condemned,
                 replaced, meddled>>

Crash ==
  /\ cmd # "none"
  /\ Forget
  /\ escaped' = (escaped \/ (cmd = "migrate" /\ (rolling \/ pc \in MigrateSteps)))
  /\ UNCHANGED <<config, active, docker, files, served, condemned, replaced,
                 meddled>>

\* A refresh activates another baseline between two commands.
Refresh ==
  /\ cmd = "none" /\ active < Generations
  /\ active' = active + 1
  /\ UNCHANGED <<config, docker, files, cmd, pc, memory, history>>

EngineRestart ==
  /\ container = "running"
  /\ container' = "stopped"
  /\ UNCHANGED <<config, active, volume, born, files, cmd, pc, memory, history>>

\* At most once in a behaviour (a bound).
ForeignRemoval ==
  /\ Foreign /\ ~meddled
  /\ \/ container = "stopped" /\ container' = "absent" /\ UNCHANGED volume
     \/ container = "absent" /\ volume # {} /\ volume' = {} /\ UNCHANGED container
  /\ meddled' = TRUE
  /\ UNCHANGED <<config, active, born, files, cmd, pc, memory, served, condemned,
                 escaped, replaced>>

-----------------------------------------------------------------------------

Init ==
  /\ config \in [tool : Tools, protected : BOOLEAN]
  /\ active = 1
  /\ container = "absent" /\ volume = {} /\ born = 0
  /\ marker = NoMarker /\ backup = NoMarker /\ receipt = NoReceipt
  /\ failed = FALSE /\ recorded = {}
  /\ cmd = "none" /\ pc = "idle"
  /\ held = NoMarker /\ bound = 0 /\ fresh = FALSE /\ rolling = FALSE
  /\ served = {} /\ condemned = {}
  /\ escaped = FALSE /\ replaced = FALSE /\ meddled = FALSE

Remove == DropContainer \/ DropVolume \/ DropFile \/ Dropped

Build ==
  MakeVolume \/ RunShell \/ Restore \/ TearMarker \/ WriteMarker \/ Built

Start ==
  \/ Open \/ Resume \/ Inspect \/ CreateShell \/ ConfirmShell \/ AwaitShell \/ Boot
  \/ Ready \/ StopStarted

Migrate ==
  VerifyLedger \/ BeginCandidate \/ EndCandidate \/ RecordCandidate
  \/ FinishMigration \/ Migrated \/ MarkFailed

Retire ==
  NothingToRetire \/ ReadMarker \/ Halt \/ ReadReceipt \/ CreateBackup
  \/ WriteBackup \/ CheckBackup \/ PrepareReceipt \/ ProtectMarker
  \/ RemoveShell \/ CompleteReceipt

Environment == RollBack \/ Fail \/ Crash \/ Refresh \/ EngineRestart \/ ForeignRemoval

Next ==
  (\E c \in Commands : Invoke(c)) \/ Return \/ Remove \/ Build \/ Start
  \/ Migrate \/ Retire \/ Environment

Spec == Init /\ [][Next]_vars

-----------------------------------------------------------------------------
(* Properties.                                                             *)

Steps == BuildSteps \cup MigrateSteps \cup FinalSteps \cup
  {"drop-container", "drop-volume", "drop-files", "open", "resume", "inspect",
   "create", "confirm", "await", "boot", "ready", "ledger", "retire", "halt",
   "back-up", "backing-up", "prepare", "protect", "remove-shell", "complete"}

TypeOK ==
  /\ config \in [tool : Tools, protected : BOOLEAN]
  /\ active \in 1 .. Generations
  /\ container \in {"absent", "stopped", "running"}
  /\ volume \subseteq Volumes /\ \A v, w \in volume : v = w
  /\ born \in 0 .. MaxVolumes
  /\ marker \in Markers /\ backup \in Markers /\ receipt \in Receipts
  /\ failed \in BOOLEAN /\ recorded \subseteq 0 .. Candidates
  /\ cmd \in Commands \cup {"none"} /\ pc \in Steps
  /\ held \in Markers /\ bound \in 0 .. MaxVolumes
  /\ fresh \in BOOLEAN /\ rolling \in BOOLEAN
  /\ served \subseteq 1 .. MaxVolumes /\ condemned \subseteq 1 .. MaxVolumes
  /\ escaped \in BOOLEAN /\ replaced \in BOOLEAN /\ meddled \in BOOLEAN

\* A readable marker vouches for the volume under the project's name: it was
\* restored completely, from the marker's baseline, under its password; a
\* protected marker has its original beside it; and the candidate receipt
\* lists what the volume's ledger holds.
MarkerVouches ==
  /\ TypeOK
  /\ Readable(marker) /\ ~replaced =>
       \A v \in volume : v.made = marker.made /\ v.gen = marker.gen
  /\ marker.form = "retired" /\ volume # {} => Protect(backup) = marker
  /\ recorded # {} /\ ~replaced => \A v \in volume : v.ledger \in recorded

\* A command reports the runtime ready only with a complete restore of the
\* active baseline in the volume behind the container.
ReadyMeansRestored ==
  [][pc # "ok" /\ pc' = "ok" /\ cmd \notin {"stop", "discard"} =>
       replaced \/ /\ container # "absent" \/ meddled
                   /\ \A v \in volume : v.gen = active
    ]_vars

\* "Retained volume identity and data must not [change]"
\* (docs/runtime-lifecycle.md): data that was reported ready is removed only
\* by reset, discard or the rollback of an SQL migration, and never when it
\* is protected.
ServedDataKept ==
  [][\A v \in volume :
       v.made \in served /\ (\A w \in volume' : w.made # v.made) =>
         \/ meddled'
         \/ /\ ~config.protected
            /\ \/ cmd \in {"reset", "discard"}
               \/ cmd = "migrate" /\ rolling /\ config.tool = "sql"
    ]_vars

\* "It writes a private recovery receipt before removal"
\* (docs/runtime-lifecycle.md): at any moment, a crash included, a volume in
\* service whose container is gone has a receipt that start accepts.
RemovedShellHasReceipt ==
  container = "absent" /\ ~meddled =>
    \A v \in volume : v.made \in served \ condemned =>
      Stored(marker) /\ receipt.sha = marker /\ receipt.made = v.made

\* What the volume holds is what its ledger says.
Exact(v) ==
  ~v.torn /\ \A i \in 1 .. Candidates : v.runs[i] = IF i <= v.ledger THEN 1 ELSE 0

\* Verified history is the history of the data, unless the rollback of an
\* SQL migration was lost.
VerifiedIsExact ==
  [][pc # "ok" /\ pc' = "ok" /\ cmd \in {"verify", "migrate"} =>
       replaced \/ (config.tool = "sql" /\ escaped) \/ \A v \in volume : Exact(v)
    ]_vars

\* What a killed command leaves on disk and what it leaves in the engine agree:
\* the marker with the volume, and the receipt with a removed container.
RecordsVouch == MarkerVouches /\ RemovedShellHasReceipt

=============================================================================
