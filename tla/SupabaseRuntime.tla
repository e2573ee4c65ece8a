--------------------------- MODULE SupabaseRuntime ---------------------------
(***************************************************************************)
(* The lifecycle commands of one Supabase target (targets/supabase.mts).   *)
(* The database belongs to the Supabase CLI: `supabase start` creates      *)
(* containers and a volume, `supabase stop` keeps the volume, and          *)
(* `stop --no-backup` removes it.  The manager keeps a workdir beside it:  *)
(* the CLI's configuration and migrations, the marker of the restored      *)
(* baseline, and the receipt of the candidates applied.                    *)
(*                                                                         *)
(* One command runs at a time (OperationGuard).  Every command may fail at *)
(* every step, which includes its cancellation, or be killed there.        *)
(***************************************************************************)
EXTENDS MigrationHistory

CONSTANTS
    Generations,   \* the baselines that may become active
    Represented,   \* the migrations a baseline was captured with
    Directories,   \* the contents the application's directory may have
    MaxTrouble,    \* how often somebody or something interferes
    None

VARIABLES
    active,        \* the active baseline
    files,         \* the application's migration directory
    work,          \* the runtime workdir
    exported,      \* whether the application's environment file exists
    box,           \* the project's containers
    vol,           \* the project's database volume
    cmd,           \* the command under way
    outcome,       \* how the last command ended
    approved,      \* history: candidates confirmed for this workdir
    raced,         \* history: a candidate was edited between review and copy
    trouble        \* how often there was trouble

vars == <<active, files, work, exported, box, vol, cmd, outcome, approved, raced, trouble>>
runtime == <<work, exported, box, vol>>
history == <<approved, raced>>
outside == <<active, files, trouble>>

(* The marker prepareRuntimeWorkdir writes has no schema checksum, so it    *)
(* never matches; only the one written at the end of a reset does.          *)
Torn == [gen |-> None, schema |-> FALSE]
Markers == {None, Torn} \cup [gen : Generations, schema : BOOLEAN]
PreliminaryLikeFinal(g) == [gen |-> g, schema |-> TRUE]
PreliminaryMarker(g) == [gen |-> g, schema |-> FALSE]
Matches(marker, g) == marker = [gen |-> g, schema |-> TRUE]

EmptyWork == [config |-> FALSE, migrations |-> {}, marker |-> None, receipt |-> None]

(* How far a database has come: a new volume has what its migrations built *)
(* and no rows; then the schema, the rows, and the rest are restored.       *)
Built == 0  Schema == 1  Rows == 2  Assets == 3  Whole == 4
Texts == (UNION Directories) \cup UNION {ToSet(Represented[g]) : g \in Generations}
Volumes == [gen : Generations, stage : Built .. Whole, ledger : Seq(Texts), hollow : BOOLEAN]
Fresh(g, hollow) == [gen |-> g, stage |-> Built, ledger |-> <<>>, hollow |-> hollow]

Idle == [name |-> None, pc |-> "idle", phase |-> None, owned |-> FALSE,
         undo |-> FALSE, gen |-> None, plan |-> None, copied |-> 0, reviewed |-> None]

Commands == {"reset", "start", "verify", "migrate", "run", "stop", "discard"}
ASSUME SupabaseAssumption ==
    /\ MaxTrouble \in Nat
    /\ None \notin Generations \cup Commands \cup Volumes
                       \cup [gen : Generations, schema : BOOLEAN]
    /\ \A g \in Generations : Represented[g] # <<>> /\ IsHistory(Represented[g])
    /\ \A d \in Directories :
          IsFiniteSet(d) /\ IsDirectory(d) /\ \A f \in d : Name(f) \in Nat

Running == cmd.pc # "idle"
At(pc) == cmd.pc = pc
Goto(pc) == cmd' = [cmd EXCEPT !.pc = pc]

Init ==
    /\ active \in Generations
    /\ files \in {d \in Directories : RepresentsBaseline(Represented[active], Inventory(d))}
    /\ work = EmptyWork /\ exported = FALSE /\ box = "none" /\ vol = None
    /\ cmd = Idle /\ outcome = None
    /\ approved = {} /\ raced = FALSE /\ trouble = 0

-----------------------------------------------------------------------------
(* The plan of the candidates, as readCandidateReceipt makes it and as the *)
(* user reviews it before the command: None when the directory no longer   *)
(* begins with the history of the baseline.                                *)
PlanOf(g, directory) ==
    IF RepresentsBaseline(Represented[g], Inventory(directory))
    THEN Candidates(Represented[g], Inventory(directory)) ELSE None

PhaseOf(name) == IF name = "run" THEN "reset" ELSE name
FirstStep(phase) ==
    CASE phase \in {"reset", "discard"} -> "remove"
      [] phase \in {"start", "verify", "migrate"} -> "match"
      [] phase = "stop" -> "stop"

Begin(name) ==
    /\ ~Running
    /\ cmd' = [Idle EXCEPT !.name = name, !.phase = PhaseOf(name),
                           !.pc = FirstStep(PhaseOf(name)), !.gen = active,
                           !.reviewed = PlanOf(active, files)]
    /\ outcome' = None
    /\ UNCHANGED <<runtime, history, outside>>

End(how) == cmd' = Idle /\ outcome' = how

(* run is reset, migrate and verify; every other command is one phase.     *)
Following == IF cmd.name # "run" THEN None
             ELSE CASE cmd.phase = "reset" -> "migrate"
                    [] cmd.phase = "migrate" -> "verify"
                    [] cmd.phase = "verify" -> None

PhaseDone ==
    IF Following = None THEN End("ok")
    ELSE /\ cmd' = [cmd EXCEPT !.phase = Following, !.pc = "match", !.owned = FALSE,
                               !.plan = None, !.copied = 0]
         /\ UNCHANGED outcome

(* withOwnedRuntimeRollback: what fails inside the owned part removes the   *)
(* runtime; what fails outside, a reset's own removal included, only ends. *)
Fail ==
    /\ Running
    /\ CASE cmd.undo -> End("unrecovered")
         [] cmd.owned /\ ~cmd.undo ->
              /\ cmd' = [cmd EXCEPT !.undo = TRUE, !.pc = "remove"]
              /\ UNCHANGED outcome
         [] OTHER -> End("failed")
    /\ UNCHANGED <<runtime, history, outside>>

-----------------------------------------------------------------------------
(* removeRuntime: the CLI's own removal where the workdir or any resource  *)
(* of the project is there, the removal by label when that fails, then the *)
(* workdir and the environment file.                                       *)
ResourcesExist == box # "none" \/ vol # None
RemovableByConfig == work.config
Removable == work.config \/ ResourcesExist

LookForRuntime ==
    /\ At("remove")
    /\ Goto(IF Removable THEN "cliRemove" ELSE "rmWork")
    /\ UNCHANGED <<runtime, outcome, history, outside>>

CliRemove ==
    /\ At("cliRemove")
    /\ box' = "none" /\ vol' = None
    /\ Goto("rmWork")
    /\ UNCHANGED <<work, exported, outcome, history, outside>>

(* The CLI stops at some point of its way. *)
CliRemoveFails ==
    /\ At("cliRemove")
    /\ \/ UNCHANGED <<box, vol>>
       \/ box' = "none" /\ UNCHANGED vol
       \/ box' = "none" /\ vol' = None
    /\ Goto("rmContainers")
    /\ UNCHANGED <<work, exported, outcome, history, outside>>

(* removeLocalSupabaseProjectResources *)
RemoveContainers ==
    /\ At("rmContainers")
    /\ box' = "none"
    /\ Goto("rmVolumes")
    /\ UNCHANGED <<work, exported, vol, outcome, history, outside>>
RemoveVolumes ==
    /\ At("rmVolumes")
    /\ vol' = None
    /\ Goto("rmWork")
    /\ UNCHANGED <<work, exported, box, outcome, history, outside>>

(* The recursive removal takes the parts of the workdir in any order. *)
PartsOfWork == DOMAIN EmptyWork
RemovePart ==
    /\ At("rmWork")
    /\ \E part \in PartsOfWork :
          /\ work[part] # EmptyWork[part]
          /\ work' = [work EXCEPT ![part] = EmptyWork[part]]
    /\ UNCHANGED <<exported, box, vol, cmd, outcome, history, outside>>

AfterRemoval ==
    CASE cmd.undo -> End("failed")
      [] ~cmd.undo /\ cmd.phase = "discard" -> End("ok")
      [] OTHER -> /\ cmd' = [cmd EXCEPT !.pc = "config", !.owned = TRUE]
                  /\ UNCHANGED outcome
WorkIsGone ==
    /\ At("rmWork")
    /\ \A part \in PartsOfWork : work[part] = EmptyWork[part]
    /\ exported' = FALSE
    /\ AfterRemoval
    /\ UNCHANGED <<work, box, vol, history, outside>>

-----------------------------------------------------------------------------
(* prepareRuntimeWorkdir: the configuration, the baseline's migrations, and *)
(* a first marker, before anything is restored.                            *)
WriteConfiguration ==
    /\ At("config")
    /\ work' = [work EXCEPT !.config = TRUE]
    /\ approved' = {}
    /\ Goto("copyHistory")
    /\ UNCHANGED <<exported, box, vol, outcome, raced, outside>>

CopyHistory ==
    /\ At("copyHistory")
    /\ work' = [work EXCEPT !.migrations =
                   CopyOver(@, ToSet(Represented[cmd.gen]))]
    /\ Goto("preliminary")
    /\ UNCHANGED <<exported, box, vol, outcome, history, outside>>

WritePreliminaryMarker ==
    /\ At("preliminary")
    /\ work' = [work EXCEPT !.marker = PreliminaryMarker(cmd.gen)]
    /\ Goto("cliStart")
    /\ UNCHANGED <<exported, box, vol, outcome, history, outside>>

(* A start finds its marker, or becomes a reset, or refuses. *)
MatchMarker ==
    /\ At("match")
    /\ \/ work.marker = None /\ Goto("remove")
       \/ Matches(work.marker, cmd.gen) /\ Goto("cliStart")
    /\ UNCHANGED <<runtime, outcome, history, outside>>

(* `supabase start`: a volume that is not there is made anew, whoever       *)
(* asks.  The containers found by the project's label must be its own      *)
(* before their restart policy is changed.                                 *)
CliStart ==
    /\ At("cliStart")
    /\ work.config
    /\ box' = "running"
    /\ vol' = IF vol = None THEN Fresh(cmd.gen, ~cmd.owned) ELSE vol
    /\ Goto("noRestart")
    /\ UNCHANGED <<work, exported, outcome, history, outside>>

Reachable == box = "running" /\ vol # None
PreventRestart ==
    /\ At("noRestart")
    /\ Goto("up")
    /\ UNCHANGED <<runtime, outcome, history, outside>>

(* `migration up` applies what the workdir has beyond the ledger, one       *)
(* migration at a time.                                                    *)
LeftToApply == Pending(work.migrations, vol.ledger)
ApplyMigration ==
    /\ At("up") \/ At("upCandidates")
    /\ Reachable
    /\ Continues(work.migrations, vol.ledger)
    /\ LeftToApply # <<>>
    /\ vol' = [vol EXCEPT !.ledger = Append(@, Head(LeftToApply))]
    /\ UNCHANGED <<work, exported, box, cmd, outcome, history, outside>>

AllApplied ==
    /\ At("up") \/ At("upCandidates")
    /\ Reachable
    /\ Continues(work.migrations, vol.ledger)
    /\ LeftToApply = <<>>
    /\ Goto(IF At("upCandidates") THEN "compare" ELSE "status")
    /\ UNCHANGED <<runtime, outcome, history, outside>>

(* `supabase status` must name a database and an API on this computer. *)
ReadLocalEnvironment ==
    /\ At("status")
    /\ Reachable
    /\ Goto(IF cmd.owned THEN "schema" ELSE "configure")
    /\ UNCHANGED <<runtime, outcome, history, outside>>

(* The restore of a reset.  The schema is dropped and built anew by         *)
(* several calls; the rows come in one transaction; the assets and the     *)
(* local rows of the runtime policy follow.                                *)
RestoreStage(from, stage, next) ==
    /\ At(from)
    /\ Reachable
    /\ vol' = [vol EXCEPT !.stage = stage]
    /\ Goto(next)
    /\ UNCHANGED <<work, exported, box, outcome, history, outside>>
RestoreSchema == RestoreStage("schema", Schema, "compareSchema")
RestoreRows == RestoreStage("rows", Rows, "assets")
RestoreAssets == RestoreStage("assets", Assets, "localRows")
ApplyLocalRows == RestoreStage("localRows", Whole, "configure")

(* The restored schema is dumped and compared with the captured one. *)
CompareSchema ==
    /\ At("compareSchema")
    /\ Reachable
    /\ Goto("rows")
    /\ UNCHANGED <<runtime, outcome, history, outside>>

(* The project's adapter, and the environment file of the application. *)
ConfigureProject ==
    /\ At("configure")
    /\ Reachable
    /\ Goto("export")
    /\ UNCHANGED <<runtime, outcome, history, outside>>
AfterStart == IF cmd.phase \in {"verify", "migrate"}
              THEN /\ cmd' = [cmd EXCEPT !.pc = "read", !.owned = FALSE]
                   /\ UNCHANGED outcome
              ELSE PhaseDone
ExportEnvironment ==
    /\ At("export")
    /\ Reachable
    /\ exported' = TRUE
    /\ IF cmd.owned THEN Goto("truncate") /\ UNCHANGED outcome ELSE AfterStart
    /\ UNCHANGED <<work, box, vol, history, outside>>

(* writeRuntimeMarker truncates the file before it writes it. *)
TruncateMarker ==
    /\ At("truncate")
    /\ work' = [work EXCEPT !.marker = Torn]
    /\ Goto("mark")
    /\ UNCHANGED <<exported, box, vol, outcome, history, outside>>
WriteMarker ==
    /\ At("mark")
    /\ work' = [work EXCEPT !.marker = [gen |-> cmd.gen, schema |-> TRUE]]
    /\ AfterStart
    /\ UNCHANGED <<exported, box, vol, history, outside>>

-----------------------------------------------------------------------------
(* The plan of candidates, read again from the directory. *)
ReadPlan ==
    /\ At("read")
    /\ PlanOf(cmd.gen, files) # None
    /\ cmd' = [cmd EXCEPT !.plan = PlanOf(cmd.gen, files),
                 !.pc = CASE cmd.phase = "verify" -> "compare"
                          [] OTHER -> IF PlanOf(cmd.gen, files) = <<>> THEN "receipt"
                                      ELSE "confirm"]
    /\ UNCHANGED <<runtime, outcome, history, outside>>

(* The digest the user passes must be the digest of this plan. *)
ConfirmedByName == Names(cmd.reviewed) = Names(cmd.plan)
Confirmed == cmd.reviewed = cmd.plan
ConfirmPlan ==
    /\ At("confirm")
    /\ cmd.reviewed # None
    /\ Confirmed
    /\ approved' = approved \cup ToSet(cmd.reviewed)
    /\ cmd' = [cmd EXCEPT !.pc = "copy", !.owned = TRUE]
    /\ UNCHANGED <<runtime, outcome, raced, outside>>

(* Each candidate is copied by its name, as it is at that moment. *)
Candidate == cmd.plan[cmd.copied + 1]
CopyCandidate ==
    /\ At("copy")
    /\ \E file \in files :
          /\ Name(file) = Name(Candidate)
          /\ work' = [work EXCEPT !.migrations = CopyOver(@, {file})]
          /\ raced' = (raced \/ file # Candidate)
    /\ cmd' = [cmd EXCEPT !.copied = @ + 1,
                          !.pc = IF cmd.copied + 1 = Len(cmd.plan)
                                 THEN "upCandidates" ELSE "copy"]
    /\ UNCHANGED <<exported, box, vol, outcome, approved, outside>>

(* verifyRuntimeMigrationHistory, and in migrate the comparison with the    *)
(* confirmed plan.                                                         *)
HistoryMatches ==
    /\ IsReadable(vol.ledger)
    /\ IsReplay(vol.ledger, Represented[cmd.gen] \o cmd.plan)
    /\ SourceIsPrefix(Represented[cmd.gen], vol.ledger)
PlanIsApplied ==
    AppliedCandidates(Represented[cmd.gen], vol.ledger) = Names(cmd.plan)
CompareHistory ==
    /\ At("compare")
    /\ Reachable
    /\ HistoryMatches
    /\ \/ cmd.phase = "verify" /\ Goto("prove")
       \/ cmd.phase # "verify" /\ PlanIsApplied /\ Goto("receipt")
    /\ UNCHANGED <<runtime, outcome, history, outside>>

(* The checks of the runtime policy and of the project's adapter. *)
VerifyProject ==
    /\ At("prove")
    /\ Reachable
    /\ PhaseDone
    /\ UNCHANGED <<runtime, history, outside>>

WriteReceipt ==
    /\ At("receipt")
    /\ work' = [work EXCEPT !.receipt = [gen |-> cmd.gen, plan |-> cmd.plan]]
    /\ PhaseDone
    /\ UNCHANGED <<exported, box, vol, history, outside>>

(* stopLocalSupabase: nothing to do without containers, or without an       *)
(* engine to ask; the workdir's identity is asked before the CLI is.       *)
Stop ==
    /\ At("stop")
    /\ \/ box # "running" /\ UNCHANGED box
       \/ box # "none" /\ work.config /\ box' = "none"
    /\ PhaseDone
    /\ UNCHANGED <<work, exported, vol, history, outside>>

-----------------------------------------------------------------------------
(* What happens around the commands. *)
Trouble == trouble < MaxTrouble /\ trouble' = trouble + 1

Kill ==
    /\ Running /\ Trouble
    /\ End("killed")
    /\ UNCHANGED <<runtime, history, active, files>>

(* The engine stops: containers stop with it and do not come back. *)
EngineStops ==
    /\ box = "running" /\ Trouble
    /\ box' = "exited"
    /\ UNCHANGED <<work, exported, vol, cmd, outcome, history, active, files>>

(* Somebody prunes the volume of a stopped project, or deletes the workdir. *)
Prune ==
    /\ ~Running /\ box # "running" /\ vol # None /\ Trouble
    /\ box' = "none" /\ vol' = None
    /\ UNCHANGED <<work, exported, cmd, outcome, history, active, files>>
DeleteWorkdir ==
    /\ ~Running /\ work # EmptyWork /\ Trouble
    /\ work' = EmptyWork
    /\ UNCHANGED <<exported, box, vol, cmd, outcome, history, active, files>>

(* Migrations are written, edited and withdrawn at any time. *)
EditMigrations ==
    /\ Trouble
    /\ files' \in Directories \ {files}
    /\ UNCHANGED <<runtime, cmd, outcome, history, active>>

(* A baseline refresh, between commands: it takes the files that the        *)
(* source's history names.                                                 *)
RefreshBaseline ==
    /\ ~Running /\ Trouble
    /\ \E g \in Generations \ {active} :
          /\ SourceBundle(Represented[g], Inventory(files)) = Represented[g]
          /\ active' = g
    /\ UNCHANGED <<runtime, cmd, outcome, history, files>>

RemoveRuntime == \/ LookForRuntime \/ CliRemove \/ CliRemoveFails \/ RemoveContainers
                 \/ RemoveVolumes \/ RemovePart \/ WorkIsGone
Prepare == WriteConfiguration \/ CopyHistory \/ WritePreliminaryMarker
Start == \/ MatchMarker \/ CliStart \/ PreventRestart \/ ApplyMigration \/ AllApplied
         \/ ReadLocalEnvironment \/ ConfigureProject \/ ExportEnvironment
Restore == \/ RestoreSchema \/ CompareSchema \/ RestoreRows \/ RestoreAssets
           \/ ApplyLocalRows \/ TruncateMarker \/ WriteMarker
Migrate == ReadPlan \/ ConfirmPlan \/ CopyCandidate \/ CompareHistory \/ WriteReceipt
           \/ VerifyProject
Others == Kill \/ EngineStops \/ Prune \/ DeleteWorkdir \/ EditMigrations \/ RefreshBaseline

Next ==
    \/ \E name \in Commands : Begin(name)
    \/ Fail \/ RemoveRuntime \/ Prepare \/ Start \/ Restore \/ Migrate \/ Stop
    \/ Others

Spec == Init /\ [][Next]_vars

-----------------------------------------------------------------------------
TypeOK ==
    /\ active \in Generations
    /\ files \in Directories
    /\ DOMAIN work = PartsOfWork /\ IsDirectory(work.migrations)
    /\ work.marker \in Markers
    /\ box \in {"none", "exited", "running"}
    /\ exported \in BOOLEAN /\ raced \in BOOLEAN
    /\ vol \in Volumes \cup {None}
    /\ cmd.name \in Commands \cup {None}
    /\ outcome \in {None, "ok", "failed", "unrecovered", "killed"}
    /\ trouble \in 0 .. MaxTrouble

Served == {"reset", "start", "verify", "migrate", "run"}
Succeeds(names) == cmd.name \in names /\ outcome' = "ok" /\ cmd' = Idle

(* A command that brings the runtime up and succeeds leaves the database    *)
(* of the active baseline, wholly restored: a reset that was killed or      *)
(* failed anywhere is never taken for one.  The one exception is a volume   *)
(* that vanished behind a valid marker: the CLI makes an empty one in its   *)
(* place and nothing tells the two apart.                                  *)
ServedIsRestored ==
    [][Succeeds(Served) =>
         /\ vol # None /\ vol.gen = active
         /\ vol.stage = Whole \/ vol.hollow]_vars

(* Whatever a database has beyond its baseline was confirmed in that very   *)
(* text, for this runtime: not what an earlier runtime, a killed migration  *)
(* or a start finds in the workdir without that confirmation.  A text that  *)
(* was edited between its review and its copy is excluded.                 *)
AppliedIsApproved ==
    vol # None /\ ~raced =>
        ToSet(vol.ledger) \subseteq ToSet(Represented[vol.gen]) \cup approved

(* A command that failed and took its runtime back, or a discard that       *)
(* succeeded, leaves neither database nor workdir behind, whatever state    *)
(* the failure met it in.                                                  *)
RemovedIsGone ==
    [][(\/ cmd.undo /\ outcome' = "failed" /\ cmd' = Idle
        \/ Succeeds({"discard"}))
       => vol' = None /\ box' = "none" /\ work' = EmptyWork /\ ~exported']_vars

(* A whole rehearsal ends with exactly the migrations its receipt names    *)
(* after those of the baseline, in these texts; and these are the plan its *)
(* user confirmed, unless all of it was withdrawn from the directory in the *)
(* meantime, when nothing is left that the code would compare with the     *)
(* confirmation.                                                           *)
RehearsedIsApproved ==
    [][Succeeds({"run"}) /\ ~raced =>
         /\ vol.ledger = Represented[active] \o work.receipt.plan
         /\ work.receipt.plan \in {cmd.reviewed, <<>>}]_vars

(* Nothing that was not confirmed for this runtime gets into it, step by   *)
(* step and as a whole.                                                    *)
OnlyApproved == [][AppliedIsApproved']_vars /\ RehearsedIsApproved

=============================================================================
