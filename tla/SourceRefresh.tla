------------------------------ MODULE SourceRefresh -----------------------------
(***************************************************************************)
(* The replacement of the local copy (cli/commands/source_commands.mts,    *)
(* source/baseline.mts, baseline/builder.mts, the baselines' part of       *)
(* runtime/resources/cleanup.mts): "baseline refresh" captures a new       *)
(* generation through the temporary access and activates it; "refresh"     *)
(* also resets the runtime to it, or goes back to the previous one; a      *)
(* baseline can be made from files; "cleanup" removes old generations.     *)
(* All of them exclude each other and the commands of SourceAccess by the  *)
(* project's operation lock.                                               *)
(***************************************************************************)
EXTENDS SourceAccess, BaselineStore

CONSTANTS First,        \* the generation there is at first
          MaxVersions   \* bound: versions of the source's schema and ledger

ASSUME RefreshAssumption == First \in Names /\ MaxVersions \in Nat \ {0}

VARIABLES
  ledger,    \* the source's schema and migration ledger: its version
  approved,  \* the cutoff of the privacy policy: the version it was made for
  runtime,   \* the generation that the local runtime was restored from
  job,       \* what the command under way has read and planned
  aborted,   \* the cancellation signal
  drifted    \* history: the source changed between snapshot and recheck

versions == <<ledger, approved>>
jobVars == <<job, aborted, drifted>>
refreshVars == <<storeVars, versions, runtime, jobVars>>
vars == <<accessVars, refreshVars>>

-----------------------------------------------------------------------------

Capturing == {"connect", "stage", "build", "recheck", "activate", "abandon"}
Replacing == {"refreshed", "reset", "prepare", "prune"}
RollingBack == {"reactivate", "resetBack", "prepareBack"}
Working == Capturing \cup Replacing \cup RollingBack \cup {"prune", "pruning"}

NoJob == [kind |-> "none", previous |-> None, runtime |-> None, new |-> None,
          prepared |-> None, version |-> 0, policy |-> None, under |-> None,
          removed |-> {}, report |-> "none", fault |-> "none"]

Quiet == UNCHANGED <<source, files, policy, bounds>>
Go(place) == at' = place /\ UNCHANGED review /\ Quiet

Refreshing == job.kind = "refresh"

\* The command ends and says how. Where it failed is history: "late" after the
\* activation of its capture, "link" at the activation of the previous baseline.
ReportAfter(fault, what) ==
  Go("told") /\ job' = [job EXCEPT !.report = what, !.fault = fault]

Report(what) == ReportAfter("none", what)

RefreshInit ==
  /\ AccessInit
  /\ stored = [g \in {First} |-> "whole"] /\ current = First /\ used = {First}
  /\ building = "none"
  /\ runtime \in {First, None}
  /\ ledger = 1 /\ approved = 1
  /\ job = NoJob /\ aborted = FALSE /\ drifted = FALSE

-----------------------------------------------------------------------------
(* The commands begin.                                                     *)

Idle == at = "idle"
Unexpired == Readable /\ receipt.grant \notin lapsed

\* buildRefreshWorkflowPlan. Only the target of the receipt is compared here;
\* the policies are parts of the digest.
RefreshPlan == [previous |-> current, receipt |-> receipt, policy |-> policy,
                approved |-> approved, removed |-> ReplacementPlan]

PreviewRefresh ==
  /\ Idle /\ policy \in Valid /\ Verified(current) /\ Unexpired /\ Show("refresh", RefreshPlan)
  /\ Quiet /\ UNCHANGED <<at, refreshVars>>

ConfirmRefresh ==
  /\ Idle /\ policy \in Valid /\ Verified(current) /\ Unexpired
  /\ Shown("refresh") /\ review.plan = RefreshPlan
  /\ Go("connect")
  /\ job' = [NoJob EXCEPT !.kind = "refresh", !.previous = current,
                          !.runtime = runtime, !.removed = review.plan.removed]
  /\ UNCHANGED <<storeVars, versions, runtime, aborted, drifted>>

\* runSourceBaselineRefresh by itself.
BaselineRefresh ==
  /\ Idle /\ policy \in Valid /\ Go("connect")
  /\ job' = [NoJob EXCEPT !.kind = "capture", !.previous = current,
                          !.runtime = runtime]
  /\ UNCHANGED <<storeVars, versions, runtime, aborted, drifted>>

\* createSyntheticBaselineFromFiles: reviewed local files, version 0.
ImportBaseline ==
  /\ Idle /\ Go("stage")
  /\ job' = [NoJob EXCEPT !.kind = "import", !.previous = current,
                          !.runtime = runtime]
  /\ UNCHANGED <<storeVars, versions, runtime, aborted, drifted>>

ApplyAnyCleanup ==
  /\ Idle /\ Shown("cleanup")
  /\ Go("prune") /\ runtime' \in {runtime, None}
  /\ job' = [NoJob EXCEPT !.kind = "cleanup", !.removed = PrunePlan]
  /\ UNCHANGED <<storeVars, versions, aborted, drifted>>

\* planRehearsalCleanup, applyRehearsalCleanup; with --include-runtime the
\* runtime goes, too.
PreviewCleanup ==
  /\ Idle /\ Show("cleanup", PrunePlan)
  /\ Quiet /\ UNCHANGED <<at, refreshVars>>

ApplyCleanup ==
  /\ Idle /\ Shown("cleanup") /\ review.plan = PrunePlan
  /\ Go("prune") /\ runtime' \in {runtime, None}
  /\ job' = [NoJob EXCEPT !.kind = "cleanup", !.removed = review.plan]
  /\ UNCHANGED <<storeVars, versions, aborted, drifted>>

\* A reset or a discard of the runtime between these commands.
ResetRuntime ==
  /\ Idle /\ Verified(current) /\ runtime' \in {current, None}
  /\ Go("idle") /\ UNCHANGED <<storeVars, versions, jobVars>>

-----------------------------------------------------------------------------
(* refreshPostgresqlBaseline                                               *)

\* The receipt is the present policy's and not expired.
ReceiptMatches == Unexpired /\ receipt.policy = policy

\* Log in, begin the repeatable read transaction and read ledger and schema; the
\* privacy policy covers them. Staged under a name of its own.
Connect ==
  /\ at = "connect" /\ ReceiptMatches /\ Works /\ approved = ledger
  /\ Go("stage")
  /\ job' = [job EXCEPT !.version = ledger, !.policy = policy, !.under =
               IF credential = Provider THEN receipt.policy ELSE access.policy]
  /\ drifted' = FALSE
  /\ UNCHANGED <<storeVars, versions, runtime, aborted>>

\* Any check, limit or query before the build directory.
ConnectFails ==
  /\ at = "connect" /\ Report("failed")
  /\ UNCHANGED <<storeVars, versions, runtime, aborted, drifted>>

Stage ==
  /\ at = "stage" /\ StartBuild(job.kind) /\ Go("build")
  /\ UNCHANGED <<versions, runtime, jobVars>>

\* Every row of the snapshot is read, sanitized and counted.
Build ==
  /\ at = "build"
  /\ \E g \in Names :
       /\ FinishBuild(g)
       /\ job' = [job EXCEPT !.new = g]
  /\ Go(IF job.kind = "import" THEN "activate" ELSE "recheck")
  /\ UNCHANGED <<versions, runtime, aborted, drifted>>

BuildFails ==
  /\ at = "build" /\ GiveUpBuild /\ Report("failed")
  /\ UNCHANGED <<versions, runtime, aborted, drifted>>

RecheckLogin ==
  /\ at = "recheck" /\ Works /\ Go("activate")
  /\ UNCHANGED <<storeVars, versions, runtime, jobVars>>

\* A second login reads ledger and schema again.
Recheck ==
  /\ at = "recheck" /\ Works /\ ledger = job.version /\ Go("activate")
  /\ UNCHANGED <<storeVars, versions, runtime, jobVars>>

RecheckFails ==
  /\ at = "recheck" /\ Go("abandon")
  /\ UNCHANGED <<storeVars, versions, runtime, jobVars>>

\* After the link, the source's session is closed and the end of the stage is
\* recorded. When that fails the command does: it never gets the result, so it
\* neither goes on nor back.
Activate ==
  /\ at = "activate" /\ ActivateGeneration(job.new)
  /\ \/ Refreshing /\ Go("refreshed") /\ UNCHANGED job
     \/ ~Refreshing /\ Report("activated")
     \/ job.kind # "import" /\ ReportAfter("late", "failed")
  /\ UNCHANGED <<versions, runtime, aborted, drifted>>

\* The commit or the link fails.
ActivateFails ==
  /\ at = "activate" /\ Go("abandon")
  /\ UNCHANGED <<storeVars, versions, runtime, jobVars>>

\* removeStagedBaselineGeneration refuses the active one; its errors are
\* swallowed.
Abandon ==
  /\ at = "abandon" /\ job.new # ActiveGeneration /\ RemoveGeneration(job.new)
  /\ Go("abandon") /\ UNCHANGED <<versions, runtime, jobVars>>

Abandoned ==
  /\ at = "abandon" /\ Report("failed")
  /\ UNCHANGED <<storeVars, versions, runtime, aborted, drifted>>

-----------------------------------------------------------------------------
(* createRefreshWorkflow                                                   *)

\* throwIfOperationCancelled after each phase.
Checkpoint(place) == Go(IF aborted THEN "reactivate" ELSE place)

Refreshed ==
  /\ at = "refreshed" /\ Checkpoint("reset")
  /\ UNCHANGED <<storeVars, versions, runtime, jobVars>>

\* A stack reset that fails may have removed the runtime, not begun, or restored
\* it and not be able to record that.
Reset ==
  /\ at = "reset"
  /\ \/ runtime' = current /\ Checkpoint("prepare")
     \/ runtime' \in {runtime, None, current} /\ Go("reactivate")
  /\ UNCHANGED <<storeVars, versions, jobVars>>

\* prepareDependentTargets: commands of the project, with the new runtime. job
\* notes for which runtime they all went through last.
Prepare ==
  /\ at = "prepare"
  /\ \/ job' = [job EXCEPT !.prepared = runtime] /\ Checkpoint("prune")
     \/ Go("reactivate") /\ UNCHANGED job
  /\ UNCHANGED <<storeVars, versions, runtime, aborted, drifted>>

\* The rollback, shielded from cancellation.
Reactivate ==
  /\ at = "reactivate"
  /\ \/ ActivateGeneration(job.previous) /\ Go("resetBack") /\ UNCHANGED job
     \/ ReportAfter("link", "broken") /\ UNCHANGED storeVars
  /\ UNCHANGED <<versions, runtime, aborted, drifted>>

ResetBackSkipped ==
  /\ at = "resetBack" /\ Go("prepareBack")
  /\ UNCHANGED <<storeVars, versions, runtime, jobVars>>

ResetBack ==
  /\ at = "resetBack"
  /\ \/ runtime' = current /\ Go("prepareBack") /\ UNCHANGED job
     \/ runtime' \in {runtime, None, current} /\ Report("broken")
  /\ UNCHANGED <<storeVars, versions, aborted, drifted>>

PrepareBack ==
  /\ at = "prepareBack"
  /\ \/ Go("told")
        /\ job' = [job EXCEPT !.prepared = runtime, !.report = "restored"]
     \/ Report("broken")
  /\ UNCHANGED <<storeVars, versions, runtime, aborted, drifted>>

-----------------------------------------------------------------------------
(* pruneBaselineGenerations                                                *)

\* The plan is made again and must be the one that was confirmed.
Prune ==
  /\ at = "prune"
  /\ IF PrunePlan = job.removed THEN Go("pruning") /\ UNCHANGED job
                                ELSE Report("incomplete")
  /\ UNCHANGED <<storeVars, versions, runtime, aborted, drifted>>

\* One directory after the other, each after a look at the active link.
PruneNext ==
  /\ at = "pruning"
  /\ \E g \in job.removed \cap Generations :
       /\ \A h \in job.removed \cap Generations : g <= h
       /\ g # ActiveGeneration /\ RemoveGeneration(g)
  /\ Go("pruning") /\ UNCHANGED <<versions, runtime, jobVars>>

PruneEnds ==
  /\ at = "pruning"
  /\ \/ job.removed \cap Generations = {} /\ Report("complete")
     \/ Report("incomplete")
  /\ UNCHANGED <<storeVars, versions, runtime, aborted, drifted>>

-----------------------------------------------------------------------------

\* A digest that is used again is as good as a new preview, so it need not be
\* kept.
Return ==
  /\ at = "told" /\ at' = "idle" /\ review' = None /\ Quiet
  /\ job' = NoJob /\ aborted' = FALSE /\ drifted' = FALSE
  /\ UNCHANGED <<storeVars, versions, runtime>>

\* Of these commands only refresh is cancellable; a signal kills the others.
Interrupt ==
  /\ at \in Working /\ job.kind = "refresh" /\ ~aborted
  /\ aborted' = TRUE /\ Go(at)
  /\ UNCHANGED <<storeVars, versions, runtime, job, drifted>>

RefreshKilled ==
  /\ at \in Working /\ at' = "idle" /\ Event
  /\ job' = NoJob /\ aborted' = FALSE /\ drifted' = FALSE
  /\ UNCHANGED <<source, files, inputs, astray>>
  /\ UNCHANGED <<storeVars, versions, runtime>>

\* A migration reaches the source; its privacy policy is reviewed again.
LedgerChanges ==
  /\ ledger < MaxVersions /\ ledger' = ledger + 1 /\ Event
  /\ drifted' = (drifted \/ at \in {"stage", "build", "recheck"})
  /\ UNCHANGED <<source, files, inputs, at, astray>>
  /\ UNCHANGED <<storeVars, approved, runtime, job, aborted>>

ApproveLedger ==
  /\ approved # ledger /\ approved' = ledger
  /\ Go(at) /\ UNCHANGED <<storeVars, ledger, runtime, jobVars>>

CaptureStep ==
  \/ Connect \/ ConnectFails \/ Stage \/ Build \/ BuildFails
  \/ Recheck \/ RecheckFails \/ Activate \/ ActivateFails
  \/ Abandon \/ Abandoned

WorkflowStep ==
  \/ Refreshed \/ Reset \/ Prepare \/ Reactivate \/ ResetBack \/ PrepareBack
  \/ Prune \/ PruneNext \/ PruneEnds \/ Return

RefreshStep ==
  \/ PreviewRefresh \/ ConfirmRefresh \/ BaselineRefresh \/ ImportBaseline
  \/ PreviewCleanup \/ ApplyCleanup \/ ResetRuntime
  \/ CaptureStep \/ WorkflowStep
  \/ Interrupt \/ RefreshKilled \/ LedgerChanges \/ ApproveLedger

Next == RefreshStep \/ (AccessStep /\ UNCHANGED refreshVars)

Spec == RefreshInit /\ [][Next]_vars

-----------------------------------------------------------------------------
(* Properties.                                                             *)

\* The active generation is complete, whatever was killed, given up, rolled
\* back or pruned (artifact.mts; docs/production-source.md:300).
ActiveIsWhole == Verified(current)

\* A captured generation becomes active only if the source did not change
\* between the snapshot and the second look, and if it was read through access
\* that was granted for the very policy the command works with
\* (source/baseline.mts).
CapturedAsReviewed ==
  [][at = "activate" /\ current' # current /\ job.kind # "import" =>
       ~drifted /\ job.under = job.policy]_vars

\* As long as not everything is reset and prepared for the new generation, the
\* previous one is there to go back to (createRefreshWorkflow).
RollbackTargetKept ==
  Refreshing /\ ~Verified(job.previous) =>
    {current, runtime, job.prepared} = {job.new}

\* What is there when a command says how it ended. A failed capture changed
\* neither the active baseline nor the runtime, unless it failed when the new
\* generation was active already, and then it only did that; a refresh that
\* cannot restore the runtime has the previous baseline active and, if only its
\* activation failed, the new one, with the previous one still there; a restored
\* refresh is back where it was in every part, and a completed one is through in
\* every part (source_commands.mts).
ReportIsTrue ==
  /\ job.report = "failed" =>
       /\ runtime = job.runtime
       /\ current = IF job.fault = "late" THEN job.new ELSE job.previous
  /\ job.report = "broken" =>
       /\ current = IF job.fault = "link" THEN job.new ELSE job.previous
       /\ Verified(job.previous)
  /\ job.report = "restored" =>
       {current, runtime, job.prepared} = {job.previous}
  /\ Refreshing /\ job.report \in {"complete", "incomplete"} =>
       {current, runtime, job.prepared} = {job.new}

\* "leaves the previous active baseline and edited runtime untouched when it
\* fails" (docs/commands.md, of baseline refresh). Not so when it fails after
\* the activation.
FailureKeepsBaseline ==
  job.kind = "capture" /\ job.report = "failed" => current = job.previous

\* "The previous immutable baseline is active; run rehearsal reset" (the message
\* of a refresh that could not restore the runtime, source_commands.mts). Not
\* so when the activation of the previous baseline is what failed.
BrokenIsReactivated == job.report = "broken" => current = job.previous

\* Nothing is pruned that the user did not see in the plan he confirmed.
PrunedAsReviewed ==
  [][at = "pruning" /\ stored' # stored =>
       \A g \in Generations :
         g \notin DOMAIN stored' \/ stored'[g] # stored[g] =>
           \/ Shown("cleanup") /\ g \in review.plan
           \/ Shown("refresh") /\ g \in review.plan.removed]_vars

\* What the command has in hand at each place.
Jobs ==
  [kind : {"none", "refresh", "capture", "import", "cleanup"},
   previous : Names \cup {None}, runtime : Names \cup {None},
   new : Names \cup {None}, prepared : Names \cup {None}, version : Nat,
   policy : Policies \cup {None}, under : Policies \cup {None},
   removed : SUBSET Names,
   report : {"none", "failed", "activated", "broken", "restored", "complete",
             "incomplete"},
   fault : {"none", "late", "link"}]

KindOfPlace ==
  /\ at \notin Working \cup {"told"} => job = NoJob
  /\ at # "told" => job.report = "none"
  /\ at # "told" => job.fault = "none"
  /\ at \in {"connect", "recheck"} => job.kind \in {"refresh", "capture"}
  /\ at \in Capturing => job.kind \in {"refresh", "capture", "import"}
  /\ at \in {"refreshed", "reset", "prepare"} \cup RollingBack => Refreshing
  /\ at \in {"prune", "pruning"} => job.kind \in {"refresh", "cleanup"}

Reviewed ==
  /\ Refreshing => Shown("refresh") /\ job.removed = review.plan.removed
  /\ job.kind = "cleanup" /\ at # "told" =>
       Shown("cleanup") /\ job.removed = review.plan

\* Where the active link, the runtime and the generations are at each place.
GenerationsOfPlace ==
  /\ at \in Capturing => current = job.previous /\ runtime = job.runtime
  /\ at \in {"recheck", "activate", "abandon"} =>
       job.new \in used \ {job.previous}
  /\ at \in {"recheck", "activate"} => Verified(job.new)
  /\ at \in {"refreshed", "reset", "prepare"} =>
       current = job.new /\ Verified(job.previous)
  /\ at = "prepare" => runtime = job.new
  /\ at \in RollingBack => Verified(job.previous)
  /\ at = "reactivate" => current = job.new
  /\ at \in {"resetBack", "prepareBack"} => current = job.previous
  /\ at = "prepareBack" => runtime = job.previous
  /\ Refreshing /\ at \in {"prune", "pruning"} =>
       {current, runtime, job.prepared} = {job.new}

SnapshotOfPlace ==
  job.kind # "import" =>
    /\ at \in {"stage", "build", "recheck", "activate"} =>
         job.under = job.policy
    /\ at \in {"stage", "build", "recheck"} =>
         /\ job.version <= ledger
         /\ drifted => job.version < ledger
    /\ at = "activate" => ~drifted

RefreshTypes ==
  /\ Generations \subseteq used /\ used \subseteq Names
  /\ runtime \in Names \cup {None}
  /\ ledger \in Nat /\ job \in Jobs /\ drifted \in BOOLEAN

\* Types, and the inductive strengthening of the properties above.
RefreshInvariant ==
  /\ AccessInvariant /\ RefreshTypes
  /\ KindOfPlace /\ Reviewed /\ GenerationsOfPlace /\ SnapshotOfPlace
  /\ ActiveIsWhole /\ RollbackTargetKept /\ ReportIsTrue

===============================================================================
