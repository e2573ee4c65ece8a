--------------------------- MODULE SourceRefreshProofs --------------------------
(***************************************************************************)
(* The invariants of SourceAccess and SourceRefresh, for any policies, any *)
(* names of generations and any bounds.                                    *)
(***************************************************************************)
EXTENDS SourceRefresh, TLAPS

USE DEF Provider, Managed, Access, Receipt

\* A receipt is neither missing nor torn, and a password is not missing.
LEMMA MarkersDiffer ==
  /\ Torn # None /\ None \notin Nat
  /\ \A r \in Receipt : r # None /\ r # Torn
<1>1. /\ Torn # None /\ None \notin Nat /\ MaxGrants \in Nat
      /\ {None, Torn} \cap [policy : Policies, grant : Nat] = {}
  BY AccessAssumption
<1>2. ASSUME NEW r \in Receipt PROVE r \in [policy : Policies, grant : Nat]
  BY <1>1, <1>2, SMT
<1> QED BY <1>1, <1>2

\* Access whose views are changed is still access of the same plan.
LEMMA ChangedAccess ==
  ASSUME NEW a \in Access, NEW i \in BOOLEAN
  PROVE  LET b == [a EXCEPT !.intact = i]
         IN  /\ b \in Access
             /\ b.policy = a.policy /\ b.grant = a.grant /\ b.by = a.by
  BY SMT

-----------------------------------------------------------------------------
(* The access to the source.                                               *)

LEMMA AccessInitial == AccessInit => AccessInvariant
<1> SUFFICES ASSUME AccessInit PROVE AccessInvariant
  OBVIOUS
<1> USE AccessAssumption, MarkersDiffer DEF AccessInit
<1>1. astray \in BOOLEAN
  BY Zenon
<1>2. AccessStages /\ OnePlan /\ AccessIsRecorded
  BY SMT DEF AccessStages, OnePlan, AccessIsRecorded, Ours, Accessing
<1> QED BY <1>1, <1>2, SMT DEF AccessInvariant

\* Every step of an apply.
LEMMA ApplyKeeps == AccessInvariant /\ ApplyStep => AccessInvariant'
<1> SUFFICES ASSUME AccessInvariant, ApplyStep PROVE AccessInvariant'
  OBVIOUS
<1> USE AccessAssumption, MarkersDiffer
    DEF AccessInvariant, AccessStages, OnePlan, AccessIsRecorded, Ours,
        Accessing, source, files, inputs, bounds, Shown, Show
<1>1. CASE PlanAccess BY <1>1, SMT DEF PlanAccess
<1>2. CASE ApplyAccess
  <2>1. /\ review' = [of |-> "access", plan |-> policy]
        /\ at' \in {"verify", "draft"} /\ at = "idle"
        /\ at' = "draft" => policy \in Managed
        /\ UNCHANGED <<access, grants, lapsed, credential, receipt, policy,
                       events, astray>>
    BY <1>2, SMT DEF ApplyAccess
  <2>2. review' # None /\ review'.of = "access" /\ review'.plan = policy
    BY <2>1, SMT
  <2> QED BY <2>1, <2>2, SMT
<1>3. CASE DraftSecret BY <1>3, SMT DEF DraftSecret
<1>4. CASE ReserveReceipt BY <1>4, SMT DEF ReserveReceipt
<1>5. CASE LinkCredential BY <1>5, SMT DEF LinkCredential
<1>6. CASE Grant
  <2>1. /\ access' = [policy |-> review.plan, grant |-> credential,
                     by |-> "us", intact |-> TRUE]
        /\ access' \in Access
    BY <1>6, SMT DEF Grant
  <2>2. astray' \in BOOLEAN
    BY <1>6, Zenon DEF Grant
  <2>3. AccessStages'
    BY <1>6, <2>1, SMT DEF Grant
  <2>4. OnePlan' /\ AccessIsRecorded'
    BY <1>6, <2>1, SMT DEF Grant
  <2> QED BY <1>6, <2>1, <2>2, <2>3, <2>4, SMT DEF Grant
<1>7. CASE GrantRefused BY <1>7, SMT DEF GrantRefused
<1>8. CASE UndoFiles BY <1>8, SMT DEF UndoFiles, RemoveFiles
<1>9. CASE RecordAccess
  <2>1. at' = "idle" /\ access' = access /\ credential' = credential
    BY <1>9 DEF RecordAccess
  <2>2. CASE astray' = TRUE /\ UNCHANGED receipt
    BY <1>9, <2>2, SMT DEF RecordAccess
  <2>3. CASE /\ receipt' = [policy |-> review.plan, grant |-> credential]
             /\ UNCHANGED astray
    <3>1. /\ receipt' \in Receipt /\ receipt'.policy = review.plan
          /\ receipt'.grant = credential
      BY <1>9, <2>3, SMT DEF RecordAccess
    <3>2. AccessIsRecorded'
      BY <1>9, <2>1, <2>3, SMT DEF RecordAccess
    <3>3. OnePlan' /\ AccessStages'
      BY <1>9, <2>1, <2>3, <3>1, SMT DEF RecordAccess
    <3> QED BY <1>9, <2>3, <3>1, <3>2, <3>3, SMT DEF RecordAccess
  <2> QED BY <1>9, <2>2, <2>3 DEF RecordAccess
<1>10. CASE VerifyReader BY <1>10, SMT DEF VerifyReader
<1>11. CASE RegisterReader BY <1>11, SMT DEF RegisterReader
<1>12. CASE HandCredential BY <1>12, SMT DEF HandCredential
<1> QED
  BY <1>1, <1>2, <1>3, <1>4, <1>5, <1>6, <1>7, <1>8, <1>9, <1>10, <1>11,
     <1>12 DEF ApplyStep

\* Every step of a retirement.
LEMMA RetireKeeps == AccessInvariant /\ RetireStep => AccessInvariant'
<1> SUFFICES ASSUME AccessInvariant, RetireStep PROVE AccessInvariant'
  OBVIOUS
<1> USE AccessAssumption, MarkersDiffer
    DEF AccessInvariant, AccessStages, OnePlan, AccessIsRecorded, Ours,
        Accessing, Readable, source, files, inputs, bounds, Shown, Show
<1>1. CASE PlanRetirement BY <1>1, SMT DEF PlanRetirement
<1>2. CASE RetireAccess
  <2>1. /\ review' = [of |-> "retirement", plan |-> receipt.policy]
        /\ receipt \in Receipt
        /\ at' \in {"forget", "drop"} /\ at = "idle"
        /\ at' = "forget" => receipt.policy \in External
        /\ UNCHANGED <<access, grants, lapsed, credential, receipt, policy,
                       events, astray>>
    BY <1>2, SMT DEF RetireAccess, Retirable
  <2>2. review' # None /\ review'.of = "retirement"
    BY <2>1, SMT
  <2> QED BY <2>1, <2>2, SMT
<1>3. CASE Drop BY <1>3, SMT DEF Drop
<1>4. CASE DropRefused BY <1>4, SMT DEF DropRefused
<1>5. CASE ConfirmRemoval BY <1>5, SMT DEF ConfirmRemoval
<1>6. CASE ForgetFiles BY <1>6, SMT DEF ForgetFiles, RemoveFiles
<1> QED BY <1>1, <1>2, <1>3, <1>4, <1>5, <1>6 DEF RetireStep

\* Every step of the world.
LEMMA WorldKeeps ==
  ASSUME AccessInvariant,
         \/ CommandKilled \/ EditPolicy
         \/ \E g \in 0 .. MaxGrants : Lapse(g)
         \/ AdministratorChanges \/ ColleagueGrants \/ ColleagueRetires
  PROVE AccessInvariant'
<1> USE AccessAssumption, MarkersDiffer
    DEF AccessInvariant, AccessStages, OnePlan, AccessIsRecorded, Ours,
        Accessing, source, files, inputs, bounds, Shown, Event
<1>1. CASE CommandKilled
  <2>1. astray' \in BOOLEAN
    BY <1>1, Zenon DEF CommandKilled
  <2>2. (astray \/ at = "record") => astray'
    BY <1>1, Zenon DEF CommandKilled
  <2>3. AccessIsRecorded' /\ AccessStages' /\ OnePlan'
    BY <1>1, <2>1, <2>2, SMT DEF CommandKilled, Retiring
  <2> QED BY <1>1, <2>1, <2>3, SMT DEF CommandKilled
<1>2. CASE EditPolicy BY <1>2, SMT DEF EditPolicy
<1>3. CASE \E g \in 0 .. MaxGrants : Lapse(g) BY <1>3, SMT DEF Lapse
<1>4. CASE AdministratorChanges
  <2>1. CASE access' = None
    BY <1>4, <2>1, SMT DEF AdministratorChanges
  <2>2. CASE access # None /\ access' = [access EXCEPT !.intact = FALSE]
    <3>1. /\ access' \in Access /\ access'.policy = access.policy
          /\ access'.grant = access.grant /\ access'.by = access.by
      <4>1. access \in Access /\ FALSE \in BOOLEAN
        BY <2>2
      <4> QED BY <2>2, <4>1, ChangedAccess, Zenon
    <3>2. AccessIsRecorded'
      BY <1>4, <2>2, <3>1, SMT DEF AdministratorChanges
    <3>3. AccessStages' /\ OnePlan'
      BY <1>4, <2>2, <3>1, SMT DEF AdministratorChanges
    <3> QED BY <1>4, <3>1, <3>2, <3>3, SMT DEF AdministratorChanges
  <2> QED BY <1>4, <2>1, <2>2 DEF AdministratorChanges
<1>5. CASE ColleagueGrants
  <2>1. /\ access' \in Access /\ access'.grant = grants'
        /\ access'.by = "colleague" /\ grants' = grants + 1
        /\ grants' \in 0 .. MaxGrants
    <3>1. grants' = grants + 1 /\ grants' \in 1 .. MaxGrants
      BY <1>5, SMT DEF ColleagueGrants
    <3>2. access' \in [policy : Managed, grant : {grants'},
                       by : {"colleague"}, intact : {TRUE}]
      BY <1>5 DEF ColleagueGrants
    <3> HIDE DEF AccessInvariant
    <3>3. TRUE \in BOOLEAN
      OBVIOUS
    <3>4. access' \in Access
      BY <3>1, <3>2, <3>3, Zenon
    <3> QED BY <3>1, <3>2, <3>4, SMT
  <2>2. AccessStages' /\ AccessIsRecorded'
    BY <1>5, <2>1, SMT DEF ColleagueGrants
  <2>3. OnePlan'
    BY <1>5, <2>1, SMT DEF ColleagueGrants
  <2> QED BY <1>5, <2>1, <2>2, <2>3, SMT DEF ColleagueGrants
<1>6. CASE ColleagueRetires BY <1>6, SMT DEF ColleagueRetires
<1> QED BY <1>1, <1>2, <1>3, <1>4, <1>5, <1>6

\* The commands of SourceRefresh leave alone what AccessInvariant is about.
LEMMA RefreshLeavesAccess ==
  ASSUME RefreshStep
  PROVE  /\ UNCHANGED <<source, files, policy, astray>>
         /\ events' = events \/ events' = events + 1
         /\ \/ at' = at /\ review' = review
            \/ {at, at'} \cap (Accessing \cup Retiring) = {}
<1> USE DEF source, files, inputs, bounds, Event, Quiet, Go, Report, ReportAfter,
            Accessing, Retiring, Show, Idle, Working, Capturing, Replacing,
            RollingBack
<1>1. CASE PreviewRefresh BY <1>1, SMT DEF PreviewRefresh
<1>2. CASE ConfirmRefresh BY <1>2, SMT DEF ConfirmRefresh
<1>3. CASE BaselineRefresh BY <1>3, SMT DEF BaselineRefresh
<1>4. CASE ImportBaseline BY <1>4, SMT DEF ImportBaseline
<1>5. CASE PreviewCleanup BY <1>5, SMT DEF PreviewCleanup
<1>6. CASE ApplyCleanup BY <1>6, SMT DEF ApplyCleanup
<1>7. CASE ResetRuntime BY <1>7, SMT DEF ResetRuntime
<1>8. CASE CaptureStep
  BY <1>8, SMT DEF CaptureStep, Connect, ConnectFails, Stage, Build, BuildFails,
     Recheck, RecheckFails, Activate, ActivateFails, Abandon, Abandoned
<1>9. CASE WorkflowStep
  BY <1>9, SMT DEF WorkflowStep, Refreshed, Reset, Prepare, Reactivate,
     ResetBack, PrepareBack, Prune, PruneNext, PruneEnds, Return, Checkpoint
<1>10. CASE Interrupt BY <1>10, SMT DEF Interrupt
<1>11. CASE RefreshKilled BY <1>11, SMT DEF RefreshKilled
<1>12. CASE LedgerChanges BY <1>12, SMT DEF LedgerChanges
<1>13. CASE ApproveLedger BY <1>13, SMT DEF ApproveLedger
<1> QED
  BY <1>1, <1>2, <1>3, <1>4, <1>5, <1>6, <1>7, <1>8, <1>9, <1>10, <1>11,
     <1>12, <1>13 DEF RefreshStep

LEMMA AccessKept == AccessInvariant /\ [Next]_vars => AccessInvariant'
<1> SUFFICES ASSUME AccessInvariant, [Next]_vars PROVE AccessInvariant'
  OBVIOUS
<1>1. CASE RefreshStep
  <2>1. /\ UNCHANGED <<source, files, policy, astray>>
        /\ events' = events \/ events' = events + 1
        /\ \/ at' = at /\ review' = review
           \/ {at, at'} \cap (Accessing \cup Retiring) = {}
    BY <1>1, RefreshLeavesAccess
  <2>2. UNCHANGED <<access, grants, policy, credential, receipt, astray>>
    BY <2>1 DEF source, files
  <2>3. CASE at' = at /\ review' = review
    BY <2>1, <2>2, <2>3, SMT
       DEF AccessInvariant, AccessStages, OnePlan, AccessIsRecorded, Ours, Shown
  <2>4. CASE {at, at'} \cap (Accessing \cup Retiring) = {}
    <3>1. /\ at \notin Accessing \cup Retiring
          /\ at' \notin Accessing \cup Retiring
      BY <2>4
    <3>2. AccessStages'
      BY <3>1, SMT DEF AccessStages, Accessing, Retiring
    <3> QED
      BY <2>1, <2>2, <3>1, <3>2, SMT
         DEF AccessInvariant, OnePlan, AccessIsRecorded, Accessing
  <2> QED BY <2>1, <2>3, <2>4
<1>2. CASE AccessStep
  BY <1>2, ApplyKeeps, RetireKeeps, WorldKeeps DEF AccessStep
<1>3. CASE UNCHANGED vars
  BY <1>3, SMT
     DEF AccessInvariant, AccessStages, OnePlan, AccessIsRecorded, Ours,
         Accessing, source, files, inputs, bounds, Shown, vars, accessVars
<1> QED BY <1>1, <1>2, <1>3 DEF Next
-----------------------------------------------------------------------------
(* The baselines and the runtime.                                          *)

\* What SourceAccess does leaves alone what the rest of RefreshInvariant is
\* about.
LEMMA AccessLeavesRefresh ==
  ASSUME AccessStep
  PROVE  \/ at' = at /\ review' = review
         \/ {at, at'} \cap (Working \cup {"told"}) = {}
<1> USE DEF source, files, inputs, bounds, Event, Working, Capturing, Replacing,
            RollingBack, Accessing, Retiring
<1>1. CASE ApplyStep
  BY <1>1, SMT DEF ApplyStep, PlanAccess, ApplyAccess, DraftSecret,
     ReserveReceipt, LinkCredential, Grant, GrantRefused, UndoFiles,
     RemoveFiles, RecordAccess, VerifyReader, RegisterReader, HandCredential
<1>2. CASE RetireStep
  BY <1>2, SMT DEF RetireStep, PlanRetirement, RetireAccess, Drop, DropRefused,
     ConfirmRemoval, ForgetFiles, RemoveFiles
<1>3. CASE CommandKilled
  BY <1>3, SMT DEF CommandKilled
<1>4. CASE ~ApplyStep /\ ~RetireStep /\ ~CommandKilled
  BY <1>4, SMT DEF AccessStep, Lapse, EditPolicy, AdministratorChanges,
     ColleagueGrants, ColleagueRetires
<1> QED BY <1>1, <1>2, <1>3, <1>4

LEMMA NoJobIsJob == NoJob \in Jobs
  BY SMT DEF NoJob, Jobs

LEMMA RefreshInitial == RefreshInit => RefreshInvariant
<1> SUFFICES ASSUME RefreshInit PROVE RefreshInvariant
  OBVIOUS
<1> USE RefreshAssumption, StoreAssumption, NoJobIsJob DEF RefreshInit
<1>1. AccessInvariant /\ at = "idle"
  BY AccessInitial DEF AccessInit
<1>2. drifted \in BOOLEAN
  BY Zenon
<1>3. KindOfPlace /\ Reviewed /\ GenerationsOfPlace /\ SnapshotOfPlace
  BY <1>1, SMT
     DEF KindOfPlace, Reviewed, GenerationsOfPlace, SnapshotOfPlace, Refreshing,
         Working, Capturing, Replacing, RollingBack, NoJob
<1>4. ActiveIsWhole /\ RollbackTargetKept /\ ReportIsTrue
  BY SMT
     DEF ActiveIsWhole, RollbackTargetKept, ReportIsTrue, Refreshing, Verified,
         Generations, NoJob
<1> QED BY <1>1, <1>2, <1>3, <1>4, SMT
     DEF RefreshInvariant, RefreshTypes, Generations

\* What a command notes when it begins: one field after the other.
LEMMA CaptureJob ==
  ASSUME NEW k \in {"refresh", "capture", "import"},
         current \in Names \cup {None}, runtime \in Names \cup {None},
         job' = [NoJob EXCEPT !.kind = k, !.previous = current,
                              !.runtime = runtime]
  PROVE  /\ job' \in Jobs /\ job'.previous = current
         /\ job'.runtime = runtime /\ job'.kind = k /\ job'.report = "none" /\ job'.fault = "none"
<1> DEFINE i == [NoJob EXCEPT !.kind = k]
           j == [i EXCEPT !.previous = current]
           m == [j EXCEPT !.runtime = runtime]
<1>1. i \in Jobs /\ i.kind = k /\ i.report = "none" /\ i.fault = "none"
  BY NoJobIsJob, SMT DEF Jobs, NoJob
<1> HIDE DEF i
<1>2. /\ j \in Jobs /\ j.previous = current /\ j.kind = k
      /\ j.report = "none" /\ j.fault = "none"
  BY <1>1, SMT DEF Jobs
<1> HIDE DEF j
<1>3. /\ m \in Jobs /\ m.runtime = runtime /\ m.previous = current
      /\ m.kind = k /\ m.report = "none" /\ m.fault = "none"
  BY <1>2, SMT DEF Jobs
<1>4. m = job'
  BY Zenon DEF i, j
<1> QED BY <1>3, <1>4, Zenon

LEMMA RefreshJob ==
  ASSUME current \in Names \cup {None}, runtime \in Names \cup {None},
         review.plan.removed \in SUBSET Names,
         job' = [NoJob EXCEPT !.kind = "refresh", !.previous = current,
                   !.runtime = runtime, !.removed = review.plan.removed]
  PROVE  /\ job' \in Jobs /\ job'.previous = current
         /\ job'.runtime = runtime /\ job'.kind = "refresh"
         /\ job'.report = "none" /\ job'.fault = "none" /\ job'.removed = review.plan.removed
<1> DEFINE i == [NoJob EXCEPT !.kind = "refresh"]
           j == [i EXCEPT !.previous = current]
           m == [j EXCEPT !.runtime = runtime]
           n == [m EXCEPT !.removed = review.plan.removed]
<1>1. i \in Jobs /\ i.kind = "refresh" /\ i.report = "none" /\ i.fault = "none"
  BY NoJobIsJob, SMT DEF Jobs, NoJob
<1> HIDE DEF i
<1>2. /\ j \in Jobs /\ j.previous = current /\ j.kind = "refresh"
      /\ j.report = "none" /\ j.fault = "none"
  BY <1>1, SMT DEF Jobs
<1> HIDE DEF j
<1>3. /\ m \in Jobs /\ m.runtime = runtime /\ m.previous = current
      /\ m.kind = "refresh" /\ m.report = "none" /\ m.fault = "none"
  BY <1>2, SMT DEF Jobs
<1> HIDE DEF m
<1>4. /\ n \in Jobs /\ n.runtime = runtime /\ n.previous = current
      /\ n.kind = "refresh" /\ n.report = "none" /\ n.fault = "none"
      /\ n.removed = review.plan.removed
  BY <1>3, SMT DEF Jobs
<1>5. n = job'
  BY Zenon DEF i, j, m
<1> QED BY <1>4, <1>5, Zenon

LEMMA CleanupJob ==
  ASSUME review.plan \in SUBSET Names,
         job' = [NoJob EXCEPT !.kind = "cleanup", !.removed = review.plan]
  PROVE  /\ job' \in Jobs /\ job'.removed = review.plan
         /\ job'.kind = "cleanup" /\ job'.report = "none" /\ job'.fault = "none"
<1> DEFINE i == [NoJob EXCEPT !.kind = "cleanup"]
           j == [i EXCEPT !.removed = review.plan]
<1>1. i \in Jobs /\ i.kind = "cleanup" /\ i.report = "none" /\ i.fault = "none"
  BY NoJobIsJob, SMT DEF Jobs, NoJob
<1> HIDE DEF i
<1>2. /\ j \in Jobs /\ j.removed = review.plan /\ j.kind = "cleanup"
      /\ j.report = "none" /\ j.fault = "none"
  BY <1>1, SMT DEF Jobs
<1>3. j = job'
  BY Zenon DEF i
<1> QED BY <1>2, <1>3, Zenon

\* The commands begin.
LEMMA BeginKeeps ==
  ASSUME RefreshInvariant, AccessInvariant',
         \/ PreviewRefresh \/ ConfirmRefresh \/ BaselineRefresh
         \/ ImportBaseline \/ PreviewCleanup \/ ApplyCleanup \/ ResetRuntime
  PROVE  RefreshInvariant'
<1> USE RefreshAssumption, StoreAssumption
    DEF RefreshInvariant, storeVars, versions, jobVars, refreshVars, source,
        files, bounds, Quiet, Go, Idle
<1>1. /\ at = "idle" /\ job = NoJob /\ current \in Names
      /\ RefreshTypes /\ ActiveIsWhole
  BY SMT
     DEF PreviewRefresh, ConfirmRefresh, BaselineRefresh, ImportBaseline,
         PreviewCleanup, ApplyCleanup, ResetRuntime, KindOfPlace, Working,
         Capturing, Replacing, RollingBack, RefreshTypes, ActiveIsWhole,
         Verified, Generations
<1>2. CASE /\ job' = NoJob /\ at' = "idle" /\ UNCHANGED <<storeVars, versions>>
           /\ runtime' \in Names \cup {None} /\ UNCHANGED drifted
  <2>1. RefreshTypes' /\ ActiveIsWhole'
    BY <1>1, <1>2, NoJobIsJob, SMT
       DEF RefreshTypes, ActiveIsWhole, Verified, Generations
  <2>2. NoJob.kind = "none" /\ NoJob.report = "none" /\ NoJob.fault = "none"
    BY DEF NoJob
  <2>3. /\ KindOfPlace' /\ Reviewed' /\ GenerationsOfPlace'
        /\ SnapshotOfPlace' /\ RollbackTargetKept' /\ ReportIsTrue'
    BY <1>2, <2>2, SMT
       DEF KindOfPlace, Reviewed, GenerationsOfPlace, SnapshotOfPlace,
           RollbackTargetKept, ReportIsTrue, Refreshing, Working, Capturing,
           Replacing, RollingBack
  <2> QED BY <2>1, <2>3
<1>3. CASE PreviewRefresh \/ PreviewCleanup \/ ResetRuntime
  BY <1>1, <1>2, <1>3, SMT
     DEF PreviewRefresh, PreviewCleanup, ResetRuntime, RefreshTypes
<1>4. ASSUME at' \in {"connect", "stage", "prune"},
             UNCHANGED <<storeVars, versions, review, drifted>>,
             runtime' \in {runtime, None},
             job' \in Jobs, job'.report = "none" /\ job'.fault = "none",
             at' = "connect" => job'.kind \in {"refresh", "capture"},
             at' = "stage" => job'.kind = "import",
             at' = "prune" => job'.kind = "cleanup",
             job'.kind = "refresh" =>
               Shown("refresh") /\ job'.removed = review.plan.removed,
             job'.kind = "cleanup" =>
               Shown("cleanup") /\ job'.removed = review.plan,
             job'.kind # "cleanup" =>
               /\ job'.previous = current /\ job'.runtime = runtime
               /\ runtime' = runtime
      PROVE  RefreshInvariant'
  <2>2. RefreshTypes' /\ ActiveIsWhole'
    BY <1>1, <1>4, SMT
       DEF RefreshTypes, ActiveIsWhole, Verified, Generations
  <2>3. KindOfPlace' /\ Reviewed'
    BY <1>4, SMT
       DEF KindOfPlace, Reviewed, Refreshing, Working, Capturing, Replacing,
           RollingBack, Shown
  <2>4. /\ GenerationsOfPlace' /\ SnapshotOfPlace' /\ RollbackTargetKept'
        /\ ReportIsTrue'
    BY <1>1, <1>4, <2>2, SMT
       DEF GenerationsOfPlace, SnapshotOfPlace, RollbackTargetKept,
           ReportIsTrue, Refreshing, Capturing, RollingBack, ActiveIsWhole
  <2> QED BY <2>2, <2>3, <2>4
<1>5. runtime \in Names \cup {None} /\ current \in Names \cup {None}
  BY <1>1 DEF RefreshTypes
<1>6. CASE ConfirmRefresh
  <2>1. review.plan.removed \in SUBSET Names
    BY <1>1, <1>6, SMT
       DEF ConfirmRefresh, RefreshPlan, ReplacementPlan, RefreshTypes
  <2>2. job' = [NoJob EXCEPT !.kind = "refresh", !.previous = current,
                  !.runtime = runtime, !.removed = review.plan.removed]
    BY <1>6 DEF ConfirmRefresh
  <2>3. /\ job' \in Jobs /\ job'.previous = current /\ job'.runtime = runtime
        /\ job'.kind = "refresh" /\ job'.report = "none" /\ job'.fault = "none"
        /\ job'.removed = review.plan.removed
    BY <1>5, <2>1, <2>2, RefreshJob
  <2>4. /\ at' = "connect" /\ UNCHANGED <<storeVars, versions, review, drifted>>
        /\ UNCHANGED runtime /\ Shown("refresh")
    BY <1>6 DEF ConfirmRefresh
  <2> QED BY <1>4, <2>3, <2>4, SMT
<1>7. ASSUME NEW k \in {"capture", "import"},
             job' = [NoJob EXCEPT !.kind = k, !.previous = current,
                                  !.runtime = runtime],
             at' = IF k = "capture" THEN "connect" ELSE "stage",
             UNCHANGED <<storeVars, versions, review, drifted, runtime>>
      PROVE  RefreshInvariant'
  <2>1. k \in {"refresh", "capture", "import"}
    OBVIOUS
  <2>2. /\ job' \in Jobs /\ job'.kind = k /\ job'.previous = current
        /\ job'.runtime = runtime /\ job'.report = "none" /\ job'.fault = "none"
    BY <1>5, <1>7, <2>1, CaptureJob, Zenon
  <2>3. /\ at' \in {"connect", "stage"} /\ k # "refresh" /\ k # "cleanup"
        /\ at' = "connect" => k = "capture"
        /\ at' = "stage" => k = "import"
    BY <1>7
  <2>4. UNCHANGED <<storeVars, versions, review, drifted, runtime>>
    BY <1>7
  <2> QED BY <1>4, <2>2, <2>3, <2>4, SMT
<1>8. CASE BaselineRefresh
  BY <1>7, <1>8, SMT DEF BaselineRefresh
<1>9. CASE ImportBaseline
  BY <1>7, <1>9, SMT DEF ImportBaseline
<1>10. CASE ApplyCleanup
  <2>1. review.plan \in SUBSET Names
    BY <1>1, <1>10, SMT DEF ApplyCleanup, PrunePlan, RefreshTypes
  <2>2. job' = [NoJob EXCEPT !.kind = "cleanup", !.removed = review.plan]
    BY <1>10 DEF ApplyCleanup
  <2>3. /\ job' \in Jobs /\ job'.kind = "cleanup" /\ job'.report = "none" /\ job'.fault = "none"
        /\ job'.removed = review.plan
    BY <2>1, <2>2, CleanupJob
  <2>4. /\ at' = "prune" /\ UNCHANGED <<storeVars, versions, review, drifted>>
        /\ runtime' \in {runtime, None} /\ Shown("cleanup")
    BY <1>10 DEF ApplyCleanup
  <2> QED BY <1>4, <2>3, <2>4, SMT
<1> QED BY <1>3, <1>6, <1>8, <1>9, <1>10

\* A report changes nothing else about the job.
LEMMA ReportedJob ==
  ASSUME job \in Jobs, NEW fault \in {"none", "late", "link"},
         NEW what \in {"failed", "activated", "broken", "restored", "complete",
                       "incomplete"},
         job' = [job EXCEPT !.report = what, !.fault = fault]
  PROVE  /\ job' \in Jobs /\ job'.report = what /\ job'.fault = fault
         /\ job'.kind = job.kind /\ job'.previous = job.previous
         /\ job'.runtime = job.runtime /\ job'.new = job.new
         /\ job'.prepared = job.prepared /\ job'.removed = job.removed
<1> DEFINE i == [job EXCEPT !.report = what]
           j == [i EXCEPT !.fault = fault]
<1>1. /\ i \in Jobs /\ i.report = what
      /\ i.kind = job.kind /\ i.previous = job.previous
      /\ i.runtime = job.runtime /\ i.new = job.new
      /\ i.prepared = job.prepared /\ i.removed = job.removed
  BY SMT DEF Jobs
<1> HIDE DEF i
<1>2. /\ j \in Jobs /\ j.report = i.report /\ j.fault = fault
      /\ j.kind = i.kind /\ j.previous = i.previous
      /\ j.runtime = i.runtime /\ j.new = i.new
      /\ j.prepared = i.prepared /\ j.removed = i.removed
  BY <1>1, SMT DEF Jobs
<1>3. j = job'
  BY Zenon DEF i
<1> HIDE DEF j
<1> QED BY <1>1, <1>2, <1>3

\* The end of a command: what is left to show.
LEMMA Tells ==
  ASSUME RefreshInvariant, AccessInvariant', at \in Working,
         NEW fault \in {"none", "late", "link"},
         NEW what \in {"failed", "activated", "broken", "restored", "complete",
                       "incomplete"},
         ReportAfter(fault, what), UNCHANGED <<versions, drifted>>,
         runtime' \in Names \cup {None},
         Generations' \subseteq used', used' \subseteq Names,
         ActiveIsWhole', RollbackTargetKept', ReportIsTrue'
  PROVE  RefreshInvariant'
<1>1. job \in Jobs /\ job' = [job EXCEPT !.report = what, !.fault = fault]
  BY DEF RefreshInvariant, RefreshTypes, ReportAfter
<1>2. /\ job' \in Jobs /\ job'.kind = job.kind /\ job'.removed = job.removed
  BY <1>1, ReportedJob
<1>3. at' = "told" /\ review' = review
  BY DEF ReportAfter, Go
<1>4. RefreshTypes'
  BY <1>2, SMT DEF RefreshInvariant, RefreshTypes, versions
<1>5. /\ KindOfPlace' /\ Reviewed' /\ GenerationsOfPlace' /\ SnapshotOfPlace'
  BY <1>2, <1>3, SMT
     DEF RefreshInvariant, KindOfPlace, Reviewed, GenerationsOfPlace,
         SnapshotOfPlace, Refreshing, Working, Capturing, Replacing,
         RollingBack, Shown
<1> QED BY <1>4, <1>5 DEF RefreshInvariant

\* A failed capture.
LEMMA CaptureFails ==
  ASSUME RefreshInvariant, AccessInvariant', at \in Capturing,
         Report("failed"), UNCHANGED <<current, used, versions, runtime, drifted>>,
         Generations' \subseteq used, ActiveIsWhole'
  PROVE  RefreshInvariant'
<1>1. /\ job \in Jobs /\ job' = [job EXCEPT !.report = "failed", !.fault = "none"]
      /\ current = job.previous /\ runtime = job.runtime
  BY DEF RefreshInvariant, RefreshTypes, Report, ReportAfter, GenerationsOfPlace
<1>2. /\ job'.kind = job.kind /\ job'.previous = job.previous
      /\ job'.runtime = job.runtime /\ job'.report = "failed"
      /\ job'.fault = "none"
  BY <1>1, ReportedJob
<1>3. RollbackTargetKept' /\ ReportIsTrue'
  BY <1>1, <1>2, SMT DEF RollbackTargetKept, ReportIsTrue, ActiveIsWhole
<1>4. at \in Working /\ used' \subseteq Names /\ runtime' \in Names \cup {None}
  BY DEF Working, RefreshInvariant, RefreshTypes
<1>5. ReportAfter("none", "failed")
  BY DEF Report
<1> QED BY <1>3, <1>4, <1>5, Tells

LEMMA ConnectKeeps ==
  ASSUME RefreshInvariant, AccessInvariant', Connect
  PROVE  RefreshInvariant'
<1> DEFINE under == IF credential = Provider THEN receipt.policy
                                             ELSE access.policy
           i == [job EXCEPT !.version = ledger]
           j == [i EXCEPT !.policy = policy]
           m == [j EXCEPT !.under = under]
<1>1. under = policy /\ policy \in Policies
  BY AccessAssumption, MarkersDiffer, SMT
     DEF RefreshInvariant, AccessInvariant, OnePlan, Connect, ReceiptMatches,
         Unexpired, Readable, Works
<1>2. job \in Jobs /\ ledger \in Nat
  BY DEF RefreshInvariant, RefreshTypes
<1>3. /\ i \in Jobs /\ i.version = ledger /\ i.kind = job.kind
      /\ i.report = job.report /\ i.fault = job.fault /\ i.previous = job.previous
      /\ i.runtime = job.runtime /\ i.removed = job.removed
  BY <1>2, SMT DEF Jobs
<1> HIDE DEF i, under
<1>4. /\ j \in Jobs /\ j.version = ledger /\ j.policy = policy
      /\ j.kind = i.kind /\ j.report = i.report /\ j.fault = i.fault /\ j.previous = i.previous
      /\ j.runtime = i.runtime /\ j.removed = i.removed
  BY <1>1, <1>3, SMT DEF Jobs
<1> HIDE DEF j
<1>5. /\ m \in Jobs /\ m.version = ledger /\ m.policy = policy /\ m.under = under
      /\ m.kind = j.kind /\ m.report = j.report /\ m.fault = j.fault /\ m.previous = j.previous
      /\ m.runtime = j.runtime /\ m.removed = j.removed
  BY <1>1, <1>4, SMT DEF Jobs
<1>6. job' = m
  BY Zenon DEF Connect, i, j, under
<1> HIDE DEF m
<1>7. /\ job' \in Jobs /\ job'.version = ledger /\ job'.under = job'.policy
      /\ job'.kind = job.kind /\ job'.report = job.report /\ job'.fault = job.fault
      /\ job'.previous = job.previous /\ job'.runtime = job.runtime
      /\ job'.removed = job.removed
  BY <1>1, <1>3, <1>4, <1>5, <1>6
<1>8. /\ at = "connect" /\ at' = "stage" /\ review' = review /\ drifted' = FALSE
      /\ UNCHANGED <<storeVars, versions, runtime>>
  BY DEF Connect, Go
<1>9. drifted' \in BOOLEAN /\ ~drifted'
  BY <1>8, Zenon
<1>10. RefreshTypes' /\ ActiveIsWhole'
  BY <1>7, <1>8, <1>9, SMT
     DEF RefreshInvariant, RefreshTypes, ActiveIsWhole, Verified, Generations,
         storeVars, versions
<1>11. KindOfPlace' /\ Reviewed'
  BY <1>7, <1>8, SMT
     DEF RefreshInvariant, KindOfPlace, Reviewed, Refreshing, Working,
         Capturing, Replacing, RollingBack, Shown
<1>12. GenerationsOfPlace' /\ SnapshotOfPlace'
  BY <1>2, <1>7, <1>8, <1>9, SMT
     DEF RefreshInvariant, GenerationsOfPlace, SnapshotOfPlace, Refreshing,
         Capturing, RollingBack, storeVars, versions
<1>13. RollbackTargetKept' /\ ReportIsTrue'
  BY <1>7, <1>8, <1>10, SMT
     DEF RefreshInvariant, GenerationsOfPlace, KindOfPlace, RollbackTargetKept,
         ReportIsTrue, Capturing, ActiveIsWhole, storeVars
<1> QED BY <1>10, <1>11, <1>12, <1>13 DEF RefreshInvariant

LEMMA StageKeeps ==
  ASSUME RefreshInvariant, AccessInvariant', Stage
  PROVE  RefreshInvariant'
<1>1. /\ at = "stage" /\ at' = "build" /\ review' = review
      /\ UNCHANGED <<stored, current, used, versions, runtime, jobVars>>
  BY DEF Stage, Go, StartBuild
<1> QED
  BY <1>1, SMT
     DEF RefreshInvariant, RefreshTypes, ActiveIsWhole, Verified, Generations,
         versions, jobVars, KindOfPlace, Reviewed, Refreshing, Working,
         Capturing, Replacing, RollingBack, Shown, GenerationsOfPlace,
         SnapshotOfPlace, RollbackTargetKept, ReportIsTrue

LEMMA BuildKeeps ==
  ASSUME RefreshInvariant, AccessInvariant', Build
  PROVE  RefreshInvariant'
<1>1. PICK g \in Names : FinishBuild(g) /\ job' = [job EXCEPT !.new = g]
  BY DEF Build
<1>2. job \in Jobs
  BY DEF RefreshInvariant, RefreshTypes
<1>3. /\ job' \in Jobs /\ job'.new = g /\ job'.kind = job.kind
      /\ job'.report = job.report /\ job'.fault = job.fault /\ job'.previous = job.previous
      /\ job'.runtime = job.runtime /\ job'.removed = job.removed
      /\ job'.version = job.version /\ job'.policy = job.policy
      /\ job'.under = job.under
  BY <1>1, <1>2, SMT DEF Jobs
<1>4. /\ at = "build" /\ review' = review
      /\ at' = IF job.kind = "import" THEN "activate" ELSE "recheck"
      /\ UNCHANGED <<versions, runtime, drifted>>
  BY DEF Build, Go
<1>5. /\ g \in Names \ used /\ used' = used \cup {g} /\ current' = current
      /\ stored' = [h \in Generations \cup {g} |->
                      IF h = g THEN "whole" ELSE stored[h]]
  BY <1>1 DEF FinishBuild
<1>6. RefreshTypes' /\ ActiveIsWhole'
  BY <1>3, <1>4, <1>5, SMT
     DEF RefreshInvariant, RefreshTypes, ActiveIsWhole, Verified, Generations,
         versions
<1>7. KindOfPlace' /\ Reviewed'
  BY <1>3, <1>4, SMT
     DEF RefreshInvariant, KindOfPlace, Reviewed, Refreshing, Working,
         Capturing, Replacing, RollingBack, Shown
<1>8. current = job.previous /\ current \in used /\ runtime = job.runtime
  BY <1>4, SMT
     DEF RefreshInvariant, RefreshTypes, GenerationsOfPlace, Capturing,
         ActiveIsWhole, Verified
<1>9. GenerationsOfPlace'
  BY <1>3, <1>4, <1>5, <1>8, SMT
     DEF RefreshInvariant, GenerationsOfPlace, Verified, Generations,
         Capturing, RollingBack
<1>10. SnapshotOfPlace'
  BY <1>3, <1>4, SMT DEF RefreshInvariant, SnapshotOfPlace, versions
<1>11. RollbackTargetKept' /\ ReportIsTrue'
  BY <1>3, <1>4, <1>5, <1>6, <1>8, SMT
     DEF RefreshInvariant, KindOfPlace, RollbackTargetKept, ReportIsTrue,
         ActiveIsWhole
<1> QED BY <1>6, <1>7, <1>9, <1>10, <1>11 DEF RefreshInvariant

\* A step that only goes on to the next place.
LEMMA RecheckKeeps ==
  ASSUME RefreshInvariant, AccessInvariant',
         Recheck \/ RecheckFails \/ ActivateFails
  PROVE  RefreshInvariant'
<1>1. /\ at \in {"recheck", "activate"} /\ at' \in {"activate", "abandon"}
      /\ review' = review /\ UNCHANGED <<storeVars, versions, runtime, jobVars>>
      /\ at' = "activate" => at = "recheck" /\ ledger = job.version
  BY DEF Recheck, RecheckFails, ActivateFails, Go
<1>2. RefreshTypes' /\ ActiveIsWhole'
  BY <1>1, SMT
     DEF RefreshInvariant, RefreshTypes, ActiveIsWhole, Verified, Generations,
         storeVars, versions, jobVars
<1>3. KindOfPlace' /\ Reviewed'
  BY <1>1, SMT
     DEF RefreshInvariant, KindOfPlace, Reviewed, Refreshing, Working,
         Capturing, Replacing, RollingBack, Shown, jobVars
<1>4. GenerationsOfPlace'
  BY <1>1, SMT
     DEF RefreshInvariant, GenerationsOfPlace, Verified, Generations,
         Capturing, RollingBack, storeVars, jobVars
<1>5. SnapshotOfPlace'
  BY <1>1, SMT
     DEF RefreshInvariant, RefreshTypes, Jobs, SnapshotOfPlace, versions, jobVars
<1>6. RollbackTargetKept' /\ ReportIsTrue'
  BY <1>1, SMT
     DEF RefreshInvariant, RollbackTargetKept, ReportIsTrue, Refreshing,
         Verified, Generations, storeVars, jobVars
<1> QED BY <1>2, <1>3, <1>4, <1>5, <1>6 DEF RefreshInvariant

LEMMA ActivateKeeps ==
  ASSUME RefreshInvariant, AccessInvariant', Activate
  PROVE  RefreshInvariant'
<1>1. /\ at = "activate" /\ current' = job.new
      /\ UNCHANGED <<stored, used, versions, runtime, drifted>>
      /\ Verified(job.new) /\ Verified(job.previous)
      /\ job.kind \in {"refresh", "capture", "import"}
      /\ job.report = "none" /\ job.fault = "none" /\ runtime = job.runtime
      /\ Generations' = Generations /\ at \in Working /\ at \in Capturing
  BY SMT
     DEF Activate, ActivateGeneration, RefreshInvariant, GenerationsOfPlace,
         KindOfPlace, Capturing, Working, ActiveIsWhole, Generations
<1>2. RefreshTypes /\ ActiveIsWhole'
  BY <1>1 DEF ActiveIsWhole, Verified, Generations, RefreshInvariant
<1>3. CASE Refreshing /\ Go("refreshed") /\ job' = job
  <2>1. at' = "refreshed" /\ review' = review /\ job' = job
    BY <1>3 DEF Go
  <2>2. RefreshTypes'
    BY <1>1, <1>2, <2>1, SMT DEF RefreshTypes, versions, Generations
  <2>3. KindOfPlace' /\ Reviewed' /\ SnapshotOfPlace'
    BY <1>1, <1>3, <2>1, SMT
       DEF RefreshInvariant, KindOfPlace, Reviewed, Refreshing, Working,
           Capturing, Replacing, RollingBack, Shown, SnapshotOfPlace
  <2>4. GenerationsOfPlace' /\ RollbackTargetKept' /\ ReportIsTrue'
    BY <1>1, <1>3, <2>1, SMT
       DEF GenerationsOfPlace, Verified, Generations, Capturing, RollingBack,
           RollbackTargetKept, ReportIsTrue, Refreshing
  <2> QED BY <1>2, <2>2, <2>3, <2>4 DEF RefreshInvariant
<1>4. ASSUME NEW fault \in {"none", "late"}, NEW what \in {"activated", "failed"},
             ReportAfter(fault, what),
             /\ fault = "none" => ~Refreshing /\ what = "activated"
             /\ fault = "late" => what = "failed"
      PROVE  RefreshInvariant'
  <2>1. job \in Jobs /\ job' = [job EXCEPT !.report = what, !.fault = fault]
    BY <1>2, <1>4 DEF ReportAfter, RefreshTypes
  <2>2. /\ job'.report = what /\ job'.fault = fault /\ job'.kind = job.kind
        /\ job'.previous = job.previous /\ job'.runtime = job.runtime
        /\ job'.new = job.new
    BY <2>1, ReportedJob
  <2>3. RollbackTargetKept' /\ ReportIsTrue'
    BY <1>1, <1>4, <2>2, SMT
       DEF RollbackTargetKept, ReportIsTrue, Refreshing, Verified, Generations
  <2>4. /\ Generations' \subseteq used' /\ used' \subseteq Names
        /\ runtime' \in Names \cup {None}
    BY <1>1, <1>2 DEF RefreshTypes
  <2> QED BY <1>1, <1>2, <1>4, <2>3, <2>4, Tells
<1> QED
  <2>1. \/ Refreshing /\ Go("refreshed") /\ job' = job
        \/ ~Refreshing /\ ReportAfter("none", "activated")
        \/ ReportAfter("late", "failed")
    BY DEF Activate, Report
  <2> QED BY <1>3, <1>4, <2>1

LEMMA AbandonKeeps ==
  ASSUME RefreshInvariant, AccessInvariant', Abandon
  PROVE  RefreshInvariant'
<1>1. /\ at = "abandon" /\ at' = "abandon" /\ review' = review
      /\ UNCHANGED <<current, used, versions, runtime, jobVars>>
      /\ job.new # current /\ RemoveGeneration(job.new)
  BY DEF Abandon, Go, RemoveGeneration, ActiveGeneration
<1>2. /\ Generations' \subseteq Generations
      /\ \A h \in Generations : h # job.new =>
           h \in Generations' /\ stored'[h] = stored[h]
  BY <1>1, SMT DEF RemoveGeneration, Generations
<1>3. RefreshTypes' /\ ActiveIsWhole'
  BY <1>1, <1>2, SMT
     DEF RefreshInvariant, RefreshTypes, ActiveIsWhole, Verified,
         versions, jobVars
<1>4. KindOfPlace' /\ Reviewed' /\ SnapshotOfPlace'
  BY <1>1, SMT
     DEF RefreshInvariant, KindOfPlace, Reviewed, Refreshing, Shown,
         SnapshotOfPlace, Working, Capturing, jobVars
<1>5. current' = job'.previous /\ GenerationsOfPlace'
  BY <1>1, SMT
     DEF RefreshInvariant, GenerationsOfPlace, Capturing, RollingBack, jobVars
<1>6. RollbackTargetKept' /\ ReportIsTrue'
  BY <1>1, <1>3, <1>5, SMT
     DEF RefreshInvariant, KindOfPlace, RollbackTargetKept, ReportIsTrue,
         ActiveIsWhole, jobVars
<1> QED BY <1>3, <1>4, <1>5, <1>6 DEF RefreshInvariant

\* All steps of a capture.
LEMMA CaptureKeeps ==
  ASSUME RefreshInvariant, AccessInvariant', CaptureStep
  PROVE  RefreshInvariant'
<1>1. CASE ConnectFails \/ BuildFails \/ Abandoned
  <2>1. /\ at \in Capturing /\ Report("failed")
        /\ UNCHANGED <<stored, current, used, versions, runtime, drifted>>
    BY <1>1
       DEF ConnectFails, BuildFails, Abandoned, GiveUpBuild, Capturing, storeVars
  <2>2. Generations' \subseteq used /\ ActiveIsWhole'
    BY <2>1
       DEF RefreshInvariant, RefreshTypes, ActiveIsWhole, Verified, Generations
  <2> QED BY <2>1, <2>2, CaptureFails
<1> QED
  BY <1>1, ConnectKeeps, StageKeeps, BuildKeeps, RecheckKeeps, ActivateKeeps,
     AbandonKeeps DEF CaptureStep

\* A step of the refresh workflow that goes on: what is left to show.
LEMMA GoesOn ==
  ASSUME RefreshInvariant, AccessInvariant', Refreshing,
         at' \in {"reset", "prepare", "prune"} \cup RollingBack,
         review' = review, UNCHANGED <<stored, used, versions, drifted>>,
         runtime' \in Names \cup {None}, current' \in Generations,
         job' \in Jobs, job'.kind = job.kind, job'.previous = job.previous,
         job'.new = job.new, job'.removed = job.removed,
         job'.report = "none" /\ job'.fault = "none",
         ActiveIsWhole', GenerationsOfPlace', RollbackTargetKept'
  PROVE  RefreshInvariant'
<1>1. RefreshTypes'
  BY SMT DEF RefreshInvariant, RefreshTypes, Generations, versions
<1>2. KindOfPlace' /\ Reviewed' /\ SnapshotOfPlace' /\ ReportIsTrue'
  BY SMT
     DEF RefreshInvariant, KindOfPlace, Reviewed, Refreshing, Working,
         Capturing, Replacing, RollingBack, Shown, SnapshotOfPlace,
         ReportIsTrue
<1> QED BY <1>1, <1>2 DEF RefreshInvariant

\* The phases after the activation.
LEMMA PhasesKeep ==
  ASSUME RefreshInvariant, AccessInvariant', Refreshed \/ Reset \/ Prepare
  PROVE  RefreshInvariant'
<1>1. /\ at \in {"refreshed", "reset", "prepare"} /\ Refreshing
      /\ current = job.new /\ Verified(job.previous) /\ ActiveIsWhole
      /\ job \in Jobs /\ job.report = "none" /\ job.fault = "none" /\ runtime \in Names \cup {None}
      /\ current \in Generations /\ current \in Names
  BY SMT
     DEF Refreshed, Reset, Prepare, RefreshInvariant, KindOfPlace, RefreshTypes,
         GenerationsOfPlace, ActiveIsWhole, Verified
<1>2. /\ review' = review /\ UNCHANGED <<storeVars, versions, drifted>>
      /\ at' \in {"reset", "prepare", "prune", "reactivate"}
      /\ runtime' \in {runtime, current, None}
  BY SMT DEF Refreshed, Reset, Prepare, Checkpoint, Go, jobVars
<1>3. ActiveIsWhole' /\ current' = current /\ Generations' = Generations
  BY <1>1, <1>2 DEF ActiveIsWhole, Verified, Generations, storeVars
<1>4. CASE Refreshed \/ Reset
  <2>1. /\ job' = job /\ at' \in {"reset", "prepare", "reactivate"}
        /\ at' = "prepare" => runtime' = current
    BY <1>4, SMT DEF Refreshed, Reset, Checkpoint, Go, jobVars
  <2>2. GenerationsOfPlace' /\ RollbackTargetKept'
    BY <1>1, <1>2, <2>1, SMT
       DEF GenerationsOfPlace, Verified, Generations, Capturing, RollingBack,
           RollbackTargetKept, Refreshing, storeVars
  <2> QED BY <1>1, <1>2, <1>3, <2>1, <2>2, GoesOn, SMT DEF RollingBack, storeVars
<1>5. CASE Prepare
  <2>1. /\ runtime' = runtime /\ runtime = job.new
        /\ \/ job' = [job EXCEPT !.prepared = runtime] /\ at' \in {"prune", "reactivate"}
           \/ job' = job /\ at' = "reactivate"
    BY <1>5, SMT
       DEF Prepare, Checkpoint, Go, RefreshInvariant, GenerationsOfPlace
  <2>2. /\ job' \in Jobs /\ job'.kind = job.kind /\ job'.previous = job.previous
        /\ job'.new = job.new /\ job'.removed = job.removed
        /\ job'.report = job.report /\ job'.fault = job.fault
        /\ at' = "prune" => job'.prepared = runtime
        /\ at' \in {"prune", "reactivate"}
    BY <1>1, <2>1, SMT DEF Jobs
  <2>3. GenerationsOfPlace' /\ RollbackTargetKept'
    BY <1>1, <1>2, <2>1, <2>2, SMT
       DEF GenerationsOfPlace, Verified, Generations, Capturing, RollingBack,
           RollbackTargetKept, Refreshing, storeVars
  <2> QED
    BY <1>1, <1>2, <1>3, <2>2, <2>3, GoesOn, SMT DEF RollingBack, storeVars
<1> QED BY <1>4, <1>5

\* The rollback.
LEMMA RollbackKeeps ==
  ASSUME RefreshInvariant, AccessInvariant', Reactivate \/ ResetBack \/ PrepareBack
  PROVE  RefreshInvariant'
<1>1. /\ at \in RollingBack /\ at \in Working /\ Refreshing
      /\ Verified(job.previous) /\ ActiveIsWhole
      /\ job \in Jobs /\ job.report = "none" /\ job.fault = "none" /\ runtime \in Names \cup {None}
      /\ Generations \subseteq used /\ used \subseteq Names
      /\ current \in Generations
  BY SMT
     DEF Reactivate, ResetBack, PrepareBack, RefreshInvariant, KindOfPlace,
         RefreshTypes, GenerationsOfPlace, ActiveIsWhole, RollingBack, Verified,
         Working
<1>2. /\ review' = review /\ UNCHANGED <<stored, used, versions, drifted>>
      /\ runtime' \in {runtime, current, None}
      /\ current' \in {current, job.previous}
  BY SMT
     DEF Reactivate, ResetBack, PrepareBack, Go, Report, ReportAfter,
         ActivateGeneration, storeVars
<1>3. ActiveIsWhole' /\ Generations' = Generations /\ current' \in Generations
  BY <1>1, <1>2, SMT DEF ActiveIsWhole, Verified, Generations
<1>4. ASSUME NEW fault \in {"none", "link"}, ReportAfter(fault, "broken"),
             current' = IF fault = "link" THEN job.new ELSE job.previous
      PROVE  RefreshInvariant'
  <2>1. /\ job'.kind = job.kind /\ job'.previous = job.previous
        /\ job'.report = "broken" /\ job'.fault = fault
        /\ job'.new = job.new /\ job' \in Jobs
        /\ job'.removed = job.removed
    BY <1>1, <1>4, ReportedJob DEF ReportAfter
  <2>2. RollbackTargetKept' /\ ReportIsTrue'
    BY <1>1, <1>2, <1>4, <2>1, SMT
       DEF RollbackTargetKept, ReportIsTrue, Refreshing, Verified, Generations
  <2>3. RefreshTypes'
    BY <1>1, <1>2, <2>1, SMT
       DEF RefreshInvariant, RefreshTypes, Generations, versions
  <2>4. at' = "told"
    BY <1>4 DEF ReportAfter, Go
  <2>5. KindOfPlace' /\ Reviewed' /\ GenerationsOfPlace' /\ SnapshotOfPlace'
    BY <1>1, <1>2, <2>1, <2>4, SMT
       DEF RefreshInvariant, KindOfPlace, Reviewed, GenerationsOfPlace,
           SnapshotOfPlace, Refreshing, Working, Capturing, Replacing,
           RollingBack, Shown
  <2> QED BY <1>3, <2>2, <2>3, <2>5 DEF RefreshInvariant
<1>5. CASE Reactivate
  <2>1. CASE /\ ActivateGeneration(job.previous) /\ at' = "resetBack"
             /\ job' = job /\ runtime' = runtime
    <3>1. current' = job.previous
      BY <2>1 DEF ActivateGeneration
    <3>2. GenerationsOfPlace' /\ RollbackTargetKept'
      BY <1>1, <1>2, <2>1, <3>1, SMT
         DEF GenerationsOfPlace, Verified, Generations, Capturing, RollingBack,
             RollbackTargetKept, Refreshing
    <3> QED BY <1>1, <1>2, <1>3, <2>1, <3>2, GoesOn, SMT DEF RollingBack
  <2>2. CASE ReportAfter("link", "broken") /\ UNCHANGED storeVars
    <3>1. current' = job.new
      BY <1>5, <2>2 DEF Reactivate, RefreshInvariant, GenerationsOfPlace, storeVars
    <3> QED BY <1>4, <2>2, <3>1
  <2> QED BY <1>5, <2>1, <2>2 DEF Reactivate, Go
<1>6. CASE ResetBack
  <2>1. CASE /\ runtime' = current /\ at' = "prepareBack" /\ job' = job
             /\ at = "resetBack" /\ UNCHANGED storeVars
    <3>1. current = job.previous /\ current \in Names /\ current' = current
      BY <1>1, <2>1 DEF RefreshInvariant, GenerationsOfPlace, storeVars
    <3>2. GenerationsOfPlace' /\ RollbackTargetKept'
      BY <1>1, <1>2, <2>1, <3>1, SMT
         DEF GenerationsOfPlace, Verified, Generations, Capturing, RollingBack,
             RollbackTargetKept, Refreshing
    <3> QED BY <1>1, <1>2, <1>3, <2>1, <3>1, <3>2, GoesOn, SMT DEF RollingBack
  <2>2. CASE ReportAfter("none", "broken")
    <3>1. current' = job.previous
      BY <1>6 DEF ResetBack, RefreshInvariant, GenerationsOfPlace, storeVars
    <3> QED BY <1>4, <2>2, <3>1
  <2> QED BY <1>6, <2>1, <2>2 DEF ResetBack, Go, Report
<1>7. CASE PrepareBack
  <2>1. CASE /\ Go("told")
             /\ job' = [job EXCEPT !.prepared = runtime, !.report = "restored"]
             /\ UNCHANGED <<storeVars, versions, runtime, aborted, drifted>>
    <3> DEFINE i == [job EXCEPT !.prepared = runtime]
               j == [i EXCEPT !.report = "restored"]
    <3>1. /\ i \in Jobs /\ i.prepared = runtime /\ i.kind = job.kind
          /\ i.previous = job.previous /\ i.removed = job.removed
      BY <1>1, SMT DEF Jobs
    <3> HIDE DEF i
    <3>2. /\ j \in Jobs /\ j.report = "restored" /\ j.prepared = i.prepared
          /\ j.kind = i.kind /\ j.previous = i.previous /\ j.removed = i.removed
      BY <3>1, SMT DEF Jobs
    <3>3. job' = j
      BY <2>1, Zenon DEF i
    <3> HIDE DEF j
    <3>4. /\ job' \in Jobs /\ job'.report = "restored"
          /\ job'.prepared = runtime /\ job'.kind = job.kind
          /\ job'.previous = job.previous /\ job'.removed = job.removed
      BY <3>1, <3>2, <3>3
    <3>5. current = job.previous /\ runtime = job.previous
      BY <1>7 DEF PrepareBack, RefreshInvariant, GenerationsOfPlace
    <3>6. /\ at' = "told" /\ UNCHANGED <<current, runtime>>
      BY <2>1 DEF Go, storeVars
    <3>7. RollbackTargetKept' /\ ReportIsTrue'
      BY <1>1, <1>2, <3>4, <3>5, <3>6, SMT
         DEF RollbackTargetKept, ReportIsTrue, Refreshing, Verified, Generations
    <3>8. RefreshTypes'
      BY <1>1, <1>2, <3>4, <3>6, SMT
         DEF RefreshInvariant, RefreshTypes, Generations, versions
    <3>9. KindOfPlace' /\ Reviewed' /\ GenerationsOfPlace' /\ SnapshotOfPlace'
      BY <1>1, <1>2, <3>4, <3>6, SMT
         DEF RefreshInvariant, KindOfPlace, Reviewed, GenerationsOfPlace,
             SnapshotOfPlace, Refreshing, Working, Capturing, Replacing,
             RollingBack, Shown
    <3> QED BY <1>3, <3>7, <3>8, <3>9 DEF RefreshInvariant
  <2>2. CASE ReportAfter("none", "broken")
    <3>1. current' = job.previous
      BY <1>7 DEF PrepareBack, RefreshInvariant, GenerationsOfPlace, storeVars
    <3> QED BY <1>4, <2>2, <3>1
  <2> QED BY <1>7, <2>1, <2>2 DEF PrepareBack, Report
<1> QED BY <1>5, <1>6, <1>7

\* The prune.
LEMMA PruneKeeps ==
  ASSUME RefreshInvariant, AccessInvariant', Prune \/ PruneNext \/ PruneEnds
  PROVE  RefreshInvariant'
<1>1. /\ at \in {"prune", "pruning"} /\ at \in Working /\ ActiveIsWhole
      /\ job \in Jobs /\ job.report = "none" /\ job.fault = "none" /\ RefreshTypes
      /\ job.kind \in {"refresh", "cleanup"}
      /\ Refreshing => {current, runtime, job.prepared} = {job.new}
  BY SMT
     DEF Prune, PruneNext, PruneEnds, RefreshInvariant, KindOfPlace, Working,
         Replacing, RefreshTypes, GenerationsOfPlace, Refreshing
<1>2. ASSUME NEW what \in {"complete", "incomplete"},
             Report(what), UNCHANGED <<storeVars, versions, runtime, drifted>>
      PROVE  RefreshInvariant'
  <2>1. /\ job'.kind = job.kind /\ job'.previous = job.previous
        /\ job'.report = what /\ job'.new = job.new
        /\ job'.prepared = job.prepared
    BY <1>1, <1>2, ReportedJob DEF Report, ReportAfter
  <2>2. RollbackTargetKept' /\ ReportIsTrue'
    BY <1>1, <1>2, <2>1, SMT
       DEF RollbackTargetKept, ReportIsTrue, Refreshing, storeVars
  <2>3. /\ Generations' \subseteq used' /\ used' \subseteq Names
        /\ ActiveIsWhole' /\ runtime' \in Names \cup {None}
    BY <1>1, <1>2
       DEF RefreshTypes, ActiveIsWhole, Verified, Generations, storeVars
  <2>4. ReportAfter("none", what)
    BY <1>2 DEF Report
  <2> QED BY <1>1, <1>2, <2>2, <2>3, <2>4, Tells
<1>3. ASSUME at' = "pruning", review' = review, job' = job,
             UNCHANGED <<current, used, versions, runtime, drifted>>,
             Generations' \subseteq Generations, ActiveIsWhole'
      PROVE  RefreshInvariant'
  <2>1. RefreshTypes'
    BY <1>1, <1>3, SMT DEF RefreshTypes, versions
  <2>2. KindOfPlace' /\ Reviewed' /\ SnapshotOfPlace'
    BY <1>1, <1>3, SMT
       DEF RefreshInvariant, KindOfPlace, Reviewed, Refreshing, Working,
           Capturing, Replacing, RollingBack, Shown, SnapshotOfPlace
  <2>3. GenerationsOfPlace' /\ RollbackTargetKept' /\ ReportIsTrue'
    BY <1>1, <1>3, SMT
       DEF GenerationsOfPlace, Capturing, RollingBack, RollbackTargetKept,
           ReportIsTrue, Refreshing
  <2> QED BY <1>3, <2>1, <2>2, <2>3 DEF RefreshInvariant
<1>4. CASE Prune
  <2>1. CASE PrunePlan = job.removed
    <3>1. ActiveIsWhole' /\ Generations' = Generations
      BY <1>1, <1>4 DEF Prune, ActiveIsWhole, Verified, Generations, storeVars
    <3> QED BY <1>3, <1>4, <2>1, <3>1 DEF Prune, Go, storeVars
  <2>2. CASE PrunePlan # job.removed
    BY <1>2, <1>4, <2>2 DEF Prune
  <2> QED BY <2>1, <2>2
<1>5. CASE PruneNext
  <2>1. PICK g \in Generations : g # current /\ RemoveGeneration(g)
    BY <1>5 DEF PruneNext, ActiveGeneration
  <2>2. /\ Generations' \subseteq Generations
        /\ \A h \in Generations : h # g =>
             h \in Generations' /\ stored'[h] = stored[h]
    BY <2>1, SMT DEF RemoveGeneration, Generations
  <2>3. ActiveIsWhole'
    BY <1>1, <2>1, <2>2, SMT DEF ActiveIsWhole, Verified, RemoveGeneration
  <2> QED
    BY <1>3, <1>5, <2>1, <2>2, <2>3 DEF PruneNext, Go, RemoveGeneration, jobVars
<1>6. CASE PruneEnds
  BY <1>2, <1>6 DEF PruneEnds
<1> QED BY <1>4, <1>5, <1>6

\* The end of a command, by itself or by a kill.
LEMMA EndKeeps ==
  ASSUME RefreshInvariant, AccessInvariant', Return \/ RefreshKilled
  PROVE  RefreshInvariant'
<1>1. /\ job' = NoJob /\ at' = "idle" /\ drifted' = FALSE
      /\ UNCHANGED <<storeVars, versions, runtime>>
  BY DEF Return, RefreshKilled
<1>2. drifted' \in BOOLEAN
  BY <1>1, Zenon
<1>3. RefreshTypes' /\ ActiveIsWhole'
  BY <1>1, <1>2, NoJobIsJob, SMT
     DEF RefreshInvariant, RefreshTypes, ActiveIsWhole, Verified, Generations,
         storeVars, versions
<1>4. NoJob.kind = "none" /\ NoJob.report = "none" /\ NoJob.fault = "none"
  BY DEF NoJob
<1>5. /\ KindOfPlace' /\ Reviewed' /\ GenerationsOfPlace'
      /\ SnapshotOfPlace' /\ RollbackTargetKept' /\ ReportIsTrue'
  BY <1>1, <1>4, SMT
     DEF KindOfPlace, Reviewed, GenerationsOfPlace, SnapshotOfPlace,
         RollbackTargetKept, ReportIsTrue, Refreshing, Working, Capturing,
         Replacing, RollingBack
<1> QED BY <1>3, <1>5 DEF RefreshInvariant

\* What leaves the command where it is, and a migration of the source.
LEMMA StillKeeps ==
  ASSUME RefreshInvariant, AccessInvariant',
         UNCHANGED <<storeVars, runtime, job>>,
         \/ at' = at /\ review' = review
         \/ {at, at'} \cap (Working \cup {"told"}) = {},
         \/ UNCHANGED <<ledger, drifted>>
         \/ /\ ledger' = ledger + 1
            /\ drifted' = (drifted \/ at \in {"stage", "build", "recheck"})
  PROVE  RefreshInvariant'
<1>1. /\ RefreshTypes /\ ActiveIsWhole /\ job \in Jobs /\ ledger \in Nat
      /\ job.version \in Nat
  BY SMT DEF RefreshInvariant, RefreshTypes, Jobs
<1>2. drifted' \in BOOLEAN /\ ledger' \in Nat /\ ledger' >= ledger
  <2>1. CASE UNCHANGED <<ledger, drifted>>
    BY <1>1, <2>1, SMT DEF RefreshTypes
  <2>2. CASE /\ ledger' = ledger + 1
             /\ drifted' = (drifted \/ at \in {"stage", "build", "recheck"})
    <3>1. drifted' \in BOOLEAN
      BY <2>2, Zenon
    <3> QED BY <1>1, <2>2, <3>1, SMT
  <2> QED BY <2>1, <2>2
<1>3. RefreshTypes' /\ ActiveIsWhole'
  BY <1>1, <1>2, SMT
     DEF RefreshTypes, ActiveIsWhole, Verified, Generations, storeVars
<1>4. RollbackTargetKept' /\ ReportIsTrue'
  BY SMT
     DEF RefreshInvariant, RollbackTargetKept, ReportIsTrue, Refreshing,
         Verified, Generations, storeVars
<1>5. CASE at' = at /\ review' = review
  <2>1. KindOfPlace' /\ Reviewed' /\ GenerationsOfPlace'
    BY <1>5, SMT
       DEF RefreshInvariant, KindOfPlace, Reviewed, Refreshing, Shown,
           GenerationsOfPlace, Verified, Generations, storeVars
  <2>2. SnapshotOfPlace'
    <3>1. CASE UNCHANGED <<ledger, drifted>>
      BY <1>5, <3>1 DEF RefreshInvariant, SnapshotOfPlace
    <3>2. CASE /\ ledger' = ledger + 1
               /\ drifted' = (drifted \/ at \in {"stage", "build", "recheck"})
      <4>1. SnapshotOfPlace
        BY DEF RefreshInvariant
      <4>2. at = "activate" => (drifted' => drifted)
        BY <3>2, Zenon
      <4>3. CASE at = "activate"
        BY <1>5, <4>1, <4>2, <4>3, SMT DEF SnapshotOfPlace
      <4>4. CASE at # "activate"
        BY <1>1, <1>5, <3>2, <4>1, <4>4, SMT DEF SnapshotOfPlace
      <4> QED BY <4>3, <4>4
    <3> QED BY <3>1, <3>2
  <2> QED BY <1>3, <1>4, <2>1, <2>2 DEF RefreshInvariant
<1>6. CASE {at, at'} \cap (Working \cup {"told"}) = {}
  <2>1. at \notin Working \cup {"told"} /\ at' \notin Working \cup {"told"}
    BY <1>6
  <2>2. job' = NoJob /\ job = NoJob
    BY <2>1, SMT DEF RefreshInvariant, KindOfPlace
  <2>3. NoJob.kind = "none" /\ NoJob.report = "none" /\ NoJob.fault = "none"
    BY DEF NoJob
  <2>4. /\ KindOfPlace' /\ Reviewed' /\ GenerationsOfPlace' /\ SnapshotOfPlace'
    BY <2>1, <2>2, <2>3, SMT
       DEF KindOfPlace, Reviewed, GenerationsOfPlace, SnapshotOfPlace,
           Refreshing, Working, Capturing, Replacing, RollingBack
  <2> QED BY <1>3, <1>4, <2>4 DEF RefreshInvariant
<1> QED BY <1>5, <1>6

\* Every step keeps the invariant.
LEMMA RefreshKept == RefreshInvariant /\ [Next]_vars => RefreshInvariant'
<1> SUFFICES ASSUME RefreshInvariant, [Next]_vars PROVE RefreshInvariant'
  OBVIOUS
<1>1. AccessInvariant'
  BY AccessKept DEF RefreshInvariant
<1>2. CASE Interrupt \/ LedgerChanges \/ ApproveLedger
  <2>1. /\ UNCHANGED <<storeVars, runtime, job>> /\ at' = at /\ review' = review
    BY <1>2
       DEF Interrupt, LedgerChanges, ApproveLedger, Go, inputs, jobVars, versions
  <2>2. \/ UNCHANGED <<ledger, drifted>>
        \/ /\ ledger' = ledger + 1
           /\ drifted' = (drifted \/ at \in {"stage", "build", "recheck"})
    BY <1>2 DEF Interrupt, LedgerChanges, ApproveLedger, jobVars, versions
  <2> QED BY <1>1, <2>1, <2>2, StillKeeps, Zenon
<1>3. CASE AccessStep /\ UNCHANGED refreshVars
  <2>1. \/ at' = at /\ review' = review
        \/ {at, at'} \cap (Working \cup {"told"}) = {}
    BY <1>3, AccessLeavesRefresh
  <2> QED
    BY <1>1, <1>3, <2>1, StillKeeps, Zenon DEF refreshVars, versions, jobVars
<1>4. CASE UNCHANGED vars
  BY <1>1, <1>4, StillKeeps, Zenon
     DEF vars, accessVars, inputs, refreshVars, versions, jobVars
<1>5. CASE WorkflowStep
  BY <1>1, <1>5, PhasesKeep, RollbackKeeps, PruneKeeps, EndKeeps
     DEF WorkflowStep
<1>6. CASE RefreshStep
  BY <1>1, <1>2, <1>5, <1>6, BeginKeeps, CaptureKeeps, EndKeeps DEF RefreshStep
<1> QED BY <1>3, <1>4, <1>6 DEF Next

-----------------------------------------------------------------------------
(* The theorems.                                                           *)

\* Every reachable state of the project's baselines, its access to the source and
\* the command under way satisfies the inductive invariant.
THEOREM RefreshInvariantHolds == Spec => []RefreshInvariant
<1>1. RefreshInit => RefreshInvariant
  BY RefreshInitial
<1>2. RefreshInvariant /\ [Next]_vars => RefreshInvariant'
  BY RefreshKept
<1> QED BY <1>1, <1>2, PTL DEF Spec

\* Access that stands and was granted here can be used and retired
\* (applyPostgresqlSourceAccess).
THEOREM AccessStaysRecorded == Spec => []AccessIsRecorded
<1>1. RefreshInvariant => AccessIsRecorded
  BY DEF RefreshInvariant, AccessInvariant
<1> QED BY <1>1, RefreshInvariantHolds, PTL

\* The active generation is complete (baseline/artifact.mts).
THEOREM ActiveStaysWhole == Spec => []ActiveIsWhole
<1>1. RefreshInvariant => ActiveIsWhole
  BY DEF RefreshInvariant
<1> QED BY <1>1, RefreshInvariantHolds, PTL

\* A refresh keeps what it would go back to (createRefreshWorkflow).
THEOREM RollbackStaysPossible == Spec => []RollbackTargetKept
<1>1. RefreshInvariant => RollbackTargetKept
  BY DEF RefreshInvariant
<1> QED BY <1>1, RefreshInvariantHolds, PTL

\* A command's report is true (source_commands.mts).
THEOREM ReportsAreTrue == Spec => []ReportIsTrue
<1>1. RefreshInvariant => ReportIsTrue
  BY DEF RefreshInvariant
<1> QED BY <1>1, RefreshInvariantHolds, PTL

\* A retirement drops only what its user has reviewed
\* (retirePostgresqlSourceAccess).
THEOREM RetirementsReviewed == Spec => RetiredAsReviewed
<1>1. ASSUME RefreshInvariant, [Next]_vars
      PROVE  [Dropping => /\ Shown("retirement")
                          /\ SameRetirement(access.policy, review.plan)
                          /\ access.intact]_accessVars
  <2>1. SUFFICES ASSUME Dropping
                 PROVE  /\ Shown("retirement")
                        /\ SameRetirement(access.policy, review.plan)
                        /\ access.intact
    OBVIOUS
  <2>2. /\ at = "drop" /\ at' # "drop" /\ access # None /\ access' = None
        /\ Shown("retirement")
    BY <1>1, <2>1 DEF Dropping, RefreshInvariant, AccessInvariant, AccessStages
  <2>3. ~RefreshStep
    BY <2>2, RefreshLeavesAccess DEF source
  <2>4. AccessStep
    BY <1>1, <2>2, <2>3 DEF Next, vars, accessVars, source
  <2>5. ~ApplyStep
    BY <2>2, SMT
       DEF ApplyStep, PlanAccess, ApplyAccess, DraftSecret, ReserveReceipt,
           LinkCredential, Grant, GrantRefused, UndoFiles, RecordAccess,
           VerifyReader, RegisterReader, HandCredential
  <2>6. ~CommandKilled /\ ~EditPolicy
    BY <2>2 DEF CommandKilled, EditPolicy, source
  <2>7. ~AdministratorChanges /\ ~ColleagueGrants /\ ~ColleagueRetires
    BY <2>2 DEF AdministratorChanges, ColleagueGrants, ColleagueRetires
  <2>8. ASSUME NEW g \in 0 .. MaxGrants PROVE ~Lapse(g)
    BY <2>2 DEF Lapse
  <2>9. RetireStep
    BY <2>4, <2>5, <2>6, <2>7, <2>8, Zenon DEF AccessStep
  <2>10. Drop
    BY <2>2, <2>9
       DEF RetireStep, PlanRetirement, RetireAccess, DropRefused,
           ConfirmRemoval, ForgetFiles, source
  <2> QED BY <2>2, <2>10 DEF Drop, MatchesReceipt
<1> QED BY <1>1, RefreshInvariantHolds, PTL DEF Spec, RetiredAsReviewed

\* What becomes active was captured from an unchanged source through access for
\* the policy at work (refreshPostgresqlBaseline).
THEOREM CapturesReviewed == Spec => CapturedAsReviewed
<1>1. RefreshInvariant =>
        (at = "activate" /\ job.kind # "import" =>
           ~drifted /\ job.under = job.policy)
  BY SMT DEF RefreshInvariant, SnapshotOfPlace
<1> QED BY <1>1, RefreshInvariantHolds, PTL DEF Spec, CapturedAsReviewed

\* A prune removes only what its user has reviewed (pruneBaselineGenerations).
THEOREM PrunesReviewed == Spec => PrunedAsReviewed
<1> DEFINE Seen(g) == \/ Shown("cleanup") /\ g \in review.plan
                      \/ Shown("refresh") /\ g \in review.plan.removed
           Gone(g) == g \notin DOMAIN stored' \/ stored'[g] # stored[g]
<1>1. ASSUME RefreshInvariant, [Next]_vars
      PROVE  [at = "pruning" /\ stored' # stored =>
                \A g \in Generations : Gone(g) => Seen(g)]_vars
  <2>1. SUFFICES ASSUME at = "pruning", stored' # stored,
                        NEW g \in Generations, Gone(g)
                 PROVE  Seen(g)
    OBVIOUS
  <2>2. ~(AccessStep /\ UNCHANGED refreshVars) /\ ~UNCHANGED vars
    BY <2>1 DEF vars, refreshVars, storeVars
  <2>3. RefreshStep
    BY <1>1, <2>2 DEF Next
  <2>4. PruneNext
    BY <2>1, <2>3, SMT
       DEF RefreshStep, PreviewRefresh, ConfirmRefresh, BaselineRefresh,
           ImportBaseline, PreviewCleanup, ApplyCleanup, ResetRuntime, Idle,
           CaptureStep, Connect, ConnectFails, Stage, Build, BuildFails,
           Recheck, RecheckFails, Activate, ActivateFails, Abandon, Abandoned,
           WorkflowStep, Refreshed, Reset, Prepare, Reactivate, ResetBack,
           PrepareBack, Prune, PruneEnds, Return, Interrupt, RefreshKilled,
           LedgerChanges, ApproveLedger, storeVars
  <2>5. PICK h \in job.removed \cap Generations : RemoveGeneration(h)
    BY <2>4 DEF PruneNext
  <2>6. \A o \in Generations : o # h => ~Gone(o)
    BY <2>5, SMT DEF RemoveGeneration, Generations
  <2>7. g \in job.removed
    BY <2>1, <2>5, <2>6
  <2>8. job.kind \in {"refresh", "cleanup"}
    BY <1>1, <2>1 DEF RefreshInvariant, KindOfPlace
  <2> QED
    BY <1>1, <2>1, <2>7, <2>8, SMT DEF RefreshInvariant, Reviewed, Refreshing
<1> QED BY <1>1, RefreshInvariantHolds, PTL DEF Spec, PrunedAsReviewed
===============================================================================
