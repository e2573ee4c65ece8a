---------------------------- MODULE ContainerEngine ----------------------------
(***************************************************************************)
(* Several projects on one shared container engine, the default Colima VM  *)
(* (runtime/engines/*.mts, runtime/lifecycle/runtime_startup_ownership.mts *)
(* and ensureLocalContainerRuntime of the Supabase target).                *)
(*                                                                         *)
(* start may boot the VM and then leaves a receipt for that boot; when its *)
(* work fails it stops the container that it started.  stop releases a VM  *)
(* that a receipt of its project proves to be Rehearsal's, once nothing    *)
(* runs on it.  engine stop takes down whatever its user has reviewed.     *)
(* None of them has a lock that the engine, its owner or another tool      *)
(* obeys, so each looks again before it acts; every look is a step.        *)
(***************************************************************************)
EXTENDS Naturals, FiniteSets

CONSTANTS Projects,   \* each runs one command at a time, on one container
          Reviewer,   \* the user of engine stop
          AutoStart,  \* projects with containerRuntime.autoStartColima
          Idle,       \* projects with stopOwnedColimaWhenIdle
          Queued,     \* projects whose startups wait for the workload slot
          MaxBoots,   \* bound: boots of the VM
          MaxStarts,  \* bound: starts of containers
          MaxCommands,\* bound: commands
          MaxMeddling,\* bound: acts of the machine's owner, and kills
          None

ASSUME EngineAssumption ==
  /\ AutoStart \subseteq Projects /\ Idle \subseteq Projects /\ Queued \subseteq Projects
  /\ IsFiniteSet(Projects) /\ Reviewer \notin Projects
  /\ MaxBoots \in Nat /\ MaxStarts \in Nat
  /\ MaxCommands \in Nat /\ MaxMeddling \in Nat

VARIABLES
  vm,       \* the boot that is up, 0 when the VM is off
  boots,    \* boots so far
  box,      \* the container of each project
  starts,   \* containers started so far, a clock for startedAt
  receipt,  \* the boot each project's receipt names, 0 for none
  locks,    \* projects whose operation lock stands
  slot,     \* holder of the workload slot
  at,       \* where each command is
  mem,      \* what it remembers
  tool,     \* colima stop of each actor: none, asked or lost
  since,    \* history: containers started since the actor last looked
  steady,   \* history: no boot since the actor last looked at the boot
  joined,   \* history: commands begun since the reviewer last looked at the locks
  mine,     \* history: containers that run because their project's command ran them
  begun,    \* commands so far
  meddling  \* acts of the owner and kills so far

engine == <<vm, boots, box, starts, mine>>
coordination == <<locks, slot>>
looks == <<since, steady, joined>>
bounds == <<begun, meddling>>
engineVars == <<engine, receipt, coordination, at, mem, tool, looks, bounds>>

Actors == Projects \cup {Reviewer}

-----------------------------------------------------------------------------

\* A container: a new one has a new id; startedAt tells its starts apart.
NoBox == [id |-> 0, run |-> FALSE, at |-> 0]

Running == {p \in Projects : box[p].run}

\* What every container is at this moment: the impact of a shutdown.
Impact == box

Nothing == [boot |-> 0, own |-> 0, before |-> None, chosen |-> NoBox,
            impact |-> None, round |-> "plan"]

Go(a, where) == at' = [at EXCEPT ![a] = where]

Step(a, from, to) == at[a] = from /\ Go(a, to)

Remember(a, memory) == mem' = [mem EXCEPT ![a] = memory]

\* Between an actor's last look and the stop that it asks for.
Looking == {"qualify", "again", "final", "dispatch"}
Watches(a) == tool[a] = "asked" \/ at[a] \in Looking

\* A container comes up; whoever looked before has not seen it.
Starts(p, id, own) ==
  /\ starts < MaxStarts /\ starts' = starts + 1
  /\ box' = [box EXCEPT ![p] = [id |-> id, run |-> TRUE, at |-> starts + 1]]
  /\ since' = [a \in Actors |-> IF Watches(a) THEN since[a] \cup {p} ELSE {}]
  /\ mine' = IF own THEN mine \cup {p} ELSE mine \ {p}

\* The VM comes up.  A container without the restart policy "no" may come along.
Boots ==
  /\ boots < MaxBoots /\ boots' = boots + 1 /\ vm' = boots + 1
  /\ steady' = [a \in Actors |-> FALSE]
  /\ \/ UNCHANGED <<box, starts, since, mine>>
     \/ \E p \in Projects : box[p].id # 0 /\ Starts(p, box[p].id, FALSE)

\* The VM goes down with every container on it.
Down ==
  /\ vm' = 0
  /\ box' = [p \in Projects |-> [box[p] EXCEPT !.run = FALSE]]
  /\ mine' = {} /\ UNCHANGED <<boots, starts>>

Unwatched(a) ==
  /\ since' = [since EXCEPT ![a] = {}] /\ steady' = [steady EXCEPT ![a] = FALSE]
  /\ UNCHANGED joined

\* The history of a stop that still goes on is not touched by the next command,
\* nor that of the next command by the end of that stop.
GivenUp(a) == IF tool[a] = "asked" THEN UNCHANGED looks ELSE Unwatched(a)
Over(a) == IF at[a] \in Looking THEN UNCHANGED looks ELSE Unwatched(a)

\* readCurrentColimaIdentity: the boot of the local Colima context.
Looked(a) ==
  steady' = [steady EXCEPT ![a] = @ \/ tool[a] # "asked"] /\ UNCHANGED joined

\* docker container ls, or inspect: what runs now has been seen.
SawContainers(a) ==
  since' = [since EXCEPT ![a] = IF tool[a] = "asked" THEN @ ELSE {}] /\ UNCHANGED joined

-----------------------------------------------------------------------------
(* Commands begin, end and are killed.                                     *)

BeginCommand(p) ==
  /\ begun < MaxCommands /\ begun' = begun + 1
  /\ at[p] = "idle" /\ locks' = locks \cup {p} /\ joined' = joined \cup {p}
  /\ \/ Go(p, "admission") \/ Go(p, "down")
  /\ UNCHANGED <<engine, receipt, slot, mem, tool, since, steady, meddling>>

\* Only startups wait for the slot; stop and its release do not.
Admit(p) ==
  /\ Step(p, "admission", "engine")
  /\ IF p \in Queued THEN slot = None /\ slot' = p ELSE UNCHANGED slot
  /\ UNCHANGED <<engine, receipt, locks, mem, tool, looks, bounds>>

Ends == {"end", "failed"}

Forget(a) == mem' = [mem EXCEPT ![a] = Nothing]

FinishCommand(p) ==
  /\ at[p] \in Ends /\ Go(p, "idle") /\ Forget(p)
  /\ locks' = locks \ {p} /\ slot' = IF slot = p THEN None ELSE slot
  /\ mine' = mine \ {p}
  /\ UNCHANGED <<vm, boots, box, starts, receipt, tool, looks, bounds>>

\* Its lock and its slot stay behind; colima stop has a group of its own.
Kill(p) ==
  /\ at[p] # "idle" /\ meddling < MaxMeddling /\ meddling' = meddling + 1
  /\ Go(p, "idle") /\ Forget(p) /\ mine' = mine \ {p}
  /\ UNCHANGED <<vm, boots, box, starts, receipt, coordination, tool, looks, begun>>

\* The owner of the machine boots or stops the VM, runs or stops a container.
Meddle ==
  /\ meddling < MaxMeddling /\ meddling' = meddling + 1
  /\ \/ vm = 0 /\ Boots
     \/ vm # 0 /\ Down /\ UNCHANGED <<since, steady>>
     \/ \E p \in Projects :
          /\ vm # 0 /\ UNCHANGED <<vm, boots, steady>>
          /\ \/ ~box[p].run /\ Starts(p, IF box[p].id = 0 THEN starts + 1 ELSE box[p].id, FALSE)
             \/ /\ box[p].run /\ box' = [box EXCEPT ![p].run = FALSE]
                /\ UNCHANGED <<starts, since, mine>>
  /\ UNCHANGED <<receipt, coordination, at, mem, tool, joined, begun>>

-----------------------------------------------------------------------------
(* start: the engine.                                                      *)

\* docker info; a failed probe is no evidence about the VM.
Probe(p) ==
  /\ at[p] = "engine"
  /\ \/ vm # 0 /\ Go(p, "capture")
     \/ Go(p, IF p \in AutoStart THEN "claim" ELSE "end")
  /\ UNCHANGED <<engine, receipt, coordination, mem, tool, looks, bounds>>

\* assertDefaultColimaCanBeStarted
Claim(p) ==
  /\ at[p] = "claim"
  /\ Go(p, IF vm = 0 THEN "boot" ELSE "end")
  /\ UNCHANGED <<engine, receipt, coordination, mem, tool, looks, bounds>>

\* colima start succeeds on a VM that has come up meanwhile, too.
Boot(p) ==
  /\ at[p] = "boot"
  /\ \/ vm = 0 /\ Boots /\ (Go(p, "receipt") \/ Go(p, "end"))
     \/ vm # 0 /\ Go(p, "receipt") /\ UNCHANGED <<engine, since, steady>>
     \/ Go(p, "end") /\ UNCHANGED <<engine, since, steady>>
  /\ UNCHANGED <<receipt, coordination, mem, tool, joined, bounds>>

\* writeContainerEngineStartReceipt, for the boot that is up now.
WriteReceipt(p) ==
  /\ at[p] = "receipt"
  /\ \/ vm # 0 /\ Go(p, "capture") /\ receipt' = [receipt EXCEPT ![p] = vm]
     \/ Go(p, "end") /\ UNCHANGED receipt
  /\ UNCHANGED <<engine, coordination, mem, tool, looks, bounds>>

-----------------------------------------------------------------------------
(* start: the container, and the cleanup of a failed startup.              *)

\* captureRuntimeStartupOwnership, once, before the first change to a container.
Capture(p) ==
  /\ at[p] = "capture"
  /\ \/ vm # 0 /\ Go(p, "work") /\ Remember(p, [mem[p] EXCEPT !.before = box[p]])
     \/ Go(p, "end") /\ UNCHANGED mem
  /\ UNCHANGED <<engine, receipt, coordination, tool, looks, bounds>>

\* The target's work on its container: removed, created, started again.
Remove(p) ==
  /\ at[p] = "work" /\ vm # 0 /\ box[p].id # 0
  /\ box' = [box EXCEPT ![p] = NoBox] /\ mine' = mine \ {p}
  /\ UNCHANGED <<vm, boots, starts, receipt, coordination, at, mem, tool, looks, bounds>>

Run(p) ==
  /\ at[p] = "work" /\ vm # 0 /\ ~box[p].run
  /\ Starts(p, IF box[p].id = 0 THEN starts + 1 ELSE box[p].id, TRUE)
  /\ UNCHANGED <<vm, boots, receipt, coordination, at, mem, tool, steady, joined, bounds>>

Started(p) ==
  /\ Step(p, "work", "end") /\ box[p].run
  /\ UNCHANGED <<engine, receipt, coordination, mem, tool, looks, bounds>>

\* Anything of it fails, or it is interrupted, also after the last step.
WorkFails(p) ==
  /\ Step(p, "work", "cleanup")
  /\ UNCHANGED <<engine, receipt, coordination, mem, tool, looks, bounds>>

\* selectNewStartupWorkloads: running now, under a name that ran nothing before.
Selected(p) == box[p].run /\ ~mem[p].before.run

\* A stopped container whose start cannot be told from its former one.
Unproved(p) == Selected(p) /\ box[p].id = mem[p].before.id /\ box[p].at = mem[p].before.at

Select(p) ==
  /\ at[p] = "cleanup"
  /\ \/ vm # 0 /\ ~Selected(p) /\ Go(p, "failed") /\ UNCHANGED mem
     \/ /\ vm # 0 /\ Selected(p) /\ ~Unproved(p) /\ Go(p, "recheck")
        /\ Remember(p, [mem[p] EXCEPT !.chosen = box[p]])
     \/ Go(p, "end") /\ UNCHANGED mem
  /\ UNCHANGED <<engine, receipt, coordination, tool, looks, bounds>>

\* The very same containers are read again before they are stopped.
RecheckChosen(p) ==
  /\ at[p] = "recheck"
  /\ \/ vm # 0 /\ box[p] = mem[p].chosen /\ Go(p, "halt")
     \/ Go(p, "end")
  /\ UNCHANGED <<engine, receipt, coordination, mem, tool, looks, bounds>>

\* docker stop, by id; it may fail before or after its effect.
Halt(p) ==
  /\ at[p] = "halt"
  /\ \/ /\ vm # 0 /\ box[p].id = mem[p].chosen.id
        /\ box' = [box EXCEPT ![p].run = FALSE] /\ (Go(p, "verify") \/ Go(p, "end"))
     \/ Go(p, "end") /\ UNCHANGED box
  /\ UNCHANGED <<vm, boots, starts, mine, receipt, coordination, mem, tool, looks, bounds>>

\* Its restart policy brings the container up again.
Resume(p) ==
  /\ at[p] = "verify" /\ vm # 0 /\ box[p].id = mem[p].chosen.id /\ ~box[p].run
  /\ Starts(p, box[p].id, TRUE)
  /\ UNCHANGED <<vm, boots, receipt, coordination, at, mem, tool, steady, joined, bounds>>

\* Seeded fault: the answer of docker stop is believed.
VerifySkipped(p) ==
  /\ Step(p, "verify", "failed")
  /\ UNCHANGED <<engine, receipt, coordination, mem, tool, looks, bounds>>

Verify(p) ==
  /\ at[p] = "verify"
  /\ \/ vm # 0 /\ box[p].id = mem[p].chosen.id /\ ~box[p].run /\ Go(p, "failed")
     \/ Go(p, "end")
  /\ UNCHANGED <<engine, receipt, coordination, mem, tool, looks, bounds>>

-----------------------------------------------------------------------------
(* stop, then releaseOwnedColimaWhenIdle.                                  *)

StopContainer(p) ==
  /\ at[p] = "down"
  /\ \/ /\ vm # 0 /\ box' = [box EXCEPT ![p].run = FALSE]
        /\ Go(p, IF p \in Idle THEN "identify" ELSE "end")
     \/ Go(p, "end") /\ UNCHANGED box
  /\ UNCHANGED <<vm, boots, starts, mine, receipt, coordination, mem, tool, looks, bounds>>

\* Every look of the release may fail, and then the engine is preserved.
Preserve(p) ==
  /\ at[p] \in {"identify", "validate", "observe", "qualify", "again", "final", "dispatch"}
  /\ Go(p, "end") /\ GivenUp(p)
  /\ UNCHANGED <<engine, receipt, coordination, mem, tool, bounds>>

Identify(p) ==
  /\ Step(p, "identify", "validate") /\ vm # 0
  /\ Remember(p, [mem[p] EXCEPT !.boot = vm]) /\ Looked(p)
  /\ UNCHANGED <<engine, receipt, coordination, tool, since, bounds>>

\* readValidContainerEngineStartReceipt: it names the boot that is up.
ReceiptStands(p) == receipt[p] # 0 /\ receipt[p] = vm

Validate(p) ==
  /\ Step(p, "validate", "observe") /\ vm # 0 /\ ReceiptStands(p)
  /\ Remember(p, [mem[p] EXCEPT !.own = receipt[p]])
  /\ UNCHANGED <<engine, receipt, coordination, tool, looks, bounds>>

Observe(p) ==
  /\ Step(p, "observe", "qualify") /\ vm # 0 /\ Running = {} /\ SawContainers(p)
  /\ UNCHANGED <<engine, receipt, coordination, mem, tool, steady, bounds>>

\* qualifyColimaDefault: profile, daemon, VM process and disks of this boot.
Qualified(a) == vm # 0 /\ vm = mem[a].boot

Qualify(p) ==
  /\ Step(p, "qualify", "again") /\ Qualified(p) /\ Looked(p)
  /\ UNCHANGED <<engine, receipt, coordination, mem, tool, since, bounds>>

Again(p) ==
  /\ Step(p, "again", "final") /\ vm # 0 /\ vm = mem[p].boot /\ Looked(p)
  /\ UNCHANGED <<engine, receipt, coordination, mem, tool, since, bounds>>

\* Seeded fault: the first observation is taken to be good enough.
FinalSkipped(p) ==
  /\ Step(p, "final", "dispatch") /\ vm # 0 /\ SawContainers(p)
  /\ UNCHANGED <<engine, receipt, coordination, mem, tool, steady, bounds>>

\* The last look before the stop; it narrows the race and is no lease.
Final(p) ==
  /\ Step(p, "final", "dispatch") /\ vm # 0 /\ Running = {} /\ SawContainers(p)
  /\ UNCHANGED <<engine, receipt, coordination, mem, tool, steady, bounds>>

Dispatch(a) ==
  /\ Step(a, "dispatch", "stopping") /\ tool[a] # "asked"
  /\ tool' = [tool EXCEPT ![a] = "asked"]
  /\ UNCHANGED <<engine, receipt, coordination, mem, looks, bounds>>

\* colima stop takes the default VM down, whichever boot that is by now, and be
\* its command still waiting for it or not.
TakeDown(a) ==
  /\ tool[a] = "asked" /\ tool' = [tool EXCEPT ![a] = "none"]
  /\ IF vm = 0 THEN UNCHANGED engine ELSE Down
  /\ Over(a)
  /\ UNCHANGED <<receipt, coordination, at, mem, bounds>>

\* It fails, or is given up by its deadline, a signal or its pipes
\* (runOwnedColimaStop), with or without having come to its end.
ToolFails(a) ==
  /\ tool[a] = "asked" /\ tool' = [tool EXCEPT ![a] = "none"]
  /\ Over(a)
  /\ UNCHANGED <<engine, receipt, coordination, at, mem, bounds>>

ToolReturns(a) ==
  /\ Step(a, "stopping", "confirm")
  /\ UNCHANGED <<engine, receipt, coordination, mem, tool, looks, bounds>>

\* confirmColimaStopped: profile stopped, captured process gone, disks unheld.
Off == vm = 0

ConfirmOff(p) ==
  /\ at[p] = "confirm"
  /\ Go(p, IF Off THEN "retire" ELSE "end")
  /\ UNCHANGED <<engine, receipt, coordination, mem, tool, looks, bounds>>

\* The receipt goes if it is still the one that was read.
RetireReceipt(p) ==
  /\ Step(p, "retire", "end")
  /\ receipt' = [receipt EXCEPT ![p] = IF @ = mem[p].own THEN 0 ELSE @]
  /\ UNCHANGED <<engine, coordination, mem, tool, looks, bounds>>

-----------------------------------------------------------------------------
(* engine stop: observePlan for the review, then shutdownEngine.           *)

\* coordination: no operation lock anywhere, no queue entry but its own.
Alone(round) == locks = {} /\ slot = IF round = "plan" THEN None ELSE Reviewer

Review ==
  /\ begun < MaxCommands /\ begun' = begun + 1
  /\ Step(Reviewer, "idle", "proof")
  /\ UNCHANGED <<engine, receipt, coordination, mem, tool, looks, meddling>>

\* The bound VM process, and the containers right after it.
ObserveProof ==
  /\ Step(Reviewer, "proof", "impact") /\ Alone(mem[Reviewer].round) /\ vm # 0
  /\ Remember(Reviewer, [mem[Reviewer] EXCEPT !.boot = vm])
  /\ UNCHANGED <<engine, receipt, coordination, tool, looks, bounds>>

\* What the user is shown is what the digest of the consent stands for.
ObservePlan ==
  /\ Step(Reviewer, "impact", "reviewed") /\ mem[Reviewer].round = "plan" /\ vm # 0
  /\ Remember(Reviewer, [mem[Reviewer] EXCEPT !.impact = Impact, !.own = mem[Reviewer].boot])
  /\ UNCHANGED <<engine, receipt, coordination, tool, looks, bounds>>

\* It does not wait for the slot.
AcquireSlot ==
  /\ Step(Reviewer, "reviewed", "proof") /\ slot = None /\ slot' = Reviewer
  /\ Remember(Reviewer, [mem[Reviewer] EXCEPT !.round = "first"])
  /\ UNCHANGED <<engine, receipt, locks, tool, looks, bounds>>

AsReviewed == Impact = mem[Reviewer].impact /\ mem[Reviewer].boot = mem[Reviewer].own

ObserveFirst ==
  /\ Step(Reviewer, "impact", "proof") /\ mem[Reviewer].round = "first" /\ vm # 0
  /\ AsReviewed /\ Remember(Reviewer, [mem[Reviewer] EXCEPT !.round = "second"])
  /\ UNCHANGED <<engine, receipt, coordination, tool, looks, bounds>>

ObserveSecond ==
  /\ Step(Reviewer, "impact", "qualify") /\ mem[Reviewer].round = "second" /\ vm # 0
  /\ AsReviewed
  /\ UNCHANGED <<engine, receipt, coordination, mem, tool, looks, bounds>>

FinalProof ==
  /\ Step(Reviewer, "qualify", "again") /\ Qualified(Reviewer)
  /\ Looked(Reviewer)
  /\ UNCHANGED <<engine, receipt, coordination, mem, tool, since, bounds>>

FinalCoordination ==
  /\ Step(Reviewer, "again", "final") /\ Alone("second") /\ joined' = {}
  /\ UNCHANGED <<engine, receipt, coordination, mem, tool, since, steady, bounds>>

FinalImpact ==
  /\ Step(Reviewer, "final", "dispatch") /\ vm # 0 /\ Impact = mem[Reviewer].impact
  /\ SawContainers(Reviewer)
  /\ UNCHANGED <<engine, receipt, coordination, mem, tool, steady, bounds>>

\* stopped, failed or unknown, by what the last look shows.
ConfirmReviewed ==
  /\ Step(Reviewer, "confirm", "end")
  /\ UNCHANGED <<engine, receipt, coordination, mem, tool, looks, bounds>>

\* Refused or cancelled before the dispatch, for whatever reason.
Refuse ==
  /\ at[Reviewer] \in {"proof", "impact", "reviewed", "qualify", "again", "final", "dispatch"}
  /\ Go(Reviewer, "end") /\ GivenUp(Reviewer)
  /\ UNCHANGED <<engine, receipt, coordination, mem, tool, bounds>>

FinishReview ==
  /\ Step(Reviewer, "end", "idle") /\ Forget(Reviewer)
  /\ slot' = IF slot = Reviewer THEN None ELSE slot
  /\ UNCHANGED <<engine, receipt, locks, tool, looks, bounds>>

-----------------------------------------------------------------------------

EngineInit ==
  /\ vm = 0 /\ boots = 0 /\ starts = 0 /\ box = [p \in Projects |-> NoBox]
  /\ receipt = [p \in Projects |-> 0] /\ locks = {} /\ slot = None
  /\ at = [a \in Actors |-> "idle"] /\ mem = [a \in Actors |-> Nothing]
  /\ tool = [a \in Actors |-> "none"]
  /\ since = [a \in Actors |-> {}] /\ steady = [a \in Actors |-> FALSE]
  /\ joined = {} /\ mine = {} /\ begun = 0 /\ meddling = 0

Start(p) ==
  \/ Probe(p) \/ Claim(p) \/ Boot(p) \/ WriteReceipt(p)
  \/ Capture(p) \/ Remove(p) \/ Run(p) \/ Started(p) \/ WorkFails(p)
  \/ Select(p) \/ RecheckChosen(p) \/ Halt(p) \/ Resume(p) \/ Verify(p)

ReleaseWhenIdle(p) ==
  \/ StopContainer(p) \/ Preserve(p) \/ Identify(p) \/ Validate(p) \/ Observe(p)
  \/ Qualify(p) \/ Again(p) \/ Final(p) \/ ConfirmOff(p) \/ RetireReceipt(p)

EngineStop ==
  \/ Review \/ ObserveProof \/ ObservePlan \/ AcquireSlot \/ ObserveFirst
  \/ ObserveSecond \/ FinalProof \/ FinalCoordination \/ FinalImpact
  \/ ConfirmReviewed \/ Refuse \/ FinishReview

EngineNext ==
  \/ \E p \in Projects :
       BeginCommand(p) \/ Admit(p) \/ Start(p) \/ ReleaseWhenIdle(p) \/ FinishCommand(p) \/ Kill(p)
  \/ \E a \in Actors : Dispatch(a) \/ TakeDown(a) \/ ToolFails(a) \/ ToolReturns(a)
  \/ EngineStop \/ Meddle

EngineSpec == EngineInit /\ [][EngineNext]_engineVars

-----------------------------------------------------------------------------

\* A release takes down nothing but what it has proven: a boot that its
\* project's receipt names, with nothing running on it that it could have seen.
\* Only what came up after its very last look is beyond its knowledge.
IdleStopIsProven ==
  [][\A p \in Projects :
       tool[p] = "asked" /\ TakeDown(p) /\ vm # 0 =>
         /\ Running \subseteq since[p]
         /\ steady[p] => receipt[p] = vm]_engineVars

\* engine stop takes down what its user has reviewed: that boot, those very runs
\* of those containers, and no command of a project but one that has begun after
\* it last looked at the locks.
ReviewedStop ==
  [][at[Reviewer] = "stopping" /\ TakeDown(Reviewer) /\ vm # 0 =>
       /\ steady[Reviewer] => vm = mem[Reviewer].own
       /\ \A p \in Running \ since[Reviewer] : box[p] = mem[Reviewer].impact[p]
       /\ locks \subseteq joined]_engineVars

\* A receipt goes only when the boot it names is gone, so that no other release
\* is left without its proof.
ReceiptOutlivesBoot ==
  [][\A p \in Projects : receipt[p] # 0 /\ receipt'[p] # receipt[p] => vm # receipt[p]]_engineVars

\* A failed startup that reports no retained resources has left none running,
\* but what took the place of a container that ran before.
FailedStartUndone ==
  \A p \in Projects :
    at[p] = "failed" /\ p \in mine /\ box[p].run => mem[p].before.run

\* Its cleanup stops no run of a container that was there when it began.
RunningBeforeKept ==
  [][\A p \in Projects :
       at[p] = "halt" /\ box[p].run /\ ~box'[p].run /\ vm' = vm /\ at'[p] # "halt" =>
         ~mem[p].before.run /\ box[p].at > mem[p].before.at]_engineVars

\* The cleanup of a failed startup takes down all that it started, and nothing
\* that ran before it.
CleanupIsExact == [][FailedStartUndone']_engineVars /\ RunningBeforeKept

\* The VM goes down on proof only: a release rests on its receipt and leaves
\* every other release its own, and a reviewed stop on what was reviewed.
StopsAreProven == IdleStopIsProven /\ ReceiptOutlivesBoot /\ ReviewedStop

=============================================================================
