------------------------------ MODULE SharedDocker ------------------------------
(***************************************************************************)
(* All the commands that look at the one Docker daemon of the machine,     *)
(* with the other tools that use it: the removals and stops of             *)
(* ReviewedRemoval, the inventory (commands environments and resources)    *)
(* and the admission of a start (workload_capacity.mts, and the quota of   *)
(* runtime_stack_runner.mts).                                              *)
(*                                                                         *)
(* An inventory is several requests, and so is a measurement; nothing      *)
(* stands still between them.                                              *)
(***************************************************************************)
EXTENDS ReviewedRemoval

CONSTANTS Memory,             \* per container: what it takes when it runs
          EngineMemory,       \* of the whole virtual machine
          EngineReserve,      \* capacityAdmission.engineReserveBytes
          Demand,             \* of the selected targets: memory, containers
          MaximumContainers   \* capacityAdmission.maximumRunningContainers

ASSUME CapacityAssumption ==
  /\ IsFiniteSet(Boxes) /\ Memory \in [Boxes -> Nat]
  /\ EngineMemory \in Nat /\ EngineReserve \in Nat
  /\ Demand \in [memory : Nat, containers : Nat] /\ MaximumContainers \in Nat

-----------------------------------------------------------------------------
(* The inventory.                                                          *)

BoxItems == {Item("box", c) : c \in Boxes} \cup {Item("use", i) : i \in Images}
VolumeItems == {Item("volume", v) : v \in Volumes}
TagItems == {Item("tag", t) : t \in DOMAIN Tags}

Keep(p) == plan' = p /\ UNCHANGED <<todo, current, answer>>

NewInventory(kind) ==
  [kind |-> kind, boxes |-> {}, volumes |-> {}, sizes |-> {}, named |-> {},
   available |-> TRUE, memory |-> 0]

\* inspectRehearsalResources; docker info fails when the engine is stopped.  A
\* plan the user may still confirm is the same when it is previewed once more.
Inspect ==
  /\ stage = "idle"
  /\ \/ stage' = "list" /\ Keep(NewInventory("inspect"))
     \/ stage' = "shown" /\ Keep([NewInventory("inspect") EXCEPT !.available = FALSE])
  /\ outcomes' = {} /\ consent' = Nothing
  /\ UNCHANGED <<world, now, changed>>

\* Listing and inspecting: a container that vanishes in between is a failure.
SeeContainers ==
  /\ stage = "list"
  /\ stage' = "list-volumes" /\ changed' = changed \ BoxItems
  /\ Keep([plan EXCEPT !.boxes = Seen])
  /\ UNCHANGED <<world, now, consent, outcomes>>

SeeVolumes ==
  /\ stage = "list-volumes"
  /\ stage' = "measure" /\ changed' = changed \ VolumeItems
  /\ Keep([plan EXCEPT !.volumes = SeenVolumes])
  /\ UNCHANGED <<world, now, consent, outcomes>>

\* docker system df measures what is there by now, or fails.
MeasureVolumes ==
  /\ stage = "measure"
  /\ stage' = IF plan.kind = "start" THEN "quota" ELSE "list-images"
  /\ \E sizes \in {{}, SeenVolumes} : Keep([plan EXCEPT !.sizes = sizes])
  /\ UNCHANGED <<world, now, consent, outcomes, changed>>

SeeImages ==
  /\ stage = "list-images"
  /\ stage' = "shown" /\ changed' = changed \ TagItems
  /\ Keep([plan EXCEPT !.named = Named])
  /\ UNCHANGED <<world, now, consent, outcomes>>

Close ==
  /\ stage = "shown" /\ EndCommand
  /\ UNCHANGED <<world, now, consent, outcomes>>

\* What the user is shown.
ShownEntries ==
  IF plan.available THEN Entries(plan.boxes, plan.volumes, plan.sizes, now)
                    ELSE UnavailableEntries
ShownCatalog == Catalog(plan.boxes, plan.volumes, plan.named)
ShownPolicy == PolicyStatus(ShownEntries)

-----------------------------------------------------------------------------
(* The admission of a start.                                               *)

RunningBoxes == {c \in Boxes : Is(c, "running")}
MemoryOf(S) == Cardinality(UNION {{c} \X (1 .. Memory[c]) : c \in S})

\* The memory of the host, which others take as they like, may be too little.
MeasureHost ==
  /\ stage = "idle"
  /\ stage' = "standing" /\ Keep(NewInventory("start")) /\ outcomes' = {} /\ consent' = Nothing
  /\ UNCHANGED <<world, now, changed>>

\* docker info and docker ps must agree on how many run.
ListStanding ==
  /\ stage = "standing"
  /\ stage' = "stats" /\ Keep([plan EXCEPT !.boxes = RunningBoxes])
  /\ UNCHANGED <<world, now, consent, outcomes, changed>>

\* parseStandingContainerMemory: one finite sample of every one of them.
SampleStanding ==
  /\ stage = "stats"
  /\ plan.boxes \subseteq RunningBoxes
  /\ MemoryOf(plan.boxes) <= EngineMemory
  /\ stage' = "free" /\ UNCHANGED <<plan, todo, current, answer>>
  /\ UNCHANGED <<world, now, consent, outcomes, changed>>

\* free in the guest, between two looks at the identity of its daemon.
MeasureGuest ==
  /\ stage = "free"
  /\ stage' = "standing-again"
  /\ LET free == EngineMemory - MemoryOf(RunningBoxes)
         unused == EngineMemory - MemoryOf(plan.boxes) IN
     Keep([plan EXCEPT !.memory = IF free < unused THEN free ELSE unused])
  /\ UNCHANGED <<world, now, consent, outcomes, changed>>

StandingAssumed(S) == TRUE

StandingHolds(S) == RunningBoxes = S

\* The same containers run as before, on the same engine.
ListStandingAgain ==
  /\ stage = "standing-again"
  /\ \/ /\ StandingHolds(plan.boxes)
        /\ stage' = "evaluate" /\ changed' = changed \ BoxItems
        /\ UNCHANGED <<plan, todo, current, answer>>
     \/ ~StandingHolds(plan.boxes) /\ EndCommand
  /\ UNCHANGED <<world, now, consent, outcomes>>

\* evaluateWorkloadCapacity.
Headroom(available, running) ==
  /\ available - Demand.memory >= EngineReserve
  /\ running + Demand.containers <= MaximumContainers

\* The start goes on with the quota.
EvaluateCapacity ==
  /\ stage = "evaluate"
  /\ \/ /\ Headroom(plan.memory, Cardinality(plan.boxes))
        /\ stage' = "list" /\ Keep(NewInventory("start")) /\ UNCHANGED changed
     \/ /\ ~Headroom(plan.memory, Cardinality(plan.boxes))
        /\ EndCommand
  /\ UNCHANGED <<world, now, consent, outcomes>>

\* The runtime of the start is the subject of other modules.
EvaluateQuota ==
  /\ stage = "quota"
  /\ \/ /\ AllowsStartup(ShownPolicy) /\ stage' = "admitted"
        /\ UNCHANGED <<plan, todo, current, answer, changed>>
     \/ ~AllowsStartup(ShownPolicy) /\ EndCommand
  /\ UNCHANGED <<world, now, consent, outcomes>>

Admitted ==
  /\ stage = "admitted" /\ EndCommand
  /\ UNCHANGED <<world, now, consent, outcomes>>

-----------------------------------------------------------------------------

DockerInit == RemovalInit

InventoryStep == Inspect \/ SeeContainers \/ SeeVolumes \/ MeasureVolumes \/ SeeImages \/ Close

AdmissionStep ==
  \/ MeasureHost \/ ListStanding \/ SampleStanding \/ MeasureGuest \/ ListStandingAgain
  \/ EvaluateCapacity \/ EvaluateQuota \/ Admitted

DockerNext == RemovalStep \/ InventoryStep \/ AdmissionStep \/ OthersStep

DockerSpec == DockerInit /\ [][DockerNext]_dockerVars

-----------------------------------------------------------------------------

Claimants(e) == {c \in Boxes : Bears(BoxLabels[c], e)}

\* What the inventory says holds of the machine, or has just been changed by
\* another tool: an environment offered for cleanup is unprotected and stopped,
\* nothing is counted for two environments, and an image offered as a candidate
\* has no container and a successor (inspectRehearsalResources,
\* buildResourceCatalog).
InventoryIsTrue ==
  stage = "shown" /\ plan.available =>
    /\ \A e \in StoppedEntries(ShownEntries) :
         /\ e \notin Sheltered
         /\ \A c \in Claimants(e) : Is(c, "running") => Item("box", c) \in changed
    /\ \A e, f \in Environments : e # f =>
         /\ OwnBoxes(e, plan.boxes, plan.volumes) \cap OwnBoxes(f, plan.boxes, plan.volumes) = {}
         /\ OwnVolumes(e, plan.boxes, plan.volumes)
              \cap OwnVolumes(f, plan.boxes, plan.volumes) = {}
    /\ \A i \in plan.named : ShownCatalog.images[i] = "candidate" =>
         /\ InUse(i) => Item("use", i) \in changed
         /\ Superseded(i, Named) \/ changed \cap TagItems # {}
    /\ \A v \in OtherContainers(plan.boxes) : \A e \in Environments :
         v \notin OwnBoxes(e, plan.boxes, plan.volumes)

\* A start is admitted only while its demand and the reserve fit beside all that
\* runs, and only while the volumes of the project are within the quota, unless
\* another tool has changed that since the last look (evaluateWorkloadCapacity,
\* evaluateResourcePolicy).
OfProject(V) == {v \in V : \E e \in Environments : Bears(VolumeLabels[v], e)}

AdmittedWithHeadroom ==
  /\ stage = "evaluate" /\ Headroom(plan.memory, Cardinality(plan.boxes)) =>
       \/ MemoryOf(RunningBoxes) + Demand.memory + EngineReserve <= EngineMemory
       \/ changed \cap BoxItems # {}
  /\ stage = "admitted" /\ Quota # Nothing =>
       \/ BytesOf(OfProject(SeenVolumes)) <= Quota
       \/ changed \cap (VolumeItems \cup BoxItems) # {}

\* Nothing but what its user has reviewed is removed or stopped, and nothing is
\* started on a measurement that no longer holds.
ActsAsReviewed == RemovedAsReviewed /\ StoppedAsReviewed /\ [][AdmittedWithHeadroom']_dockerVars

\* What is reported is so, of a removal and of the resources.
ReportsAreTrue == RemovalReportIsTrue /\ [][InventoryIsTrue']_dockerVars

=============================================================================
