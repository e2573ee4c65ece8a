----------------------------- MODULE ReviewedRemoval -----------------------------
(***************************************************************************)
(* The commands that take away what they first show: cleanup containers    *)
(* (container_retirement.mts), cleanup with or without the runtime         *)
(* (cleanup.mts) and stop-stale (stale_environment_plan.mts,               *)
(* stale_environment_stop.mts).                                            *)
(*                                                                         *)
(* Each is run twice: a preview prints a plan and its digest, and a second *)
(* command makes the plan anew, compares the digest the user confirmed,    *)
(* and looks again before every single act.  Other tools use the same      *)
(* Docker daemon all the time; a look and an act are two requests.  A      *)
(* request answered by another daemon than the reviewed one, one without   *)
(* an answer and one past its deadline fail alike; one that acts may have  *)
(* acted all the same.                                                     *)
(***************************************************************************)
EXTENDS ResourceInventory, Sequences

CONSTANTS Boxes,    \* containers, the ones of the machine's owner included
          Claims,   \* containers declared completed and disposable, in order
          Later,    \* containers nobody has created yet
          Tags,     \* tags of the image repository, and the image each names
          MaxTime   \* bound: events of other tools and of time passing

ASSUME RemovalAssumption ==
  /\ DOMAIN BoxLabels = Boxes /\ ImageOf \in [Boxes -> Nat]
  /\ Tags \in [DOMAIN Tags -> Nat \cup {Nothing}]
  /\ Claims \in Seq(Boxes) /\ \A i, j \in DOMAIN Claims : Claims[i] = Claims[j] => i = j
  /\ MaxTime \in Nat /\ Nothing \notin Nat \cup BOOLEAN

Volumes == DOMAIN VolumeLabels
Primary == Targets[1]

VARIABLES
  box,      \* per container: none yet, running, exited or gone; since when
  volume,   \* per volume: when it was created, 0 when there is none
  tag,      \* per tag: the image it names, by age, or Nothing
  now,      \* events so far, each at a time of its own
  stage,    \* where the command is
  consent,  \* the plan of the last preview, which the user may confirm
  plan,     \* the plan the command works on
  todo,     \* what of it is left
  current,  \* the container, tag or environment at hand
  outcomes, \* of the retirement: what is reported of each container
  answer,   \* whether the container at hand is gone, Nothing while unknown
  changed   \* history: what others changed since the command's last look at it

world == <<box, volume, tag>>
command == <<stage, consent, plan, todo, current, outcomes, answer>>
dockerVars == <<world, now, command, changed>>

-----------------------------------------------------------------------------

Is(c, state) == box[c].state = state
Stands(c) == box[c].state \in {"running", "exited"}

\* What an inspection of all containers, and of all volumes, returns.
Seen == [c \in {d \in Boxes : Stands(d)} |-> box[c]]
SeenVolumes == {v \in Volumes : volume[v] # 0}

InUse(image) == UsedBy(Seen, image) # {}

Item(kind, x) == <<kind, x>>
Images == {ImageOf[c] : c \in Boxes}

-----------------------------------------------------------------------------
(* What the three previews read.                                           *)

\* A claim on a container that is not stopped ends the planning.
Claimed == {Claims[i] : i \in DOMAIN Claims}
RetirementPlan ==
  [kind |-> "retire",
   boxes |-> [c \in Claimed |-> box[c]],
   volumes |-> [v \in UNION {Mounts[c] : c \in Claimed} |-> volume[v]]]
CanRetire ==
  /\ \A c \in Claimed : Is(c, "exited")
  /\ \A v \in UNION {Mounts[c] : c \in Claimed} : volume[v] # 0

\* Older images of the repository that no container is made from.
Named == {tag[t] : t \in DOMAIN Tags} \ {Nothing}
OlderUnused == OlderUnusedOf(Named, Seen)

\* What bears the label of the primary; the runtime's directory, which counts
\* as well, comes and goes with it.
RuntimeDetected ==
  \/ \E c \in DOMAIN Seen : Bears(BoxLabels[c], Primary)
  \/ \E v \in SeenVolumes : Bears(VolumeLabels[v], Primary)

\* planRehearsalCleanup: the images, and with --runtime whether there is one.
ImagePlan(included) ==
  [kind |-> "images",
   included |-> included,
   runtime |-> included /\ RuntimeDetected,
   images |-> [i \in OlderUnused |-> {t \in DOMAIN Tags : tag[t] = i}]]
CanClean(included) == included => Primary \notin Sheltered

\* An environment is due when something of it runs and nothing of it started
\* or stopped since the cutoff; here only the labels of containers conflict.
OfTarget(e) == {c \in DOMAIN Seen : Bears(BoxLabels[c], e)}
Due(e) ==
  /\ ~BoxConflict(e, Seen)
  /\ ObservableReview(TRUE, OfTarget(e), Seen, now) = "due"
StalePlan ==
  [kind |-> "stale",
   targets |-> [e \in {f \in Environments : Due(f)} |-> [c \in OfTarget(e) |-> box[c]]]]

PlanOf(kind) ==
  CASE kind = "retire" -> RetirementPlan
    [] kind = "images" -> ImagePlan(FALSE)
    [] kind = "cleanup" -> ImagePlan(TRUE)
    [] kind = "stale"  -> StalePlan

Concerned(kind) ==
  CASE kind = "retire" -> {Item("box", c) : c \in Claimed} \cup {Item("volume", v) : v \in Volumes}
    [] kind = "images" -> {Item("tag", t) : t \in DOMAIN Tags} \cup {Item("use", i) : i \in Images}
    [] kind = "stale"  -> {Item("box", c) : c \in Boxes}
    [] kind \in {"inspect", "start"} ->
         {Item("box", c) : c \in Boxes} \cup {Item("volume", v) : v \in Volumes}
           \cup {Item("tag", t) : t \in DOMAIN Tags} \cup {Item("use", i) : i \in Images}

Work(p) ==
  CASE p.kind = "retire" -> Claimed
    [] p.kind = "images" -> UNION {p.images[i] : i \in DOMAIN p.images}
    [] p.kind = "stale"  -> DOMAIN p.targets

ImageOfTag(t) == CHOOSE i \in DOMAIN plan.images : t \in plan.images[i]

\* The order of the acts: as claimed, oldest image first, last target first.
IsFirst(x) ==
  /\ plan.kind = "retire" =>
       \E i \in DOMAIN Claims : Claims[i] = x /\ \A j \in 1 .. i - 1 : Claims[j] \notin todo
  /\ plan.kind = "images" =>
       \A t \in todo \ {x} : \/ ImageOfTag(x) < ImageOfTag(t)
                            \/ (ImageOfTag(x) = ImageOfTag(t) /\ x < t)
  /\ plan.kind = "stale" =>
       \E i \in DOMAIN Targets :
         Targets[i] = x /\ \A j \in DOMAIN Targets : j > i => Targets[j] \notin todo

-----------------------------------------------------------------------------

\* The command goes on to its next request, after a look at the items S.
Continue(step, S) ==
  /\ stage' = step /\ changed' = changed \ S
  /\ UNCHANGED <<plan, todo, current, answer>>

\* It ends, with nothing to remember but what the user has read.
EndCommand ==
  /\ stage' = "idle" /\ changed' = {}
  /\ plan' = Nothing /\ todo' = {} /\ current' = Nothing /\ answer' = Nothing

\* It has dealt with one item.
Done ==
  /\ stage' = "next" /\ todo' = todo \ {current}
  /\ current' = Nothing /\ answer' = Nothing
  /\ UNCHANGED <<plan, changed>>

\* A request of any command but the retirement that fails ends the command.
Fail ==
  /\ stage \notin {"idle", "shown"} /\ plan.kind # "retire"
  /\ EndCommand
  /\ UNCHANGED <<world, now, consent, outcomes>>

Possible(kind) ==
  /\ kind = "retire" => CanRetire
  /\ kind = "cleanup" => CanClean(TRUE)

\* A preview prints what it read.
Preview(kind) ==
  /\ stage = "idle" /\ Possible(kind)
  /\ consent' = PlanOf(kind)
  /\ outcomes' = {}
  /\ UNCHANGED <<world, now, stage, plan, todo, current, answer, changed>>

\* The second command reads anew and works only on what the user confirmed.
Confirmed(kind) == consent # Nothing /\ PlanOf(kind) = consent

Apply(kind) ==
  /\ stage = "idle" /\ Possible(kind)
  /\ Confirmed(kind)
  /\ stage' = IF kind = "cleanup" /\ consent.runtime THEN "runtime" ELSE "next"
  /\ plan' = PlanOf(kind)
  /\ todo' = Work(PlanOf(kind))
  /\ outcomes' = {}
  /\ UNCHANGED <<world, now, consent, current, answer, changed>>

\* The first look of the next item; the end of the command without one.
Advance ==
  /\ stage = "next"
  /\ \/ todo = {} /\ EndCommand
     \/ /\ current' \in todo /\ IsFirst(current')
        /\ stage' = CASE plan.kind = "retire" -> "inspect"
                     [] plan.kind = "images" -> "in-use"
                     [] plan.kind = "stale"  -> "refresh"
        /\ UNCHANGED <<plan, todo, answer, changed>>
  /\ UNCHANGED <<world, now, consent, outcomes>>

-----------------------------------------------------------------------------
(* Retiring completed containers.                                          *)

Report(c, status, removed, preserved) ==
  [box |-> c, status |-> status, removed |-> removed, preserved |-> preserved]

\* The batch ends with the first lost proof: the rest is refused.
Abandon(status, removed, preserved) ==
  /\ outcomes' = outcomes \cup {Report(current, status, removed, preserved)}
                 \cup {Report(c, "refused", FALSE, FALSE) : c \in todo \ {current}}
  /\ EndCommand

\* The container is the one of the plan, in the same state since then.
SnapshotHolds(c) == box[c] = plan.boxes[c]

InspectClaim ==
  /\ stage = "inspect"
  /\ \/ /\ Is(current, "exited") /\ SnapshotHolds(current)
        /\ Continue("volumes", {Item("box", current)})
        /\ UNCHANGED outcomes
     \/ Abandon("refused", FALSE, Nothing)
  /\ UNCHANGED <<world, now, consent>>

VolumesHold == \A v \in Mounts[current] : volume[v] = plan.volumes[v]

InspectVolumes ==
  /\ stage = "volumes"
  /\ \/ VolumesHold /\ Continue("remove", {}) /\ UNCHANGED outcomes
     \/ Abandon("refused", FALSE, Nothing)
  /\ UNCHANGED <<world, now, consent>>

\* A request past its deadline, without an answer, or around which the context
\* or its daemon is another one than the reviewed.
Lost == Continue("recheck", {})

\* docker container rm, without force: refused for a container that runs.
\* Without an answer it may have acted all the same.
RemoveContainer ==
  /\ stage = "remove"
  /\ \/ /\ Is(current, "exited")
        /\ box' = [box EXCEPT ![current].state = "gone"]
        /\ Continue("confirm", {}) \/ Lost
     \/ UNCHANGED box /\ Lost
  /\ UNCHANGED <<volume, tag, now, consent, outcomes>>

\* The listing shows whether it is gone.
Gone(c) == Is(c, "gone")

ConfirmRemoval ==
  /\ stage = "confirm"
  /\ \/ /\ Gone(current) /\ stage' = "preserved" /\ answer' = TRUE
        /\ UNCHANGED <<plan, todo, current, changed>>
     \/ Lost
  /\ UNCHANGED <<world, now, consent, outcomes>>

ConfirmVolumes ==
  /\ stage = "preserved"
  /\ \/ /\ VolumesHold
        /\ outcomes' = outcomes \cup {Report(current, "removed", TRUE, TRUE)}
        /\ Done
     \/ Lost /\ UNCHANGED outcomes
  /\ UNCHANGED <<world, now, consent>>

\* After a lost proof: what can still be verified.  A listing without an
\* answer leaves what is known of the container as it was.
Recheck ==
  /\ stage = "recheck"
  /\ \/ /\ stage' = "recheck-volumes" /\ answer' = Gone(current)
        /\ changed' = changed \ {Item("box", current)}
        /\ UNCHANGED <<plan, todo, current, outcomes>>
     \/ Abandon("failed", answer, Nothing)
  /\ UNCHANGED <<world, now, consent>>

\* preserved starts true; a volume that differs makes it false, and one that
\* cannot be inspected ends the loop with what it was.
PreservedBy(answered) == \A v \in answered : volume[v] = plan.volumes[v]

RecheckVolumes ==
  /\ stage = "recheck-volumes"
  /\ \E answered \in SUBSET Mounts[current] :
       /\ \A v \in answered : volume[v] # 0
       /\ Abandon("failed", answer, PreservedBy(answered))
  /\ UNCHANGED <<world, now, consent>>

-----------------------------------------------------------------------------
(* Removing the runtime of the primary, and older images.                  *)

\* removeRuntime: the manager's discard, which may fail half-way.
TakeAway(S, V) ==
  /\ box' = [c \in Boxes |-> IF c \in S THEN [box[c] EXCEPT !.state = "gone"] ELSE box[c]]
  /\ volume' = [v \in Volumes |-> IF v \in V THEN 0 ELSE volume[v]]

RemoveRuntime ==
  /\ stage = "runtime"
  /\ LET S == {c \in DOMAIN Seen : Bears(BoxLabels[c], Primary)}
         V == {v \in SeenVolumes : Bears(VolumeLabels[v], Primary)} IN
     \/ TakeAway(S, V) /\ Continue("next", {})
     \/ \E some \in SUBSET S : TakeAway(some, {}) /\ EndCommand
  /\ UNCHANGED <<tag, now, consent, outcomes>>

Unused(image) == ~InUse(image)

\* Once per image and again per tag: a container may have begun to use it.
LookForUse(step, next) ==
  LET image == ImageOfTag(current) IN
  /\ stage = step
  /\ \/ Unused(image) /\ Continue(next, {Item("use", image)})
     \/ ~Unused(image) /\ EndCommand
  /\ UNCHANGED <<world, now, consent, outcomes>>

InspectTag ==
  /\ stage = "tag"
  /\ \/ tag[current] = ImageOfTag(current) /\ Continue("in-use-again", {Item("tag", current)})
     \/ tag[current] # ImageOfTag(current) /\ EndCommand
  /\ UNCHANGED <<world, now, consent, outcomes>>

\* docker image rm of a tag: refused for the last tag of an image in use.
LastTag(t) == \A s \in DOMAIN Tags \ {t} : tag[s] # tag[t]

RemoveTag ==
  /\ stage = "untag"
  /\ \/ /\ tag[current] # Nothing /\ ~(LastTag(current) /\ InUse(tag[current]))
        /\ tag' = [tag EXCEPT ![current] = Nothing]
        /\ Done
     \/ /\ tag[current] = Nothing \/ (LastTag(current) /\ InUse(tag[current]))
        /\ EndCommand
        /\ UNCHANGED tag
  /\ UNCHANGED <<box, volume, now, consent, outcomes>>

-----------------------------------------------------------------------------
(* Stopping stale environments.                                            *)

\* The environment is still due, with the same containers in the same state.
TargetHolds(e) ==
  LET fresh == StalePlan.targets IN e \in DOMAIN fresh /\ fresh[e] = plan.targets[e]

Refresh ==
  /\ stage = "refresh"
  /\ \/ TargetHolds(current) /\ Continue("bind", {})
     \/ ~TargetHolds(current) /\ EndCommand
  /\ UNCHANGED <<world, now, consent, outcomes>>

\* The reviewed containers, by id, are what they were.
BindingHolds(e) == \A c \in DOMAIN plan.targets[e] : box[c] = plan.targets[e][c]

Bind ==
  /\ stage = "bind"
  /\ \/ /\ BindingHolds(current)
        /\ Continue("stop", {Item("box", c) : c \in DOMAIN plan.targets[current]})
     \/ ~BindingHolds(current) /\ EndCommand
  /\ UNCHANGED <<world, now, consent, outcomes>>

\* docker container stop of the ids that ran; when it fails some are stopped.
Stopped(S) ==
  box' = [c \in Boxes |-> IF c \in S /\ Is(c, "running")
                            THEN [state |-> "exited", since |-> now] ELSE box[c]]

StopContainers ==
  /\ stage = "stop"
  /\ LET known == plan.targets[current]
         ids == {c \in DOMAIN known : known[c].state = "running"} IN
     \/ Stopped(ids) /\ Continue("proof", {})
     \/ \E some \in SUBSET ids : Stopped(some) /\ EndCommand
  /\ UNCHANGED <<volume, tag, now, consent, outcomes>>

ProveStopped ==
  /\ stage = "proof"
  /\ \/ (\A c \in DOMAIN plan.targets[current] : ~Is(c, "running")) /\ Done
     \/ EndCommand
  /\ UNCHANGED <<world, now, consent, outcomes>>

-----------------------------------------------------------------------------
(* What other tools do with the same daemon meanwhile.                     *)

Event(item) ==
  /\ now < MaxTime
  /\ now' = now + 1
  /\ changed' = IF stage = "idle" THEN {} ELSE changed \cup (item \cap Concerned(plan.kind))
  /\ UNCHANGED command

Touched(c) == {Item("box", c), Item("use", ImageOf[c])}

\* docker run makes the volumes that are not there.
Create(c) ==
  /\ Is(c, "none")
  /\ Event(Touched(c) \cup {Item("volume", v) : v \in Mounts[c]})
  /\ box' = [box EXCEPT ![c] = [state |-> "running", since |-> now + 1]]
  /\ volume' = [v \in Volumes |-> IF v \in Mounts[c] /\ volume[v] = 0 THEN now + 1 ELSE volume[v]]
  /\ UNCHANGED tag

StartOrExit(c) ==
  /\ Stands(c)
  /\ Event(Touched(c))
  /\ box' = [box EXCEPT ![c] = [state |-> IF @.state = "running" THEN "exited" ELSE "running",
                                since |-> now + 1]]
  /\ UNCHANGED <<volume, tag>>

\* A restart between two looks leaves only the times to tell by.
Restart(c) ==
  /\ Stands(c)
  /\ Event(Touched(c))
  /\ box' = [box EXCEPT ![c].since = now + 1]
  /\ UNCHANGED <<volume, tag>>

Discard(c) ==
  /\ Is(c, "exited")
  /\ Event(Touched(c))
  /\ box' = [box EXCEPT ![c].state = "gone"]
  /\ UNCHANGED <<volume, tag>>

\* A volume no container mounts is removed, or made again under its name.
ChangeVolume(v) ==
  /\ \A c \in Boxes : v \in Mounts[c] => ~Stands(c)
  /\ Event({Item("volume", v)})
  /\ volume' \in {[volume EXCEPT ![v] = 0], [volume EXCEPT ![v] = now + 1]}
  /\ UNCHANGED <<box, tag>>

Retag(t, image) ==
  /\ tag[t] # image
  /\ Event({Item("tag", t)})
  /\ tag' = [tag EXCEPT ![t] = image]
  /\ UNCHANGED <<box, volume>>

Pass == Event({}) /\ UNCHANGED world

RemovalInit ==
  /\ \E running \in SUBSET (Boxes \ Later) :
       box = [c \in Boxes |-> [state |-> IF c \in Later THEN "none"
                                        ELSE IF c \in running THEN "running" ELSE "exited",
                               since |-> 0]]
  /\ volume = [v \in Volumes |-> IF \E c \in Boxes \ Later : v \in Mounts[c] THEN 1 ELSE 0]
  /\ tag = Tags
  /\ now = 1
  /\ stage = "idle" /\ consent = Nothing /\ plan = Nothing
  /\ todo = {} /\ current = Nothing /\ outcomes = {} /\ answer = Nothing
  /\ changed = {}

RemovalStep ==
  \/ \E kind \in {"retire", "images", "cleanup", "stale"} : Preview(kind) \/ Apply(kind)
  \/ Advance \/ Fail
  \/ InspectClaim \/ InspectVolumes \/ RemoveContainer \/ ConfirmRemoval \/ ConfirmVolumes
  \/ Recheck \/ RecheckVolumes
  \/ RemoveRuntime
  \/ LookForUse("in-use", "tag") \/ InspectTag \/ LookForUse("in-use-again", "untag") \/ RemoveTag
  \/ Refresh \/ Bind \/ StopContainers \/ ProveStopped

OthersStep ==
  \/ \E c \in Boxes : Create(c) \/ StartOrExit(c) \/ Restart(c) \/ Discard(c)
  \/ \E v \in Volumes : ChangeVolume(v)
  \/ \E t \in DOMAIN Tags, image \in Images : Retag(t, image)
  \/ Pass

-----------------------------------------------------------------------------

\* Events of other tools take time; the command's own acts do not.
CommandActs == now' = now

\* A container or a tag is removed only when the user confirmed it as it is,
\* a tag only from an image no container uses, and the runtime of the primary
\* only when the user agreed to that; or somebody changed it after the command's
\* last look (container_retirement.mts, retireContainerSteps; cleanup.mts,
\* applyRehearsalCleanup).
RemovedAsReviewed ==
  [][ /\ \A c \in Boxes : CommandActs /\ Stands(c) /\ box'[c].state = "gone" =>
           \/ /\ consent.kind = "retire" /\ c \in DOMAIN consent.boxes
              /\ box[c] = consent.boxes[c] \/ Item("box", c) \in changed
           \/ /\ consent.kind = "images" /\ consent.included
              /\ Bears(BoxLabels[c], Primary) /\ Primary \notin Sheltered
      /\ \A t \in DOMAIN Tags : CommandActs /\ tag'[t] # tag[t] =>
           /\ consent.kind = "images"
           /\ \/ Item("tag", t) \in changed
              \/ /\ tag[t] \in DOMAIN consent.images /\ t \in consent.images[tag[t]]
                 /\ InUse(tag[t]) => Item("use", tag[t]) \in changed
      /\ \A v \in Volumes : CommandActs /\ volume'[v] # volume[v] =>
           /\ consent.kind = "images" /\ consent.included
           /\ Bears(VolumeLabels[v], Primary)
    ]_dockerVars

\* stop-stale stops only containers of an environment the user confirmed as
\* due, as they were then, never one that joined the environment since, and
\* never one that another project's label claims as well
\* (stale_environment_stop.mts, stopReviewedStaleTarget).
StoppedAsReviewed ==
  [][ \A c \in Boxes : CommandActs /\ Is(c, "running") /\ box'[c].state = "exited" =>
        /\ consent.kind = "stale"
        /\ \E e \in DOMAIN consent.targets :
             /\ c \in DOMAIN consent.targets[e]
             /\ ~OwnershipConflicts(BoxLabels[c], e)
             /\ box[c] = consent.targets[e][c] \/ Item("box", c) \in changed
    ]_dockerVars

\* What the retirement says of a container it tried to remove is so: removed
\* when it is gone, not removed when it still stands, and unknown otherwise,
\* whichever answers were lost (retireContainerSteps, the outcomes).
RemovalReportIsTrue ==
  [][ \A r \in outcomes' \ outcomes :
        r.status \in {"removed", "failed"} /\ r.removed # Nothing =>
          \/ r.removed = (box'[r.box].state = "gone")
          \/ Item("box", r.box) \in changed
    ]_dockerVars

=============================================================================
