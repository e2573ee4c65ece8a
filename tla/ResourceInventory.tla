---------------------------- MODULE ResourceInventory ----------------------------
(***************************************************************************)
(* What the inspections conclude from what they read of a Docker daemon    *)
(* (resource_inventory.mts, environment_classification.mts,                *)
(* resource_policy.mts, resource_catalog.mts, resource_provenance.mts).    *)
(* Nothing here changes anything: cs are the containers that were seen,    *)
(* per container its state and since when; vs the volumes that were seen,  *)
(* sizes those whose size was measured; at the time now.                   *)
(***************************************************************************)
EXTENDS Integers, FiniteSets

CONSTANTS Targets,       \* the configured environments in the order they start
          Provider,      \* the ownership label that each environment goes by
          Sheltered,     \* the protected environments
          Evidence,      \* per environment: its recorded marker and candidate
          BoxLabels,     \* per container: the project each label names
          VolumeLabels,  \* per volume likewise
          Mounts,        \* the volumes each container mounts
          ImageOf,       \* the image each container is made from
          VolumeBytes,   \* per volume: its size
          RetainedEnvironments,  \* resources.retainedEnvironmentCount
          Quota,         \* resources.maximumBytes, or Nothing
          Cutoff,        \* resources.staleAfterSeconds, or Nothing
          Nothing

OwnershipLabels == {"supabase", "rehearsal"}
Environments == {Targets[i] : i \in DOMAIN Targets}

ASSUME InventoryAssumption ==
  /\ IsFiniteSet(Environments) /\ Nothing \notin Environments
  /\ Provider \in [Environments -> OwnershipLabels]
  /\ Sheltered \subseteq Environments
  /\ DOMAIN Mounts = DOMAIN BoxLabels /\ DOMAIN ImageOf = DOMAIN BoxLabels
  /\ IsFiniteSet(DOMAIN VolumeLabels) /\ VolumeBytes \in [DOMAIN VolumeLabels -> Nat]
  /\ {Quota, Cutoff} \subseteq Nat \cup {Nothing} /\ RetainedEnvironments \in Nat

-----------------------------------------------------------------------------
(* Ownership.                                                              *)

Bears(labels, e) == labels[Provider[e]] = e

\* It bears the label of e, and the other label names another project.
OwnershipConflicts(labels, e) ==
  Bears(labels, e) /\ \E l \in OwnershipLabels : labels[l] \notin {Nothing, e}

BoxConflict(e, cs) == \E c \in DOMAIN cs : OwnershipConflicts(BoxLabels[c], e)

BoxConflictOnly(e, cs, vs) == BoxConflict(e, cs)

HasConflict(e, cs, vs) ==
  BoxConflict(e, cs) \/ \E v \in vs : OwnershipConflicts(VolumeLabels[v], e)

OwnBoxes(e, cs, vs) ==
  {c \in DOMAIN cs : Bears(BoxLabels[c], e) /\ ~HasConflict(e, cs, vs)}
OwnVolumes(e, cs, vs) ==
  {v \in vs : Bears(VolumeLabels[v], e) /\ ~HasConflict(e, cs, vs)}

RunningOf(S, cs) == {c \in S : cs[c].state = "running"}

-----------------------------------------------------------------------------
(* One configured environment.                                             *)

EnvironmentState(e, cs, vs) ==
  LET owned == OwnBoxes(e, cs, vs)
      running == RunningOf(owned, cs) IN
  CASE HasConflict(e, cs, vs) -> "unavailable"
    [] ~HasConflict(e, cs, vs) /\ owned = {} /\ OwnVolumes(e, cs, vs) = {} -> "absent"
    [] running = {} /\ (owned # {} \/ OwnVolumes(e, cs, vs) # {}) -> "stopped"
    [] running # {} /\ running = owned -> "running"
    [] OTHER -> "mixed"

CleanupEligibility(e, state) ==
  CASE state = "unavailable" -> "inspection-unavailable"
    [] state = "absent" -> "not-present"
    [] state \in {"running", "mixed"} -> "running"
    [] state = "stopped" /\ e \in Sheltered -> "inspection-unavailable"
    [] OTHER -> "preview-required"

\* evaluateObservableEnvironmentReview; nothing started or stopped since.
ObservableReview(available, S, cs, now) ==
  CASE ~available -> "unknown"
    [] available /\ Cutoff = Nothing -> "disabled"
    [] available /\ Cutoff # Nothing /\ RunningOf(S, cs) = {} -> "not-due"
    [] OTHER -> IF \A c \in S : now - cs[c].since >= Cutoff THEN "due" ELSE "not-due"

\* inspectEnvironmentProvenanceEvidence: the marker may be unreadable, malformed
\* or silent about its provider; the candidate receipt may be unreadable, or of
\* another baseline or provider than the marker.
Provenance(e) ==
  LET marker == Evidence[e].marker IN
  [runtimeReason |-> CASE marker = "unreadable" -> "receipt-unavailable"
                       [] marker = "malformed" -> "receipt-invalid"
                       [] OTHER -> Nothing,
   migrationReason |-> CASE Evidence[e].candidate = "bound" -> Nothing
                         [] Evidence[e].candidate = "foreign" -> "receipt-does-not-match-baseline"
                         [] OTHER -> "receipt-unavailable",
   providerRecorded |-> marker = "named"]

ReceiptState(e) ==
  LET p == Provenance(e) IN
  CASE p.runtimeReason = "receipt-invalid" -> "incompatible"
    [] p.runtimeReason = "receipt-unavailable" -> "unknown"
    [] p.runtimeReason = Nothing /\ p.migrationReason = "receipt-does-not-match-baseline" ->
         "incompatible"
    [] OTHER -> IF p.providerRecorded THEN "compatible" ELSE "unknown"

\* classifyConfiguredEnvironment.
Classification(e, cs, vs, now) ==
  LET available == ~HasConflict(e, cs, vs)
      owned == OwnBoxes(e, cs, vs) IN
  [presence |-> CASE ~available -> "unknown"
                  [] available /\ (owned # {} \/ OwnVolumes(e, cs, vs) # {}) -> "created"
                  [] OTHER -> "not-created",
   receipt |-> ReceiptState(e),
   review |-> ObservableReview(available, owned, cs, now)]

\* What volumes add up to, each of their bytes counted once.
BytesOf(V) == Cardinality(UNION {{v} \X (1 .. VolumeBytes[v]) : v \in V})

\* docker system df may fail, or leave a volume out.
DiskUsage(e, cs, vs, sizes) ==
  LET own == OwnVolumes(e, cs, vs) IN
  IF HasConflict(e, cs, vs) \/ ~(own \subseteq sizes) THEN Nothing
  ELSE BytesOf(own)

\* The entry of one environment in the inventory.
Entry(e, cs, vs, sizes, now) ==
  LET state == EnvironmentState(e, cs, vs)
      owned == OwnBoxes(e, cs, vs) IN
  [state |-> state,
   containers |-> Cardinality(owned),
   running |-> Cardinality(RunningOf(owned, cs)),
   volumes |-> Cardinality(OwnVolumes(e, cs, vs)),
   bytes |-> DiskUsage(e, cs, vs, sizes),
   eligibility |-> CleanupEligibility(e, state),
   classification |-> Classification(e, cs, vs, now)]

Entries(cs, vs, sizes, now) == [e \in Environments |-> Entry(e, cs, vs, sizes, now)]

\* Without an engine nothing is known but what the receipts recorded.
UnavailableEntries ==
  [e \in Environments |->
     [state |-> "unavailable", containers |-> 0, running |-> 0, volumes |-> 0,
      bytes |-> Nothing, eligibility |-> "inspection-unavailable",
      classification |-> [presence |-> "unknown", receipt |-> ReceiptState(e),
                          review |-> "unknown"]]]

\* What the stale digest is made of.
StoppedEntries(entries) ==
  {e \in DOMAIN entries : entries[e].eligibility = "preview-required"}

-----------------------------------------------------------------------------
(* The policy of the resources; the schedule of reviews only gives advice. *)

Known(entries) == \A e \in DOMAIN entries : entries[e].state # "unavailable"

OwnedBytes(entries) ==
  IF /\ Known(entries)
     /\ \A e \in DOMAIN entries : entries[e].volumes = 0 \/ entries[e].bytes # Nothing
  THEN Cardinality(UNION {{e} \X (1 .. entries[e].bytes) :
                            e \in {f \in DOMAIN entries : entries[f].bytes # Nothing}})
  ELSE Nothing

QuotaState(entries) ==
  CASE Quota = Nothing -> "disabled"
    [] Quota # Nothing /\ OwnedBytes(entries) = Nothing -> "unavailable"
    [] OTHER -> IF OwnedBytes(entries) > Quota THEN "exceeded" ELSE "within-limit"

RetainedCount(entries) ==
  Cardinality({e \in DOMAIN entries : entries[e].containers > 0 \/ entries[e].volumes > 0})

\* evaluateResourcePolicy.
PolicyStatus(entries) ==
  [quota |-> QuotaState(entries),
   retained |-> IF Known(entries) THEN RetainedCount(entries) ELSE Nothing,
   crowded |-> Known(entries) /\ RetainedCount(entries) > RetainedEnvironments]

\* assertResourcePolicyAllowsStartup.
AllowsStartup(status) == status.quota \notin {"unavailable", "exceeded"}

-----------------------------------------------------------------------------
(* The catalog of images, volumes and other containers; named are the      *)
(* images, by age, that some tag names.                                    *)

\* Whether labels belong to an environment, to none, or to more than they may.
Owners(labels) == {e \in Environments : Bears(labels, e)}
Ownership(labels) ==
  CASE Owners(labels) = {} -> "other"
    [] \E e \in Environments :
         Owners(labels) = {e} /\ \A l \in OwnershipLabels : labels[l] \in {Nothing, e} -> "project"
    [] OTHER -> "conflicting"

UsedBy(cs, image) == {c \in DOMAIN cs : ImageOf[c] = image}

\* selectOlderUnusedSupabaseImages: older than another of the repository, and
\* no container refers to it.
Superseded(i, named) == \E j \in named : i < j
OlderUnusedOf(named, cs) == {i \in named : UsedBy(cs, i) = {} /\ Superseded(i, named)}

ImageState(image, cs, named) ==
  CASE UsedBy(cs, image) # {} -> "in-use"
    [] UsedBy(cs, image) = {} /\ image \in OlderUnusedOf(named, cs) -> "candidate"
    [] UsedBy(cs, image) = {} /\ image \in named /\ ~Superseded(image, named) -> "current"
    [] OTHER -> "outside-policy"

CatalogVolume(v, cs) ==
  LET ownership == Ownership(VolumeLabels[v])
      target == IF ownership = "project" THEN CHOOSE e \in Owners(VolumeLabels[v]) : TRUE
                                         ELSE Nothing IN
  [ownership |-> ownership,
   target |-> target,
   attached |-> Cardinality({c \in DOMAIN cs : v \in Mounts[c]}),
   protected |-> target \in {Nothing} \cup Sheltered]

OtherContainers(cs) == {c \in DOMAIN cs : Ownership(BoxLabels[c]) # "project"}

Catalog(cs, vs, named) ==
  [images |-> [i \in named |-> ImageState(i, cs, named)],
   volumes |-> [v \in vs |-> CatalogVolume(v, cs)],
   others |-> OtherContainers(cs)]

===============================================================================
