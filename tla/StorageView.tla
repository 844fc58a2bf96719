----------------------------- MODULE StorageView -----------------------------
(***************************************************************************)
(* The Storage screen (src-tauri/src/storage.rs): claims of a namespace    *)
(* with the pods that mount them, volumes and classes of the cluster, a    *)
(* health for each and the findings.                                       *)
(***************************************************************************)
EXTENDS Reads

\* A claim: [name, phase, class, asked, given], sizes 0 when not stated.
Mounted(c) == c.name \in UsedByPods("claim")

ClaimHealth(c) ==
    CASE c.phase = "Bound" -> IF Mounted(c) THEN "good" ELSE "warning"
      [] c.phase = "Pending" -> "serious"
      [] c.phase = "Lost" -> "critical"
      [] OTHER -> "warning"

\* Both sizes are stated and more than 1.05 times the request was given.
OverProvisioned(c) == c.asked > 0 /\ 100 * c.given > 105 * c.asked

\* A volume: [name, phase, reclaim, claim], the claim <<namespace, name>>.
\* Whether its claim exists is only decidable from the cluster-wide list.
ClaimExists(v) ==
    IF v.claim = Nobody \/ ~Known("everyClaim") THEN "unknown"
    ELSE IF v.claim \in seen["everyClaim"] THEN "yes" ELSE "no"

VolumeHealth(v) ==
    CASE v.phase = "Released" -> IF v.reclaim = "Retain" THEN "serious" ELSE "warning"
      [] v.phase = "Failed" -> "critical"
      [] v.phase = "Available" -> "good"
      [] v.phase = "Bound" -> IF ClaimExists(v) = "no" THEN "critical" ELSE "good"
      [] OTHER -> "warning"

\* A class: [name, default, mode]; that it cannot grow or deletes is a note.
ClassHealth(k) == IF k.mode = "Immediate" THEN "warning" ELSE "good"

ClaimsUsing(k) == Cardinality({c \in Got("claims") : c.class = k.name})

\* What the findings say.
StillBilled == "Released volumes are still being billed"
NoVolume == "A claim has no volume"
VolumeLost == "A claim's volume no longer exists"
Unmounted == "Bound but not mounted"
MoreThanAsked == "More storage provisioned than requested"
ManyDefaults == "More than one default storage class"
NoDefault == "No default storage class"

Defaults == {k \in Got("classes") : k.default}

BuildStorageFindings ==
    LET claims == Got("claims") IN
    UNION {
      Finding("serious", StillBilled,
              Names({v \in Got("volumes") : v.phase = "Released" /\ v.reclaim = "Retain"})),
      Finding("serious", NoVolume,
              Names({c \in claims : c.phase = "Pending"})),
      Finding("critical", VolumeLost,
              Names({c \in claims : c.phase = "Lost"})),
      Finding("warning", Unmounted,
              Names({c \in claims : c.phase = "Bound" /\ ~Mounted(c)})),
      Finding("warning", MoreThanAsked,
              Names({c \in claims : OverProvisioned(c)})),
      IF Cardinality(Defaults) > 1
        THEN Finding("serious", ManyDefaults, Names(Defaults))
        ELSE {},
      IF Defaults = {}
        THEN Finding("warning", NoDefault, Names(Got("classes")))
        ELSE {} }

StorageFindings_Faulty == BuildStorageFindings

\* "without it the finding would accuse every claim in the namespace": what is
\* drawn from a pod list that failed is taken back.
StorageFindings ==
    {f \in BuildStorageFindings : f.title = Unmounted => Known("pods")}

\* "Bound but not mounted by any running pod" (storage.rs:164), the label of a
\* claim's row: the pods were listed.  The findings keep to that, the label
\* does not.
MountedOnEvidence ==
    \A c \in Got("claims") : c.phase = "Bound" /\ ClaimHealth(c) = "warning" => Known("pods")

StorageHealthOK ==
    /\ \A c \in Got("claims") : ClaimHealth(c) \in Severities
    /\ \A v \in Got("volumes") : VolumeHealth(v) \in Severities
    /\ \A k \in Got("classes") :
          ClassHealth(k) \in Severities /\ ClaimsUsing(k) \in Nat
    /\ \A f \in StorageFindings : f.severity \in Severities /\ f.targets # {}
=============================================================================
