------------------------------- MODULE Reports -------------------------------
(***************************************************************************)
(* Five of the reports of src-tauri/src/insights.rs, for one namespace     *)
(* ("here"; a report over several is their union): idle cost, upgrade      *)
(* readiness, security posture, image hygiene and, with reports.rs, what   *)
(* was deployed.  A report is its rows and the lists it says it could not  *)
(* read.                                                                   *)
(***************************************************************************)
EXTENDS StorageView, ConfigView

Row(kind, name, severity) == [kind |-> kind, name |-> name, severity |-> severity]
Rows(kind, names, severity) == {Row(kind, n, severity) : n \in names}

---------------------------------------------------------------------------
PodContainers_Faulty == {"container"}

\* pod_containers: the init containers and the ordinary ones.
PodContainers == {"init", "container"}

\* The names of a kind that the listed pods use, by the report's own walk.
UsedInReport(kind) ==
    LET places == {"pull secret", "volume", "projected"} \cup PodContainers
        uses == UNION {p.uses : p \in Got("pods")}
    IN  {u.name : u \in {v \in uses : v.kind = kind /\ v.place \in places}}

\* "Everything that is provisioned, billed, and doing nothing."
IdleRows ==
    UNION {
      Rows("PersistentVolumeClaim",
           Names({c \in Got("claims") : c.phase = "Bound"}) \ UsedInReport("claim"), "serious"),
      Rows("ConfigMap",
           Names(Got("maps")) \ ({"kube-root-ca.crt"} \cup UsedInReport("map")), "warning"),
      Rows("Secret",
           Names({s \in Got("secrets") : s.type \notin {ServiceAccountToken, HelmRelease}})
               \ UsedInReport("secret"), "warning"),
      Rows("Deployment",
           Names({d \in Got("deployments") : d.replicas = 0}), "warning"),
      Rows("Job",
           Names({j \in Got("jobs") : j.finished /\ j.days >= 7}), "warning"),
      Rows("PersistentVolume",
           Names({v \in Got("volumes") : v.phase = "Released" /\ v.reclaim = "Retain"
                                         /\ v.claim # Nobody /\ v.claim[1] = "here"}),
           "critical") }

IdleDegraded == {"pods", "claims", "volumes"} \ {l \in Lists : Known(l)}

---------------------------------------------------------------------------
BudgetsPresent == Got("budgets") # {}

\* "What will block or disrupt a rolling node drain, before you start one."
UpgradeRows ==
    UNION {
      Rows("bare", Names({p \in Got("pods") : p.owner = Nobody}), "critical"),
      Rows("hostPath", Names({p \in Got("pods") : p.hostPath}), "serious"),
      Rows("PodDisruptionBudget",
           Names({b \in Got("budgets") : b.allowed = 0}), "critical"),
      Rows("single", Names({d \in Got("deployments") : d.replicas = 1}), "serious"),
      IF BudgetsPresent THEN {}
        ELSE Rows("nopdb", Names({d \in Got("deployments") : d.replicas > 1}), "warning"),
      Rows("single-sts", Names({s \in Got("statefulSets") : s.replicas = 1}), "serious"),
      Rows("node", Names({n \in Got("nodes") : ~n.ready}), "critical"),
      Rows("cordoned", Names({n \in Got("nodes") : n.ready /\ n.cordoned}), "warning") }

UpgradeDegraded == {"pods", "nodes"} \ {l \in Lists : Known(l)}

Blockers == Cardinality({r \in UpgradeRows : r.severity = "critical"})

---------------------------------------------------------------------------
(***************************************************************************)
(* An image is [registry, port, path, tag]: the registry "" when the       *)
(* reference begins with the path, port when the registry has one.         *)
(***************************************************************************)
ContainersOf(p) == p.containers

\* A pod lists its containers.
ContainersFormed(a) ==
    a["pods"] = Refused \/
        \A p \in a["pods"] : "containers" \in DOMAIN p /\ IsFiniteSet(ContainersOf(p))

ASSUME ContainersAssumption ==
    \A i \in DOMAIN Answers : \A a \in Answers[i] : ContainersFormed(a)

AllContainers == UNION {ContainersOf(p) : p \in Got("pods")}

Unpinned_Faulty(i) == i.tag = "latest"

\* ends_with(":latest") or no ':' anywhere in the reference.
Unpinned(i) == i.tag = "latest" \/ (i.tag = "" /\ ~i.port)

MayRunAsRoot(p, c) == c.nonRoot = "unset" /\ p.nonRoot = "unset"

\* One row for each risk of a pod's own specification and of its containers.
SecurityRows ==
    UNION {
      Rows("hostNetwork", Names({p \in Got("pods") : "network" \in p.host}), "critical"),
      Rows("hostPID", Names({p \in Got("pods") : "pid" \in p.host}), "critical"),
      Rows("hostIPC", Names({p \in Got("pods") : "ipc" \in p.host}), "serious"),
      Rows("token", Names({p \in Got("pods") : p.token}), "warning"),
      Rows("hostPath volume", Names({p \in Got("pods") : p.hostPath}), "critical"),
      Rows("Privileged", Names({c \in AllContainers : c.privileged}), "critical"),
      Rows("Escalation", Names({c \in AllContainers : c.escalates}), "warning"),
      Rows("Root", UNION {Names({c \in ContainersOf(p) : MayRunAsRoot(p, c)}) :
                             p \in Got("pods")}, "serious"),
      Rows("Capabilities", Names({c \in AllContainers : c.adds # {}}), "serious"),
      Rows("Unpinned image", Names({c \in AllContainers : Unpinned(c.image)}), "serious"),
      IF Known("policies") /\ Got("policies") = {}
        THEN {Row("No network policy", Nobody, "serious")} ELSE {} }

---------------------------------------------------------------------------
\* "latest (implied)" without a tag; starts_with("latest").
ImageSeverity(i) ==
    IF i.tag \in {"", "latest", "latest-alpine"} THEN "serious"
    ELSE IF i.registry \in {"", "docker.io"} THEN "warning"
    ELSE "good"

\* One row for each image that runs, wherever it runs.
HygieneRows ==
    {[image |-> i, severity |-> ImageSeverity(i),
      pods |-> Cardinality({u \in Got("pods") \X AllContainers :
                               u[2] \in ContainersOf(u[1]) /\ u[2].image = i})] :
        i \in {c.image : c \in AllContainers}}

---------------------------------------------------------------------------
(***************************************************************************)
(* What was deployed: the workloads created in the window, [recent], each  *)
(* as well as it runs.  A job of a cron job is not a deployment.           *)
(***************************************************************************)
ReplicaHealth(w) ==
    IF w.replicas = 0 \/ (0 < w.ready /\ w.ready < w.replicas) THEN "warning"
    ELSE IF w.ready = 0 THEN "critical"
    ELSE "good"

JobHealth(j) ==
    IF j.failed > 0 THEN "critical"
    ELSE IF j.succeeded >= j.wanted THEN "good"
    ELSE "warning"

CronHealth(c) == IF c.suspended THEN "warning" ELSE "good"

WorkflowHealth(w) ==
    CASE w.phase = "Succeeded" -> "good"
      [] w.phase \in {"Failed", "Error"} -> "critical"
      [] OTHER -> "warning"

Recent(l) == {o \in Got(l) : o.recent}

DeployedRows ==
    {Row("workload", w.name, ReplicaHealth(w)) :
        w \in Recent("deployments") \cup Recent("statefulSets") \cup Recent("daemonSets")}
    \cup {Row("CronJob", c.name, CronHealth(c)) : c \in Recent("cronJobs")}
    \cup {Row("Job", j.name, JobHealth(j)) : j \in {i \in Recent("jobs") : ~i.byCron}}
    \cup {Row("Workflow", w.name, WorkflowHealth(w)) : w \in Recent("workflows")}

\* Workflows are left out without a word: a cluster without Argo has none.
DeployedDegraded ==
    {"deployments", "statefulSets", "daemonSets", "cronJobs", "jobs"} \ {l \in Lists : Known(l)}

\* "N workload(s) deployed, all running."
AllRunning == DeployedRows # {} /\ \A r \in DeployedRows : r.severity # "critical"

Rated(rows) == \A r \in rows : r.severity \in Severities

ReportsOK ==
    /\ Rated(IdleRows) /\ Rated(UpgradeRows) /\ Rated(SecurityRows)
    /\ Rated(DeployedRows) /\ Rated(HygieneRows)
    /\ \A r \in HygieneRows : r.pods > 0
    /\ Blockers <= Cardinality(UpgradeRows)

---------------------------------------------------------------------------
\* What the reports say and what the screens say is the same, as far as they
\* speak of the same: an idle claim, config map or secret is one that Storage
\* calls not mounted or Configuration not referenced, an idle volume one that
\* Storage says is billed, a budget that blocks a drain one that allows no
\* evictions; each is computed by code of its own, the walks over what pods
\* name included (insights.rs:131-187 for the report).  An image is unpinned for
\* the security report if it is for the hygiene report, and the other way
\* round unless its registry has a port or its tag only begins with latest.
ReportsAgree ==
    /\ {"pods", "claims", "maps", "secrets", "volumes"} \subseteq {l \in Lists : Known(l)} =>
          /\ Names({r \in IdleRows : r.kind = "PersistentVolumeClaim"}) =
                 NamedBy(StorageFindings, Unmounted)
          /\ Names({r \in IdleRows : r.kind \in {"ConfigMap", "Secret"}}) =
                 NamedBy(ConfigFindings, Unreferenced)
          /\ Names({r \in IdleRows : r.kind = "PersistentVolume"}) \subseteq
                 NamedBy(StorageFindings, StillBilled)
    /\ Names({r \in UpgradeRows : r.kind = "PodDisruptionBudget"}) =
           NamedBy(ConfigFindings, NoEvictions)
    /\ \A r \in HygieneRows :
          /\ Unpinned(r.image) => r.severity = "serious"
          /\ r.severity = "serious" =>
                Unpinned(r.image) \/ r.image.port \/ r.image.tag = "latest-alpine"

\* "Unknown is not the same as missing": without the pods nothing is called
\* unmounted or unreferenced, and with them nothing that a pod names in a
\* place the screen looks at (configuration.rs:274-331 and storage.rs:240-250
\* leave out the ephemeral containers and the secrets of storage drivers: see
\* EveryPlaceWalked); without the claims of the cluster no volume is called
\* stranded, without the services no webhook is called broken or sound.
UnknownIsNotMissing ==
    LET accused == NamedBy(StorageFindings, Unmounted) \cup NamedBy(ConfigFindings, Unreferenced)
    IN  /\ accused # {} => Known("pods")
        /\ \A p \in Got("pods") : \A u \in p.uses : u.place \in Walked =>
              /\ u.kind = "claim" => u.name \notin NamedBy(StorageFindings, Unmounted)
              /\ u.kind = "map" => u.name \notin Names(OrphanMaps)
              /\ u.kind = "secret" => u.name \notin Names(OrphanSecrets)
        /\ \A v \in Got("volumes") :
              v.phase = "Bound" /\ VolumeHealth(v) = "critical" =>
                  Known("everyClaim") /\ v.claim \notin seen["everyClaim"]
        /\ \A h \in Hooks :
              /\ ~Known("everyService") => HookHealth(h) = "unknown"
              /\ HookHealth(h) = "critical" => h.service \notin seen["everyService"]

\* "Walks every place a pod can name a ConfigMap or Secret.  Missing one of
\* these would report a Secret that is in use as unused, which is the one wrong
\* answer that gets something deleted" (configuration.rs:269-272), "Init and
\* ephemeral containers reference them just as ordinary ones do" (:304): what a
\* listed pod names, wherever it names it, is not called unreferenced.  The
\* ephemeral containers are not walked.
EveryPlaceWalked ==
    \A p \in Got("pods") : \A u \in p.uses :
        /\ u.kind = "map" => u.name \notin Names(OrphanMaps)
        /\ u.kind = "secret" => u.name \notin Names(OrphanSecrets)

\* "No running pod reads it", "no running pod mounts" it (insights.rs:233,
\* :261, :289): said of what the listed pods do not use.  docs/ROADMAP.md:47: "Never claim
\* certainty when the evidence is incomplete."
IdleOnEvidence ==
    {r \in IdleRows : r.kind \in {"PersistentVolumeClaim", "ConfigMap", "Secret"}} # {}
        => Known("pods")

\* "all running" (insights.rs:1218): said of workloads whose row says that
\* they do not, or not all of them.
AllRunningIsTrue == AllRunning => \A r \in DeployedRows : r.severity = "good"
=============================================================================
