----------------------------- MODULE ConfigView -----------------------------
(***************************************************************************)
(* The Configuration screen (src-tauri/src/configuration.rs): config maps  *)
(* and secrets with the pods that read them, quotas, autoscalers,          *)
(* disruption budgets, leases and the cluster's admission webhooks, a      *)
(* health for each and the findings.                                       *)
(***************************************************************************)
EXTENDS Reads

\* A config map or a secret: [name, type, keys, managed].
ServiceAccountToken == "kubernetes.io/service-account-token"
HelmRelease == "helm.sh/release.v1"

ReadByPods(kind, o) == o.name \in UsedByPods(kind)

---------------------------------------------------------------------------
\* A quantity is a number with a suffix; "a quota bar drawn from a guess is
\* worse than no bar": an unknown suffix is no quantity.  In thousandths.
Thousandths == [m |-> 1, one |-> 1000, k |-> 1000000, Ki |-> 1024000]

Parses(q) == q.suffix \in DOMAIN Thousandths
Value(q) == q.number * Thousandths[q.suffix]

\* A quota: [entries], each [name, used, hard].
QuotaHealth(e) ==
    IF ~Parses(e.used) \/ ~Parses(e.hard) \/ Value(e.hard) = 0 THEN "unknown"
    ELSE LET Reaches(percent) == 100 * Value(e.used) >= percent * Value(e.hard)
         IN IF Reaches(100) THEN "critical"
            ELSE IF Reaches(90) THEN "serious"
            ELSE IF Reaches(75) THEN "warning"
            ELSE "good"

Rank == [critical |-> 4, serious |-> 3, warning |-> 2, unknown |-> 1, good |-> 0]

\* A quota is as bad as its worst entry.
WorstOf(healths) ==
    IF healths = {} THEN "good"
    ELSE CHOOSE h \in healths : \A g \in healths : Rank[g] <= Rank[h]

\* An autoscaler: [name, current, desired, max, active].
AtCeiling(a) == a.current >= a.max /\ a.max > 0

AutoscalerHealth(a) ==
    IF ~a.active THEN "serious"
    ELSE IF AtCeiling(a) \/ a.current # a.desired THEN "warning"
    ELSE "good"

\* A disruption budget: [name, allowed, healthy, desired].
BudgetHealth(b) ==
    IF b.allowed = 0 THEN "serious"
    ELSE IF b.healthy < b.desired THEN "warning"
    ELSE "good"

\* A lease: [stated, elapsed, seconds]; stale after three times its duration.
LeaseHealth(l) == IF l.stated /\ l.elapsed > 3 * l.seconds THEN "warning" ELSE "good"

---------------------------------------------------------------------------
\* A webhook: [name, service, policy], the service Nobody for a URL.
Judged(h, services) ==
    IF h.service = Nobody \/ h.service \in services THEN "good"
    ELSE IF h.policy = "Fail" THEN "critical"
    ELSE "warning"

Hooks == Got("mutating") \cup Got("validating")

\* Judged against the services; when those could not be listed, unknown.
HookHealth(h) ==
    IF Known("everyService") THEN Judged(h, seen["everyService"]) ELSE "unknown"

---------------------------------------------------------------------------
\* What the findings say.
NoEvictions == "A disruption budget allows no evictions"
HookBroken == "An admission webhook points at a service that does not exist"
QuotaFull == "A resource quota is nearly or fully consumed"
Ceiling == "An autoscaler is at its ceiling"
Unreferenced == "Not referenced by any running pod"

OrphanMaps ==
    {m \in Got("maps") : ~ReadByPods("map", m) /\ m.name # "kube-root-ca.crt"}

OrphanSecrets ==
    {s \in Got("secrets") :
        ~ReadByPods("secret", s) /\ s.type \notin {ServiceAccountToken, HelmRelease}}

BuildConfigFindings ==
    UNION {
      Finding("serious", NoEvictions, Names({b \in Got("budgets") : b.allowed = 0})),
      Finding("critical", HookBroken,
              Names({h \in Hooks : HookHealth(h) = "critical"})),
      Finding("serious", QuotaFull,
              UNION {Names({e \in q.entries : QuotaHealth(e) \in {"critical", "serious"}}) :
                     q \in Got("quotas")}),
      Finding("warning", Ceiling,
              Names({a \in Got("autoscalers") : AtCeiling(a)})),
      Finding("warning", Unreferenced, Names(OrphanMaps \cup OrphanSecrets)) }

\* "An 'unused' finding drawn from a pod list that failed to load would be
\* wrong."
ConfigFindings ==
    {f \in BuildConfigFindings : f.title = Unreferenced => Known("pods")}

ConfigHealthOK ==
    /\ \A q \in Got("quotas") : WorstOf({QuotaHealth(e) : e \in q.entries}) \in Severities
    /\ \A a \in Got("autoscalers") : AutoscalerHealth(a) \in Severities
    /\ \A b \in Got("budgets") : BudgetHealth(b) \in Severities
    /\ \A l \in Got("leases") : LeaseHealth(l) \in Severities
    /\ \A h \in Hooks : HookHealth(h) \in Severities
    /\ \A f \in ConfigFindings : f.severity \in Severities /\ f.targets # {}
=============================================================================
