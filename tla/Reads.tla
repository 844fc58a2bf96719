-------------------------------- MODULE Reads --------------------------------
(***************************************************************************)
(* What a screen or a report starts from: the answers of the Kubernetes    *)
(* API to the lists it asked for.  Every list is asked for by itself, and  *)
(* an identity without the right to one gets an error for that one only;   *)
(* the reader goes on with nothing in its place and, mostly, says so.      *)
(* The screens are functions of these answers.                             *)
(***************************************************************************)
EXTENDS Naturals, FiniteSets

CONSTANTS
    Refused, \* the answer to a list that failed
    Answers, \* bound: Answers[i], sets of the answers considered, functions from Lists
    Nobody   \* the name that is not given

Lists ==
    {"pods", "claims", "everyClaim", "volumes", "classes",
     "maps", "secrets", "quotas", "autoscalers", "budgets", "leases",
     "mutating", "validating", "everyService",
     "services", "slices", "ingresses", "policies",
     "deployments", "statefulSets", "daemonSets", "jobs", "cronJobs",
     "workflows", "nodes", "nodeMetrics", "version", "events"}

(***************************************************************************)
(* A pod names claims, config maps and secrets: a use is a kind, a name    *)
(* and the place in the pod's specification: "driver" is the secret that a *)
(* volume hands to its storage driver.                                     *)
(***************************************************************************)
Places == {"pull secret", "volume", "projected", "driver", "container", "init", "ephemeral"}

\* An answer has something for every list, and a list ends.
WellFormed(a) ==
    /\ DOMAIN a = Lists
    /\ \A l \in Lists : a[l] = Refused \/ IsFiniteSet(a[l])
    /\ a["pods"] = Refused \/
          \A p \in a["pods"] : \A u \in p.uses : u.place \in Places

ASSUME AnswersAssumption ==
    \A i \in DOMAIN Answers : \A a \in Answers[i] : WellFormed(a)

VARIABLE seen

ReadsInit == seen = [l \in Lists |-> Refused]

\* The lists are asked for together and each answers for itself.
Load ==
    /\ seen = [l \in Lists |-> Refused]
    /\ \E i \in DOMAIN Answers : seen' \in Answers[i]

ReadsSpec == ReadsInit /\ [][Load]_seen

Known(l) == seen[l] # Refused

\* Err(error) => Vec::new()
Got(l) == IF Known(l) THEN seen[l] ELSE {}

Severities == {"critical", "serious", "warning", "unknown", "good"}

\* A finding with nothing to name is not made.
Finding(severity, title, targets) ==
    IF targets = {} THEN {}
    ELSE {[severity |-> severity, title |-> title, targets |-> targets]}

\* What the findings of one title name.
NamedBy(findings, title) ==
    UNION {f.targets : f \in {g \in findings : g.title = title}}

Names(objects) == {o.name : o \in objects}

\* The places that the Configuration and the Storage screen look at: pull
\* secrets, volumes and the sources of projected ones, and the environment of
\* the containers and the init containers.  The ephemeral containers and the
\* secrets of storage drivers are not among them.
Walked == {"pull secret", "volume", "projected", "container", "init"}

\* The names of a kind that the listed pods use, as those screens find them.
UsedByPods(kind) ==
    {u.name : u \in {v \in UNION {p.uses : p \in Got("pods")} :
                        v.kind = kind /\ v.place \in Walked}}
=============================================================================
