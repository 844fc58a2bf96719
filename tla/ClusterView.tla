----------------------------- MODULE ClusterView -----------------------------
(***************************************************************************)
(* The overview of a cluster (src-tauri/src/cluster.rs): what is requested *)
(* and what there is, the pods with a problem, the health score and the    *)
(* findings.  Without the nodes there is no overview.  Names are numbers   *)
(* from 1, in the order of the alphabet and, for pods of the same name in  *)
(* two namespaces, of the list: they break the ties of a stable sort.  A   *)
(* workload's stands for its kind, namespace and name.  0 is the cluster   *)
(* itself.                                                                 *)
(***************************************************************************)
EXTENDS Reads, Sequences, FiniteSetsExt, SequencesExt

CONSTANTS
    ProblemPodLimit,  \* PROBLEM_POD_LIMIT, problem pods kept
    TopListLimit,     \* TOP_LIST_LIMIT, of the other lists
    EventLimit        \* WARNING_EVENT_LIMIT, events asked for

ASSUME LimitAssumption ==
    ProblemPodLimit \in Nat \ {0} /\ TopListLimit \in Nat \ {0} /\ EventLimit \in Nat \ {0}

Axes == {"cpu", "memory"}
Asks == [Axes -> Nat]

\* A pod has a name, counts its restarts, lists the states of its containers
\* and what they and its init containers ask for.
PodFormed(p) ==
    /\ {"name", "restarts", "states", "uses", "main", "inits", "node", "ns", "phase",
         "ready", "reason"} \subseteq DOMAIN p
    /\ p.name \in Nat /\ p.restarts \in Nat /\ DOMAIN p.states \subseteq Nat \ {0}
    /\ p.main \in Seq(Asks) /\ p.inits \in Seq([sidecar : BOOLEAN, asks : Asks])

\* No two objects of a list are the same.
NamedOnce(objects) == \A o, p \in objects : o.name = p.name => o = p

PodsFormed(a) ==
    a["pods"] = Refused \/
        /\ \A p \in a["pods"] : PodFormed(p)
        /\ NamedOnce(a["pods"])

\* A node has what it can give.
NodeFormed(n) ==
    /\ {"name", "zone", "has", "ready", "cordoned", "pressure", "minor"} \subseteq DOMAIN n
    /\ n.has \in Asks

NodesFormed(a) ==
    a["nodes"] = Refused \/
        /\ \A n \in a["nodes"] : NodeFormed(n)
        /\ NamedOnce(a["nodes"])

\* A workload counts its replicas, and is of one kind.
Kinds == {"deployments", "statefulSets", "daemonSets"}

WorkloadFormed(w) ==
    {"name", "replicas", "ready"} \subseteq DOMAIN w /\ w.replicas \in Nat /\ w.ready \in Nat

WorkloadsFormed(a) ==
    LET listed == {k \in Kinds : a[k] # Refused}
    IN  /\ \A k \in listed : \A w \in a[k] : WorkloadFormed(w)
        /\ \A k, l \in listed : \A v \in a[k], w \in a[l] :
              v.name = w.name => k = l /\ v = w

EventsFormed(a) == a["events"] = Refused \/ \A e \in a["events"] : e.count \in Int

ASSUME PodsAssumption ==
    /\ \A i \in DOMAIN Answers : \A a \in Answers[i] :
          PodsFormed(a) /\ NodesFormed(a) /\ WorkloadsFormed(a) /\ EventsFormed(a)
    /\ Nobody \notin {"CrashLoopBackOff", "FailedMount", "Error"}

\* Without the nodes, the answer is the error of their list.
Answered == Known("nodes")

---------------------------------------------------------------------------
(***************************************************************************)
(* A pod asks: main, the requests of its containers, and inits, those of   *)
(* its init containers in order, [asks, sidecar].                          *)
(***************************************************************************)
Sum(asks, axis) == SumFunction([i \in DOMAIN asks |-> asks[i][axis]])

PodResources_Faulty(p, axis) ==
    FoldLeft(LAMBDA s, i : IF s < i.asks[axis] THEN i.asks[axis] ELSE s,
             Sum(p.main, axis), p.inits)

\* The containers together; then, one init container after the other, what a
\* sidecar asks on top, or what another asks if that is more.
PodResources(p, axis) ==
    FoldLeft(LAMBDA s, i : IF i.sidecar THEN s + i.asks[axis]
                           ELSE IF s < i.asks[axis] THEN i.asks[axis] ELSE s,
             Sum(p.main, axis), p.inits)

Terminal(p) == p.phase \in {"Succeeded", "Failed"}

PodsOn(n) == {p \in Got("pods") : p.node = n.name}

Requested_Faulty(n, axis) ==
    SumFunction([p \in PodsOn(n) |-> PodResources(p, axis)])

\* What the pods of a node that have not ended ask for.
Requested(n, axis) ==
    SumFunction([p \in {q \in PodsOn(n) : ~Terminal(q)} |-> PodResources(p, axis)])

\* part of whole in percent against a threshold, whole possibly 0.
AtLeast(part, whole, percent) == whole > 0 /\ 100 * part >= percent * whole

NodeHealth(n) ==
    IF ~n.ready THEN "critical"
    ELSE IF n.pressure # {} THEN "serious"
    ELSE IF n.cordoned THEN "warning"
    ELSE IF \E axis \in Axes : AtLeast(Requested(n, axis), n.has[axis], 85) THEN "warning"
    ELSE "good"

\* The capacity of the cluster is that of the listed nodes, added up.
Allocatable(axis) == SumFunction([n \in Got("nodes") |-> n.has[axis]])
TotalRequested(axis) == SumFunction([n \in Got("nodes") |-> Requested(n, axis)])
SlotsUsed == SumFunction([n \in Got("nodes") |-> Cardinality(PodsOn(n))])

\* Live use, from metrics-server, for the nodes it knows.
Used == SumFunction([m \in {k \in Got("nodeMetrics") : k.name \in Names(Got("nodes"))} |-> m.cpu])

Zones == {n.zone : n \in Got("nodes")}
ReadyNodesOf(z) == {n \in Got("nodes") : n.zone = z /\ n.ready}

(***************************************************************************)
(* Problem pods.                                                           *)
(***************************************************************************)
\* What a container says of itself; creating is no reason.
Blocking == {"CrashLoopBackOff", "FailedMount", "Error"}

\* The first blocking state of its containers, then its own reason.
ProblemReason(p) ==
    LET blocked == {i \in DOMAIN p.states : p.states[i] \in Blocking}
    IN IF blocked # {} THEN p.states[Min(blocked)] ELSE p.reason

ReasonSeverity(reason, restarts) ==
    IF reason \in {"CrashLoopBackOff", "Evicted"} THEN "critical"
    ELSE IF reason = "FailedMount" \/ restarts >= 5 THEN "serious"
    ELSE "warning"

HasProblem(p) == ProblemReason(p) # Nobody \/ p.phase = "Pending"

ProblemSeverity(p) ==
    IF ProblemReason(p) = Nobody THEN "serious"
    ELSE ReasonSeverity(ProblemReason(p), p.restarts)

Badness == [critical |-> 3, serious |-> 2, warning |-> 1]

WorseThan_Faulty(p, q) ==
    \/ p.restarts > q.restarts
    \/ p.restarts = q.restarts /\ p.name < q.name

\* Worst first, then more restarts, then by name.
WorseThan(p, q) ==
    LET P == Badness[ProblemSeverity(p)]
        Q == Badness[ProblemSeverity(q)]
    IN  \/ P > Q
        \/ P = Q /\ p.restarts > q.restarts
        \/ P = Q /\ p.restarts = q.restarts /\ p.name < q.name

Problems == {p \in Got("pods") : HasProblem(p)}

\* problems.truncate(PROBLEM_POD_LIMIT)
ShownProblems ==
    {p \in Problems : Cardinality({q \in Problems : WorseThan(q, p)}) < ProblemPodLimit}

CriticalShown == {p \in ShownProblems : ProblemSeverity(p) = "critical"}

(***************************************************************************)
(* Counts by label, the largest kept and the rest as one bucket.           *)
(***************************************************************************)
Ahead(counts, a, b) == counts[a] > counts[b] \/ (counts[a] = counts[b] /\ a < b)

\* A label is counted as one, "Other" as the sum of what is cut.
RankedBuckets(counts, limit) ==
    LET shown == {a \in DOMAIN counts :
                     Cardinality({b \in DOMAIN counts : Ahead(counts, b, a)}) < limit}
    IN [shown |-> shown,
        other |-> SumFunctionOnSet(counts, DOMAIN counts \ shown)]

ByNamespace ==
    [ns \in {p.ns : p \in Got("pods")} |-> Cardinality({p \in Got("pods") : p.ns = ns})]

\* Warning events: [id, reason, count], each counted at least once.
ByReason ==
    [r \in {e.reason : e \in Got("events")} |->
        SumFunction([e \in {x \in Got("events") : x.reason = r} |->
                        IF e.count > 1 THEN e.count ELSE 1])]

WarningCount == SumFunction(ByReason)
EventsTruncated == Cardinality(Got("events")) >= EventLimit

(***************************************************************************)
(* Workloads: [name, replicas, ready].                                     *)
(***************************************************************************)
Workloads == Got("deployments") \cup Got("statefulSets") \cup Got("daemonSets")
Degraded == {w \in Workloads : w.ready < w.replicas}

(***************************************************************************)
(* The health score: signals [of, out, weight], each there only if what it *)
(* is drawn from is.                                                       *)
(***************************************************************************)
Round(a, b) == (2 * a + b) \div (2 * b)

SignalScore_Faulty(s) == Round(100 * s.of, s.out)

\* score.clamp(0.0, 1.0) * 100, rounded.
SignalScore(s) ==
    LET of == IF s.of < 0 THEN 0 ELSE IF s.of > s.out THEN s.out ELSE s.of
    IN Round(100 * of, s.out)

Signal(name, of, out, weight) ==
    [name |-> name, of |-> of, out |-> out, weight |-> weight]

\* pods.total - pods.succeeded, at least one.
Schedulable == Max({1, Cardinality({p \in Got("pods") : p.phase # "Succeeded"})})

\* Kubelets of a known minor other than the control plane's, if that is known.
Skewed == {n \in Got("nodes") : Known("version") /\ n.minor = "other"}

NodeSignals ==
    LET nodes == Got("nodes")
        all == Cardinality(nodes)
    IN IF nodes = {} THEN {}
       ELSE {Signal("Node readiness", Cardinality({n \in nodes : n.ready}), all, 25),
             Signal("Node conditions",
                    Cardinality({n \in nodes : n.pressure = {} /\ ~n.cordoned}), all, 10)}
            \cup {Signal("Version alignment", all - Cardinality(Skewed), all, 5) :
                     l \in {"version"} \cap {k \in Lists : Known(k)}}

PodSignals ==
    IF Got("pods") = {} THEN {}
    ELSE {Signal("Pod readiness",
                 Cardinality({p \in Got("pods") : p.ready}), Schedulable, 25),
          Signal("Container stability",
                 Schedulable - 4 * Cardinality(CriticalShown), Schedulable, 15)}

\* (100 - pressure) / 25 for the axis under the larger pressure.
CapacitySignals ==
    IF Allocatable("cpu") = 0 THEN {}
    ELSE LET Headroom(axis) ==
                 Signal("Scheduling headroom",
                        4 * (Allocatable(axis) - TotalRequested(axis)), Allocatable(axis), 15)
             cpu == Headroom("cpu")
             memory == Headroom("memory")
         IN {IF memory.out = 0 \/ SignalScore(cpu) <= SignalScore(memory)
               THEN cpu ELSE memory}

WorkloadSignals ==
    IF Workloads = {} THEN {}
    ELSE {Signal("Workload availability", Cardinality(Workloads \ Degraded),
                 Cardinality(Workloads), 5)}

Signals_Faulty ==
    {s \in NodeSignals \cup PodSignals \cup CapacitySignals \cup WorkloadSignals : s.of > 0}

Signals == NodeSignals \cup PodSignals \cup CapacitySignals \cup WorkloadSignals

Score ==
    LET signals == Signals IN
    IF signals = {} THEN 0
    ELSE Round(MapThenSumSet(LAMBDA s : SignalScore(s) * s.weight, signals),
               MapThenSumSet(LAMBDA s : s.weight, signals))

Grade ==
    IF Score >= 90 THEN "Healthy"
    ELSE IF Score >= 75 THEN "Attention"
    ELSE IF Score >= 50 THEN "Degraded"
    ELSE "Critical"

(***************************************************************************)
(* The findings.                                                           *)
(***************************************************************************)
CrashLooping == "Pods are crash-looping or cannot start"

Tight(percent) == \E axis \in Axes : AtLeast(TotalRequested(axis), Allocatable(axis), percent)

ClusterFaults ==
    LET nodes == Got("nodes") IN
    UNION {
      Finding("critical", "Nodes are not Ready", Names({n \in nodes : ~n.ready})),
      Finding("serious", "Nodes report resource pressure", Names({n \in nodes : n.pressure # {}})),
      Finding("warning", "Nodes are cordoned", Names({n \in nodes : n.cordoned})),
      Finding("critical", CrashLooping, Names(CriticalShown)),
      Finding("serious", "Pods are stuck in Pending",
              Names({p \in ShownProblems : p.phase = "Pending"})),
      Finding(IF Tight(95) THEN "serious" ELSE "warning", "Scheduling headroom is low",
              IF Tight(85) THEN {0} ELSE {}),
      Finding("warning", "Live CPU utilisation is high",
              IF Known("nodeMetrics") /\ AtLeast(Used, Allocatable("cpu"), 85)
                THEN {0} ELSE {}),
      Finding("serious", "Workloads are below desired replicas", Names(Degraded)),
      Finding("warning", "Kubelet version skew", Names(Skewed)),
      Finding("warning", "All ready nodes are in one Availability Zone",
              IF /\ Cardinality({z \in Zones : ReadyNodesOf(z) # {}}) = 1
                 /\ Cardinality(nodes) > 1 THEN Zones ELSE {}),
      Finding("warning", "The fleet is almost entirely Spot",
              IF AtLeast(Cardinality({n \in nodes : n.spot}), Cardinality(nodes), 80)
                THEN {0} ELSE {}),
      Finding("warning", "Warning events are being emitted", DOMAIN ByReason) }

NothingFails == "No health signal is currently failing"

ClusterFindings ==
    IF ~Answered THEN {}
    ELSE IF ClusterFaults # {} THEN ClusterFaults
    ELSE {[severity |-> "good", title |-> NothingFails, targets |-> {}]}

(***************************************************************************)
(* What goes wrong in the cluster between two looks at it.                 *)
(***************************************************************************)
\* One object of a list that answered is worse than it was; the list answers.
Becomes(l, o, worse) ==
    /\ seen' = [seen EXCEPT ![l] = (@ \ {o}) \cup {worse}]
    /\ Known(l)'

Crash(p) ==
    /\ ~Terminal(p)
    /\ Becomes("pods", p, [p EXCEPT !.ready = FALSE, !.states = <<"CrashLoopBackOff">>])

NodeDown(n) == Becomes("nodes", n, [n EXCEPT !.ready = FALSE])

CordonNode(n) == Becomes("nodes", n, [n EXCEPT !.cordoned = TRUE])

LoseReplica(w) ==
    /\ w.ready > 0
    /\ Becomes("deployments", w, [w EXCEPT !.ready = @ - 1])

Harm ==
    /\ Answered
    /\ \/ \E p \in Got("pods") : Crash(p)
       \/ \E n \in Got("nodes") : NodeDown(n) \/ CordonNode(n)
       \/ \E w \in Got("deployments") : LoseReplica(w)

ClusterNext == Load \/ Harm

ClusterSpec == ReadsInit /\ [][ClusterNext]_seen

---------------------------------------------------------------------------
ClusterHealthOK ==
    /\ \A n \in Got("nodes") : NodeHealth(n) \in Severities
    /\ \A p \in Problems : ProblemSeverity(p) \in Severities
    /\ Score \in 0 .. 100
    /\ Grade \in {"Healthy", "Attention", "Degraded", "Critical"}
    /\ WarningCount >= Cardinality(Got("events")) /\ EventsTruncated \in BOOLEAN
    /\ \A f \in ClusterFindings : f.severity \in Severities

\* What a pod is counted with (cluster.rs:345-387) is never less than what runs
\* together, sidecars included, nor than what one init container asks alone, in
\* whatever order they stand, and never more than the larger of the containers
\* and one init container with every sidecar on top: without sidecars it is
\* exact.  Which sidecars run beside an init container it does not tell: see
\* FollowsKubernetes.
RequestsCoverPods ==
    \A p \in Got("pods") : \A axis \in Axes :
        LET sidecars == {k \in DOMAIN p.inits : p.inits[k].sidecar}
            solo == {p.inits[k].asks[axis] : k \in DOMAIN p.inits \ sidecars}
            beside == SumFunction([k \in sidecars |-> p.inits[k].asks[axis]])
        IN  /\ \A a \in solo \cup {Sum(p.main, axis) + beside} : PodResources(p, axis) >= a
            /\ \E a \in solo \cup {Sum(p.main, axis)} : PodResources(p, axis) <= a + beside

\* "Effective pod requests follow the Kubernetes rule" (cluster.rs:343): an init
\* container runs with the sidecars started before it, and then the containers
\* run with all of them; the pod asks for the most of these.  The code adds to
\* an init container the sidecars that come after it instead.
FollowsKubernetes ==
    \A p \in Got("pods") : \A axis \in Axes :
        LET ask == [k \in DOMAIN p.inits |-> p.inits[k].asks[axis]]
            sidecars == {k \in DOMAIN p.inits : p.inits[k].sidecar}
            with(before) == SumFunction([k \in before |-> ask[k]])
        IN  PodResources(p, axis) =
                Max({Sum(p.main, axis) + with(sidecars)}
                    \cup {ask[k] + with({i \in sidecars : i < k}) :
                             k \in DOMAIN p.inits \ sidecars})

\* Nothing is counted twice and nothing is left out on the way from pods to
\* nodes to the cluster: the requests of the cluster are those of the pods on
\* listed nodes that have not ended, its slots the pods on listed nodes, its
\* zones all its nodes, and the namespaces shown with the rest all its pods.
CapacityAddsUp ==
    LET placed == {p \in Got("pods") : p.node \in Names(Got("nodes"))}
        buckets == RankedBuckets(ByNamespace, TopListLimit)
    IN  /\ \A axis \in Axes :
              TotalRequested(axis) =
                  SumFunction([p \in {q \in placed : q.phase \notin {"Succeeded", "Failed"}} |->
                                  PodResources(p, axis)])
        /\ SlotsUsed = Cardinality(placed)
        /\ SumFunction([z \in Zones |-> Cardinality({n \in Got("nodes") : n.zone = z})])
               = Cardinality(Got("nodes"))
        /\ Cardinality({p \in Got("pods") : p.ns \in buckets.shown}) + buckets.other
               = Cardinality(Got("pods"))

\* However many pods have a problem, the cut of the list hides none that is
\* worse than one it shows, and a pod that crash-loops makes its finding.
WorstNeverHidden ==
    Answered =>
      /\ \A p \in ShownProblems, q \in Problems \ ShownProblems :
            Badness[ProblemSeverity(p)] >= Badness[ProblemSeverity(q)]
      /\ (\E p \in Got("pods") :
             \E i \in DOMAIN p.states :
                 /\ p.states[i] = "CrashLoopBackOff"
                 /\ \A j \in 1 .. i - 1 : p.states[j] \notin Blocking)
          => \E f \in ClusterFindings : f.title = CrashLooping

\* The score never rises because something broke: a pod crash-loops, a node
\* stops being ready or is cordoned, a deployment loses a replica.
HarmNeverHelps == [][Harm => Score' <= Score]_seen

\* "Every collected signal - node readiness, node conditions, pod readiness,
\* container stability, headroom, and workload availability - is within its
\* threshold" (cluster.rs:1606, the text of the all-clear), here of pods.
NothingFailsIsTrue ==
    NothingFails \in {f.title : f \in ClusterFindings} =>
        \A s \in PodSignals : SignalScore(s) >= 90
=============================================================================
